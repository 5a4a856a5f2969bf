----------------------- MODULE OptimizerCycle_proofs -----------------------
(***************************************************************************)
(* What holds of the optimizer for any number of cycles, campaigns, ad     *)
(* sets and rules, whatever cycles, reviews, failures and restarts         *)
(* overlap: no cooldown without an applied action, nothing done that still *)
(* waits for a human, one budget action per cycle, and no change out of    *)
(* the log but one its cycle broke off at.  When cycles take turns: our    *)
(* budget mirrors the platform's, changes keep their distance, and raises  *)
(* stay within the cap, as long as the changes went through.               *)
(***************************************************************************)
EXTENDS OptimizerCycle, TLAPS, FiniteSetTheorems

-----------------------------------------------------------------------------
(* The inductive invariant *)

Settled  == {"APPLIED", "SKIPPED"}
Statuses == {"none", "PENDING", "APPLIED", "FAILED", "SKIPPED"}

\* An action of some entity and rule.
IsAction(x) ==
  /\ x = [entity |-> x.entity, rule |-> x.rule, delta |-> x.delta,
          current |-> x.current, value |-> x.value]
  /\ x.entity \in Entities /\ x.rule \in Rules

SameAction(x, y) == x.entity = y.entity /\ x.rule = y.rule

\* A cycle has these fields and no others.
Whole(r) == r = [pc |-> r.pc, queue |-> r.queue, plan |-> r.plan, seen |-> r.seen,
                 cur |-> r.cur, status |-> r.status]

\* What has not been decided yet is neither logged nor carried out, and each
\* entity and rule is there once.
Open(r) == r.queue \cup r.plan
Once(r) ==
  /\ r.queue \cap r.plan = {}
  /\ \A x \in Open(r) : IsAction(x)
  /\ \A x, y \in Open(r) : SameAction(x, y) => x = y
Untouched(c, r, l, ch) ==
  \A x \in Open(r) :
    /\ l[<<c, x.entity, x.rule>>] = "none"
    /\ \A z \in ch : z.by = c => ~SameAction(z, x)

\* The action at hand is not logged before it is done, and is no longer open.
AtHand(c, r, l) ==
  /\ r.pc \in {"call", "store", "log"} =>
       /\ IsAction(r.cur) /\ l[<<c, r.cur.entity, r.cur.rule>>] = "none"
       /\ \A y \in Open(r) : ~SameAction(y, r.cur)
  /\ r.pc = "log" => r.status \in {"APPLIED", "FAILED"}
  /\ r.pc \in {"cool", "cache"} =>
       IsAction(r.cur) /\ l[<<c, r.cur.entity, r.cur.rule>>] \in Settled

\* What a cycle is about to put into Redis, Postgres has or has had.
Kept(r, p) ==
  /\ r.pc = "cache" => p[Key(r.cur)] # 0
  /\ r.pc = "warm" => /\ r.cur.key \in Entities \X ActionTypes /\ p[r.cur.key] # 0
                      /\ r.cur.ttl \in Nat /\ r.cur.ttl <= Window

\* A cycle that has not started has left no trace.
Traceless(c, r, l, ch) ==
  r.pc = "idle" =>
    /\ r = Idle
    /\ \A e \in Entities, q \in Rules : l[<<c, e, q>>] = "none"
    /\ \A z \in ch : z.by # c

Fits(c, r, l, ch) ==
  Whole(r) /\ Once(r) /\ Untouched(c, r, l, ch) /\ AtHand(c, r, l) /\ Traceless(c, r, l, ch)

Typed ==
  /\ cyc = [c \in Cycles |-> cyc[c]]
  /\ log \in [Ids -> Statuses]
  /\ review \subseteq Ids /\ \A i \in review : log[i] # "none"
  /\ pg \in [Entities \X ActionTypes -> Nat] /\ redis \in [Entities \X ActionTypes -> Nat]
  /\ now \in Nat /\ now # 0
  /\ \A z \in changes : z.by \in Cycles /\ z.entity \in Entities /\ z.rule \in Rules

IInv ==
  /\ Typed
  /\ \A c \in Cycles : Fits(c, cyc[c], log, changes) /\ Kept(cyc[c], pg)
  /\ CooldownIsEarned
  /\ SuggestedIsUntouched

-----------------------------------------------------------------------------
(* Lemmas *)

LEMMA RuleFields == ASSUME NEW r \in Rules PROVE r.type \in ActionTypes
  BY OptimizerAssumption

\* The guardrails change an action's delta and value, never what it is about.
LEMMA ClampKeeps ==
  ASSUME NEW x, IsAction(x)
  PROVE  IsAction(Clamp(x)) /\ SameAction(Clamp(x), x)
<1> DEFINE capped(d) == [x EXCEPT !.delta = d, !.value = ApplyDelta(x.current, d)]
<1>1. ASSUME NEW d PROVE IsAction(capped(d)) /\ SameAction(capped(d), x)
  <2>1. PICK e, q, old, base, v :
          /\ e \in Entities /\ q \in Rules
          /\ x = [entity |-> e, rule |-> q, delta |-> old, current |-> base, value |-> v]
    BY DEF IsAction
  <2> DEFINE w == ApplyDelta(x.current, d)
             y == [x EXCEPT !.delta = d]
  <2>2. capped(d) = [y EXCEPT !.value = w]
    OBVIOUS
  <2>3. y = [entity |-> e, rule |-> q, delta |-> d, current |-> base, value |-> v]
    BY <2>1
  <2> HIDE DEF w, y, capped
  <2>4. capped(d) = [entity |-> e, rule |-> q, delta |-> d, current |-> base, value |-> w]
    BY <2>2, <2>3
  <2> QED
    BY <2>1, <2>4 DEF IsAction, SameAction
<1> HIDE DEF capped
<1>2. Clamp(x) \in {capped(MaxIncrease), capped(-MaxDecrease), x}
  BY DEF Clamp, capped
<1> QED
  BY <1>1, <1>2 DEF SameAction

\* What other cycles and reviewers do leaves a cycle's account in order.
LEMMA FitsKept ==
  ASSUME NEW c, NEW r, NEW l, NEW m, NEW ch, NEW dh, Fits(c, r, l, ch),
         \A e \in Entities, q \in Rules :
           /\ l[<<c, e, q>>] = "none" => m[<<c, e, q>>] = "none"
           /\ l[<<c, e, q>>] \in Settled => m[<<c, e, q>>] \in Settled,
         \A z \in dh : z \in ch \/ z.by # c
  PROVE  Fits(c, r, m, dh)
<1>1. Untouched(c, r, m, dh)
  BY DEF Fits, Untouched, Once, IsAction
<1>2. AtHand(c, r, m)
  BY DEF Fits, AtHand, IsAction
<1>3. Traceless(c, r, m, dh)
  BY DEF Fits, Traceless
<1> QED
  BY <1>1, <1>2, <1>3 DEF Fits

\* A cycle that has ended has nothing open, however it ended.
LEMMA EndedFits ==
  ASSUME NEW c, NEW l, NEW ch, NEW p, NEW q \in Ended, NEW x
  PROVE  LET r == [pc |-> q, queue |-> {}, plan |-> {}, seen |-> {}, cur |-> x, status |-> None]
         IN  Fits(c, r, l, ch) /\ Kept(r, p)
  BY DEF Fits, Whole, Once, Open, Untouched, AtHand, Traceless, Kept, Ended

LEMMA Endings ==
  ASSUME NEW r
  PROVE  /\ Done = [pc |-> "done", queue |-> {}, plan |-> {}, seen |-> {}, cur |-> None, status |-> None]
         /\ r.pc \in {"store", "log", "cool"} =>
              Broken(r) = [pc |-> "torn", queue |-> {}, plan |-> {}, seen |-> {}, cur |-> r.cur, status |-> None]
         /\ r.pc \notin {"store", "log", "cool"} =>
              Broken(r) = [pc |-> "failed", queue |-> {}, plan |-> {}, seen |-> {}, cur |-> None, status |-> None]
<1>1. Done = [pc |-> "done", queue |-> {}, plan |-> {}, seen |-> {}, cur |-> None, status |-> None]
  BY DEF Done, Idle
<1>2. Failed = [pc |-> "failed", queue |-> {}, plan |-> {}, seen |-> {}, cur |-> None, status |-> None]
  BY DEF Failed, Idle
<1> DEFINE x == r.cur
           t == [Idle EXCEPT !.pc = "torn"]
           u == [Idle EXCEPT !.pc = "torn", !.cur = x]
<1>3. t = [pc |-> "torn", queue |-> {}, plan |-> {}, seen |-> {}, cur |-> None, status |-> None]
  BY DEF Idle
<1>4. u = [t EXCEPT !.cur = x]
  OBVIOUS
<1> HIDE DEF t, x
<1>5. u = [pc |-> "torn", queue |-> {}, plan |-> {}, seen |-> {}, cur |-> x, status |-> None]
  BY <1>3, <1>4
<1>6. Broken(r) = IF r.pc \in {"store", "log", "cool"} THEN u ELSE Failed
  BY DEF Broken, x
<1> HIDE DEF u
<1> QED
  BY <1>1, <1>2, <1>5, <1>6 DEF x

LEMMA BrokenFits ==
  ASSUME NEW c, NEW l, NEW ch, NEW p, NEW r
  PROVE  /\ Fits(c, Broken(r), l, ch) /\ Kept(Broken(r), p)
         /\ Fits(c, Done, l, ch) /\ Kept(Done, p)
<1>1. "done" \in Ended /\ "torn" \in Ended /\ "failed" \in Ended
  BY DEF Ended
<1>2. CASE r.pc \in {"store", "log", "cool"}
  BY <1>1, <1>2, Endings, EndedFits
<1>3. CASE r.pc \notin {"store", "log", "cool"}
  BY <1>1, <1>3, Endings, EndedFits
<1> QED
  BY <1>2, <1>3

\* What is left of a cycle when some of its fields are replaced.
Cycle(p, q, a, n, x, s) ==
  [pc |-> p, queue |-> q, plan |-> a, seen |-> n, cur |-> x, status |-> s]
Becomes(g, f, c, r) ==
  /\ g = [d \in Cycles |-> g[d]] /\ g[c] = r
  /\ \A d \in Cycles : d # c => g[d] = f[d]

LEMMA OneField ==
  ASSUME NEW f, f = [d \in Cycles |-> f[d]], NEW c \in Cycles,
         NEW P, NEW Q, NEW A, NEW N, NEW X, NEW S, f[c] = Cycle(P, Q, A, N, X, S),
         NEW v
  PROVE  /\ Becomes([f EXCEPT ![c].pc = v], f, c, Cycle(v, Q, A, N, X, S))
         /\ Becomes([f EXCEPT ![c].queue = v], f, c, Cycle(P, v, A, N, X, S))
         /\ Becomes([f EXCEPT ![c].plan = v], f, c, Cycle(P, Q, v, N, X, S))
         /\ Becomes([f EXCEPT ![c].seen = v], f, c, Cycle(P, Q, A, v, X, S))
         /\ Becomes([f EXCEPT ![c].cur = v], f, c, Cycle(P, Q, A, N, v, S))
         /\ Becomes([f EXCEPT ![c].status = v], f, c, Cycle(P, Q, A, N, X, v))
<1>1. Becomes([f EXCEPT ![c].pc = v], f, c, Cycle(v, Q, A, N, X, S))
  BY DEF Becomes, Cycle
<1>2. Becomes([f EXCEPT ![c].queue = v], f, c, Cycle(P, v, A, N, X, S))
  BY DEF Becomes, Cycle
<1>3. Becomes([f EXCEPT ![c].plan = v], f, c, Cycle(P, Q, v, N, X, S))
  BY DEF Becomes, Cycle
<1>4. Becomes([f EXCEPT ![c].seen = v], f, c, Cycle(P, Q, A, v, X, S))
  BY DEF Becomes, Cycle
<1>5. Becomes([f EXCEPT ![c].cur = v], f, c, Cycle(P, Q, A, N, v, S))
  BY DEF Becomes, Cycle
<1>6. Becomes([f EXCEPT ![c].status = v], f, c, Cycle(P, Q, A, N, X, v))
  BY DEF Becomes, Cycle
<1> QED
  BY <1>1, <1>2, <1>3, <1>4, <1>5, <1>6

LEMMA Chained ==
  ASSUME NEW f, NEW g, NEW h, NEW c, NEW r, NEW s, Becomes(g, f, c, r), Becomes(h, g, c, s)
  PROVE  Becomes(h, f, c, s)
  BY DEF Becomes

\* One entry of the action log is written.
LEMMA LogWritten ==
  ASSUME NEW l \in [Ids -> Statuses], NEW i \in Ids, NEW s \in Statuses
  PROVE  LET m == [l EXCEPT ![i] = s]
         IN  m \in [Ids -> Statuses] /\ m[i] = s /\ \A j \in Ids : j # i => m[j] = l[j]
  OBVIOUS

\* A cooldown stays earned while the clock goes on and no entry is unsettled.
LEMMA CooldownKept ==
  ASSUME Typed, CooldownIsEarned, UNCHANGED cooldown, now' \in Nat, now' >= now,
         \A i \in Ids : log[i] \in Settled => log'[i] \in Settled
  PROVE  CooldownIsEarned'
<1> SUFFICES ASSUME NEW k \in DOMAIN pg
             PROVE  /\ pg[k] <= now' + Window /\ redis[k] <= now' + Window
                    /\ redis[k] # 0 => pg[k] # 0
                    /\ pg[k] # 0 => \E i \in Ids : i[2] = k[1] /\ i[3].type = k[2] /\ log'[i] \in Settled
  BY DEF CooldownIsEarned, cooldown, Settled
<1>1. pg[k] <= now + Window /\ redis[k] <= now + Window /\ (redis[k] # 0 => pg[k] # 0)
  BY DEF CooldownIsEarned
<1>2. pg[k] \in Nat /\ redis[k] \in Nat /\ now \in Nat /\ Window \in Nat
  BY OptimizerAssumption DEF Typed
<1>3. pg[k] <= now' + Window /\ redis[k] <= now' + Window
  BY <1>1, <1>2
<1>4. pg[k] # 0 => \E i \in Ids : i[2] = k[1] /\ i[3].type = k[2] /\ log[i] \in Settled
  BY DEF CooldownIsEarned, Settled
<1> QED
  BY <1>1, <1>3, <1>4

\* What a step of one cycle has to show.
LEMMA CycleStep ==
  ASSUME IInv, NEW c \in Cycles, NEW r, Becomes(cyc', cyc, c, r), UNCHANGED now,
         log' \in [Ids -> Statuses],
         \A j \in Ids : j[1] # c => log'[j] = log[j],
         \A j \in Ids : log[j] # "none" => log'[j] # "none",
         UNCHANGED review,
         pg' \in [Entities \X ActionTypes -> Nat], redis' \in [Entities \X ActionTypes -> Nat],
         \A z \in changes' : z \in changes \/ (z.by = c /\ z.entity \in Entities /\ z.rule \in Rules),
         Fits(c, r, log', changes'), Kept(r, pg'),
         \A k \in Entities \X ActionTypes : pg[k] # 0 => pg'[k] # 0,
         CooldownIsEarned', SuggestedIsUntouched'
  PROVE  IInv'
<1>1. Typed'
  BY DEF IInv, Typed, Becomes
<1>2. \A d \in Cycles : Fits(d, cyc'[d], log', changes')
  <2>1. \A d \in Cycles : Fits(d, cyc[d], log, changes)
    BY DEF IInv
  <2>2. \A d \in Cycles, e \in Entities, q \in Rules : d # c => log'[<<d, e, q>>] = log[<<d, e, q>>]
    BY DEF Ids
  <2>3. cyc'[c] = r /\ \A d \in Cycles : d # c => cyc'[d] = cyc[d]
    BY DEF Becomes
  <2>4. ASSUME NEW d \in Cycles, d # c PROVE Fits(d, cyc[d], log', changes')
    <3>1. Fits(d, cyc[d], log, changes) /\ \A z \in changes' : z \in changes \/ z.by # d
      BY <2>1, <2>4
    <3>2. \A e \in Entities, q \in Rules : log'[<<d, e, q>>] = log[<<d, e, q>>]
      BY <2>2, <2>4
    <3> QED
      BY <3>1, <3>2, FitsKept
  <2> QED
    BY <2>3, <2>4
<1>3. ASSUME NEW d \in Cycles PROVE Kept(cyc'[d], pg')
  <2>1. CASE d = c
    BY <2>1 DEF Becomes
  <2>2. CASE d # c
    <3>1. cyc'[d] = cyc[d] /\ Kept(cyc[d], pg) /\ Fits(d, cyc[d], log, changes)
      BY <2>2 DEF Becomes, IInv
    <3>2. cyc[d].pc = "cache" => Key(cyc[d].cur) \in Entities \X ActionTypes
      BY <3>1, RuleFields DEF Fits, AtHand, IsAction, Key
    <3> QED
      BY <3>1, <3>2 DEF Kept
  <2> QED
    BY <2>1, <2>2
<1> QED
  BY <1>1, <1>2, <1>3 DEF IInv

\* A step that changes the cycle alone.
LEMMA QuietStep ==
  ASSUME IInv, NEW c \in Cycles, NEW r, Becomes(cyc', cyc, c, r),
         UNCHANGED <<now, log, review, changes, pg, redis>>, Fits(c, r, log, changes), Kept(r, pg)
  PROVE  IInv'
<1>1. CooldownIsEarned' /\ SuggestedIsUntouched'
  BY DEF IInv, CooldownIsEarned, SuggestedIsUntouched
<1> QED
  BY <1>1, CycleStep DEF IInv, Typed

LEMMA CycleWrites ==
  ASSUME IInv, NEW c \in Cycles,
         NEW p, NEW q, NEW a, NEW n, NEW x, NEW s
  PROVE  LET P == cyc[c].pc
             Q == cyc[c].queue
             A == cyc[c].plan
             N == cyc[c].seen
             X == cyc[c].cur
             S == cyc[c].status
         IN  /\ Becomes([cyc EXCEPT ![c].pc = p], cyc, c, Cycle(p, Q, A, N, X, S))
             /\ Becomes([cyc EXCEPT ![c].queue = q], cyc, c, Cycle(P, q, A, N, X, S))
             /\ Becomes([cyc EXCEPT ![c].plan = a], cyc, c, Cycle(P, Q, a, N, X, S))
             /\ Becomes([cyc EXCEPT ![c].pc = p, ![c].queue = q], cyc, c, Cycle(p, q, A, N, X, S))
             /\ Becomes([cyc EXCEPT ![c].pc = p, ![c].status = s], cyc, c, Cycle(p, Q, A, N, X, s))
             /\ Becomes([cyc EXCEPT ![c].pc = p, ![c].plan = a, ![c].cur = x], cyc, c,
                        Cycle(p, Q, a, N, x, S))
             /\ Becomes([cyc EXCEPT ![c].pc = p, ![c].queue = q, ![c].cur = x], cyc, c,
                        Cycle(p, q, A, N, x, S))
             /\ Becomes([cyc EXCEPT ![c].queue = q, ![c].plan = a, ![c].seen = n], cyc, c,
                        Cycle(P, q, a, n, X, S))
             /\ Becomes([cyc EXCEPT ![c] = x], cyc, c, x)
<1> DEFINE P == cyc[c].pc
           Q == cyc[c].queue
           A == cyc[c].plan
           N == cyc[c].seen
           X == cyc[c].cur
           S == cyc[c].status
<1>1. cyc = [d \in Cycles |-> cyc[d]] /\ cyc[c] = Cycle(P, Q, A, N, X, S)
  BY DEF IInv, Typed, Fits, Whole, Cycle
<1> HIDE DEF P, Q, A, N, X, S
<1>2. Becomes([cyc EXCEPT ![c] = x], cyc, c, x)
  BY <1>1 DEF Becomes
<1>3. /\ Becomes([cyc EXCEPT ![c].pc = p], cyc, c, Cycle(p, Q, A, N, X, S))
      /\ Becomes([cyc EXCEPT ![c].queue = q], cyc, c, Cycle(P, q, A, N, X, S))
      /\ Becomes([cyc EXCEPT ![c].plan = a], cyc, c, Cycle(P, Q, a, N, X, S))
  BY <1>1, OneField
<1> DEFINE g1 == [cyc EXCEPT ![c].pc = p]
           g2 == [g1 EXCEPT ![c].plan = a]
           g3 == [g1 EXCEPT ![c].queue = q]
           h1 == [cyc EXCEPT ![c].queue = q]
           h2 == [h1 EXCEPT ![c].plan = a]
<1>4. /\ [cyc EXCEPT ![c].pc = p, ![c].queue = q] = [g1 EXCEPT ![c].queue = q]
      /\ [cyc EXCEPT ![c].pc = p, ![c].status = s] = [g1 EXCEPT ![c].status = s]
      /\ [cyc EXCEPT ![c].pc = p, ![c].plan = a, ![c].cur = x] = [g2 EXCEPT ![c].cur = x]
      /\ [cyc EXCEPT ![c].pc = p, ![c].queue = q, ![c].cur = x] = [g3 EXCEPT ![c].cur = x]
      /\ [cyc EXCEPT ![c].queue = q, ![c].plan = a, ![c].seen = n] = [h2 EXCEPT ![c].seen = n]
  OBVIOUS
<1>5. /\ Becomes(g1, cyc, c, Cycle(p, Q, A, N, X, S))
      /\ Becomes(h1, cyc, c, Cycle(P, q, A, N, X, S))
  BY <1>1, OneField
<1> HIDE DEF g1, h1
<1>6. /\ g1 = [d \in Cycles |-> g1[d]] /\ g1[c] = Cycle(p, Q, A, N, X, S)
      /\ h1 = [d \in Cycles |-> h1[d]] /\ h1[c] = Cycle(P, q, A, N, X, S)
  BY <1>5 DEF Becomes
<1>7. /\ Becomes(g2, g1, c, Cycle(p, Q, a, N, X, S))
      /\ Becomes(h2, h1, c, Cycle(P, q, a, N, X, S))
      /\ Becomes([g1 EXCEPT ![c].queue = q], g1, c, Cycle(p, q, A, N, X, S))
      /\ Becomes(g3, g1, c, Cycle(p, q, A, N, X, S))
      /\ Becomes([g1 EXCEPT ![c].status = s], g1, c, Cycle(p, Q, A, N, X, s))
  BY <1>6, OneField
<1> HIDE DEF g2, g3, h2
<1>8. /\ g3 = [d \in Cycles |-> g3[d]] /\ g3[c] = Cycle(p, q, A, N, X, S)
      /\ g2 = [d \in Cycles |-> g2[d]] /\ g2[c] = Cycle(p, Q, a, N, X, S)
      /\ h2 = [d \in Cycles |-> h2[d]] /\ h2[c] = Cycle(P, q, a, N, X, S)
  BY <1>7 DEF Becomes
<1>9. /\ Becomes([g3 EXCEPT ![c].cur = x], g3, c, Cycle(p, q, A, N, x, S))
      /\ Becomes([g2 EXCEPT ![c].cur = x], g2, c, Cycle(p, Q, a, N, x, S))
      /\ Becomes([h2 EXCEPT ![c].seen = n], h2, c, Cycle(P, q, a, n, X, S))
  BY <1>8, OneField
<1>10. /\ Becomes([g1 EXCEPT ![c].queue = q], cyc, c, Cycle(p, q, A, N, X, S))
       /\ Becomes([g1 EXCEPT ![c].status = s], cyc, c, Cycle(p, Q, A, N, X, s))
       /\ Becomes(g3, cyc, c, Cycle(p, q, A, N, X, S))
       /\ Becomes(g2, cyc, c, Cycle(p, Q, a, N, X, S))
       /\ Becomes(h2, cyc, c, Cycle(P, q, a, N, X, S))
  BY <1>5, <1>7, Chained
<1>11. /\ Becomes([g3 EXCEPT ![c].cur = x], cyc, c, Cycle(p, q, A, N, x, S))
       /\ Becomes([g2 EXCEPT ![c].cur = x], cyc, c, Cycle(p, Q, a, N, x, S))
       /\ Becomes([h2 EXCEPT ![c].seen = n], cyc, c, Cycle(P, q, a, n, X, S))
  BY <1>9, <1>10, Chained
<1> QED
  BY <1>2, <1>3, <1>4, <1>10, <1>11 DEF P, Q, A, N, X, S

-----------------------------------------------------------------------------
(* Evaluation and guardrails *)

\* A cycle proposes an entity and a rule at most once.
LEMMA ProposalsOnce ==
  /\ \A x \in Proposals : IsAction(x)
  /\ \A x, y \in Proposals : SameAction(x, y) => x = y
<1>1. ASSUME NEW x \in Proposals
      PROVE  \E e \in Entities, r \in Rules : x = Proposal(e, r)
  BY DEF Proposals
<1>2. ASSUME NEW e \in Entities, NEW r \in Rules
      PROVE  /\ IsAction(Proposal(e, r)) /\ Proposal(e, r).entity = e /\ Proposal(e, r).rule = r
  <2> DEFINE b == IF r.type \in BudgetTypes THEN budget[e] ELSE None
             v == IF r.type \in BudgetTypes THEN ApplyDelta(budget[e], r.delta) ELSE None
             t == r.delta
  <2>1. Proposal(e, r) = [entity |-> e, rule |-> r, delta |-> t, current |-> b, value |-> v]
    BY DEF Proposal
  <2> HIDE DEF b, v, t
  <2> QED
    BY <2>1 DEF IsAction
<1> QED
  BY <1>1, <1>2 DEF SameAction

LEMMA StartKeeps ==
  ASSUME IInv, NEW c \in Cycles, Start(c)
  PROVE  IInv'
<1>1. PICK q \in SUBSET Proposals : cyc' = [cyc EXCEPT ![c].pc = "guard", ![c].queue = q]
  BY DEF Start
<1> DEFINE r == Cycle("guard", q, cyc[c].plan, cyc[c].seen, cyc[c].cur, cyc[c].status)
<1>2. Becomes(cyc', cyc, c, r)
  BY <1>1, CycleWrites
<1>3. Fits(c, r, log, changes)
  <2>1. cyc[c].plan = {} /\ cyc[c].pc = "idle" /\ Traceless(c, cyc[c], log, changes)
    <3>1. cyc[c].pc = "idle" /\ Traceless(c, cyc[c], log, changes)
      BY DEF Start, IInv, Fits
    <3>2. cyc[c] = Idle
      BY <3>1 DEF Traceless
    <3> QED
      BY <3>1, <3>2 DEF Idle
  <2>2. r.pc = "guard" /\ Open(r) = q /\ r.queue = q /\ r.plan = {} /\ Whole(r)
    BY <2>1 DEF Cycle, Open, Whole
  <2>3. Once(r)
    BY <2>2, ProposalsOnce DEF Once
  <2>4. Untouched(c, r, log, changes)
    BY <2>1, <2>2, <2>3 DEF Traceless, Untouched, Once, IsAction
  <2> QED
    BY <2>2, <2>3, <2>4 DEF Fits, AtHand, Traceless
<1>4. Kept(r, pg)
  BY DEF Kept, Cycle
<1> QED
  BY <1>2, <1>3, <1>4, QuietStep DEF Start, platform, cooldown

\* An open action that is dropped, or moved on in its clamped form.
LEMMA Narrowed ==
  ASSUME NEW c, NEW r, NEW s, NEW l, NEW ch, Fits(c, r, l, ch), Whole(s),
         r.pc \in {"guard", "act"}, s.pc \in {r.pc, "warm"},
         NEW x \in r.queue, s.queue = r.queue \ {x},
         s.plan = r.plan \/ s.plan = r.plan \cup {Clamp(x)}
  PROVE  Fits(c, s, l, ch)
<1>1. IsAction(x) /\ IsAction(Clamp(x)) /\ SameAction(Clamp(x), x)
  BY ClampKeeps DEF Fits, Once, Open
<1>2. \A y \in Open(s) : y = Clamp(x) \/ (y \in Open(r) /\ y # x)
  BY DEF Fits, Once, Open
<1>3. \A y \in Open(r) : SameAction(y, x) => y = x
  BY DEF Fits, Once, Open
<1>4. Once(s)
  <2>1. Clamp(x) \notin s.queue
    BY <1>1, <1>3 DEF Open
  <2>2. s.queue \cap s.plan = {}
    BY <2>1 DEF Fits, Once
  <2>3. \A y, z \in Open(s) : SameAction(y, z) => y = z
    BY <1>1, <1>2, <1>3 DEF Fits, Once, SameAction
  <2> QED
    BY <1>1, <1>2, <2>2, <2>3 DEF Fits, Once
<1>5. Untouched(c, s, l, ch)
  <2>1. x \in Open(r)
    BY DEF Open
  <2> QED
    BY <1>1, <1>2, <2>1 DEF Fits, Untouched, SameAction
<1> QED
  BY <1>4, <1>5 DEF Fits, AtHand, Traceless

LEMMA GuardKeeps ==
  ASSUME IInv, NEW c \in Cycles, Guard(c)
  PROVE  IInv'
<1>1. PICK x \in First(cyc[c].queue) :
        IF ~Capable(x) \/ OnCooldown(Key(x)) \/ Spent(c, x) \/ Abrupt(x)
        THEN cyc' = [cyc EXCEPT ![c].queue = cyc[c].queue \ {x}]
        ELSE cyc' = [cyc EXCEPT ![c].queue = cyc[c].queue \ {x}, ![c].plan = cyc[c].plan \cup {Clamp(x)},
                       ![c].seen = IF Major(x) THEN cyc[c].seen \cup {x.entity} ELSE cyc[c].seen]
  BY DEF Guard
<1>2. /\ x \in cyc[c].queue /\ cyc[c].pc = "guard" /\ Fits(c, cyc[c], log, changes)
      /\ UNCHANGED <<now, log, review, changes, pg, redis>>
  BY DEF First, Guard, IInv, platform, cooldown
<1> DEFINE n == IF Major(x) THEN cyc[c].seen \cup {x.entity} ELSE cyc[c].seen
           r == Cycle(cyc[c].pc, cyc[c].queue \ {x}, cyc[c].plan, cyc[c].seen, cyc[c].cur, cyc[c].status)
           s == Cycle(cyc[c].pc, cyc[c].queue \ {x}, cyc[c].plan \cup {Clamp(x)}, n, cyc[c].cur, cyc[c].status)
           q == cyc[c].queue \ {x}
           a == cyc[c].plan \cup {Clamp(x)}
<1>3. Becomes(cyc', cyc, c, r) \/ Becomes(cyc', cyc, c, s)
  <2>1. \/ cyc' = [cyc EXCEPT ![c].queue = q]
        \/ cyc' = [cyc EXCEPT ![c].queue = q, ![c].plan = a, ![c].seen = n]
    BY <1>1
  <2>2. r = Cycle(cyc[c].pc, q, cyc[c].plan, cyc[c].seen, cyc[c].cur, cyc[c].status)
    OBVIOUS
  <2>3. s = Cycle(cyc[c].pc, q, a, n, cyc[c].cur, cyc[c].status)
    OBVIOUS
  <2> HIDE DEF q, a, n, r, s
  <2>4. CASE cyc' = [cyc EXCEPT ![c].queue = q]
    BY <2>2, <2>4, CycleWrites
  <2>5. CASE cyc' = [cyc EXCEPT ![c].queue = q, ![c].plan = a, ![c].seen = n]
    BY <2>3, <2>5, CycleWrites
  <2> QED
    BY <2>1, <2>4, <2>5
<1>4. /\ Fits(c, r, log, changes) /\ Fits(c, s, log, changes)
      /\ Kept(r, pg) /\ Kept(s, pg)
  <2> HIDE DEF n
  <2>1. /\ Whole(r) /\ r.pc = cyc[c].pc /\ r.queue = cyc[c].queue \ {x} /\ r.plan = cyc[c].plan
        /\ Whole(s) /\ s.pc = cyc[c].pc /\ s.queue = cyc[c].queue \ {x}
        /\ s.plan = cyc[c].plan \cup {Clamp(x)}
    BY DEF Whole, Cycle
  <2> HIDE DEF r, s
  <2>2. cyc[c].pc \in {"guard", "act"}
    BY <1>2
  <2>3. Fits(c, r, log, changes)
    BY <1>2, <2>1, <2>2, Narrowed
  <2>4. Fits(c, s, log, changes)
    BY <1>2, <2>1, <2>2, Narrowed
  <2> QED
    BY <1>2, <2>1, <2>3, <2>4 DEF Kept
<1> HIDE DEF r, s
<1>5. PICK t : Becomes(cyc', cyc, c, t) /\ Fits(c, t, log, changes) /\ Kept(t, pg)
  BY <1>3, <1>4
<1> QED
  BY <1>2, <1>5, QuietStep

\* What Redis is about to be told, Postgres has.
LEMMA RecallKeeps ==
  ASSUME IInv, NEW c \in Cycles, Recall(c)
  PROVE  IInv'
<1>1. PICK x \in First(cyc[c].queue) :
        /\ Forgotten(Key(x))
        /\ cyc' = [cyc EXCEPT ![c].pc = "warm", ![c].queue = cyc[c].queue \ {x},
                             ![c].cur = [key |-> Key(x), ttl |-> pg[Key(x)] - now]]
  BY DEF Recall
<1>2. /\ x \in cyc[c].queue /\ cyc[c].pc = "guard" /\ Fits(c, cyc[c], log, changes)
      /\ UNCHANGED <<now, log, review, changes, pg, redis>>
  BY DEF First, Recall, IInv, platform, cooldown
<1> DEFINE q == cyc[c].queue \ {x}
           w == [key |-> Key(x), ttl |-> pg[Key(x)] - now]
           r == Cycle("warm", q, cyc[c].plan, cyc[c].seen, w, cyc[c].status)
<1>3. Becomes(cyc', cyc, c, r)
  <2>1. cyc' = [cyc EXCEPT ![c].pc = "warm", ![c].queue = q, ![c].cur = w]
    BY <1>1
  <2> HIDE DEF q, w
  <2> QED
    BY <2>1, CycleWrites
<1>4. Whole(r) /\ r.pc = "warm" /\ r.queue = cyc[c].queue \ {x} /\ r.plan = cyc[c].plan /\ r.cur = w
  BY DEF Whole, Cycle
<1> HIDE DEF r
<1>5. Fits(c, r, log, changes)
  BY <1>2, <1>4, Narrowed
<1>6. Kept(r, pg)
  <2>1. Key(x) \in Entities \X ActionTypes
    BY <1>2, RuleFields DEF Fits, Once, Open, IsAction, Key
  <2>2. pg[Key(x)] \in Nat /\ now \in Nat /\ Window \in Nat /\ pg[Key(x)] <= now + Window
    BY <2>1, OptimizerAssumption DEF IInv, Typed, CooldownIsEarned
  <2>3. pg[Key(x)] > now
    BY <1>1 DEF Forgotten
  <2>4. pg[Key(x)] - now \in Nat /\ pg[Key(x)] - now <= Window /\ pg[Key(x)] # 0
    BY <2>2, <2>3
  <2>5. w.key = Key(x) /\ w.ttl = pg[Key(x)] - now
    OBVIOUS
  <2> HIDE DEF w
  <2> QED
    BY <1>4, <2>1, <2>4, <2>5 DEF Kept
<1> QED
  BY <1>2, <1>3, <1>5, <1>6, QuietStep

\* Redis gets a cooldown that Postgres has or has had, of one window at most.
LEMMA RedisWritten ==
  ASSUME IInv, NEW k \in Entities \X ActionTypes, pg[k] # 0, NEW t \in Nat, t <= now + Window,
         redis' = [redis EXCEPT ![k] = t], UNCHANGED <<pg, log, now>>
  PROVE  redis' \in [Entities \X ActionTypes -> Nat] /\ CooldownIsEarned'
<1>1. /\ redis' \in [Entities \X ActionTypes -> Nat]
      /\ \A j \in Entities \X ActionTypes : redis'[j] = (IF j = k THEN t ELSE redis[j])
  BY DEF IInv, Typed
<1>2. DOMAIN pg = Entities \X ActionTypes
  BY DEF IInv, Typed
<1> QED
  BY <1>1, <1>2 DEF IInv, CooldownIsEarned

LEMMA WarmKeeps ==
  ASSUME IInv, NEW c \in Cycles, Warm(c)
  PROVE  IInv'
<1>1. /\ cyc[c].pc = "warm" /\ Fits(c, cyc[c], log, changes) /\ Kept(cyc[c], pg)
      /\ redis' = [redis EXCEPT ![cyc[c].cur.key] = now + cyc[c].cur.ttl]
      /\ cyc' = [cyc EXCEPT ![c].pc = "guard"]
      /\ UNCHANGED <<now, log, review, changes, pg>>
  BY DEF Warm, IInv, platform
<1> DEFINE r == Cycle("guard", cyc[c].queue, cyc[c].plan, cyc[c].seen, cyc[c].cur, cyc[c].status)
<1>2. Becomes(cyc', cyc, c, r)
  BY <1>1, CycleWrites
<1>3. Whole(r) /\ r.pc = "guard" /\ r.queue = cyc[c].queue /\ r.plan = cyc[c].plan
  BY DEF Cycle, Whole
<1> HIDE DEF r
<1>4. Fits(c, r, log, changes) /\ Kept(r, pg)
  BY <1>1, <1>3 DEF Fits, Once, Untouched, AtHand, Traceless, Open, Kept
<1>5. redis' \in [Entities \X ActionTypes -> Nat] /\ CooldownIsEarned'
  <2>1. PICK k, t : k = cyc[c].cur.key /\ t = now + cyc[c].cur.ttl
    OBVIOUS
  <2>2. /\ k \in Entities \X ActionTypes /\ pg[k] # 0 /\ cyc[c].cur.ttl \in Nat
        /\ cyc[c].cur.ttl <= Window /\ now \in Nat /\ Window \in Nat
    BY <1>1, <2>1, OptimizerAssumption DEF Kept, IInv, Typed
  <2>3. t \in Nat /\ t <= now + Window
    BY <2>1, <2>2
  <2> QED
    BY <1>1, <2>1, <2>2, <2>3, RedisWritten
<1>6. SuggestedIsUntouched'
  BY <1>1 DEF IInv, SuggestedIsUntouched
<1> QED
  BY <1>1, <1>2, <1>4, <1>5, <1>6, CycleStep DEF IInv, Typed

LEMMA ValidatedKeeps ==
  ASSUME IInv, NEW c \in Cycles, Validated(c)
  PROVE  IInv'
<1> DEFINE r == Cycle("act", cyc[c].queue, cyc[c].plan, cyc[c].seen, cyc[c].cur, cyc[c].status)
<1>1. Becomes(cyc', cyc, c, r)
  BY CycleWrites DEF Validated
<1>2. Fits(c, cyc[c], log, changes)
  BY DEF IInv
<1>3. Whole(r) /\ r.pc = "act" /\ r.queue = cyc[c].queue /\ r.plan = cyc[c].plan
  BY DEF Cycle, Whole
<1> HIDE DEF r
<1>4. Fits(c, r, log, changes) /\ Kept(r, pg)
  BY <1>2, <1>3 DEF Fits, Once, Untouched, AtHand, Traceless, Open, Kept
<1> QED
  BY <1>1, <1>4, QuietStep DEF Validated, platform, cooldown

-----------------------------------------------------------------------------
(* Execution *)

\* The entry of the action a cycle has open.
LEMMA EntryOf ==
  ASSUME NEW c \in Cycles, NEW x, IsAction(x)
  PROVE  LogId(c, x) \in Ids /\ LogId(c, x) = <<c, x.entity, x.rule>> /\ LogId(c, x)[1] = c
  BY DEF LogId, Ids, IsAction

LEMMA SuggestKeeps ==
  ASSUME IInv, NEW c \in Cycles, Suggest(c)
  PROVE  IInv'
<1>1. PICK x \in First(cyc[c].plan) :
        /\ Record(c, x, "PENDING")
        /\ cyc' = [cyc EXCEPT ![c].plan = cyc[c].plan \ {x}]
  BY DEF Suggest
<1>2. /\ x \in cyc[c].plan /\ cyc[c].pc = "act" /\ Fits(c, cyc[c], log, changes)
      /\ UNCHANGED <<now, review, changes, pg, redis>>
  BY DEF First, Suggest, IInv, platform, cooldown
<1>3. x \in Open(cyc[c]) /\ IsAction(x)
  BY <1>2 DEF Fits, Once, Open
<1> DEFINE i == LogId(c, x)
<1>4. i \in Ids /\ i = <<c, x.entity, x.rule>> /\ i[1] = c
  BY <1>3, EntryOf
<1>5. log[i] = "none" /\ \A z \in changes : z.by = c => ~SameAction(z, x)
  BY <1>2, <1>3, <1>4 DEF Fits, Untouched
<1>6. log' \in [Ids -> Statuses] /\ log'[i] = "PENDING" /\ \A j \in Ids : j # i => log'[j] = log[j]
  BY <1>1, <1>4, LogWritten DEF Record, IInv, Typed, Statuses
<1> DEFINE r == Cycle(cyc[c].pc, cyc[c].queue, cyc[c].plan \ {x}, cyc[c].seen, cyc[c].cur, cyc[c].status)
<1>7. Becomes(cyc', cyc, c, r)
  BY <1>1, CycleWrites
<1>8. Fits(c, r, log', changes')
  <2>1. /\ Whole(r) /\ r.pc = "act" /\ r.queue = cyc[c].queue /\ r.plan = cyc[c].plan \ {x}
    BY <1>2 DEF Whole, Cycle
  <2> HIDE DEF r, i
  <2>2. \A y \in Open(r) : y \in Open(cyc[c]) /\ ~SameAction(y, x)
    BY <1>2, <1>3, <2>1 DEF Fits, Once, Open
  <2>3. Once(r)
    BY <1>2, <2>1, <2>2 DEF Fits, Once
  <2>4. Untouched(c, r, log', changes')
    <3> SUFFICES ASSUME NEW y \in Open(r)
                 PROVE  /\ log'[<<c, y.entity, y.rule>>] = "none"
                        /\ \A z \in changes : z.by = c => ~SameAction(z, y)
      BY <1>2 DEF Untouched
    <3>1. y \in Open(cyc[c]) /\ IsAction(y) /\ ~SameAction(y, x)
      BY <2>2, <1>2 DEF Fits, Once
    <3>2. <<c, y.entity, y.rule>> \in Ids /\ <<c, y.entity, y.rule>> # i
      BY <1>4, <3>1 DEF SameAction, IsAction, Ids
    <3>3. log[<<c, y.entity, y.rule>>] = "none" /\ \A z \in changes : z.by = c => ~SameAction(z, y)
      BY <1>2, <3>1 DEF Fits, Untouched
    <3> QED
      BY <1>6, <3>2, <3>3
  <2> QED
    BY <2>1, <2>3, <2>4 DEF Fits, AtHand, Traceless
<1>9. SuggestedIsUntouched'
  <2> SUFFICES ASSUME NEW z \in changes PROVE log'[<<z.by, z.entity, z.rule>>] # "PENDING"
    BY <1>2 DEF SuggestedIsUntouched
  <2>1. <<z.by, z.entity, z.rule>> \in Ids /\ log[<<z.by, z.entity, z.rule>>] # "PENDING"
    BY DEF IInv, Typed, SuggestedIsUntouched, Ids
  <2>2. <<z.by, z.entity, z.rule>> # i
    BY <1>4, <1>5 DEF SameAction
  <2> QED
    BY <1>6, <2>1, <2>2
<1>10. CooldownIsEarned'
  <2>1. now' \in Nat /\ now' >= now
    BY <1>2 DEF IInv, Typed
  <2>2. \A j \in Ids : log[j] \in Settled => log'[j] \in Settled
    BY <1>5, <1>6 DEF Settled
  <2> QED
    BY <1>2, <2>1, <2>2, CooldownKept DEF IInv, cooldown
<1>11. \A j \in Ids : /\ j[1] # c => log'[j] = log[j]
                      /\ log[j] # "none" => log'[j] # "none"
  BY <1>4, <1>5, <1>6
<1>12. /\ UNCHANGED <<now, review>> /\ Kept(r, pg') /\ UNCHANGED pg
       /\ pg' \in [Entities \X ActionTypes -> Nat] /\ redis' \in [Entities \X ActionTypes -> Nat]
       /\ \A z \in changes' : z \in changes
  BY <1>2 DEF IInv, Typed, Kept, Cycle
<1> HIDE DEF r, i
<1> QED
  BY <1>6, <1>7, <1>8, <1>9, <1>10, <1>11, <1>12, CycleStep

LEMMA ApplyKeeps ==
  ASSUME IInv, NEW c \in Cycles, Apply(c)
  PROVE  IInv'
<1>1. PICK x \in First(cyc[c].plan) :
        cyc' = [cyc EXCEPT ![c].pc = "call", ![c].plan = cyc[c].plan \ {x}, ![c].cur = x]
  BY DEF Apply
<1>2. /\ x \in cyc[c].plan /\ cyc[c].pc = "act" /\ Fits(c, cyc[c], log, changes)
      /\ UNCHANGED <<now, log, review, changes, pg, redis>>
  BY DEF First, Apply, IInv, platform, cooldown
<1> DEFINE r == Cycle("call", cyc[c].queue, cyc[c].plan \ {x}, cyc[c].seen, x, cyc[c].status)
<1>3. Becomes(cyc', cyc, c, r)
  BY <1>1, CycleWrites
<1>4. Fits(c, r, log, changes)
  <2>1. /\ Whole(r) /\ r.pc = "call" /\ r.queue = cyc[c].queue /\ r.plan = cyc[c].plan \ {x} /\ r.cur = x
    BY DEF Whole, Cycle
  <2> HIDE DEF r
  <2>2. x \in Open(cyc[c]) /\ IsAction(x) /\ log[<<c, x.entity, x.rule>>] = "none"
    BY <1>2 DEF Fits, Once, Open, Untouched
  <2>3. \A y \in Open(r) : y \in Open(cyc[c]) /\ ~SameAction(y, x)
    BY <1>2, <2>1, <2>2 DEF Fits, Once, Open
  <2>4. Once(r) /\ Untouched(c, r, log, changes)
    BY <1>2, <2>1, <2>3 DEF Fits, Once, Untouched
  <2> QED
    BY <2>1, <2>2, <2>3, <2>4 DEF Fits, AtHand, Traceless
<1>5. Kept(r, pg)
  BY DEF Kept, Cycle
<1> HIDE DEF r
<1> QED
  BY <1>2, <1>3, <1>4, <1>5, QuietStep

\* The action at hand moves from the call to the log; only it is carried out.
LEMMA MovedOn ==
  ASSUME NEW c, NEW r, NEW s, NEW l, NEW ch, NEW dh, Fits(c, r, l, ch), Whole(s),
         r.pc \in {"call", "store"}, s.pc \in {"store", "log"},
         s.queue = r.queue, s.plan = r.plan, s.cur = r.cur,
         s.pc = "log" => s.status \in {"APPLIED", "FAILED"},
         \A z \in dh : z \in ch \/ SameAction(z, r.cur)
  PROVE  Fits(c, s, l, dh)
<1>1. Open(s) = Open(r)
  BY DEF Open
<1>2. Once(s)
  BY <1>1 DEF Fits, Once
<1>3. AtHand(c, s, l)
  BY <1>1 DEF Fits, AtHand
<1>4. Untouched(c, s, l, dh)
  <2> SUFFICES ASSUME NEW x \in Open(r)
               PROVE  l[<<c, x.entity, x.rule>>] = "none" /\ \A z \in dh : z.by = c => ~SameAction(z, x)
    BY <1>1 DEF Untouched
  <2>1. ~SameAction(x, r.cur)
    BY DEF Fits, AtHand
  <2>2. l[<<c, x.entity, x.rule>>] = "none" /\ \A z \in ch : z.by = c => ~SameAction(z, x)
    BY DEF Fits, Untouched
  <2> QED
    BY <2>1, <2>2 DEF SameAction
<1> QED
  BY <1>2, <1>3, <1>4 DEF Fits, Traceless

LEMMA CallKeeps ==
  ASSUME IInv, NEW c \in Cycles, Call(c)
  PROVE  IInv'
<1> DEFINE x == cyc[c].cur
<1>1. /\ cyc[c].pc = "call" /\ Fits(c, cyc[c], log, changes)
      /\ UNCHANGED <<now, log, review, pg, redis>>
  BY DEF Call, IInv, cooldown
<1>2. IsAction(x) /\ log[<<c, x.entity, x.rule>>] = "none"
  BY <1>1 DEF Fits, AtHand
<1>3. UNCHANGED changes \/ changes' = changes \cup {Change(c, x)}
  BY DEF Call, Carry, platform
<1>4. Change(c, x).by = c /\ Change(c, x).entity = x.entity /\ Change(c, x).rule = x.rule
  BY DEF Change
<1> DEFINE r == Cycle("store", cyc[c].queue, cyc[c].plan, cyc[c].seen, cyc[c].cur, None)
           s == Cycle("log", cyc[c].queue, cyc[c].plan, cyc[c].seen, cyc[c].cur, "FAILED")
<1>5. Becomes(cyc', cyc, c, r) \/ Becomes(cyc', cyc, c, s)
  <2>1. \/ cyc' = [cyc EXCEPT ![c].pc = "store", ![c].status = None]
        \/ cyc' = [cyc EXCEPT ![c].pc = "log", ![c].status = "FAILED"]
    BY DEF Call, AfterCall
  <2>2. CASE cyc' = [cyc EXCEPT ![c].pc = "store", ![c].status = None]
    BY <2>2, CycleWrites
  <2>3. CASE cyc' = [cyc EXCEPT ![c].pc = "log", ![c].status = "FAILED"]
    BY <2>3, CycleWrites
  <2> QED
    BY <2>1, <2>2, <2>3
<1>6. Fits(c, r, log, changes') /\ Fits(c, s, log, changes')
  <2>1. /\ Whole(r) /\ r.pc = "store" /\ r.queue = cyc[c].queue /\ r.plan = cyc[c].plan /\ r.cur = cyc[c].cur
        /\ Whole(s) /\ s.pc = "log" /\ s.queue = cyc[c].queue /\ s.plan = cyc[c].plan /\ s.cur = cyc[c].cur
        /\ s.status = "FAILED"
    BY DEF Whole, Cycle
  <2> HIDE DEF r, s
  <2>2. \A z \in changes' : z \in changes \/ SameAction(z, cyc[c].cur)
    BY <1>3, <1>4 DEF SameAction
  <2>3. Fits(c, r, log, changes')
    BY <1>1, <2>1, <2>2, MovedOn
  <2>4. Fits(c, s, log, changes')
    BY <1>1, <2>1, <2>2, MovedOn
  <2> QED
    BY <2>3, <2>4
<1>10. Kept(r, pg') /\ Kept(s, pg')
  BY DEF Kept, Cycle
<1> HIDE DEF r, s
<1>7. PICK t : Becomes(cyc', cyc, c, t) /\ Fits(c, t, log', changes') /\ Kept(t, pg')
  BY <1>1, <1>5, <1>6, <1>10
<1>8. SuggestedIsUntouched' /\ CooldownIsEarned'
  <2>1. \A z \in changes' : log[z.by, z.entity, z.rule] # "PENDING"
    BY <1>2, <1>3, <1>4 DEF IInv, SuggestedIsUntouched
  <2> QED
    BY <1>1, <2>1 DEF IInv, SuggestedIsUntouched, CooldownIsEarned
<1>9. \A z \in changes' : z \in changes \/ (z.by = c /\ z.entity \in Entities /\ z.rule \in Rules)
  BY <1>2, <1>3, <1>4 DEF IsAction
<1> HIDE DEF x
<1> QED
  BY <1>1, <1>7, <1>8, <1>9, CycleStep DEF IInv, Typed

LEMMA StoreKeeps ==
  ASSUME IInv, NEW c \in Cycles, Store(c)
  PROVE  IInv'
<1>1. /\ cyc[c].pc = "store" /\ Fits(c, cyc[c], log, changes)
      /\ UNCHANGED <<now, log, review, changes, pg, redis>>
  BY DEF Store, IInv, cooldown, platform
<1>2. PICK v \in {"APPLIED", "FAILED"} : cyc' = [cyc EXCEPT ![c].pc = "log", ![c].status = v]
  BY DEF Store
<1> DEFINE r == Cycle("log", cyc[c].queue, cyc[c].plan, cyc[c].seen, cyc[c].cur, v)
<1>3. Becomes(cyc', cyc, c, r)
  BY <1>2, CycleWrites
<1>4. Fits(c, r, log, changes)
  <2>1. /\ Whole(r) /\ r.pc = "log" /\ r.queue = cyc[c].queue /\ r.plan = cyc[c].plan /\ r.cur = cyc[c].cur
        /\ r.status = v
    BY DEF Whole, Cycle
  <2> HIDE DEF r
  <2> QED
    BY <1>1, <2>1, MovedOn
<1>5. Kept(r, pg)
  BY DEF Kept, Cycle
<1> HIDE DEF r
<1> QED
  BY <1>1, <1>3, <1>4, <1>5, QuietStep

\* The entry of the action at hand, by the cycle that lives on or breaks off.
LEMMA EntryWritten ==
  ASSUME IInv, NEW c \in Cycles, cyc[c].pc = "log", Record(c, cyc[c].cur, cyc[c].status),
         UNCHANGED <<now, changes, pg, redis>>
  PROVE  /\ log' \in [Ids -> Statuses] /\ SuggestedIsUntouched' /\ CooldownIsEarned'
         /\ log'[LogId(c, cyc[c].cur)] = cyc[c].status
         /\ \A j \in Ids : /\ j # LogId(c, cyc[c].cur) => log'[j] = log[j]
                           /\ j[1] # c => log'[j] = log[j]
                           /\ log[j] # "none" => log'[j] # "none"
<1> DEFINE x == cyc[c].cur
           i == LogId(c, x)
           v == cyc[c].status
<1>1. Fits(c, cyc[c], log, changes) /\ log' = [log EXCEPT ![i] = v]
  BY DEF Record, IInv
<1>2. IsAction(x) /\ log[<<c, x.entity, x.rule>>] = "none" /\ v \in {"APPLIED", "FAILED"}
  BY <1>1 DEF Fits, AtHand
<1>3. i \in Ids /\ i = <<c, x.entity, x.rule>> /\ i[1] = c
  BY <1>2, EntryOf
<1> HIDE DEF i, v, x
<1>4. log' \in [Ids -> Statuses] /\ log'[i] = v /\ \A j \in Ids : j # i => log'[j] = log[j]
  BY <1>1, <1>2, <1>3, LogWritten DEF IInv, Typed, Statuses
<1>5. SuggestedIsUntouched'
  <2> SUFFICES ASSUME NEW z \in changes PROVE log'[<<z.by, z.entity, z.rule>>] # "PENDING"
    BY DEF SuggestedIsUntouched
  <2>1. <<z.by, z.entity, z.rule>> \in Ids /\ log[<<z.by, z.entity, z.rule>>] # "PENDING"
    BY DEF IInv, Typed, SuggestedIsUntouched, Ids
  <2> QED
    BY <1>2, <1>4, <2>1
<1>6. CooldownIsEarned'
  <2>1. now' \in Nat /\ now' >= now
    BY DEF IInv, Typed
  <2>2. \A j \in Ids : log[j] \in Settled => log'[j] \in Settled
    BY <1>2, <1>3, <1>4 DEF Settled
  <2> QED
    BY <2>1, <2>2, CooldownKept DEF IInv, cooldown
<1>7. \A j \in Ids : /\ j[1] # c => log'[j] = log[j]
                     /\ log[j] # "none" => log'[j] # "none"
  BY <1>2, <1>3, <1>4
<1> QED
  BY <1>4, <1>5, <1>6, <1>7 DEF i, x, v

LEMMA LogKeeps ==
  ASSUME IInv, NEW c \in Cycles, Log(c)
  PROVE  IInv'
<1> DEFINE x == cyc[c].cur
           i == LogId(c, x)
           v == cyc[c].status
<1>1. /\ cyc[c].pc = "log" /\ Fits(c, cyc[c], log, changes)
      /\ Record(c, x, v)
      /\ cyc' = [cyc EXCEPT ![c].pc = AfterLog(v)]
      /\ UNCHANGED <<now, review, changes, pg, redis>>
  BY DEF Log, IInv, cooldown, platform
<1>2. /\ IsAction(x) /\ log[<<c, x.entity, x.rule>>] = "none" /\ v \in {"APPLIED", "FAILED"}
      /\ \A y \in Open(cyc[c]) : ~SameAction(y, x)
  BY <1>1 DEF Fits, AtHand
<1>3. i \in Ids /\ i = <<c, x.entity, x.rule>> /\ i[1] = c
  BY <1>2, EntryOf
<1>6. /\ log' \in [Ids -> Statuses] /\ log'[i] = v /\ \A j \in Ids : j # i => log'[j] = log[j]
      /\ SuggestedIsUntouched' /\ CooldownIsEarned'
      /\ \A j \in Ids : /\ j[1] # c => log'[j] = log[j]
                        /\ log[j] # "none" => log'[j] # "none"
  BY <1>1, EntryWritten
<1> DEFINE r == Cycle(AfterLog(v), cyc[c].queue, cyc[c].plan, cyc[c].seen, cyc[c].cur, cyc[c].status)
<1>4. Becomes(cyc', cyc, c, r)
  BY <1>1, CycleWrites
<1>5. /\ Whole(r) /\ r.pc = AfterLog(v) /\ r.queue = cyc[c].queue /\ r.plan = cyc[c].plan /\ r.cur = x
  BY DEF Whole, Cycle
<1> HIDE DEF r, i, v, x
<1>7. Fits(c, r, log', changes') /\ Kept(r, pg')
  <2>1. Open(r) = Open(cyc[c]) /\ Once(r)
    BY <1>1, <1>5 DEF Open, Fits, Once
  <2>2. Untouched(c, r, log', changes')
    <3> SUFFICES ASSUME NEW y \in Open(cyc[c])
                 PROVE  /\ log'[<<c, y.entity, y.rule>>] = "none"
                        /\ \A z \in changes : z.by = c => ~SameAction(z, y)
      BY <1>1, <2>1 DEF Untouched
    <3>1. IsAction(y) /\ ~SameAction(y, x)
      BY <1>1, <1>2 DEF Fits, Once
    <3>2. <<c, y.entity, y.rule>> \in Ids /\ <<c, y.entity, y.rule>> # i
      BY <1>3, <3>1 DEF SameAction, IsAction, Ids
    <3>3. log[<<c, y.entity, y.rule>>] = "none" /\ \A z \in changes : z.by = c => ~SameAction(z, y)
      BY <1>1 DEF Fits, Untouched
    <3> QED
      BY <1>6, <3>2, <3>3
  <2>3. r.pc \in {"cool", "act"} /\ (r.pc = "cool" => v = "APPLIED")
    BY <1>5 DEF AfterLog
  <2>4. AtHand(c, r, log')
    BY <1>2, <1>3, <1>5, <1>6, <2>3 DEF AtHand, Settled
  <2> QED
    BY <1>5, <2>1, <2>2, <2>3, <2>4 DEF Fits, Traceless, Kept
<1>8. /\ UNCHANGED <<now, review, pg>>
      /\ pg' \in [Entities \X ActionTypes -> Nat] /\ redis' \in [Entities \X ActionTypes -> Nat]
      /\ \A z \in changes' : z \in changes
  BY <1>1 DEF IInv, Typed
<1> QED
  BY <1>4, <1>6, <1>7, <1>8, CycleStep

\* A cooldown written for an applied action is earned.
LEMMA CooldownWritten ==
  ASSUME IInv, NEW c \in Cycles, cyc[c].pc = "cool", UNCHANGED <<log, now, redis>>,
         pg' = [pg EXCEPT ![Key(cyc[c].cur)] = Expiry]
  PROVE  /\ pg' \in [Entities \X ActionTypes -> Nat] /\ CooldownIsEarned'
         /\ pg'[Key(cyc[c].cur)] # 0
         /\ \A k \in Entities \X ActionTypes : pg[k] # 0 => pg'[k] # 0
<1> DEFINE x == cyc[c].cur
           k == Key(x)
           i == LogId(c, x)
<1>1. IsAction(x) /\ log[<<c, x.entity, x.rule>>] \in Settled
  BY DEF IInv, Fits, AtHand
<1>2. k \in Entities \X ActionTypes /\ k[1] = x.entity /\ k[2] = x.rule.type
  BY <1>1, RuleFields DEF IsAction, Key
<1>3. i \in Ids /\ i[2] = k[1] /\ i[3].type = k[2] /\ log[i] \in Settled
  BY <1>1, <1>2, EntryOf DEF LogId
<1>4. /\ Expiry \in Nat /\ Expiry = now + Window /\ Expiry # 0
      /\ Window \in Nat /\ now \in Nat
  BY OptimizerAssumption DEF Expiry, IInv, Typed
<1> HIDE DEF i, k, x
<1>5. /\ pg' \in [Entities \X ActionTypes -> Nat] /\ pg'[k] = Expiry
      /\ \A j \in Entities \X ActionTypes : j # k => pg'[j] = pg[j]
  BY <1>2, <1>4 DEF IInv, Typed, k, x
<1>6. ASSUME NEW j \in Entities \X ActionTypes
      PROVE  /\ pg'[j] <= now + Window /\ redis[j] <= now + Window
             /\ redis[j] # 0 => pg'[j] # 0
             /\ pg'[j] # 0 => \E n \in Ids : n[2] = j[1] /\ n[3].type = j[2] /\ log[n] \in Settled
  <2>1. /\ pg[j] <= now + Window /\ redis[j] <= now + Window
        /\ redis[j] # 0 => pg[j] # 0
        /\ pg[j] # 0 => \E n \in Ids : n[2] = j[1] /\ n[3].type = j[2] /\ log[n] \in Settled
    BY DEF IInv, Typed, CooldownIsEarned, Settled
  <2>2. CASE j = k
    <3>1. \E n \in Ids : n[2] = j[1] /\ n[3].type = j[2] /\ log[n] \in Settled
      BY <1>3, <2>2
    <3> QED
      BY <1>4, <1>5, <2>1, <2>2, <3>1
  <2>3. CASE j # k
    BY <1>5, <2>1, <2>3
  <2> QED
    BY <2>2, <2>3
<1>7. CooldownIsEarned'
  <2>1. DOMAIN pg' = Entities \X ActionTypes
    BY <1>5
  <2> QED
    BY <1>6, <2>1 DEF CooldownIsEarned, Settled
<1> QED
  BY <1>4, <1>5, <1>7 DEF k, x

LEMMA CoolKeeps ==
  ASSUME IInv, NEW c \in Cycles, Cool(c)
  PROVE  IInv'
<1>1. /\ cyc[c].pc = "cool" /\ Fits(c, cyc[c], log, changes)
      /\ UNCHANGED <<now, log, review, changes, redis>>
      /\ pg' = [pg EXCEPT ![Key(cyc[c].cur)] = Expiry]
      /\ cyc' = [cyc EXCEPT ![c].pc = "cache"]
  BY DEF Cool, IInv, platform
<1>2. /\ pg' \in [Entities \X ActionTypes -> Nat] /\ CooldownIsEarned' /\ pg'[Key(cyc[c].cur)] # 0
      /\ \A k \in Entities \X ActionTypes : pg[k] # 0 => pg'[k] # 0
  BY <1>1, CooldownWritten
<1> DEFINE r == Cycle("cache", cyc[c].queue, cyc[c].plan, cyc[c].seen, cyc[c].cur, cyc[c].status)
<1>3. Becomes(cyc', cyc, c, r)
  BY <1>1, CycleWrites
<1>4. Whole(r) /\ r.pc = "cache" /\ r.queue = cyc[c].queue /\ r.plan = cyc[c].plan /\ r.cur = cyc[c].cur
  BY DEF Cycle, Whole
<1> HIDE DEF r
<1>5. Fits(c, r, log', changes') /\ Kept(r, pg')
  BY <1>1, <1>2, <1>4 DEF Fits, Once, Untouched, AtHand, Traceless, Open, Kept
<1>6. SuggestedIsUntouched'
  BY <1>1 DEF IInv, SuggestedIsUntouched
<1> QED
  BY <1>1, <1>2, <1>3, <1>5, <1>6, CycleStep DEF IInv, Typed

LEMMA CacheKeeps ==
  ASSUME IInv, NEW c \in Cycles, Cache(c)
  PROVE  IInv'
<1>1. /\ cyc[c].pc = "cache" /\ Fits(c, cyc[c], log, changes) /\ Kept(cyc[c], pg)
      /\ UNCHANGED <<now, log, review, changes, pg>>
      /\ redis' = [redis EXCEPT ![Key(cyc[c].cur)] = Expiry]
      /\ cyc' = [cyc EXCEPT ![c].pc = "act"]
  BY DEF Cache, IInv, platform
<1> DEFINE r == Cycle("act", cyc[c].queue, cyc[c].plan, cyc[c].seen, cyc[c].cur, cyc[c].status)
<1>2. Becomes(cyc', cyc, c, r)
  BY <1>1, CycleWrites
<1>3. Whole(r) /\ r.pc = "act" /\ r.queue = cyc[c].queue /\ r.plan = cyc[c].plan
  BY DEF Cycle, Whole
<1> HIDE DEF r
<1>4. Fits(c, r, log', changes') /\ Kept(r, pg')
  BY <1>1, <1>3 DEF Fits, Once, Untouched, AtHand, Traceless, Open, Kept
<1>5. redis' \in [Entities \X ActionTypes -> Nat] /\ CooldownIsEarned'
  <2>1. PICK k : k = Key(cyc[c].cur)
    OBVIOUS
  <2>2. k \in Entities \X ActionTypes /\ pg[k] # 0
    BY <1>1, <2>1, RuleFields DEF Fits, AtHand, IsAction, Key, Kept
  <2>3. Expiry \in Nat /\ Expiry <= now + Window
    BY OptimizerAssumption DEF Expiry, IInv, Typed
  <2> QED
    BY <1>1, <2>1, <2>2, <2>3, RedisWritten
<1>6. SuggestedIsUntouched'
  BY <1>1 DEF IInv, SuggestedIsUntouched
<1> QED
  BY <1>1, <1>2, <1>4, <1>5, <1>6, CycleStep DEF IInv, Typed

LEMMA FinishKeeps ==
  ASSUME IInv, NEW c \in Cycles, Finish(c)
  PROVE  IInv'
<1>1. Becomes(cyc', cyc, c, Done)
  BY CycleWrites DEF Finish
<1>2. UNCHANGED <<now, log, review, changes, pg, redis>>
  BY DEF Finish, platform, cooldown
<1> QED
  BY <1>1, <1>2, BrokenFits, QuietStep

LEMMA ThrowKeeps ==
  ASSUME IInv, NEW c \in Cycles, Throw(c)
  PROVE  IInv'
<1>1. PICK r : r = Broken(cyc[c])
  OBVIOUS
<1>2. /\ Becomes(cyc', cyc, c, r) /\ Fits(c, r, log', changes') /\ Kept(r, pg')
      /\ UNCHANGED <<now, review, changes, pg, redis>>
  BY <1>1, CycleWrites, BrokenFits DEF Throw, platform, cooldown
<1>3. CASE UNCHANGED log
  BY <1>2, <1>3, QuietStep
<1>4. CASE cyc[c].pc = "log" /\ Record(c, cyc[c].cur, cyc[c].status)
  <2>1. /\ log' \in [Ids -> Statuses] /\ SuggestedIsUntouched' /\ CooldownIsEarned'
        /\ \A j \in Ids : j[1] # c => log'[j] = log[j]
        /\ \A j \in Ids : log[j] # "none" => log'[j] # "none"
    BY <1>2, <1>4, EntryWritten
  <2> QED
    BY <1>2, <2>1, CycleStep DEF IInv, Typed
<1> QED
  BY <1>3, <1>4 DEF Throw

-----------------------------------------------------------------------------
(* Reviews and the environment *)

\* A step that leaves the cycles and the platform alone.
LEMMA OutsideStep ==
  ASSUME IInv, UNCHANGED <<cyc, changes, cooldown>>,
         now' \in Nat, now' >= now, log' \in [Ids -> Statuses],
         \A i \in Ids : /\ log[i] = "none" => log'[i] = "none"
                        /\ log[i] \in Settled => log'[i] \in Settled
                        /\ log'[i] = "PENDING" => log[i] = "PENDING",
         review' \subseteq Ids, \A i \in review' : log'[i] # "none"
  PROVE  IInv'
<1>1. Typed'
  BY DEF IInv, Typed, cooldown
<1>2. \A c \in Cycles : Fits(c, cyc'[c], log', changes') /\ Kept(cyc'[c], pg')
  <2> SUFFICES ASSUME NEW c \in Cycles PROVE Fits(c, cyc[c], log', changes)
    BY DEF IInv, cooldown
  <2>1. \A e \in Entities, q \in Rules : <<c, e, q>> \in Ids
    BY DEF Ids
  <2>2. Fits(c, cyc[c], log, changes)
    BY DEF IInv
  <2>3. \A e \in Entities, q \in Rules :
          /\ log[<<c, e, q>>] = "none" => log'[<<c, e, q>>] = "none"
          /\ log[<<c, e, q>>] \in Settled => log'[<<c, e, q>>] \in Settled
    BY <2>1
  <2> QED
    BY <2>2, <2>3, FitsKept
<1>3. CooldownIsEarned'
  BY CooldownKept DEF IInv
<1>4. SuggestedIsUntouched'
  <2> SUFFICES ASSUME NEW z \in changes PROVE log'[<<z.by, z.entity, z.rule>>] # "PENDING"
    BY DEF SuggestedIsUntouched
  <2>1. <<z.by, z.entity, z.rule>> \in Ids /\ log[<<z.by, z.entity, z.rule>>] # "PENDING"
    BY DEF IInv, Typed, SuggestedIsUntouched, Ids
  <2> QED
    BY <2>1
<1> QED
  BY <1>1, <1>2, <1>3, <1>4 DEF IInv

\* A verdict: APPLIED or SKIPPED over what is in the log.
LEMMA VerdictKeeps ==
  ASSUME IInv, NEW i \in Ids, log[i] # "none", NEW v \in Settled, log' = [log EXCEPT ![i] = v],
         review' \subseteq review, UNCHANGED <<cyc, changes, cooldown, now>>
  PROVE  IInv'
<1>1. log' \in [Ids -> Statuses] /\ log'[i] = v /\ \A j \in Ids : j # i => log'[j] = log[j]
  BY LogWritten DEF IInv, Typed, Statuses, Settled
<1>2. \A j \in Ids : /\ log[j] = "none" => log'[j] = "none"
                     /\ log[j] \in Settled => log'[j] \in Settled
                     /\ log'[j] = "PENDING" => log[j] = "PENDING"
                     /\ log[j] # "none" => log'[j] # "none"
  BY <1>1 DEF Settled
<1>3. review' \subseteq Ids /\ \A j \in review' : log'[j] # "none"
  BY <1>2 DEF IInv, Typed
<1>4. now' \in Nat /\ now' >= now
  BY DEF IInv, Typed
<1> QED
  BY <1>1, <1>2, <1>3, <1>4, OutsideStep

LEMMA ReviewKeeps ==
  ASSUME IInv, NEW i \in Ids, ReadForApproval(i) \/ WriteApproval(i) \/ Reject(i)
  PROVE  IInv'
<1>1. CASE ReadForApproval(i)
  <2>1. UNCHANGED <<cyc, changes, cooldown, now, log>> /\ review' = review \cup {i} /\ log[i] = "PENDING"
    BY <1>1 DEF ReadForApproval, platform
  <2>2. /\ now' \in Nat /\ now' >= now /\ log' \in [Ids -> Statuses]
        /\ review' \subseteq Ids /\ \A j \in review' : log'[j] # "none"
    BY <2>1 DEF IInv, Typed
  <2> QED
    BY <2>1, <2>2, OutsideStep
<1>2. CASE WriteApproval(i)
  BY <1>2, VerdictKeeps DEF WriteApproval, platform, Settled, IInv, Typed
<1>3. CASE Reject(i)
  BY <1>3, VerdictKeeps DEF Reject, platform, Settled
<1> QED
  BY <1>1, <1>2, <1>3

LEMMA EditAndTickKeep ==
  ASSUME IInv, Edit \/ Tick
  PROVE  IInv'
<1>1. UNCHANGED <<cyc, changes, cooldown, log, review>> /\ (UNCHANGED now \/ now' = now + 1)
  BY DEF Edit, Tick, platform
<1>2. /\ now' \in Nat /\ now' >= now /\ log' \in [Ids -> Statuses]
      /\ review' \subseteq Ids /\ \A j \in review' : log'[j] # "none"
  BY <1>1 DEF IInv, Typed
<1> QED
  BY <1>1, <1>2, OutsideStep

LEMMA CrashKeeps ==
  ASSUME IInv, Crash
  PROVE  IInv'
<1>1. /\ cyc' = [c \in Cycles |-> IF cyc[c].pc \in {"idle"} \cup Ended THEN cyc[c] ELSE Broken(cyc[c])]
      /\ review' = {} /\ UNCHANGED <<log, changes, pg, redis, now>>
  BY DEF Crash, platform, cooldown
<1>2. Typed'
  BY <1>1 DEF IInv, Typed
<1>3. \A c \in Cycles : Fits(c, cyc'[c], log', changes') /\ Kept(cyc'[c], pg')
  <2> SUFFICES ASSUME NEW c \in Cycles PROVE Fits(c, cyc'[c], log, changes) /\ Kept(cyc'[c], pg)
    BY <1>1
  <2>1. cyc'[c] = cyc[c] \/ cyc'[c] = Broken(cyc[c])
    BY <1>1
  <2> QED
    BY <2>1, BrokenFits DEF IInv
<1>4. CooldownIsEarned' /\ SuggestedIsUntouched'
  BY <1>1 DEF IInv, CooldownIsEarned, SuggestedIsUntouched
<1> QED
  BY <1>2, <1>3, <1>4 DEF IInv

LEMMA RedisLostKeeps ==
  ASSUME IInv, RedisLost
  PROVE  IInv'
<1>1. /\ redis' = [k \in DOMAIN redis |-> 0] /\ UNCHANGED <<log, review, changes, pg, cyc, now>>
  BY DEF RedisLost, platform
<1>2. redis' \in [Entities \X ActionTypes -> Nat] /\ \A k \in Entities \X ActionTypes : redis'[k] = 0
  BY <1>1 DEF IInv, Typed
<1>3. now \in Nat /\ Window \in Nat /\ DOMAIN pg = Entities \X ActionTypes
  BY OptimizerAssumption DEF IInv, Typed
<1>4. CooldownIsEarned'
  BY <1>1, <1>2, <1>3 DEF IInv, CooldownIsEarned
<1> QED
  BY <1>1, <1>2, <1>4 DEF IInv, Typed, SuggestedIsUntouched

-----------------------------------------------------------------------------
(* The theorems *)

LEMMA InitInv == Init => IInv
<1> SUFFICES ASSUME Init PROVE IInv
  OBVIOUS
<1>1. Typed
  BY DEF Init, Typed, Statuses
<1>2. ASSUME NEW c \in Cycles PROVE Fits(c, cyc[c], log, changes) /\ Kept(cyc[c], pg)
  <2>1. cyc[c] = Idle /\ changes = {} /\ \A e \in Entities, q \in Rules : log[<<c, e, q>>] = "none"
    BY DEF Init, Ids
  <2> QED
    BY <2>1 DEF Fits, Whole, Once, Open, Untouched, AtHand, Traceless, Kept, Idle
<1>3. CooldownIsEarned
  BY OptimizerAssumption DEF Init, CooldownIsEarned
<1>4. SuggestedIsUntouched
  BY DEF Init, SuggestedIsUntouched
<1> QED
  BY <1>1, <1>2, <1>3, <1>4 DEF IInv

LEMMA NextInv == IInv /\ [Next]_vars => IInv'
<1> SUFFICES ASSUME IInv, [Next]_vars PROVE IInv'
  OBVIOUS
<1>1. ASSUME NEW c \in Cycles, Start(c) \/ Step(c) \/ Throw(c) PROVE IInv'
  BY <1>1, StartKeeps, GuardKeeps, RecallKeeps, WarmKeeps, ValidatedKeeps, SuggestKeeps, ApplyKeeps,
     CallKeeps, StoreKeeps, LogKeeps, CoolKeeps, CacheKeeps, FinishKeeps, ThrowKeeps DEF Step
<1>2. CASE UNCHANGED vars
  BY <1>2 DEF vars, platform, cooldown, IInv, Typed, CooldownIsEarned, SuggestedIsUntouched
<1> QED
  BY <1>1, <1>2, ReviewKeeps, EditAndTickKeep, CrashKeeps, RedisLostKeeps DEF Next

LEMMA Invariance == Spec => []IInv
  BY InitInv, NextInv, PTL DEF Spec

\* A cooldown stands only for an action that was applied or set aside later,
\* ends within one window of the clock, and is in Redis only if Postgres has
\* had it (cooldown.service.ts 17-60): however many cycles overlap, and
\* whatever fails, dies or is lost before, between and after the two writes.
THEOREM CooldownCorrect == Spec => []CooldownIsEarned
  BY Invariance, PTL DEF IInv

\* What waits for a human has not been done at the platform
\* (execution.service.ts 45-71), whatever else is approved or rejected.
THEOREM SuggestedCorrect == Spec => []SuggestedIsUntouched
  BY Invariance, PTL DEF IInv

-----------------------------------------------------------------------------
(* One cycle, one action of a kind: for any overlap and any failure *)

\* Two actions of a cycle that must not both be carried out: the same one, or
\* two changes of one budget.
Clash(x, y) ==
  \/ SameAction(x, y)
  \/ Major(x) /\ Major(y) /\ x.entity = y.entity

\* What a cycle has planned, has at hand and has done does not clash.
Single(c, r, ch) ==
  /\ \A x \in r.plan : Major(x) => x.entity \in r.seen
  /\ \A x, y \in r.plan : Clash(x, y) => x = y
  /\ r.pc \in {"call", "store"} => \A y \in r.plan : ~Clash(y, r.cur)
  /\ r.pc = "call" => \A z \in ch : z.by = c => ~Clash(z, r.cur)
  /\ \A z \in ch : z.by = c => /\ r.pc \notin {"idle", "guard", "warm"}
                             /\ \A y \in r.plan : ~Clash(y, z)

SingleInv ==
  /\ \A c \in Cycles : Single(c, cyc[c], changes)
  /\ \A x, y \in changes : x.by = y.by /\ Clash(x, y) => x = y
  /\ \A z \in changes : Writes(z) /\ (z.from # None => Major(z))

\* Every change is logged, or at hand in its cycle, or was when it broke off.
Logging(x) ==
  \/ log[<<x.by, x.entity, x.rule>>] # "none"
  \/ cyc[x.by].pc \in {"store", "log", "torn"} /\ SameAction(x, cyc[x.by].cur)
LoggedInv == \A x \in changes : Logging(x)

-----------------------------------------------------------------------------
(* What a step makes of its cycle *)

Moves(c, p, q, a, n, x, s) ==
  /\ cyc'[c].pc = p /\ cyc'[c].queue = q /\ cyc'[c].plan = a /\ cyc'[c].seen = n
  /\ cyc'[c].cur = x /\ cyc'[c].status = s
  /\ \A d \in Cycles : d # c => cyc'[d] = cyc[d]

\* A cycle that ends, and leaves the action it has at hand torn.
Dropped(r, s) ==
  /\ s.pc \in Ended /\ s.queue = {} /\ s.plan = {} /\ r.pc \notin {"idle"} \cup Ended
  /\ r.pc \in {"store", "log", "cool"} => s.pc = "torn" /\ s.cur = r.cur
Ends(c) == Dropped(cyc[c], cyc'[c]) /\ \A d \in Cycles : d # c => cyc'[d] = cyc[d]

LEMMA MovesIf ==
  ASSUME NEW c \in Cycles, NEW p, NEW q, NEW a, NEW n, NEW x, NEW s,
         Becomes(cyc', cyc, c, Cycle(p, q, a, n, x, s))
  PROVE  Moves(c, p, q, a, n, x, s)
  BY DEF Becomes, Cycle, Moves

LEMMA DroppedIf ==
  ASSUME NEW r, r.pc \notin {"idle"} \cup Ended
  PROVE  /\ Dropped(r, Broken(r))
         /\ r.pc = "act" => Dropped(r, Done)
  BY Endings DEF Dropped, Ended

LEMMA StartShape ==
  ASSUME IInv, NEW c \in Cycles, Start(c)
  PROVE  /\ cyc[c].pc = "idle" /\ (Overlap \/ \A d \in Cycles : cyc[d].pc \in {"idle"} \cup Ended)
         /\ \E q \in SUBSET Proposals : Moves(c, "guard", q, {}, {}, None, None)
         /\ UNCHANGED <<budget, remote, changes, log, pg, now>>
<1>1. PICK q \in SUBSET Proposals : cyc' = [cyc EXCEPT ![c].pc = "guard", ![c].queue = q]
  BY DEF Start
<1>2. Becomes(cyc', cyc, c, Cycle("guard", q, cyc[c].plan, cyc[c].seen, cyc[c].cur, cyc[c].status))
  BY <1>1, CycleWrites
<1>3. Moves(c, "guard", q, cyc[c].plan, cyc[c].seen, cyc[c].cur, cyc[c].status)
  BY <1>2, MovesIf
<1>4. cyc[c] = Idle
  BY DEF Start, IInv, Fits, Traceless
<1>5. /\ cyc[c].plan = {} /\ cyc[c].seen = {} /\ cyc[c].cur = None /\ cyc[c].status = None
  BY <1>4 DEF Idle
<1>6. Moves(c, "guard", q, {}, {}, None, None)
  BY <1>3, <1>5
<1> QED
  BY <1>6 DEF Start, platform, cooldown

LEMMA GuardShape ==
  ASSUME IInv, NEW c \in Cycles, Guard(c)
  PROVE  /\ cyc[c].pc = "guard" /\ UNCHANGED <<budget, remote, changes, log, pg, now>>
         /\ \E x \in cyc[c].queue :
              LET Q == cyc[c].queue \ {x}
                  N == IF Major(x) THEN cyc[c].seen \cup {x.entity} ELSE cyc[c].seen
              IN  \/ Moves(c, "guard", Q, cyc[c].plan, cyc[c].seen, cyc[c].cur, cyc[c].status)
                  \/ /\ ~OnCooldown(Key(x)) /\ ~Spent(c, x) /\ ~Abrupt(x)
                     /\ Moves(c, "guard", Q, cyc[c].plan \cup {Clamp(x)}, N, cyc[c].cur, cyc[c].status)
<1>1. PICK x \in First(cyc[c].queue) :
        IF ~Capable(x) \/ OnCooldown(Key(x)) \/ Spent(c, x) \/ Abrupt(x)
        THEN cyc' = [cyc EXCEPT ![c].queue = cyc[c].queue \ {x}]
        ELSE cyc' = [cyc EXCEPT ![c].queue = cyc[c].queue \ {x}, ![c].plan = cyc[c].plan \cup {Clamp(x)},
                       ![c].seen = IF Major(x) THEN cyc[c].seen \cup {x.entity} ELSE cyc[c].seen]
  BY DEF Guard
<1>2. /\ cyc[c].pc = "guard" /\ x \in cyc[c].queue /\ UNCHANGED <<budget, remote, changes, log, pg, now>>
  BY DEF Guard, First, platform, cooldown
<1> DEFINE Q == cyc[c].queue \ {x}
           N == IF Major(x) THEN cyc[c].seen \cup {x.entity} ELSE cyc[c].seen
           A == cyc[c].plan \cup {Clamp(x)}
<1>3. \/ cyc' = [cyc EXCEPT ![c].queue = Q]
      \/ /\ ~OnCooldown(Key(x)) /\ ~Spent(c, x) /\ ~Abrupt(x)
         /\ cyc' = [cyc EXCEPT ![c].queue = Q, ![c].plan = A, ![c].seen = N]
  BY <1>1
<1> SUFFICES \/ Moves(c, "guard", Q, cyc[c].plan, cyc[c].seen, cyc[c].cur, cyc[c].status)
             \/ /\ ~OnCooldown(Key(x)) /\ ~Spent(c, x) /\ ~Abrupt(x)
                /\ Moves(c, "guard", Q, A, N, cyc[c].cur, cyc[c].status)
  BY <1>2
<1> HIDE DEF Q, N, A
<1>4. CASE cyc' = [cyc EXCEPT ![c].queue = Q]
  <2>1. Becomes(cyc', cyc, c, Cycle(cyc[c].pc, Q, cyc[c].plan, cyc[c].seen, cyc[c].cur, cyc[c].status))
    BY <1>4, CycleWrites
  <2> QED
    BY <2>1, <1>2, MovesIf
<1>5. CASE cyc' = [cyc EXCEPT ![c].queue = Q, ![c].plan = A, ![c].seen = N]
  <2>1. Becomes(cyc', cyc, c, Cycle(cyc[c].pc, Q, A, N, cyc[c].cur, cyc[c].status))
    BY <1>5, CycleWrites
  <2>2. Moves(c, cyc[c].pc, Q, A, N, cyc[c].cur, cyc[c].status)
    BY <2>1, MovesIf
  <2>3. CASE ~OnCooldown(Key(x)) /\ ~Spent(c, x) /\ ~Abrupt(x)
    BY <2>2, <2>3, <1>2
  <2>4. CASE cyc' = [cyc EXCEPT ![c].queue = Q]
    BY <1>4, <2>4
  <2> QED
    BY <1>3, <2>3, <2>4
<1> QED
  BY <1>3, <1>4, <1>5

LEMMA RecallShape ==
  ASSUME IInv, NEW c \in Cycles, Recall(c)
  PROVE  /\ cyc[c].pc = "guard" /\ UNCHANGED <<budget, remote, changes, log, pg, now>>
         /\ cyc'[c].pc = "warm" /\ cyc'[c].queue \subseteq cyc[c].queue
         /\ cyc'[c].plan = cyc[c].plan /\ cyc'[c].seen = cyc[c].seen
         /\ \A d \in Cycles : d # c => cyc'[d] = cyc[d]
<1>1. PICK x \in cyc[c].queue :
        cyc' = [cyc EXCEPT ![c].pc = "warm", ![c].queue = cyc[c].queue \ {x},
                             ![c].cur = [key |-> Key(x), ttl |-> pg[Key(x)] - now]]
  BY DEF Recall, First
<1> DEFINE q == cyc[c].queue \ {x}
           w == [key |-> Key(x), ttl |-> pg[Key(x)] - now]
<1>2. cyc' = [cyc EXCEPT ![c].pc = "warm", ![c].queue = q, ![c].cur = w] /\ q \subseteq cyc[c].queue
  BY <1>1
<1> HIDE DEF q, w
<1>3. Becomes(cyc', cyc, c, Cycle("warm", q, cyc[c].plan, cyc[c].seen, w, cyc[c].status))
  BY <1>2, CycleWrites
<1>4. Moves(c, "warm", q, cyc[c].plan, cyc[c].seen, w, cyc[c].status)
  BY <1>3, MovesIf
<1> QED
  BY <1>2, <1>4 DEF Moves, Recall, platform, cooldown

LEMMA WarmShape ==
  ASSUME IInv, NEW c \in Cycles, Warm(c)
  PROVE  /\ cyc[c].pc = "warm" /\ UNCHANGED <<budget, remote, changes, log, pg, now>>
         /\ Moves(c, "guard", cyc[c].queue, cyc[c].plan, cyc[c].seen, cyc[c].cur, cyc[c].status)
<1>1. Becomes(cyc', cyc, c, Cycle("guard", cyc[c].queue, cyc[c].plan, cyc[c].seen, cyc[c].cur, cyc[c].status))
  BY CycleWrites DEF Warm
<1> QED
  BY <1>1, MovesIf DEF Warm, platform

LEMMA ValidatedShape ==
  ASSUME IInv, NEW c \in Cycles, Validated(c)
  PROVE  /\ cyc[c].pc = "guard" /\ UNCHANGED <<budget, remote, changes, log, pg, now>>
         /\ cyc[c].queue = {}
         /\ Moves(c, "act", cyc[c].queue, cyc[c].plan, cyc[c].seen, cyc[c].cur, cyc[c].status)
<1>1. Becomes(cyc', cyc, c, Cycle("act", cyc[c].queue, cyc[c].plan, cyc[c].seen, cyc[c].cur, cyc[c].status))
  BY CycleWrites DEF Validated
<1> QED
  BY <1>1, MovesIf DEF Validated, platform, cooldown

LEMMA SuggestShape ==
  ASSUME IInv, NEW c \in Cycles, Suggest(c)
  PROVE  /\ cyc[c].pc = "act" /\ UNCHANGED <<budget, remote, changes, pg, now>>
         /\ \E x \in cyc[c].plan :
              Moves(c, "act", cyc[c].queue, cyc[c].plan \ {x}, cyc[c].seen, cyc[c].cur, cyc[c].status)
<1>1. PICK x \in cyc[c].plan : cyc' = [cyc EXCEPT ![c].plan = cyc[c].plan \ {x}]
  BY DEF Suggest, First
<1> DEFINE A == cyc[c].plan \ {x}
<1>2. cyc' = [cyc EXCEPT ![c].plan = A]
  BY <1>1
<1> SUFFICES Moves(c, "act", cyc[c].queue, A, cyc[c].seen, cyc[c].cur, cyc[c].status)
  BY <1>1 DEF Suggest, platform, cooldown
<1> HIDE DEF A
<1>3. Becomes(cyc', cyc, c, Cycle(cyc[c].pc, cyc[c].queue, A, cyc[c].seen, cyc[c].cur, cyc[c].status))
  BY <1>2, CycleWrites
<1> QED
  BY <1>3, MovesIf DEF Suggest

LEMMA ApplyShape ==
  ASSUME IInv, NEW c \in Cycles, Apply(c)
  PROVE  /\ cyc[c].pc = "act" /\ UNCHANGED <<budget, remote, changes, log, pg, now>>
         /\ \E x \in cyc[c].plan :
              Moves(c, "call", cyc[c].queue, cyc[c].plan \ {x}, cyc[c].seen, x, cyc[c].status)
<1>1. PICK x \in cyc[c].plan : cyc' = [cyc EXCEPT ![c].pc = "call", ![c].plan = cyc[c].plan \ {x}, ![c].cur = x]
  BY DEF Apply, First
<1> DEFINE A == cyc[c].plan \ {x}
<1>2. cyc' = [cyc EXCEPT ![c].pc = "call", ![c].plan = A, ![c].cur = x]
  BY <1>1
<1> SUFFICES Moves(c, "call", cyc[c].queue, A, cyc[c].seen, x, cyc[c].status)
  BY <1>1 DEF Apply, platform, cooldown
<1> HIDE DEF A
<1>3. Becomes(cyc', cyc, c, Cycle("call", cyc[c].queue, A, cyc[c].seen, x, cyc[c].status))
  BY <1>2, CycleWrites
<1> QED
  BY <1>3, MovesIf

LEMMA CallShape ==
  ASSUME IInv, NEW c \in Cycles, Call(c)
  PROVE  /\ cyc[c].pc = "call" /\ UNCHANGED <<budget, log, pg, now>>
         /\ \/ /\ Carry(c, cyc[c].cur)
               /\ Moves(c, "store", cyc[c].queue, cyc[c].plan, cyc[c].seen, cyc[c].cur, None)
            \/ /\ UNCHANGED <<remote, changes>> \/ (LostAnswers /\ Carry(c, cyc[c].cur))
               /\ Moves(c, "log", cyc[c].queue, cyc[c].plan, cyc[c].seen, cyc[c].cur, "FAILED")
<1>1. cyc[c].pc = "call" /\ UNCHANGED <<budget, log, pg, now>>
  BY DEF Call, cooldown
<1>2. \/ /\ Carry(c, cyc[c].cur)
         /\ cyc' = [cyc EXCEPT ![c].pc = "store", ![c].status = None]
      \/ /\ UNCHANGED <<remote, changes>> \/ (LostAnswers /\ Carry(c, cyc[c].cur))
         /\ cyc' = [cyc EXCEPT ![c].pc = "log", ![c].status = "FAILED"]
  BY DEF Call, AfterCall, platform
<1>3. ASSUME cyc' = [cyc EXCEPT ![c].pc = "store", ![c].status = None]
      PROVE  Moves(c, "store", cyc[c].queue, cyc[c].plan, cyc[c].seen, cyc[c].cur, None)
  <2>1. Becomes(cyc', cyc, c, Cycle("store", cyc[c].queue, cyc[c].plan, cyc[c].seen, cyc[c].cur, None))
    BY <1>3, CycleWrites
  <2> QED
    BY <2>1, MovesIf
<1>4. ASSUME cyc' = [cyc EXCEPT ![c].pc = "log", ![c].status = "FAILED"]
      PROVE  Moves(c, "log", cyc[c].queue, cyc[c].plan, cyc[c].seen, cyc[c].cur, "FAILED")
  <2>1. Becomes(cyc', cyc, c, Cycle("log", cyc[c].queue, cyc[c].plan, cyc[c].seen, cyc[c].cur, "FAILED"))
    BY <1>4, CycleWrites
  <2> QED
    BY <2>1, MovesIf
<1>5. CASE /\ Carry(c, cyc[c].cur)
           /\ cyc' = [cyc EXCEPT ![c].pc = "store", ![c].status = None]
  BY <1>1, <1>3, <1>5, Zenon
<1>6. CASE /\ UNCHANGED <<remote, changes>> \/ (LostAnswers /\ Carry(c, cyc[c].cur))
           /\ cyc' = [cyc EXCEPT ![c].pc = "log", ![c].status = "FAILED"]
  BY <1>1, <1>4, <1>6, Zenon
<1> QED
  BY <1>2, <1>5, <1>6, Zenon

LEMMA StoreShape ==
  ASSUME IInv, NEW c \in Cycles, Store(c)
  PROVE  /\ cyc[c].pc = "store" /\ UNCHANGED <<remote, changes, log, pg, now>>
         /\ \/ /\ Moves(c, "log", cyc[c].queue, cyc[c].plan, cyc[c].seen, cyc[c].cur, "APPLIED")
               /\ budget' = Stored(cyc[c].cur)
            \/ /\ Moves(c, "log", cyc[c].queue, cyc[c].plan, cyc[c].seen, cyc[c].cur, "FAILED")
               /\ budget' \in {budget, Stored(cyc[c].cur)}
<1>1. cyc[c].pc = "store" /\ UNCHANGED <<remote, changes, log, pg, now>>
  BY DEF Store, cooldown, platform
<1>2. ASSUME NEW s, cyc' = [cyc EXCEPT ![c].pc = "log", ![c].status = s]
      PROVE  Moves(c, "log", cyc[c].queue, cyc[c].plan, cyc[c].seen, cyc[c].cur, s)
  <2>1. Becomes(cyc', cyc, c, Cycle("log", cyc[c].queue, cyc[c].plan, cyc[c].seen, cyc[c].cur, s))
    BY <1>2, CycleWrites
  <2> QED
    BY <2>1, MovesIf
<1>3. CASE budget' = Stored(cyc[c].cur) /\ cyc' = [cyc EXCEPT ![c].pc = "log", ![c].status = "APPLIED"]
  BY <1>1, <1>2, <1>3
<1>4. CASE budget' \in {budget, Stored(cyc[c].cur)} /\ cyc' = [cyc EXCEPT ![c].pc = "log", ![c].status = "FAILED"]
  BY <1>1, <1>2, <1>4
<1> QED
  BY <1>3, <1>4 DEF Store

LEMMA LogShape ==
  ASSUME IInv, NEW c \in Cycles, Log(c)
  PROVE  /\ cyc[c].pc = "log" /\ UNCHANGED <<budget, remote, changes, pg, now>>
         /\ Moves(c, AfterLog(cyc[c].status), cyc[c].queue, cyc[c].plan, cyc[c].seen, cyc[c].cur, cyc[c].status)
         /\ log'[LogId(c, cyc[c].cur)] # "none"
<1> DEFINE p == AfterLog(cyc[c].status)
<1>1. cyc' = [cyc EXCEPT ![c].pc = p] /\ log' = [log EXCEPT ![LogId(c, cyc[c].cur)] = cyc[c].status]
  BY DEF Log, Record
<1>2. cyc[c].pc = "log" /\ UNCHANGED <<budget, remote, changes, pg, now>>
  BY DEF Log, cooldown, platform
<1> HIDE DEF p
<1>3. Becomes(cyc', cyc, c, Cycle(p, cyc[c].queue, cyc[c].plan, cyc[c].seen, cyc[c].cur, cyc[c].status))
  BY <1>1, CycleWrites
<1>4. Moves(c, p, cyc[c].queue, cyc[c].plan, cyc[c].seen, cyc[c].cur, cyc[c].status)
  BY <1>3, MovesIf
<1>5. log'[LogId(c, cyc[c].cur)] # "none"
  <2>1. IsAction(cyc[c].cur) /\ cyc[c].status \in {"APPLIED", "FAILED"}
    BY <1>2 DEF IInv, Fits, AtHand
  <2>2. LogId(c, cyc[c].cur) \in Ids
    BY <2>1, EntryOf
  <2> QED
    BY <1>1, <2>1, <2>2, LogWritten DEF IInv, Typed, Statuses
<1> QED
  BY <1>2, <1>4, <1>5 DEF p

LEMMA CoolShape ==
  ASSUME IInv, NEW c \in Cycles, Cool(c)
  PROVE  /\ cyc[c].pc = "cool" /\ UNCHANGED <<budget, remote, changes, log, now>>
         /\ Moves(c, "cache", cyc[c].queue, cyc[c].plan, cyc[c].seen, cyc[c].cur, cyc[c].status)
         /\ pg' = [pg EXCEPT ![Key(cyc[c].cur)] = Expiry]
<1>1. Becomes(cyc', cyc, c, Cycle("cache", cyc[c].queue, cyc[c].plan, cyc[c].seen, cyc[c].cur, cyc[c].status))
  BY CycleWrites DEF Cool
<1> QED
  BY <1>1, MovesIf DEF Cool, platform

LEMMA CacheShape ==
  ASSUME IInv, NEW c \in Cycles, Cache(c)
  PROVE  /\ cyc[c].pc = "cache" /\ UNCHANGED <<budget, remote, changes, log, pg, now>>
         /\ Moves(c, "act", cyc[c].queue, cyc[c].plan, cyc[c].seen, cyc[c].cur, cyc[c].status)
<1>1. Becomes(cyc', cyc, c, Cycle("act", cyc[c].queue, cyc[c].plan, cyc[c].seen, cyc[c].cur, cyc[c].status))
  BY CycleWrites DEF Cache
<1> QED
  BY <1>1, MovesIf DEF Cache, platform

\* A cycle that comes to its end, or breaks off.
LEMMA EndShape ==
  ASSUME IInv, NEW c \in Cycles, Finish(c) \/ Throw(c)
  PROVE  /\ Ends(c) /\ UNCHANGED <<budget, remote, changes, pg, now>>
         /\ UNCHANGED log \/ (cyc[c].pc = "log" /\ Record(c, cyc[c].cur, cyc[c].status))
<1>1. CASE Finish(c)
  <2>1. Becomes(cyc', cyc, c, Done) /\ cyc[c].pc = "act"
    BY <1>1, CycleWrites DEF Finish
  <2>2. Dropped(cyc[c], Done)
    BY <2>1, DroppedIf DEF Ended
  <2>3. Ends(c)
    BY <2>1, <2>2 DEF Ends, Becomes
  <2> QED
    BY <1>1, <2>3 DEF Finish, platform, cooldown
<1>2. CASE Throw(c)
  <2>1. PICK r : r = Broken(cyc[c])
    OBVIOUS
  <2>2. Becomes(cyc', cyc, c, r) /\ cyc[c].pc \in {"guard", "act", "log", "cool", "warm", "cache"}
    BY <1>2, <2>1, CycleWrites DEF Throw
  <2>3. Dropped(cyc[c], r)
    BY <2>1, <2>2, DroppedIf DEF Ended
  <2>4. Ends(c)
    BY <2>2, <2>3 DEF Ends, Becomes
  <2> QED
    BY <1>2, <2>4 DEF Throw, platform, cooldown
<1> QED
  BY <1>1, <1>2

\* All the cycles that run break off at once.
LEMMA CrashShape ==
  ASSUME IInv, Crash
  PROVE  /\ UNCHANGED <<budget, remote, changes, log, pg, now>>
         /\ \A c \in Cycles : cyc'[c] = cyc[c] \/ Dropped(cyc[c], cyc'[c])
<1>1. /\ cyc' = [c \in Cycles |-> IF cyc[c].pc \in {"idle"} \cup Ended THEN cyc[c] ELSE Broken(cyc[c])]
      /\ UNCHANGED <<budget, remote, changes, log, pg, now>>
  BY DEF Crash, platform, cooldown
<1>2. ASSUME NEW c \in Cycles, cyc[c].pc \notin {"idle"} \cup Ended PROVE Dropped(cyc[c], cyc'[c])
  <2>1. PICK r : r = Broken(cyc[c])
    OBVIOUS
  <2>2. cyc'[c] = r
    BY <1>1, <1>2, <2>1
  <2> QED
    BY <1>2, <2>1, <2>2, DroppedIf
<1> QED
  BY <1>1, <1>2

\* Everything that is not a step of a cycle.
LEMMA OutsideShape ==
  ASSUME IInv, [Next]_vars, ~(\E c \in Cycles : Start(c) \/ Step(c) \/ Throw(c)), ~Crash
  PROVE  /\ UNCHANGED <<cyc, budget, remote, changes, pg>>
         /\ now' = now \/ now' = now + 1
         /\ \A j \in Ids : log[j] # "none" => log'[j] # "none"
<1>1. CASE UNCHANGED vars
  BY <1>1 DEF vars, platform, cooldown
<1>2. ASSUME NEW i \in Ids, ReadForApproval(i) \/ WriteApproval(i) \/ Reject(i)
      PROVE  /\ UNCHANGED <<cyc, budget, remote, changes, pg, now>>
             /\ \A j \in Ids : log[j] # "none" => log'[j] # "none"
  BY <1>2 DEF ReadForApproval, WriteApproval, Reject, platform, cooldown, IInv, Typed
<1>3. CASE Edit \/ Tick \/ RedisLost
  BY <1>3 DEF Edit, Tick, RedisLost, platform, cooldown
<1> QED
  BY <1>1, <1>2, <1>3 DEF Next

-----------------------------------------------------------------------------
(* One action of a kind and cycle *)

LEMMA ClashSymmetric == ASSUME NEW x, NEW y PROVE Clash(x, y) <=> Clash(y, x)
  BY DEF Clash, SameAction

LEMMA ClashAlike ==
  ASSUME NEW x, NEW y, NEW z, SameAction(x, y) PROVE Clash(x, z) <=> Clash(y, z)
  BY DEF Clash, SameAction, Major

\* A cycle that plans no more than before, and calls no one.
LEMMA SingleKept ==
  ASSUME NEW c, NEW r, NEW s, NEW ch, Single(c, r, ch), s.plan \subseteq r.plan, s.seen = r.seen,
         s.pc \in {"idle", "guard", "warm"} => r.pc \in {"idle", "guard", "warm"},
         s.pc # "call", s.pc = "store" => r.pc = "call" /\ s.cur = r.cur
  PROVE  Single(c, s, ch)
  BY DEF Single

LEMMA SingleQuiet ==
  ASSUME SingleInv, NEW c \in Cycles, UNCHANGED changes, Single(c, cyc'[c], changes),
         \A d \in Cycles : d # c => cyc'[d] = cyc[d]
  PROVE  SingleInv'
  BY DEF SingleInv

LEMMA SingleGuard ==
  ASSUME IInv, SingleInv, NEW c \in Cycles, Guard(c)
  PROVE  SingleInv'
<1>1. /\ cyc[c].pc = "guard" /\ UNCHANGED changes
      /\ Single(c, cyc[c], changes) /\ Fits(c, cyc[c], log, changes)
  BY GuardShape DEF SingleInv, IInv
<1>2. PICK x \in cyc[c].queue :
        LET Q == cyc[c].queue \ {x}
            N == IF Major(x) THEN cyc[c].seen \cup {x.entity} ELSE cyc[c].seen
        IN  \/ Moves(c, "guard", Q, cyc[c].plan, cyc[c].seen, cyc[c].cur, cyc[c].status)
            \/ /\ ~OnCooldown(Key(x)) /\ ~Spent(c, x) /\ ~Abrupt(x)
               /\ Moves(c, "guard", Q, cyc[c].plan \cup {Clamp(x)}, N, cyc[c].cur, cyc[c].status)
  BY GuardShape
<1>3. \A d \in Cycles : d # c => cyc'[d] = cyc[d]
  BY <1>2 DEF Moves
<1>4. CASE cyc'[c].pc = "guard" /\ cyc'[c].plan = cyc[c].plan /\ cyc'[c].seen = cyc[c].seen
  <2>1. Single(c, cyc'[c], changes)
    BY <1>1, <1>4, SingleKept
  <2> QED
    BY <1>1, <1>3, <2>1, SingleQuiet
<1>5. CASE /\ ~Spent(c, x) /\ cyc'[c].pc = "guard" /\ cyc'[c].plan = cyc[c].plan \cup {Clamp(x)}
           /\ cyc'[c].seen = IF Major(x) THEN cyc[c].seen \cup {x.entity} ELSE cyc[c].seen
  <2>1. IsAction(x) /\ SameAction(Clamp(x), x) /\ \A y \in cyc[c].plan : ~SameAction(y, x)
    BY <1>1, ClampKeeps DEF Fits, Once, Open
  <2>2. \A y \in cyc[c].plan : ~Clash(y, x)
    BY <1>1, <1>5, <2>1 DEF Single, Clash, Spent
  <2>3. \A y \in cyc[c].plan : ~Clash(y, Clamp(x)) /\ ~Clash(Clamp(x), y)
    BY <2>1, <2>2, ClashAlike, ClashSymmetric
  <2>4. \A z \in changes : z.by # c
    BY <1>1 DEF Single
  <2>5. \A y \in cyc'[c].plan : Major(y) => y.entity \in cyc'[c].seen
    BY <1>1, <1>5, <2>1 DEF Single, SameAction, Major
  <2>6. \A y, z \in cyc'[c].plan : Clash(y, z) => y = z
    BY <1>1, <1>5, <2>3 DEF Single
  <2>7. Single(c, cyc'[c], changes)
    BY <1>5, <2>4, <2>5, <2>6 DEF Single
  <2> QED
    BY <1>1, <1>3, <2>7, SingleQuiet
<1> QED
  BY <1>2, <1>4, <1>5 DEF Moves

LEMMA SingleApply ==
  ASSUME IInv, SingleInv, NEW c \in Cycles, Apply(c)
  PROVE  SingleInv'
<1>1. PICK x \in cyc[c].plan :
        /\ cyc'[c].pc = "call" /\ cyc'[c].plan = cyc[c].plan \ {x} /\ cyc'[c].cur = x
        /\ cyc'[c].seen = cyc[c].seen /\ \A d \in Cycles : d # c => cyc'[d] = cyc[d]
  BY ApplyShape DEF Moves
<1>2. Single(c, cyc[c], changes) /\ UNCHANGED changes
  BY ApplyShape DEF SingleInv
<1>3. Single(c, cyc'[c], changes)
  BY <1>1, <1>2, ClashSymmetric DEF Single
<1> QED
  BY <1>1, <1>2, <1>3, SingleQuiet

\* A change stands for the action at hand.
LEMMA ChangeOf ==
  ASSUME NEW c, NEW x
  PROVE  LET z == Change(c, x)
         IN  /\ z.by = c /\ z.entity = x.entity /\ z.rule = x.rule /\ SameAction(z, x)
             /\ z.at = now /\ z.n = Cardinality(changes) /\ z.to = x.value
             /\ z.from = IF Major(x) THEN remote[x.entity] ELSE None
  BY DEF Change, SameAction

LEMMA SingleCall ==
  ASSUME IInv, SingleInv, NEW c \in Cycles, Call(c)
  PROVE  SingleInv'
<1> DEFINE x == cyc[c].cur
           y == Change(c, x)
<1>1. /\ cyc'[c].pc \in {"store", "log"} /\ cyc'[c].plan = cyc[c].plan /\ cyc'[c].seen = cyc[c].seen
      /\ cyc'[c].cur = x /\ \A d \in Cycles : d # c => cyc'[d] = cyc[d]
      /\ UNCHANGED changes \/ (changes' = changes \cup {y} /\ Writes(x))
      /\ cyc[c].pc = "call"
  BY CallShape DEF Moves, Carry, platform
<1>2. Single(c, cyc[c], changes)
  BY DEF SingleInv
<1>3. CASE UNCHANGED changes
  <2>1. Single(c, cyc'[c], changes)
    BY <1>1, <1>2, SingleKept
  <2> QED
    BY <1>1, <1>3, <2>1, SingleQuiet
<1>4. CASE changes' = changes \cup {y} /\ Writes(x)
  <2>1. y.by = c /\ SameAction(y, x) /\ Writes(y) /\ (y.from # None => Major(y))
    BY <1>4, ChangeOf DEF Writes, Major
  <2> HIDE DEF y, x
  <2>2. /\ \A z \in changes : z.by = c => ~Clash(z, y) /\ ~Clash(y, z)
        /\ \A z \in cyc[c].plan : ~Clash(z, y)
    BY <1>1, <1>2, <2>1, ClashAlike, ClashSymmetric DEF Single, x
  <2>3. Single(c, cyc'[c], changes')
    BY <1>1, <1>2, <1>4, <2>1, <2>2 DEF Single, x
  <2>4. ASSUME NEW d \in Cycles, d # c PROVE Single(d, cyc'[d], changes')
    <3>1. Single(d, cyc[d], changes) /\ cyc'[d] = cyc[d] /\ \A z \in changes' : z.by = d => z \in changes
      BY <1>1, <1>4, <2>1, <2>4 DEF SingleInv
    <3> QED
      BY <3>1 DEF Single
  <2>5. \A z, w \in changes' : z.by = w.by /\ Clash(z, w) => z = w
    BY <1>4, <2>1, <2>2 DEF SingleInv
  <2>6. \A z \in changes' : Writes(z) /\ (z.from # None => Major(z))
    BY <1>4, <2>1 DEF SingleInv
  <2> QED
    BY <2>3, <2>4, <2>5, <2>6 DEF SingleInv
<1> QED
  BY <1>1, <1>3, <1>4

LEMMA SingleStart ==
  ASSUME IInv, SingleInv, NEW c \in Cycles, Start(c)
  PROVE  SingleInv'
<1>1. cyc[c].pc = "idle" /\ UNCHANGED changes
  BY StartShape
<1>2. \A z \in changes : z.by # c
  BY <1>1 DEF IInv, Fits, Traceless
<1>3. cyc'[c].pc = "guard" /\ cyc'[c].plan = {} /\ \A d \in Cycles : d # c => cyc'[d] = cyc[d]
  BY StartShape DEF Moves
<1>4. Single(c, cyc'[c], changes)
  BY <1>2, <1>3 DEF Single
<1> QED
  BY <1>1, <1>3, <1>4, SingleQuiet

\* Steps that take nothing up.
LEMMA SingleMoves ==
  ASSUME IInv, SingleInv, NEW c \in Cycles,
         \/ Recall(c) \/ Warm(c) \/ Validated(c) \/ Suggest(c) \/ Store(c) \/ Log(c)
         \/ Cool(c) \/ Cache(c) \/ Finish(c) \/ Throw(c)
  PROVE  SingleInv'
<1>1. Single(c, cyc[c], changes)
  BY DEF SingleInv
<1>2. CASE Finish(c) \/ Throw(c)
  <2>1. UNCHANGED changes /\ Ends(c)
    BY <1>2, EndShape
  <2>2. Single(c, cyc'[c], changes)
    BY <1>1, <2>1 DEF Single, Ends, Dropped, Ended
  <2> QED
    BY <2>1, <2>2, SingleQuiet DEF Ends
<1>3. CASE Validated(c) \/ Suggest(c) \/ Store(c) \/ Log(c) \/ Cool(c) \/ Cache(c)
  <2>1. /\ UNCHANGED changes /\ cyc'[c].pc \in {"act", "log", "cool", "cache"}
        /\ cyc'[c].plan \subseteq cyc[c].plan /\ cyc'[c].seen = cyc[c].seen
        /\ \A d \in Cycles : d # c => cyc'[d] = cyc[d]
    <3>1. CASE Validated(c) \/ Suggest(c) \/ Store(c)
      BY <3>1, ValidatedShape, SuggestShape, StoreShape DEF Moves
    <3>2. CASE Log(c) \/ Cool(c) \/ Cache(c)
      BY <3>2, LogShape, CoolShape, CacheShape DEF Moves, AfterLog
    <3> QED
      BY <1>3, <3>1, <3>2
  <2>2. Single(c, cyc'[c], changes)
    BY <1>1, <2>1, SingleKept
  <2> QED
    BY <2>1, <2>2, SingleQuiet
<1>4. CASE Recall(c) \/ Warm(c)
  <2>1. /\ UNCHANGED changes /\ cyc'[c].pc \in {"warm", "guard"} /\ cyc[c].pc \in {"warm", "guard"}
        /\ cyc'[c].plan \subseteq cyc[c].plan /\ cyc'[c].seen = cyc[c].seen
        /\ \A d \in Cycles : d # c => cyc'[d] = cyc[d]
    BY <1>4, RecallShape, WarmShape DEF Moves
  <2>2. Single(c, cyc'[c], changes)
    BY <1>1, <2>1, SingleKept
  <2> QED
    BY <2>1, <2>2, SingleQuiet
<1> QED
  BY <1>2, <1>3, <1>4

LEMMA SingleInit == Init => SingleInv
<1> SUFFICES ASSUME Init PROVE SingleInv
  OBVIOUS
<1>1. changes = {} /\ \A c \in Cycles : cyc[c].pc = "idle" /\ cyc[c].plan = {}
  BY DEF Init, Idle
<1> QED
  BY <1>1 DEF SingleInv, Single

LEMMA SingleNext == IInv /\ SingleInv /\ [Next]_vars => SingleInv'
<1> SUFFICES ASSUME IInv, SingleInv, [Next]_vars PROVE SingleInv'
  OBVIOUS
<1>1. ASSUME NEW c \in Cycles, Start(c) \/ Step(c) \/ Throw(c) PROVE SingleInv'
  BY <1>1, SingleStart, SingleGuard, SingleApply, SingleCall, SingleMoves DEF Step
<1>2. CASE Crash
  <2>1. UNCHANGED changes /\ \A c \in Cycles : cyc'[c] = cyc[c] \/ Dropped(cyc[c], cyc'[c])
    BY <1>2, CrashShape
  <2>2. ASSUME NEW c \in Cycles PROVE Single(c, cyc'[c], changes)
    BY <2>1 DEF SingleInv, Single, Dropped, Ended
  <2> QED
    BY <2>1, <2>2 DEF SingleInv
<1>3. CASE ~(\E c \in Cycles : Start(c) \/ Step(c) \/ Throw(c)) /\ ~Crash
  BY <1>3, OutsideShape DEF SingleInv
<1> QED
  BY <1>1, <1>2, <1>3

\* "No more than one major budget action per cycle" and entity (guardrail
\* G3): however cycles overlap, and whatever is lost or dies.
THEOREM OneBudgetAction == Spec => []OneBudgetActionPerCycle
<1>1. IInv /\ SingleInv => OneBudgetActionPerCycle
  BY DEF SingleInv, OneBudgetActionPerCycle, Clash
<1>2. Spec => []SingleInv
  BY Invariance, SingleInit, SingleNext, PTL DEF Spec
<1> QED
  BY <1>1, <1>2, Invariance, PTL

-----------------------------------------------------------------------------
(* What was done is logged *)

\* The action log only grows.
LEMMA LogGrows ==
  ASSUME IInv, [Next]_vars
  PROVE  \A j \in Ids : log[j] # "none" => log'[j] # "none"
<1>1. ASSUME NEW c \in Cycles, Step(c) PROVE \A j \in Ids : log[j] # "none" => log'[j] # "none"
  <2>1. CASE Suggest(c)
    <3>1. PICK x \in cyc[c].plan : Record(c, x, "PENDING")
      BY <2>1 DEF Suggest, First
    <3>2. IsAction(x)
      BY DEF IInv, Fits, Once, Open
    <3> QED
      BY <3>1, <3>2, EntryOf, LogWritten DEF Record, IInv, Typed, Statuses
  <2>2. CASE Log(c)
    <3>1. /\ log' = [log EXCEPT ![LogId(c, cyc[c].cur)] = cyc[c].status]
          /\ cyc[c].pc = "log"
      BY <2>2 DEF Log, Record
    <3>2. IsAction(cyc[c].cur) /\ cyc[c].status \in {"APPLIED", "FAILED"}
      BY <3>1 DEF IInv, Fits, AtHand
    <3>3. LogId(c, cyc[c].cur) \in Ids
      BY <3>2, EntryOf
    <3> QED
      BY <3>1, <3>2, <3>3, LogWritten DEF IInv, Typed, Statuses
  <2>3. CASE Guard(c) \/ Recall(c) \/ Warm(c) \/ Validated(c) \/ Apply(c) \/ Call(c)
    BY <2>3, GuardShape, RecallShape, WarmShape, ValidatedShape, ApplyShape, CallShape
  <2>4. CASE Store(c) \/ Cool(c) \/ Cache(c) \/ Finish(c)
    BY <2>4, StoreShape, CoolShape, CacheShape DEF Finish
  <2> QED
    BY <1>1, <2>1, <2>2, <2>3, <2>4 DEF Step
<1>2. ASSUME NEW c \in Cycles, Throw(c) PROVE \A j \in Ids : log[j] # "none" => log'[j] # "none"
  <2>1. CASE UNCHANGED log
    BY <2>1
  <2>2. CASE cyc[c].pc = "log" /\ Record(c, cyc[c].cur, cyc[c].status)
    <3>1. UNCHANGED <<now, changes, pg, redis>>
      BY <1>2 DEF Throw, platform, cooldown
    <3> QED
      BY <2>2, <3>1, EntryWritten
  <2> QED
    BY <1>2, <2>1, <2>2, EndShape
<1>3. ASSUME NEW c \in Cycles, Start(c) PROVE UNCHANGED log
  BY <1>3, StartShape
<1>4. CASE Crash
  BY <1>4 DEF Crash
<1>5. CASE ~(\E c \in Cycles : Start(c) \/ Step(c) \/ Throw(c)) /\ ~Crash
  BY <1>5, OutsideShape
<1> QED
  BY <1>1, <1>2, <1>3, <1>4, <1>5

LEMMA LoggedNext ==
  ASSUME IInv, LoggedInv, [Next]_vars
  PROVE  LoggedInv'
<1>1. ASSUME NEW x \in changes, NEW c \in Cycles, c = x.by,
             cyc'[c].pc = cyc[c].pc /\ cyc'[c].cur = cyc[c].cur
      PROVE  Logging(x)'
  <2>1. <<x.by, x.entity, x.rule>> \in Ids
    BY DEF IInv, Typed, Ids
  <2> QED
    BY <1>1, <2>1, LogGrows DEF LoggedInv, Logging
<1>2. \A x \in changes : x.by \in Cycles /\ <<x.by, x.entity, x.rule>> \in Ids
  BY DEF IInv, Typed, Ids
<1>3. CASE UNCHANGED <<cyc, changes>>
  BY <1>1, <1>2, <1>3 DEF LoggedInv
<1>4. ASSUME NEW c \in Cycles, UNCHANGED changes, \A d \in Cycles : d # c => cyc'[d] = cyc[d],
             cyc[c].pc \notin {"store", "log", "torn"}
      PROVE  LoggedInv'
  <2> SUFFICES ASSUME NEW x \in changes PROVE Logging(x)'
    BY <1>4 DEF LoggedInv
  <2>1. CASE x.by = c
    <3>1. log[<<x.by, x.entity, x.rule>>] # "none"
      BY <1>4, <2>1 DEF LoggedInv, Logging
    <3> QED
      BY <3>1, <1>2, LogGrows DEF Logging
  <2>2. CASE x.by # c
    BY <1>1, <1>2, <1>4, <2>2
  <2> QED
    BY <2>1, <2>2
<1>5. ASSUME NEW c \in Cycles, \/ Start(c) \/ Guard(c) \/ Recall(c) \/ Warm(c) \/ Validated(c)
                                \/ Suggest(c) \/ Apply(c) \/ Cool(c) \/ Cache(c)
      PROVE  LoggedInv'
  <2>1. /\ UNCHANGED changes /\ \A d \in Cycles : d # c => cyc'[d] = cyc[d]
        /\ cyc[c].pc \in {"idle", "guard", "warm", "act", "cool", "cache"}
    <3>1. CASE Start(c) \/ Guard(c) \/ Recall(c) \/ Warm(c) \/ Validated(c)
      BY <3>1, StartShape, GuardShape, RecallShape, WarmShape, ValidatedShape DEF Moves
    <3>2. CASE Suggest(c) \/ Apply(c) \/ Cool(c) \/ Cache(c)
      BY <3>2, SuggestShape, ApplyShape, CoolShape, CacheShape DEF Moves
    <3> QED
      BY <1>5, <3>1, <3>2
  <2> QED
    BY <1>4, <2>1
<1>6. ASSUME UNCHANGED changes, \A d \in Cycles : cyc'[d] = cyc[d] \/ Dropped(cyc[d], cyc'[d])
      PROVE  LoggedInv'
  <2> SUFFICES ASSUME NEW x \in changes PROVE Logging(x)'
    BY <1>6 DEF LoggedInv
  <2>1. CASE log[<<x.by, x.entity, x.rule>>] # "none"
    BY <1>2, <2>1, LogGrows DEF Logging
  <2>2. CASE cyc[x.by].pc \in {"store", "log", "torn"} /\ SameAction(x, cyc[x.by].cur)
    <3>1. cyc'[x.by] = cyc[x.by] \/ Dropped(cyc[x.by], cyc'[x.by])
      BY <1>2, <1>6
    <3> QED
      BY <2>2, <3>1 DEF Logging, Dropped, Ended
  <2> QED
    BY <2>1, <2>2 DEF LoggedInv, Logging
<1>7. ASSUME NEW c \in Cycles, Call(c) PROVE LoggedInv'
  <2>0. PICK y : y = Change(c, cyc[c].cur)
    OBVIOUS
  <2>1. /\ cyc[c].pc = "call" /\ cyc'[c].pc \in {"store", "log"} /\ cyc'[c].cur = cyc[c].cur
        /\ \A d \in Cycles : d # c => cyc'[d] = cyc[d]
        /\ UNCHANGED changes \/ changes' = changes \cup {y}
    BY <1>7, <2>0, CallShape DEF Moves, Carry, platform
  <2>2. y.by = c /\ SameAction(y, cyc[c].cur)
    BY <2>0, ChangeOf
  <2>3. Logging(y)'
    BY <2>1, <2>2 DEF Logging
  <2>4. ASSUME NEW x \in changes PROVE Logging(x)'
    <3>1. CASE x.by = c
      <4>1. log[<<x.by, x.entity, x.rule>>] # "none"
        BY <2>1, <3>1 DEF LoggedInv, Logging
      <4> QED
        BY <4>1, <1>2, LogGrows DEF Logging
    <3>2. CASE x.by # c
      BY <1>1, <1>2, <2>1, <3>2
    <3> QED
      BY <3>1, <3>2
  <2> QED
    BY <2>1, <2>3, <2>4 DEF LoggedInv
<1>8. ASSUME NEW c \in Cycles, Store(c) PROVE LoggedInv'
  <2>1. /\ cyc[c].pc = "store" /\ cyc'[c].pc = "log" /\ cyc'[c].cur = cyc[c].cur
        /\ \A d \in Cycles : d # c => cyc'[d] = cyc[d]
        /\ UNCHANGED changes
    BY <1>8, StoreShape DEF Moves
  <2> SUFFICES ASSUME NEW x \in changes PROVE Logging(x)'
    BY <2>1 DEF LoggedInv
  <2>2. CASE x.by = c
    BY <1>2, <2>1, <2>2, LogGrows DEF LoggedInv, Logging
  <2>3. CASE x.by # c
    BY <1>1, <1>2, <2>1, <2>3
  <2> QED
    BY <2>2, <2>3
<1>9. ASSUME NEW c \in Cycles, Log(c) PROVE LoggedInv'
  <2>1. /\ cyc[c].pc = "log" /\ log'[LogId(c, cyc[c].cur)] # "none"
        /\ \A d \in Cycles : d # c => cyc'[d] = cyc[d]
        /\ UNCHANGED changes
    BY <1>9, LogShape DEF Moves
  <2> SUFFICES ASSUME NEW x \in changes PROVE Logging(x)'
    BY <2>1 DEF LoggedInv
  <2>2. CASE x.by = c
    <3>1. CASE log[<<x.by, x.entity, x.rule>>] # "none"
      BY <1>2, <3>1, LogGrows DEF Logging
    <3>2. CASE SameAction(x, cyc[c].cur)
      <4>1. LogId(c, cyc[c].cur) = <<x.by, x.entity, x.rule>>
        BY <2>2, <3>2 DEF LogId, SameAction
      <4> QED
        BY <2>1, <4>1 DEF Logging
    <3> QED
      BY <2>2, <3>1, <3>2 DEF LoggedInv, Logging
  <2>3. CASE x.by # c
    BY <1>1, <1>2, <2>1, <2>3
  <2> QED
    BY <2>2, <2>3
<1>10. CASE Crash
  BY <1>6, <1>10, CrashShape
<1>11. CASE ~(\E c \in Cycles : Start(c) \/ Step(c) \/ Throw(c)) /\ ~Crash
  BY <1>3, <1>11, OutsideShape
<1>12. ASSUME NEW c \in Cycles, Finish(c) \/ Throw(c) PROVE LoggedInv'
  BY <1>6, <1>12, EndShape DEF Ends
<1> QED
  BY <1>5, <1>7, <1>8, <1>9, <1>10, <1>11, <1>12 DEF Step

\* "All actions must be logged with before/after state": however cycles,
\* refusals, lost answers and reviews overlap, and whatever throws or dies,
\* only the change a cycle breaks off at is left out (executor.service.ts 76-127).
THEOREM LogCorrect == Spec => []ChangeIsLogged
<1>1. IInv /\ LoggedInv => ChangeIsLogged
  BY DEF LoggedInv, Logging, ChangeIsLogged, SameAction
<1>2. Init => LoggedInv
  BY DEF Init, LoggedInv
<1>3. IInv /\ LoggedInv /\ [Next]_vars => LoggedInv'
  BY LoggedNext
<1>4. Spec => []LoggedInv
  BY <1>2, <1>3, Invariance, PTL DEF Spec
<1> QED
  BY <1>1, <1>4, Invariance, PTL

-----------------------------------------------------------------------------
(* What went through *)

Id(z) == <<z.by, z.entity, z.rule>>

\* What a reviewer has read was not done at the platform.
ReviewedInv == \A z \in changes : Id(z) \notin review

LEMMA ReviewedNext ==
  ASSUME IInv, ReviewedInv, [Next]_vars
  PROVE  ReviewedInv'
<1>1. ASSUME NEW c \in Cycles, Call(c) PROVE ReviewedInv'
  <2>1. PICK y : y = Change(c, cyc[c].cur)
    OBVIOUS
  <2>2. UNCHANGED review /\ (UNCHANGED changes \/ changes' = changes \cup {y})
    BY <1>1, <2>1 DEF Call, Carry, platform
  <2>3. log[<<c, cyc[c].cur.entity, cyc[c].cur.rule>>] = "none"
    BY <1>1 DEF Call, IInv, Fits, AtHand
  <2>4. Id(y) \notin review
    BY <2>1, <2>3, ChangeOf DEF Id, IInv, Typed
  <2> QED
    BY <2>2, <2>4 DEF ReviewedInv, Id
<1>2. ASSUME NEW i \in Ids, ReadForApproval(i) PROVE ReviewedInv'
  <2>1. UNCHANGED changes /\ review' = review \cup {i} /\ log[i] = "PENDING"
    BY <1>2 DEF ReadForApproval, platform
  <2>2. \A z \in changes : Id(z) # i
    BY <2>1 DEF Id, IInv, SuggestedIsUntouched
  <2> QED
    BY <2>1, <2>2 DEF ReviewedInv, Id
<1>3. ASSUME UNCHANGED changes, review' \subseteq review PROVE ReviewedInv'
  BY <1>3 DEF ReviewedInv, Id
<1>4. ASSUME NEW c \in Cycles, Start(c) \/ Throw(c) \/ (Step(c) /\ ~Call(c))
      PROVE  UNCHANGED <<changes, review>>
  <2>1. CASE Start(c) \/ Throw(c) \/ Guard(c) \/ Recall(c) \/ Warm(c) \/ Validated(c)
    BY <2>1 DEF Start, Throw, Guard, Recall, Warm, Validated, platform
  <2>2. CASE Suggest(c) \/ Apply(c) \/ Store(c) \/ Log(c) \/ Cool(c) \/ Cache(c) \/ Finish(c)
    BY <2>2 DEF Suggest, Apply, Store, Log, Cool, Cache, Finish, platform
  <2> QED
    BY <1>4, <2>1, <2>2 DEF Step
<1>5. ASSUME NEW i \in Ids, WriteApproval(i) \/ Reject(i) PROVE UNCHANGED changes /\ review' \subseteq review
  BY <1>5 DEF WriteApproval, Reject, platform
<1>6. ASSUME Edit \/ Tick \/ Crash \/ RedisLost \/ UNCHANGED vars
      PROVE  UNCHANGED changes /\ review' \subseteq review
  BY <1>6 DEF Edit, Tick, Crash, RedisLost, vars, platform
<1> QED
  BY <1>1, <1>2, <1>3, <1>4, <1>5, <1>6 DEF Next

\* The one step that can make a change go through: its row is updated.
Confirms(c) == cyc[c].pc = "store" /\ cyc'[c].pc = "log" /\ cyc'[c].status = "APPLIED"

LEMMA VouchStep ==
  ASSUME NEW z \in changes, cyc[z.by].pc # "torn", log'[Id(z)] = log[Id(z)], Vouched(z)',
         cyc'[z.by].pc = "log" => cyc'[z.by].status # "APPLIED"
  PROVE  Vouched(z)
  BY DEF Vouched, Word, Torn, Id

LEMMA VouchKept ==
  ASSUME NEW z \in changes, cyc'[z.by] = cyc[z.by], Vouched(z)',
         log'[Id(z)] = log[Id(z)] \/ log'[Id(z)] \in {"PENDING", "SKIPPED"}
  PROVE  Vouched(z)
<1>1. Word(z)' = "APPLIED" /\ ~Torn(z)'
  BY DEF Vouched
<1>2. ~Torn(z)
  BY <1>1 DEF Torn
<1>3. PICK l, m : l = log[Id(z)] /\ m = log'[Id(z)]
  OBVIOUS
<1>4. /\ Word(z) = IF l = "none" /\ cyc[z.by].pc = "log" THEN cyc[z.by].status ELSE l
      /\ Word(z)' = IF m = "none" /\ cyc[z.by].pc = "log" THEN cyc[z.by].status ELSE m
  BY <1>3 DEF Word, Id
<1>5. Word(z) = "APPLIED"
  BY <1>1, <1>3, <1>4
<1> QED
  BY <1>2, <1>5 DEF Vouched

\* The entry of the action at hand says what was known of it.
LEMMA VouchLog ==
  ASSUME IInv, NEW c \in Cycles, NEW z \in changes, Vouched(z)', cyc[c].pc = "log",
         Record(c, cyc[c].cur, cyc[c].status), UNCHANGED <<now, changes, pg, redis>>,
         cyc'[c].pc # "log", cyc'[c].pc = "torn" => cyc'[c].cur = cyc[c].cur,
         \A d \in Cycles : d # c => cyc'[d] = cyc[d]
  PROVE  Vouched(z)
<1>1. z.by \in Cycles /\ Id(z) \in Ids
  BY DEF IInv, Typed, Ids, Id
<1>2. /\ log'[LogId(c, cyc[c].cur)] = cyc[c].status
      /\ \A j \in Ids : j # LogId(c, cyc[c].cur) => log'[j] = log[j]
  BY EntryWritten
<1>3. IsAction(cyc[c].cur) /\ log[<<c, cyc[c].cur.entity, cyc[c].cur.rule>>] = "none"
  BY DEF IInv, Fits, AtHand
<1>4. CASE Id(z) = LogId(c, cyc[c].cur)
  <2>1. z.by = c /\ log[Id(z)] = "none" /\ log'[Id(z)] = cyc[c].status
    BY <1>2, <1>3, <1>4 DEF Id, LogId
  <2>2. cyc[c].status = "APPLIED"
    BY <2>1 DEF Vouched, Word, Id
  <2> QED
    BY <2>1, <2>2 DEF Vouched, Word, Torn, Id
<1>5. CASE Id(z) # LogId(c, cyc[c].cur)
  <2>1. log'[Id(z)] = log[Id(z)]
    BY <1>1, <1>2, <1>5
  <2>2. CASE z.by = c
    BY <2>1, <2>2, VouchStep
  <2>3. CASE z.by # c
    BY <1>1, <2>1, <2>3, VouchKept
  <2> QED
    BY <2>2, <2>3
<1> QED
  BY <1>4, <1>5

\* A change that did not go through never will, unless it is about to.
LEMMA VouchGrows ==
  ASSUME IInv, LoggedInv, ReviewedInv, [Next]_vars, NEW z \in changes, Vouched(z)', ~Vouched(z)
  PROVE  z.by \in Cycles /\ Confirms(z.by) /\ SameAction(z, cyc[z.by].cur)
<1>1. z.by \in Cycles /\ Id(z) \in Ids /\ z.entity \in Entities /\ z.rule \in Rules
  BY DEF IInv, Typed, Ids, Id
<1>2. ASSUME NEW c \in Cycles, UNCHANGED log, cyc[c].pc # "torn", \A d \in Cycles : d # c => cyc'[d] = cyc[d],
             cyc'[c].pc = "log" => cyc'[c].status # "APPLIED"
      PROVE  FALSE
  <2>1. CASE z.by = c
    BY <1>2, <2>1, VouchStep
  <2>2. CASE z.by # c
    BY <1>1, <1>2, <2>2, VouchKept
  <2> QED
    BY <2>1, <2>2
<1>3. ASSUME NEW c \in Cycles, \/ Start(c) \/ Guard(c) \/ Recall(c) \/ Warm(c) \/ Validated(c) \/ Apply(c)
                                \/ Cool(c) \/ Cache(c)
      PROVE  FALSE
  <2>1. CASE Start(c) \/ Guard(c) \/ Recall(c) \/ Warm(c) \/ Validated(c)
    BY <1>2, <2>1, StartShape, GuardShape, RecallShape, WarmShape, ValidatedShape DEF Moves
  <2>2. CASE Apply(c) \/ Cool(c) \/ Cache(c)
    BY <1>2, <2>2, ApplyShape, CoolShape, CacheShape DEF Moves
  <2> QED
    BY <1>3, <2>1, <2>2
<1>4. ASSUME NEW c \in Cycles, Call(c) PROVE FALSE
  BY <1>2, <1>4, CallShape DEF Moves
<1>5. ASSUME NEW c \in Cycles, Suggest(c) PROVE FALSE
  <2>1. PICK x \in cyc[c].plan : Record(c, x, "PENDING")
    BY <1>5 DEF Suggest, First
  <2>2. IsAction(x) /\ LogId(c, x) \in Ids
    BY EntryOf DEF IInv, Fits, Once, Open
  <2>3. log'[Id(z)] = log[Id(z)] \/ log'[Id(z)] = "PENDING"
    BY <1>1, <2>1, <2>2, LogWritten DEF Record, IInv, Typed, Statuses
  <2>4. cyc[c].pc = "act" /\ cyc'[c].pc = "act" /\ \A d \in Cycles : d # c => cyc'[d] = cyc[d]
    BY <1>5, SuggestShape DEF Moves
  <2>5. CASE log'[Id(z)] = log[Id(z)] /\ z.by = c
    BY <2>4, <2>5, VouchStep
  <2>6. CASE log'[Id(z)] = "PENDING"
    BY <2>6 DEF Vouched, Word, Id
  <2>7. CASE log'[Id(z)] = log[Id(z)] /\ z.by # c
    BY <1>1, <2>4, <2>7, VouchKept
  <2> QED
    BY <2>3, <2>5, <2>6, <2>7
<1>6. ASSUME NEW c \in Cycles, Log(c) PROVE FALSE
  <2>1. /\ cyc[c].pc = "log" /\ cyc'[c].pc \notin {"log", "torn"}
        /\ \A d \in Cycles : d # c => cyc'[d] = cyc[d]
    BY <1>6, LogShape DEF Moves, AfterLog
  <2>2. Record(c, cyc[c].cur, cyc[c].status) /\ UNCHANGED <<now, changes, pg, redis>>
    BY <1>6 DEF Log, platform, cooldown
  <2> QED
    BY <2>1, <2>2, VouchLog
<1>7. ASSUME NEW c \in Cycles, Finish(c) \/ Throw(c) PROVE FALSE
  <2>1. Dropped(cyc[c], cyc'[c]) /\ \A d \in Cycles : d # c => cyc'[d] = cyc[d]
    BY <1>7, EndShape DEF Ends
  <2>2. CASE UNCHANGED log
    BY <1>2, <2>1, <2>2 DEF Dropped, Ended
  <2>3. CASE cyc[c].pc = "log" /\ Record(c, cyc[c].cur, cyc[c].status)
    <3>1. UNCHANGED <<now, changes, pg, redis>>
      BY <1>7 DEF Finish, Throw, platform, cooldown
    <3> QED
      BY <2>1, <2>3, <3>1, VouchLog DEF Dropped, Ended
  <2> QED
    BY <1>7, <2>2, <2>3, EndShape
<1>8. ASSUME Crash PROVE FALSE
  <2>1. UNCHANGED log /\ (cyc'[z.by] = cyc[z.by] \/ Dropped(cyc[z.by], cyc'[z.by]))
    BY <1>1, <1>8, CrashShape
  <2>2. CASE cyc'[z.by] = cyc[z.by]
    BY <2>1, <2>2, VouchKept
  <2>3. CASE Dropped(cyc[z.by], cyc'[z.by])
    BY <2>1, <2>3, VouchStep DEF Dropped, Ended
  <2> QED
    BY <2>1, <2>2, <2>3
<1>9. ASSUME NEW i \in Ids, ReadForApproval(i) \/ WriteApproval(i) \/ Reject(i) PROVE FALSE
  <2>1. UNCHANGED cyc /\ (UNCHANGED log \/ log' = [log EXCEPT ![i] = "SKIPPED"]
                           \/ (i \in review /\ log' = [log EXCEPT ![i] = "APPLIED"]))
    BY <1>9 DEF ReadForApproval, WriteApproval, Reject
  <2>2. log'[Id(z)] = log[Id(z)] \/ log'[Id(z)] \in {"PENDING", "SKIPPED"}
    BY <1>1, <2>1 DEF ReviewedInv, IInv, Typed
  <2> QED
    BY <2>1, <2>2, VouchKept
<1>10. ASSUME Edit \/ Tick \/ RedisLost \/ UNCHANGED vars PROVE FALSE
  <2>1. UNCHANGED <<cyc, log>>
    BY <1>10 DEF Edit, Tick, RedisLost, vars
  <2> QED
    BY <2>1, VouchKept
<1>11. PICK c \in Cycles : Store(c)
  BY <1>3, <1>4, <1>5, <1>6, <1>7, <1>8, <1>9, <1>10 DEF Next, Step
<1>12. /\ cyc[c].pc = "store" /\ cyc'[c].pc = "log" /\ UNCHANGED log
       /\ \A d \in Cycles : d # c => cyc'[d] = cyc[d]
  BY <1>11, StoreShape DEF Moves
<1>13. cyc'[c].status = "APPLIED"
  BY <1>2, <1>12
<1>14. z.by = c
  BY <1>1, <1>12, VouchKept
<1>15. log[Id(z)] = "none"
  BY <1>12, <1>14 DEF Vouched, Word, Torn, Id
<1> QED
  <2>1. Logging(z)
    BY DEF LoggedInv
  <2>2. SameAction(z, cyc[c].cur)
    BY <1>14, <1>15, <2>1 DEF Logging, Id
  <2>3. Confirms(c)
    BY <1>12, <1>13 DEF Confirms
  <2> QED
    BY <1>1, <1>14, <2>2, <2>3

-----------------------------------------------------------------------------
(* Cycles that take turns *)

\* One cycle runs at a time; the others hold nothing.
OneRuns == \A c, d \in Cycles : Running(c) /\ Running(d) => c = d
RestsEmpty(r) == /\ r.pc \in {"idle"} \cup Ended => r.plan = {}
                 /\ r.pc \notin {"guard", "warm"} => r.queue = {}
TurnsTaken == OneRuns /\ \A c \in Cycles : RestsEmpty(cyc[c])

\* A rule that decreases a budget asks for less.
DecreasesLower == \A r \in Rules : r.type = "DECREASE_BUDGET" => r.delta <= 0

\* An action on a budget rests on the budget of our row ...
Priced(z) ==
  Major(z) => /\ z.entity \in Campaigns /\ z.current = budget[z.entity]
              /\ z.delta \in Int /\ z.value = ApplyDelta(z.current, z.delta)

\* ... and the guardrails let a limited one through.
Checked(z) ==
  Major(z) => /\ z.delta >= -100
              /\ z.rule.type = "INCREASE_BUDGET" => z.delta <= MaxIncrease
              /\ z.rule.type = "DECREASE_BUDGET" /\ DecreasesLower => z.delta <= 0

PricesOf(r) ==
  /\ \A z \in r.queue : Priced(z) /\ z.delta = z.rule.delta
  /\ \A z \in r.plan : Priced(z) /\ Checked(z)
  /\ r.pc \in {"call", "store"} => Priced(r.cur) /\ Checked(r.cur)
PricesHold == \A c \in Cycles : PricesOf(cyc[c])

\* The changes of a budget follow one another, each from where the last one
\* left the platform, ...
Rival(z, x) == Major(z) /\ z.entity = x.entity
Latest(x, ch) == \A z \in ch : Rival(z, x) => z.n <= x.n
NextAfter(x, y, ch) ==
  Rival(y, x) /\ x.n < y.n /\ \A z \in ch : Rival(z, x) => z.n <= x.n \/ y.n <= z.n
Sized(y) == y.entity \in Campaigns /\ y.from \in Nat /\ y.to \in Nat
InOrder(x, y) == /\ x.n = y.n => x = y
                 /\ x.n <= y.n => x.at <= y.at
Numbered(x) == x.n \in Nat /\ x.n < Cardinality(changes) /\ x.at \in Nat /\ x.at <= now
Linked(x, y) == Major(x) /\ NextAfter(x, y, changes) => y.from = x.to
InForce(x) == Major(x) /\ Latest(x, changes) => x.to = remote[x.entity]
ChainInv ==
  /\ IsFiniteSet(changes)
  /\ \A x \in changes : Numbered(x) /\ (Major(x) => Sized(x)) /\ InForce(x)
  /\ \A x, y \in changes : InOrder(x, y) /\ Linked(x, y)

\* ... and within its limit, as long as those before went through.
Amounts == {a \in Nat : \E k \in Nat : a = Unit * k}
Bound(y) ==
  /\ y.rule.type = "INCREASE_BUDGET" =>
       y.from \in Amounts /\ \E d \in -100 .. MaxIncrease : y.to = ApplyDelta(y.from, d)
  /\ y.rule.type = "DECREASE_BUDGET" /\ DecreasesLower => y.to <= y.from
Clean(y) == \A z \in changes : Rival(z, y) /\ z.n < y.n => Vouched(z)
BoundInv == \A y \in changes : Major(y) /\ Clean(y) => Bound(y)

\* While our row is about to be updated, the platform has what it is about
\* to get, and no change is later than the one at hand.
AtStore(c) ==
  cyc[c].pc = "store" =>
    /\ Major(cyc[c].cur) => remote[cyc[c].cur.entity] = cyc[c].cur.value
    /\ \A z \in changes : z.by = c /\ SameAction(z, cyc[c].cur) => \A w \in changes : w.n <= z.n
MirrorInv ==
  /\ budget \in [Campaigns -> Amounts] /\ remote \in [Campaigns -> Nat]
  /\ MirrorsPlatform
  /\ \A c \in Cycles : AtStore(c)

\* A change that went through stands under its cooldown in Postgres, or is
\* about to; and what a cycle takes up is past the cooldowns of the cycles
\* before.
Cooling(x) ==
  Vouched(x) => \/ x.at + Window <= pg[Key(x)]
                \/ cyc[x.by].pc \in {"log", "cool"} /\ SameAction(x, cyc[x.by].cur)
Past(c, z) ==
  \A x \in changes : x.by # c /\ Key(x) = Key(z) /\ Vouched(x) => x.at + Window <= now
PastOf(c) ==
  /\ \A z \in cyc[c].plan : Past(c, z)
  /\ cyc[c].pc = "call" => Past(c, cyc[c].cur)
Apart(x, y) ==
  (x.n < y.n /\ Key(x) = Key(y) /\ (x.by # y.by \/ Major(x)) /\ Vouched(x)) => y.at - x.at >= Window
SpacedInv ==
  /\ \A x \in changes : Cooling(x)
  /\ \A c \in Cycles : PastOf(c)
  /\ \A x, y \in changes : Apart(x, y)

SerialInv == TurnsTaken /\ PricesHold /\ ChainInv /\ MirrorInv /\ SpacedInv /\ BoundInv

\* What holds of every spec, and of cycles that take turns so far.
AnyInv == IInv /\ SingleInv /\ LoggedInv /\ ReviewedInv

\* applyDelta: what it rounds to, and that a decrease gives no more.
LEMMA DeltaBounds ==
  ASSUME NEW b \in Amounts, NEW d \in Int, d >= -100
  PROVE  /\ ApplyDelta(b, d) \in Amounts
         /\ 100 * ApplyDelta(b, d) <= b * (100 + d) + 50 * Unit
         /\ d <= 0 => ApplyDelta(b, d) <= b
<1>1. PICK k \in Nat : b = Unit * k
  BY DEF Amounts
<1>2. PICK m \in Nat : m = 100 + d
  <2>1. 100 + d \in Nat
    OBVIOUS
  <2> QED
    BY <2>1
<1>3. PICK p \in Nat : p = k * m
  BY <1>1, <1>2
<1>4. d <= 0 => p <= 100 * k
  <2> SUFFICES ASSUME d <= 0 PROVE p <= 100 * k
    OBVIOUS
  <2>1. PICK g \in Nat : 100 = m + g
    <3>1. 100 - m \in Nat /\ 100 = m + (100 - m)
      BY <1>2
    <3> QED
      BY <3>1
  <2>2. 100 * k = k * m + k * g /\ k * g \in Nat
    BY <1>1, <1>2, <2>1
  <2> QED
    BY <1>3, <2>2
<1>5. CASE Unit = 1
  <2>1. b = k /\ b * m = p
    BY <1>1, <1>2, <1>3, <1>5
  <2>2. ApplyDelta(b, d) = (b * m + 50) \div 100
    BY <1>2, <1>5, <2>1 DEF ApplyDelta
  <2>3. PICK q \in Nat : q = (p + 50) \div 100
    BY <1>3
  <2>4. 100 * q <= p + 50 /\ (p <= 100 * k => q <= k)
    BY <1>1, <1>3, <2>3
  <2>5. ApplyDelta(b, d) = q /\ q \in Amounts
    <3>1. q = Unit * q
      BY <1>5, <2>3
    <3> QED
      BY <2>1, <2>2, <2>3, <3>1 DEF Amounts
  <2> QED
    BY <1>2, <1>4, <1>5, <2>1, <2>4, <2>5
<1>6. CASE Unit = 100
  <2>1. b = 100 * k /\ b * m = 100 * p
    BY <1>1, <1>2, <1>3, <1>6
  <2>2. ApplyDelta(b, d) = 100 * ((b * m + 5000) \div 10000)
    BY <1>2, <1>6, <2>1 DEF ApplyDelta
  <2>3. PICK q \in Nat : q = (100 * p + 5000) \div 10000
    BY <1>3
  <2>4. 10000 * q <= 100 * p + 5000 /\ (p <= 100 * k => q <= k)
    BY <1>1, <1>3, <2>3
  <2>5. ApplyDelta(b, d) = 100 * q /\ 100 * q \in Amounts
    BY <1>6, <2>1, <2>2, <2>3 DEF Amounts
  <2> QED
    BY <1>1, <1>2, <1>3, <1>4, <1>6, <2>1, <2>3, <2>4, <2>5
<1> QED
  BY <1>5, <1>6, OptimizerAssumption

LEMMA ProductGrows ==
  ASSUME NEW a \in Nat, NEW b \in Nat, NEW m \in Nat, NEW n \in Nat, a <= b, m <= n
  PROVE  a * m <= b * n
<1>1. a * m <= b * m
  <2>1. PICK k \in Nat : b = a + k
    <3>1. b - a \in Nat /\ b = a + (b - a)
      OBVIOUS
    <3> QED
      BY <3>1
  <2>2. b * m = a * m + k * m /\ k * m \in Nat /\ a * m \in Nat
    BY <2>1
  <2> QED
    BY <2>2
<1>2. b * m <= b * n
  <2>1. PICK k \in Nat : n = m + k
    <3>1. n - m \in Nat /\ n = m + (n - m)
      OBVIOUS
    <3> QED
      BY <3>1
  <2>2. b * n = b * m + b * k /\ b * k \in Nat /\ b * m \in Nat
    BY <2>1
  <2> QED
    BY <2>2
<1>3. a * m \in Nat /\ b * m \in Nat /\ b * n \in Nat
  OBVIOUS
<1> QED
  BY <1>1, <1>2, <1>3

-----------------------------------------------------------------------------
(* Taking turns *)

LEMMA OthersRest ==
  ASSUME TurnsTaken, NEW c \in Cycles, Running(c), NEW d \in Cycles, d # c
  PROVE  /\ ~Running(d) /\ cyc[d].queue = {} /\ cyc[d].plan = {}
         /\ cyc[d].pc \in {"idle", "done", "failed", "torn"}
<1>1. ~Running(d)
  BY DEF TurnsTaken, OneRuns
<1>2. RestsEmpty(cyc[d])
  BY DEF TurnsTaken
<1> QED
  BY <1>1, <1>2 DEF RestsEmpty, Running, Ended

\* A step of a cycle: it is the one that runs.
LEMMA StepTurn ==
  ASSUME IInv, TurnsTaken, NEW c \in Cycles, Step(c) \/ Throw(c)
  PROVE  /\ Running(c) /\ \A d \in Cycles : d # c => cyc'[d] = cyc[d]
         /\ RestsEmpty(cyc'[c]) /\ cyc'[c].pc # "idle"
<1>1. RestsEmpty(cyc[c])
  BY DEF TurnsTaken
<1>2. CASE Guard(c) \/ Warm(c)
  BY <1>1, <1>2, GuardShape, WarmShape DEF Moves, Running, RestsEmpty, Ended
<1>3. CASE Recall(c) \/ Validated(c)
  BY <1>1, <1>3, RecallShape, ValidatedShape DEF Moves, Running, RestsEmpty, Ended
<1>7. CASE Suggest(c)
  BY <1>1, <1>7, SuggestShape DEF Moves, Running, RestsEmpty, Ended
<1>8. CASE Apply(c)
  <2>1. cyc[c].pc = "act" /\ cyc'[c].pc = "call" /\ cyc'[c].queue = cyc[c].queue
    BY <1>8, ApplyShape DEF Moves
  <2>2. \A d \in Cycles : d # c => cyc'[d] = cyc[d]
    BY <1>8, ApplyShape DEF Moves
  <2> QED
    BY <1>1, <2>1, <2>2 DEF Running, RestsEmpty, Ended
<1>4. CASE Call(c)
  <2>1. cyc[c].pc = "call" /\ cyc'[c].pc \in {"store", "log"} /\ cyc'[c].queue = cyc[c].queue
    BY <1>4, CallShape DEF Moves
  <2>2. \A d \in Cycles : d # c => cyc'[d] = cyc[d]
    BY <1>4, CallShape DEF Moves
  <2> QED
    BY <1>1, <2>1, <2>2 DEF Running, RestsEmpty, Ended
<1>9. CASE Store(c)
  BY <1>1, <1>9, StoreShape DEF Moves, Running, RestsEmpty, Ended
<1>5. CASE Log(c) \/ Cool(c) \/ Cache(c)
  BY <1>1, <1>5, LogShape, CoolShape, CacheShape DEF Moves, Running, AfterLog, RestsEmpty, Ended
<1>6. CASE Finish(c) \/ Throw(c)
  BY <1>6, EndShape DEF Ends, Dropped, Running, RestsEmpty, Ended
<1> QED
  BY <1>2, <1>3, <1>4, <1>5, <1>6, <1>7, <1>8, <1>9 DEF Step

LEMMA TurnsNext ==
  ASSUME ~Overlap, IInv, TurnsTaken, [Next]_vars
  PROVE  TurnsTaken'
<1>1. ASSUME NEW c \in Cycles, \A d \in Cycles : d # c => cyc'[d] = cyc[d] /\ ~Running(d),
             RestsEmpty(cyc'[c])
      PROVE  TurnsTaken'
  <2>1. OneRuns'
    BY <1>1 DEF OneRuns, Running
  <2>2. \A d \in Cycles : RestsEmpty(cyc'[d])
    BY <1>1 DEF TurnsTaken
  <2> QED
    BY <2>1, <2>2 DEF TurnsTaken, RestsEmpty
<1>2. ASSUME NEW c \in Cycles, Start(c) PROVE TurnsTaken'
  <2>1. /\ \A d \in Cycles : d # c => cyc'[d] = cyc[d] /\ ~Running(d)
        /\ cyc'[c].pc = "guard"
    BY <1>2, StartShape DEF Moves, Running
  <2>2. RestsEmpty(cyc'[c])
    BY <2>1 DEF RestsEmpty, Ended
  <2> QED
    BY <1>1, <2>1, <2>2
<1>3. ASSUME NEW c \in Cycles, Step(c) \/ Throw(c) PROVE TurnsTaken'
  BY <1>1, <1>3, StepTurn, OthersRest
<1>4. CASE Crash
  <2>1. \A c \in Cycles : cyc'[c] = cyc[c] \/ Dropped(cyc[c], cyc'[c])
    BY <1>4, CrashShape
  <2>2. OneRuns'
    BY <2>1 DEF TurnsTaken, OneRuns, Running, Dropped
  <2>3. \A c \in Cycles : RestsEmpty(cyc'[c])
    BY <2>1 DEF TurnsTaken, RestsEmpty, Dropped
  <2> QED
    BY <2>2, <2>3 DEF TurnsTaken, RestsEmpty
<1>5. CASE ~(\E c \in Cycles : Start(c) \/ Step(c) \/ Throw(c)) /\ ~Crash
  BY <1>5, OutsideShape DEF TurnsTaken, OneRuns, Running
<1> QED
  BY <1>2, <1>3, <1>4, <1>5

\* A step of another kind than a call or an update of our row.
LEMMA Elsewhere ==
  ASSUME IInv, [Next]_vars, ~(\E c \in Cycles : Call(c) \/ Store(c))
  PROVE  /\ UNCHANGED <<changes, budget, remote>>
         /\ \A d \in Cycles : ~Confirms(d)
         /\ \A d \in Cycles : cyc'[d].pc = "store" => cyc'[d] = cyc[d]
<1>1. ASSUME NEW c \in Cycles, UNCHANGED <<changes, budget, remote>>,
             \A d \in Cycles : d # c => cyc'[d] = cyc[d],
             cyc[c].pc # "store" \/ cyc'[c].pc # "log", cyc'[c].pc # "store"
      PROVE  /\ UNCHANGED <<changes, budget, remote>> /\ \A d \in Cycles : ~Confirms(d)
             /\ \A d \in Cycles : cyc'[d].pc = "store" => cyc'[d] = cyc[d]
  BY <1>1 DEF Confirms
<1>2. ASSUME NEW c \in Cycles, Start(c) \/ Guard(c) \/ Recall(c) \/ Warm(c) \/ Validated(c)
      PROVE  /\ UNCHANGED <<changes, budget, remote>> /\ \A d \in Cycles : d # c => cyc'[d] = cyc[d]
             /\ cyc[c].pc # "store" /\ cyc'[c].pc # "store"
  BY <1>2, StartShape, GuardShape, RecallShape, WarmShape, ValidatedShape DEF Moves
<1>3. ASSUME NEW c \in Cycles, Suggest(c) \/ Apply(c) \/ Cool(c) \/ Cache(c)
      PROVE  /\ UNCHANGED <<changes, budget, remote>> /\ \A d \in Cycles : d # c => cyc'[d] = cyc[d]
             /\ cyc[c].pc # "store" /\ cyc'[c].pc # "store"
  BY <1>3, SuggestShape, ApplyShape, CoolShape, CacheShape DEF Moves
<1>4. ASSUME NEW c \in Cycles, Log(c)
      PROVE  /\ UNCHANGED <<changes, budget, remote>> /\ \A d \in Cycles : d # c => cyc'[d] = cyc[d]
             /\ cyc[c].pc # "store" /\ cyc'[c].pc # "store"
  BY <1>4, LogShape DEF Moves, AfterLog
<1>5. ASSUME NEW c \in Cycles, Finish(c) \/ Throw(c)
      PROVE  /\ UNCHANGED <<changes, budget, remote>> /\ \A d \in Cycles : d # c => cyc'[d] = cyc[d]
             /\ cyc'[c].pc \notin {"store", "log"}
  BY <1>5, EndShape DEF Ends, Dropped, Ended
<1>6. CASE Crash
  BY <1>6, CrashShape DEF Dropped, Ended, Confirms
<1>7. CASE ~(\E c \in Cycles : Start(c) \/ Step(c) \/ Throw(c)) /\ ~Crash
  BY <1>7, OutsideShape DEF Confirms
<1> QED
  BY <1>1, <1>2, <1>3, <1>4, <1>5, <1>6, <1>7 DEF Step

-----------------------------------------------------------------------------
(* Prices *)

\* What is proposed rests on our row.
LEMMA ProposalsPriced ==
  ASSUME NEW z \in Proposals
  PROVE  Priced(z) /\ z.delta = z.rule.delta
<1>1. PICK e \in Entities, r \in Rules :
        z = Proposal(e, r) /\ (r.type \in BudgetTypes => e \in Campaigns)
  BY DEF Proposals
<1> DEFINE b == IF r.type \in BudgetTypes THEN budget[e] ELSE None
           v == IF r.type \in BudgetTypes THEN ApplyDelta(budget[e], r.delta) ELSE None
           t == r.delta
<1>2. z = [entity |-> e, rule |-> r, delta |-> t, current |-> b, value |-> v]
  BY <1>1 DEF Proposal
<1>3. r.delta \in Int
  BY OptimizerAssumption
<1> HIDE DEF b, v, t
<1>4. z.entity = e /\ z.rule = r /\ z.delta = t /\ z.current = b /\ z.value = v
  BY <1>2
<1>5. CASE r.type \in BudgetTypes
  <2>1. b = budget[e] /\ v = ApplyDelta(budget[e], r.delta)
    BY <1>5 DEF b, v
  <2>2. e \in Campaigns /\ t \in Int /\ b = budget[e] /\ v = ApplyDelta(b, t)
    BY <1>1, <1>3, <1>5, <2>1 DEF t
  <2> QED
    BY <1>4, <2>2 DEF Priced, t
<1>6. CASE r.type \notin BudgetTypes
  BY <1>4, <1>6 DEF Priced, Major, t
<1> QED
  BY <1>5, <1>6

\* What passes the guardrails is limited.
LEMMA ClampChecks ==
  ASSUME NEW x, IsAction(x), Priced(x), ~Abrupt(x), x.delta = x.rule.delta
  PROVE  Priced(Clamp(x)) /\ Checked(Clamp(x))
<1>1. SameAction(Clamp(x), x)
  BY ClampKeeps
<1>2. CASE ~Major(x)
  BY <1>1, <1>2 DEF Priced, Checked, Major, SameAction
<1>3. CASE Major(x)
  <2>1. PICK e, q, old, base, v :
          x = [entity |-> e, rule |-> q, delta |-> old, current |-> base, value |-> v]
    BY DEF IsAction
  <2>2. /\ old \in Int /\ e \in Campaigns /\ base = budget[e] /\ v = ApplyDelta(base, old)
        /\ q \in Rules /\ q.type \in BudgetTypes
    BY <1>3, <2>1 DEF Priced, Major, IsAction
  <2>3. -100 <= old /\ old <= 100 /\ Magnitude(old) <= 100
    BY <2>1, <2>2, OptimizerAssumption DEF Abrupt, Magnitude
  <2>4. MaxIncrease \in Nat /\ MaxDecrease \in Nat
    BY OptimizerAssumption
  <2> DEFINE capped(d) == [x EXCEPT !.delta = d, !.value = ApplyDelta(x.current, d)]
  <2>5. ASSUME NEW d \in Int
        PROVE  /\ capped(d).delta = d /\ capped(d).value = ApplyDelta(base, d)
               /\ capped(d).current = base /\ capped(d).entity = e /\ capped(d).rule = q
    <3> DEFINE w == ApplyDelta(x.current, d)
               y == [x EXCEPT !.delta = d]
    <3>1. capped(d) = [y EXCEPT !.value = w]
      OBVIOUS
    <3>2. y = [entity |-> e, rule |-> q, delta |-> d, current |-> base, value |-> v]
      BY <2>1
    <3>3. w = ApplyDelta(base, d)
      BY <2>1
    <3> HIDE DEF w, y, capped
    <3>4. capped(d) = [entity |-> e, rule |-> q, delta |-> d, current |-> base, value |-> w]
      BY <3>1, <3>2
    <3> QED
      BY <3>3, <3>4
  <2> HIDE DEF capped
  <2>6. Clamp(x) = CASE q.type = "INCREASE_BUDGET" /\ old > MaxIncrease -> capped(MaxIncrease)
                     [] q.type = "DECREASE_BUDGET" /\ Magnitude(old) > MaxDecrease -> capped(-MaxDecrease)
                     [] OTHER -> x
    BY <2>1 DEF Clamp, capped
  <2>7. CASE q.type = "INCREASE_BUDGET" /\ old > MaxIncrease
    <3>1. Clamp(x) = capped(MaxIncrease)
      BY <2>6, <2>7
    <3> QED
      BY <2>2, <2>4, <2>5, <2>7, <3>1 DEF Priced, Checked
  <2>8. CASE q.type = "DECREASE_BUDGET" /\ Magnitude(old) > MaxDecrease
    <3>1. Clamp(x) = capped(-MaxDecrease)
      BY <2>6, <2>8
    <3>2. -MaxDecrease \in Int /\ -MaxDecrease >= -100 /\ -MaxDecrease <= 0
      BY <2>2, <2>3, <2>4, <2>8 DEF Magnitude
    <3> QED
      BY <2>2, <2>5, <2>8, <3>1, <3>2 DEF Priced, Checked
  <2>9. CASE /\ ~(q.type = "INCREASE_BUDGET" /\ old > MaxIncrease)
             /\ ~(q.type = "DECREASE_BUDGET" /\ Magnitude(old) > MaxDecrease)
    <3>1. Clamp(x) = x
      BY <2>6, <2>9
    <3>2. q.type = "INCREASE_BUDGET" => old <= MaxIncrease
      BY <2>2, <2>4, <2>9
    <3>3. q.type = "DECREASE_BUDGET" /\ DecreasesLower => old <= 0
      <4>1. SUFFICES ASSUME q.type = "DECREASE_BUDGET", DecreasesLower PROVE old <= 0
        OBVIOUS
      <4> QED
        BY <2>1, <2>2, <4>1 DEF DecreasesLower
    <3> QED
      BY <2>1, <2>2, <2>3, <3>1, <3>2, <3>3 DEF Priced, Checked
  <2> QED
    BY <2>7, <2>8, <2>9
<1> QED
  BY <1>2, <1>3


LEMMA PricesStep ==
  ASSUME PricesHold, UNCHANGED budget, NEW c \in Cycles, \A d \in Cycles : d # c => cyc'[d] = cyc[d],
         PricesOf(cyc'[c])
  PROVE  PricesHold'
  BY DEF PricesHold, PricesOf, Priced

LEMMA PricesStart ==
  ASSUME IInv, PricesHold, NEW c \in Cycles, Start(c)
  PROVE  PricesHold'
<1>1. PICK q \in SUBSET Proposals : Moves(c, "guard", q, {}, {}, None, None)
  BY StartShape
<1>2. UNCHANGED budget
  BY StartShape
<1>3. \A z \in q : Priced(z) /\ z.delta = z.rule.delta
  BY ProposalsPriced
<1>4. cyc'[c].pc = "guard" /\ cyc'[c].queue = q /\ cyc'[c].plan = {}
  BY <1>1 DEF Moves
<1>5. PricesOf(cyc'[c])
  BY <1>3, <1>4 DEF PricesOf
<1> QED
  BY <1>1, <1>2, <1>5, PricesStep DEF Moves

LEMMA PricesGuard ==
  ASSUME IInv, PricesHold, NEW c \in Cycles, Guard(c)
  PROVE  PricesHold'
<1>1. PICK x \in cyc[c].queue :
        LET Q == cyc[c].queue \ {x}
            N == IF Major(x) THEN cyc[c].seen \cup {x.entity} ELSE cyc[c].seen
        IN  \/ Moves(c, "guard", Q, cyc[c].plan, cyc[c].seen, cyc[c].cur, cyc[c].status)
            \/ /\ ~OnCooldown(Key(x)) /\ ~Spent(c, x) /\ ~Abrupt(x)
               /\ Moves(c, "guard", Q, cyc[c].plan \cup {Clamp(x)}, N, cyc[c].cur, cyc[c].status)
  BY GuardShape
<1>2. /\ cyc'[c].pc = "guard" /\ cyc'[c].queue = cyc[c].queue \ {x}
      /\ \/ cyc'[c].plan = cyc[c].plan
         \/ ~Abrupt(x) /\ cyc'[c].plan = cyc[c].plan \cup {Clamp(x)}
      /\ \A d \in Cycles : d # c => cyc'[d] = cyc[d]
  BY <1>1 DEF Moves
<1>3. PricesOf(cyc[c]) /\ UNCHANGED budget
  BY GuardShape DEF PricesHold
<1>4. IsAction(x) /\ Priced(x) /\ x.delta = x.rule.delta
  BY <1>3 DEF IInv, Fits, Once, Open, PricesOf
<1>5. ~Abrupt(x) => Priced(Clamp(x)) /\ Checked(Clamp(x))
  BY <1>4, ClampChecks
<1>6. PricesOf(cyc'[c])
  BY <1>2, <1>3, <1>5 DEF PricesOf
<1> QED
  BY <1>2, <1>3, <1>6, PricesStep

\* Steps that change no price.
LEMMA PricesMoves ==
  ASSUME IInv, PricesHold, NEW c \in Cycles,
         \/ Recall(c) \/ Warm(c) \/ Validated(c) \/ Suggest(c) \/ Apply(c) \/ Call(c)
         \/ Log(c) \/ Cool(c) \/ Cache(c)
  PROVE  PricesHold'
<1>1. PricesOf(cyc[c])
  BY DEF PricesHold
<1>2. CASE Apply(c)
  <2>1. PICK x \in cyc[c].plan :
          /\ cyc'[c].queue = cyc[c].queue /\ cyc'[c].plan = cyc[c].plan \ {x} /\ cyc'[c].cur = x
          /\ \A d \in Cycles : d # c => cyc'[d] = cyc[d]
    BY <1>2, ApplyShape DEF Moves
  <2>2. UNCHANGED budget
    BY <1>2, ApplyShape
  <2>3. PricesOf(cyc'[c])
    BY <1>1, <2>1 DEF PricesOf
  <2> QED
    BY <2>1, <2>2, <2>3, PricesStep
<1>3. CASE Call(c)
  <2>1. /\ cyc[c].pc = "call" /\ cyc'[c].queue = cyc[c].queue /\ cyc'[c].plan = cyc[c].plan
        /\ cyc'[c].cur = cyc[c].cur /\ \A d \in Cycles : d # c => cyc'[d] = cyc[d]
    BY <1>3, CallShape DEF Moves
  <2>2. UNCHANGED budget
    BY <1>3, CallShape
  <2>3. PricesOf(cyc'[c])
    BY <1>1, <2>1 DEF PricesOf
  <2> QED
    BY <2>1, <2>2, <2>3, PricesStep
<1>4. ASSUME UNCHANGED budget, cyc'[c].pc \notin {"call", "store"}, cyc'[c].queue \subseteq cyc[c].queue,
             cyc'[c].plan \subseteq cyc[c].plan, \A d \in Cycles : d # c => cyc'[d] = cyc[d]
      PROVE  PricesHold'
  <2>1. PricesOf(cyc'[c])
    BY <1>1, <1>4 DEF PricesOf
  <2> QED
    BY <1>4, <2>1, PricesStep
<1>5. CASE Recall(c) \/ Warm(c) \/ Validated(c) \/ Suggest(c)
  BY <1>4, <1>5, RecallShape, WarmShape, ValidatedShape, SuggestShape DEF Moves
<1>6. CASE Log(c) \/ Cool(c) \/ Cache(c)
  BY <1>4, <1>6, LogShape, CoolShape, CacheShape DEF Moves, AfterLog
<1> QED
  BY <1>2, <1>3, <1>5, <1>6

LEMMA PricesDropped ==
  ASSUME PricesHold, UNCHANGED budget, \A d \in Cycles : cyc'[d] = cyc[d] \/ Dropped(cyc[d], cyc'[d])
  PROVE  PricesHold'
  BY DEF PricesHold, PricesOf, Priced, Dropped, Ended

\* The update of our row changes the price of no other action.
LEMMA PricesStore ==
  ASSUME IInv, SingleInv, TurnsTaken, PricesHold, MirrorInv, NEW c \in Cycles, Store(c)
  PROVE  PricesHold'
<1> DEFINE x == cyc[c].cur
<1>1. /\ cyc[c].pc = "store" /\ cyc'[c].pc = "log" /\ budget' \in {budget, Stored(x)}
      /\ cyc'[c].queue = cyc[c].queue /\ cyc'[c].plan = cyc[c].plan
      /\ \A d \in Cycles : d # c => cyc'[d] = cyc[d]
  BY StoreShape DEF Moves
<1>2. Running(c) /\ cyc[c].queue = {}
  BY <1>1 DEF Running, Ended, TurnsTaken, RestsEmpty
<1>3. ASSUME NEW d \in Cycles, d # c PROVE PricesOf(cyc[d])'
  <2>1. cyc'[d].queue = {} /\ cyc'[d].plan = {} /\ cyc'[d].pc \notin {"call", "store"}
    BY <1>1, <1>2, <1>3, OthersRest
  <2> QED
    BY <2>1 DEF PricesOf
<1>4. ASSUME NEW z \in cyc[c].plan PROVE Priced(z)' /\ Checked(z)
  <2>1. Priced(z) /\ Checked(z) /\ ~Clash(z, x)
    BY <1>1 DEF PricesHold, PricesOf, SingleInv, Single
  <2>2. Major(z) => budget'[z.entity] = budget[z.entity]
    <3>1. CASE Major(x) /\ budget' = Stored(x)
      <4>1. budget' = [budget EXCEPT ![x.entity] = x.value]
        BY <3>1 DEF Stored
      <4>2. budget = [e \in Campaigns |-> budget[e]]
        BY DEF MirrorInv
      <4>3. Major(z) => z.entity \in Campaigns /\ z.entity # x.entity
        BY <2>1, <3>1 DEF Priced, Clash
      <4> QED
        BY <4>1, <4>2, <4>3
    <3>2. CASE budget' = budget
      BY <3>2
    <3> QED
      BY <1>1, <3>1, <3>2 DEF Stored
  <2> QED
    BY <2>1, <2>2 DEF Priced
<1>5. PricesOf(cyc[c])'
  BY <1>1, <1>2, <1>4 DEF PricesOf, Checked
<1> QED
  BY <1>3, <1>5 DEF PricesHold

LEMMA PricesNext ==
  ASSUME IInv, SingleInv, TurnsTaken, PricesHold, MirrorInv, [Next]_vars
  PROVE  PricesHold'
<1>1. CASE ~(\E c \in Cycles : Start(c) \/ Step(c) \/ Throw(c)) /\ ~Crash
  <2>1. UNCHANGED <<cyc, budget>>
    BY <1>1, OutsideShape
  <2> QED
    BY <2>1 DEF PricesHold, PricesOf, Priced
<1>2. ASSUME NEW c \in Cycles, Start(c) \/ (Step(c) /\ ~Finish(c)) PROVE PricesHold'
  BY <1>2, PricesStart, PricesGuard, PricesMoves, PricesStore DEF Step
<1>3. ASSUME NEW c \in Cycles, Finish(c) \/ Throw(c) PROVE PricesHold'
  BY <1>3, EndShape, PricesDropped DEF Ends
<1>4. CASE Crash
  BY <1>4, CrashShape, PricesDropped
<1> QED
  BY <1>1, <1>2, <1>3, <1>4

-----------------------------------------------------------------------------
(* Calls *)

\* What a call carries out.
LEMMA Carried ==
  ASSUME NEW c, NEW x, Carry(c, x)
  PROVE  /\ Major(x) => remote' = [remote EXCEPT ![x.entity] = x.value]
         /\ ~Major(x) => UNCHANGED remote
         /\ Writes(x) => changes' = changes \cup {Change(c, x)}
         /\ ~Writes(x) => UNCHANGED changes
  BY DEF Carry, platform, Writes

LEMMA SerialCall ==
  ASSUME IInv, TurnsTaken, PricesHold, MirrorInv, NEW c \in Cycles, Call(c)
  PROVE  LET x == cyc[c].cur
         IN  /\ cyc[c].pc = "call" /\ Running(c) /\ IsAction(x) /\ Priced(x) /\ Checked(x)
             /\ Major(x) => x.current \in Amounts /\ x.value \in Nat /\ x.value \in Amounts
             /\ UNCHANGED <<budget, log, pg, now>>
             /\ cyc'[c].plan = cyc[c].plan /\ cyc'[c].cur = x
             /\ cyc'[c].pc \in {"store", "log"}
             /\ \A d \in Cycles : d # c => cyc'[d] = cyc[d]
             /\ Carry(c, x) \/ (cyc'[c].pc = "log" /\ UNCHANGED <<remote, changes>>)
             /\ \A d \in Cycles : ~Confirms(d)
<1> DEFINE x == cyc[c].cur
<1>1. /\ cyc[c].pc = "call" /\ UNCHANGED <<budget, log, pg, now>>
      /\ Carry(c, x) \/ (cyc'[c].pc = "log" /\ UNCHANGED <<remote, changes>>)
      /\ cyc'[c].pc \in {"store", "log"}
      /\ cyc'[c].plan = cyc[c].plan /\ cyc'[c].cur = x
      /\ \A d \in Cycles : d # c => cyc'[d] = cyc[d]
  BY CallShape DEF Moves
<1>2. Running(c)
  BY <1>1 DEF Running, Ended
<1>3. IsAction(x) /\ Priced(x) /\ Checked(x)
  BY <1>1 DEF IInv, Fits, AtHand, PricesHold, PricesOf
<1>4. ASSUME Major(x) PROVE x.current \in Amounts /\ x.value \in Nat /\ x.value \in Amounts
  <2>1. x.current \in Amounts
    BY <1>3, <1>4 DEF Priced, MirrorInv
  <2>2. x.delta \in Int /\ x.delta >= -100 /\ x.value = ApplyDelta(x.current, x.delta)
    BY <1>3, <1>4 DEF Priced, Checked
  <2>3. x.value \in Amounts
    BY <2>1, <2>2, DeltaBounds
  <2> QED
    BY <2>1, <2>3 DEF Amounts
<1>5. \A d \in Cycles : ~Confirms(d)
  BY <1>1 DEF Confirms
<1> QED
  BY <1>1, <1>2, <1>3, <1>4, <1>5

-----------------------------------------------------------------------------
(* The chain of budgets *)

LEMMA ChainStands ==
  ASSUME ChainInv, UNCHANGED <<changes, remote>>, now \in Nat, now' \in Nat, now' >= now
  PROVE  ChainInv'
<1>1. \A x \in changes : Numbered(x)'
  BY DEF ChainInv, Numbered
<1> QED
  BY <1>1 DEF ChainInv, Sized, InForce, InOrder, Linked, Latest, NextAfter, Rival, Major

\* What a call adds to the chain.
LEMMA ChainGrows ==
  ASSUME ChainInv, now \in Nat, UNCHANGED now, NEW y, changes' = changes \cup {y},
         y.n = Cardinality(changes), y.at = now,
         Major(y) => Sized(y) /\ y.from = remote[y.entity] /\ y.to = remote'[y.entity],
         \A e \in Campaigns : (Major(y) /\ e = y.entity) \/ remote'[e] = remote[e]
  PROVE  ChainInv'
<1>1. IsFiniteSet(changes) /\ Cardinality(changes) \in Nat
  BY FS_CardinalityType DEF ChainInv
<1>2. \A z \in changes : z.n \in Nat /\ z.n < Cardinality(changes) /\ z.at \in Nat /\ z.at <= now
  BY DEF ChainInv, Numbered
<1>3. y \notin changes
  BY <1>1, <1>2
<1>4. IsFiniteSet(changes') /\ Cardinality(changes') = Cardinality(changes) + 1
  BY <1>1, <1>3, FS_AddElement
<1>5. ASSUME NEW x \in changes' PROVE Numbered(x)'
  BY <1>1, <1>2, <1>4 DEF Numbered
<1>6. ASSUME NEW x \in changes', Major(x) PROVE Sized(x)
  BY <1>6 DEF ChainInv
<1>7. ASSUME NEW x \in changes', NEW z \in changes' PROVE InOrder(x, z)
  <2>1. CASE x \in changes /\ z \in changes
    BY <2>1 DEF ChainInv
  <2>2. CASE x \in changes /\ z = y
    BY <1>1, <1>2, <2>2 DEF InOrder
  <2>3. CASE x = y /\ z \in changes
    BY <1>1, <1>2, <2>3 DEF InOrder
  <2>4. CASE x = y /\ z = y
    BY <1>1, <2>4 DEF InOrder
  <2> QED
    BY <2>1, <2>2, <2>3, <2>4
<1>8. ASSUME NEW x \in changes, Major(x), Latest(x, changes) PROVE x.to = remote[x.entity]
  BY <1>8 DEF ChainInv, InForce
<1>9. ASSUME NEW x \in changes', NEW z \in changes', Major(x), NextAfter(x, z, changes') PROVE z.from = x.to
  <2>1. CASE x \in changes /\ z \in changes
    <3>1. NextAfter(x, z, changes)
      BY <1>9 DEF NextAfter
    <3> QED
      BY <1>9, <2>1, <3>1 DEF ChainInv, Linked
  <2>2. CASE x \in changes /\ z = y
    <3>1. Latest(x, changes)
      <4> SUFFICES ASSUME NEW w \in changes, Rival(w, x) PROVE w.n <= x.n
        BY DEF Latest
      <4>1. w.n <= x.n \/ y.n <= w.n
        BY <1>9, <2>2 DEF NextAfter
      <4> QED
        BY <1>1, <1>2, <4>1
    <3>2. x.to = remote[x.entity] /\ Major(y) /\ y.entity = x.entity
      BY <1>8, <1>9, <2>2, <3>1 DEF NextAfter, Rival
    <3> QED
      BY <2>2, <3>2
  <2>3. CASE x = y
    <3>1. z.n <= y.n
      BY <1>1, <1>2
    <3>2. y.n < z.n /\ z.n \in Nat
      BY <1>1, <1>2, <1>9, <2>3 DEF NextAfter
    <3> QED
      BY <1>1, <3>1, <3>2
  <2> QED
    BY <2>1, <2>2, <2>3
<1>10. ASSUME NEW x \in changes', Major(x), Latest(x, changes') PROVE x.to = remote'[x.entity]
  <2>1. CASE x = y
    BY <1>10, <2>1
  <2>2. CASE x \in changes
    <3>1. Latest(x, changes)
      BY <1>10 DEF Latest
    <3>2. x.to = remote[x.entity]
      BY <1>8, <1>10, <2>2, <3>1
    <3>3. ~(Major(y) /\ y.entity = x.entity)
      <4> SUFFICES ASSUME Rival(y, x) PROVE FALSE
        BY DEF Rival
      <4>1. y.n <= x.n
        BY <1>10 DEF Latest
      <4> QED
        BY <1>1, <1>2, <2>2, <4>1
    <3>4. x.entity \in Campaigns
      BY <1>10, <2>2 DEF ChainInv, Sized
    <3> QED
      BY <3>2, <3>3, <3>4
  <2> QED
    BY <2>1, <2>2
<1>11. \A x \in changes' : Numbered(x)' /\ (Major(x) => Sized(x)) /\ InForce(x)'
  BY <1>5, <1>6, <1>10 DEF InForce, Major
<1>12. \A x, z \in changes' : InOrder(x, z) /\ Linked(x, z)'
  BY <1>7, <1>9 DEF Linked, Major
<1> QED
  BY <1>4, <1>11, <1>12 DEF ChainInv, InOrder, Sized, Major

LEMMA ChainCall ==
  ASSUME IInv, TurnsTaken, PricesHold, MirrorInv, ChainInv, NEW c \in Cycles, Call(c)
  PROVE  ChainInv'
<1>1. PICK x : x = cyc[c].cur
  OBVIOUS
<1>2. /\ IsAction(x) /\ Priced(x) /\ UNCHANGED now /\ now \in Nat
      /\ Major(x) => x.value \in Nat
      /\ Carry(c, x) \/ UNCHANGED <<remote, changes>>
  BY <1>1, SerialCall DEF IInv, Typed
<1>3. CASE Carry(c, x) /\ Writes(x)
  <2>1. PICK y : y = Change(c, x)
    OBVIOUS
  <2>2. /\ y.entity = x.entity /\ y.rule = x.rule /\ y.at = now /\ y.n = Cardinality(changes)
        /\ y.to = x.value /\ (Major(x) => y.from = remote[x.entity]) /\ (Major(y) <=> Major(x))
    BY <2>1, ChangeOf DEF Major
  <2>3. changes' = changes \cup {y}
    BY <1>3, <2>1, Carried
  <2>4. \A e \in Campaigns : (Major(y) /\ e = y.entity) \/ remote'[e] = remote[e]
    <3>1. Major(x) => remote' = [remote EXCEPT ![x.entity] = x.value]
      BY <1>3, Carried
    <3>2. ~Major(x) => remote' = remote
      BY <1>3, Carried
    <3>3. remote \in [Campaigns -> Nat]
      BY DEF MirrorInv
    <3> QED
      BY <2>2, <3>1, <3>2, <3>3
  <2>5. ASSUME Major(y) PROVE Sized(y) /\ y.from = remote[y.entity] /\ y.to = remote'[y.entity]
    <3>1. x.entity \in Campaigns /\ x.value \in Nat
      BY <1>2, <2>2, <2>5 DEF Priced
    <3>2. remote' = [remote EXCEPT ![x.entity] = x.value] /\ remote \in [Campaigns -> Nat]
      BY <1>3, <2>2, <2>5, Carried DEF MirrorInv
    <3> QED
      BY <2>2, <2>5, <3>1, <3>2 DEF Sized
  <2> QED
    BY <1>2, <2>2, <2>3, <2>4, <2>5, ChainGrows
<1>4. CASE Carry(c, x) /\ ~Writes(x)
  <2>1. UNCHANGED <<changes, remote>>
    BY <1>4, Carried DEF Writes
  <2> QED
    BY <1>2, <2>1, ChainStands
<1>5. CASE UNCHANGED <<remote, changes>>
  BY <1>2, <1>5, ChainStands
<1> QED
  BY <1>2, <1>3, <1>4, <1>5

LEMMA ClockGoesOn ==
  ASSUME IInv, [Next]_vars
  PROVE  now \in Nat /\ now' \in Nat /\ now' >= now
<1>1. now \in Nat /\ now' \in Nat
  BY NextInv DEF IInv, Typed
<1>2. now' = now \/ now' = now + 1
  <2>1. ASSUME NEW c \in Cycles, Start(c) \/ Throw(c) \/ Finish(c) PROVE now' = now
    BY <2>1, StartShape, EndShape
  <2>2. ASSUME NEW c \in Cycles, Guard(c) \/ Recall(c) \/ Warm(c) \/ Validated(c) \/ Suggest(c) \/ Apply(c)
        PROVE  now' = now
    BY <2>2, GuardShape, RecallShape, WarmShape, ValidatedShape, SuggestShape, ApplyShape
  <2>3. ASSUME NEW c \in Cycles, Call(c) \/ Store(c) \/ Log(c) \/ Cool(c) \/ Cache(c) PROVE now' = now
    BY <2>3, CallShape, StoreShape, LogShape, CoolShape, CacheShape
  <2>4. CASE Crash
    BY <2>4, CrashShape
  <2>5. CASE ~(\E c \in Cycles : Start(c) \/ Step(c) \/ Throw(c)) /\ ~Crash
    BY <2>5, OutsideShape
  <2> QED
    BY <2>1, <2>2, <2>3, <2>4, <2>5 DEF Step
<1> QED
  BY <1>1, <1>2

LEMMA ChainNext ==
  ASSUME IInv, TurnsTaken, PricesHold, MirrorInv, ChainInv, [Next]_vars
  PROVE  ChainInv'
<1>1. ASSUME NEW c \in Cycles, Store(c) PROVE ChainInv'
  BY <1>1, StoreShape, ChainStands, ClockGoesOn
<1>2. CASE ~(\E c \in Cycles : Call(c) \/ Store(c))
  BY <1>2, Elsewhere, ChainStands, ClockGoesOn
<1> QED
  BY <1>1, <1>2, ChainCall

-----------------------------------------------------------------------------
(* The mirror of the platform *)

\* The last change of a budget, when it has not gone through.
Late(z, e) == Major(z) /\ z.entity = e /\ ~Vouched(z) /\ Latest(z, changes)
Mirrors == \A e \in Campaigns : budget[e] # remote[e] => \E z \in changes : Late(z, e)

LEMMA MirroredBy == SingleInv /\ ChainInv => (MirrorsPlatform <=> Mirrors)
<1> SUFFICES ASSUME SingleInv, ChainInv PROVE MirrorsPlatform <=> Mirrors
  OBVIOUS
<1>1. ASSUME NEW z \in changes PROVE z.from # None <=> Major(z)
  <2>1. Major(z) => z.from \in Nat
    BY DEF ChainInv, Sized
  <2> QED
    BY <2>1, OptimizerAssumption DEF SingleInv
<1>2. ASSUME NEW e \in Campaigns, NEW z \in changes
      PROVE  Late(z, e) <=> /\ z.from # None /\ z.entity = e /\ ~Vouched(z)
                            /\ \A y \in changes : y.from # None /\ y.entity = e => y.n <= z.n
  <2>1. Latest(z, changes) <=> \A y \in changes : Major(y) /\ y.entity = z.entity => y.n <= z.n
    BY DEF Latest, Rival
  <2> QED
    BY <1>1, <2>1 DEF Late
<1> QED
  BY <1>2 DEF MirrorsPlatform, Mirrors

LEMMA MirrorsStand ==
  ASSUME Mirrors, UNCHANGED <<changes, budget, remote>>, \A z \in changes : Vouched(z)' => Vouched(z)
  PROVE  Mirrors'
<1>1. ASSUME NEW e \in Campaigns, NEW z \in changes, Late(z, e) PROVE Late(z, e)'
  BY <1>1 DEF Late, Latest, Rival, Major
<1> QED
  BY <1>1 DEF Mirrors

\* The amount that is about to get into our row.
LEMMA PricedAmount ==
  ASSUME MirrorInv, NEW x, Priced(x), Checked(x), Major(x)
  PROVE  x.entity \in Campaigns /\ x.value \in Nat /\ x.value \in Amounts
<1>1. x.entity \in Campaigns /\ x.current \in Amounts
  BY DEF Priced, MirrorInv
<1>2. x.delta \in Int /\ x.delta >= -100 /\ x.value = ApplyDelta(x.current, x.delta)
  BY DEF Priced, Checked
<1>3. x.value \in Amounts
  BY <1>1, <1>2, DeltaBounds
<1> QED
  BY <1>1, <1>3 DEF Amounts

LEMMA MirrorCall ==
  ASSUME AnyInv, TurnsTaken, PricesHold, ChainInv, MirrorInv, Mirrors, [Next]_vars,
         NEW c \in Cycles, Call(c)
  PROVE  /\ budget' \in [Campaigns -> Amounts] /\ remote' \in [Campaigns -> Nat]
         /\ Mirrors' /\ \A d \in Cycles : AtStore(d)'
<1>1. PICK x : x = cyc[c].cur
  OBVIOUS
<1>2. /\ cyc[c].pc = "call" /\ Running(c) /\ IsAction(x) /\ Priced(x) /\ Checked(x)
      /\ UNCHANGED <<budget, log>> /\ cyc'[c].cur = x /\ cyc'[c].pc \in {"store", "log"}
      /\ \A d \in Cycles : d # c => cyc'[d] = cyc[d]
      /\ Carry(c, x) \/ (cyc'[c].pc = "log" /\ UNCHANGED <<remote, changes>>)
      /\ \A d \in Cycles : ~Confirms(d)
  BY <1>1, SerialCall DEF AnyInv
<1>3. cyc'[c].pc = "log" => cyc'[c].status = "FAILED"
  BY CallShape DEF Moves, AnyInv
<1>4. ASSUME NEW z \in changes, Vouched(z)' PROVE Vouched(z)
  BY <1>2, <1>4, VouchGrows DEF AnyInv
<1>5. ASSUME NEW d \in Cycles, d # c PROVE AtStore(d)'
  BY <1>2, <1>5, OthersRest DEF AtStore
<1>6. ASSUME NEW z \in changes, z.by = c PROVE ~SameAction(z, x)
  BY <1>1, <1>2, <1>6 DEF AnyInv, SingleInv, Single, Clash
<1>7. budget' \in [Campaigns -> Amounts] /\ remote \in [Campaigns -> Nat]
  BY <1>2 DEF MirrorInv
<1>8. CASE UNCHANGED <<remote, changes>>
  <2>1. Mirrors'
    BY <1>2, <1>4, <1>8, MirrorsStand
  <2>2. ASSUME cyc'[c].pc = "store" PROVE ~Major(x)
    <3>1. ~Writes(x) \/ changes = changes \cup {Change(c, x)}
      BY <1>2, <1>8, <2>2, Carried
    <3>2. Change(c, x) \in changes => FALSE
      BY <1>6, ChangeOf
    <3> QED
      BY <3>1, <3>2 DEF Writes
  <2>3. AtStore(c)'
    BY <1>2, <1>6, <1>8, <2>2 DEF AtStore, Major
  <2> QED
    BY <1>5, <1>7, <1>8, <2>1, <2>3
<1>9. CASE Carry(c, x) /\ Writes(x)
  <2>1. PICK y : y = Change(c, x)
    OBVIOUS
  <2>2. /\ y.by = c /\ y.entity = x.entity /\ y.rule = x.rule /\ SameAction(y, x)
        /\ y.n = Cardinality(changes) /\ (Major(y) <=> Major(x))
    BY <2>1, ChangeOf DEF Major
  <2>3. changes' = changes \cup {y}
    BY <1>9, <2>1, Carried
  <2>4. /\ Major(x) => remote' = [remote EXCEPT ![x.entity] = x.value]
        /\ ~Major(x) => UNCHANGED remote
    BY <1>9, Carried
  <2>5. Major(x) => x.entity \in Campaigns /\ x.value \in Nat
    BY <1>2, PricedAmount
  <2>6. remote' \in [Campaigns -> Nat]
    BY <1>7, <2>4, <2>5
  <2>7. Cardinality(changes) \in Nat /\ \A z \in changes : z.n \in Nat /\ z.n < Cardinality(changes)
    BY FS_CardinalityType DEF ChainInv, Numbered
  <2>8. \A w \in changes' : w.n <= y.n
    BY <2>2, <2>3, <2>7
  <2>9. ~Vouched(y)'
    <3>1. log'[y.by, y.entity, y.rule] = "none"
      BY <1>1, <1>2, <2>2 DEF AnyInv, IInv, Fits, AtHand
    <3> QED
      BY <1>2, <1>3, <2>2, <3>1 DEF Vouched, Word
  <2>10. ASSUME NEW e \in Campaigns, budget'[e] # remote'[e] PROVE \E z \in changes' : Late(z, e)'
    <3>1. CASE Major(x) /\ e = x.entity
      <4>1. Late(y, e)'
        BY <2>2, <2>8, <2>9, <3>1 DEF Late, Latest, Major
      <4> QED
        BY <2>3, <4>1
    <3>2. CASE ~(Major(x) /\ e = x.entity)
      <4>1. remote'[e] = remote[e]
        BY <1>7, <2>4, <2>5, <3>2
      <4>2. PICK z \in changes : Late(z, e)
        BY <1>2, <2>10, <4>1 DEF Mirrors
      <4>3. ~Rival(y, z)
        BY <2>2, <3>2, <4>2 DEF Rival, Late
      <4>4. Latest(z, changes')
        BY <2>3, <4>2, <4>3 DEF Late, Latest
      <4>5. Late(z, e)'
        BY <1>4, <4>2, <4>4 DEF Late, Latest, Rival, Major
      <4> QED
        BY <2>3, <4>5
    <3> QED
      BY <3>1, <3>2
  <2>11. AtStore(c)'
    <3>1. ASSUME Major(x) PROVE remote'[x.entity] = x.value
      BY <1>7, <2>4, <2>5, <3>1
    <3>2. ASSUME NEW z \in changes', z.by = c, SameAction(z, x) PROVE z = y
      BY <1>6, <2>3, <3>2
    <3> QED
      BY <1>2, <2>8, <3>1, <3>2 DEF AtStore, Major
  <2> QED
    BY <1>5, <1>7, <2>6, <2>10, <2>11 DEF Mirrors
<1>10. CASE Carry(c, x) /\ ~Writes(x)
  BY <1>8, <1>10, Carried DEF Writes
<1> QED
  BY <1>2, <1>8, <1>9, <1>10

LEMMA MirrorStore ==
  ASSUME AnyInv, TurnsTaken, PricesHold, MirrorInv, Mirrors, [Next]_vars, NEW c \in Cycles, Store(c)
  PROVE  /\ budget' \in [Campaigns -> Amounts] /\ remote' \in [Campaigns -> Nat]
         /\ Mirrors' /\ \A d \in Cycles : AtStore(d)'
<1>1. PICK x : x = cyc[c].cur
  OBVIOUS
<1>2. /\ cyc[c].pc = "store" /\ UNCHANGED <<remote, changes>> /\ cyc'[c].pc = "log"
      /\ budget' \in {budget, Stored(x)}
      /\ cyc'[c].status = "APPLIED" => budget' = Stored(x)
      /\ \A d \in Cycles : d # c => cyc'[d] = cyc[d]
  BY <1>1, StoreShape DEF Moves, AnyInv
<1>3. Running(c)
  BY <1>2 DEF Running, Ended
<1>4. ASSUME NEW d \in Cycles PROVE cyc'[d].pc # "store" /\ (d # c => cyc[d].pc # "store")
  BY <1>2, <1>3, OthersRest
<1>5. ASSUME Major(x) PROVE x.entity \in Campaigns /\ x.value \in Amounts /\ remote[x.entity] = x.value
  <2>1. Priced(x) /\ Checked(x)
    BY <1>1, <1>2 DEF PricesHold, PricesOf
  <2>2. remote[x.entity] = x.value
    BY <1>1, <1>2, <1>5 DEF MirrorInv, AtStore
  <2> QED
    BY <1>5, <2>1, <2>2, PricedAmount
<1>6. budget \in [Campaigns -> Amounts]
  BY DEF MirrorInv
<1>7. budget' \in [Campaigns -> Amounts]
  BY <1>2, <1>5, <1>6 DEF Stored
<1>8. ASSUME NEW e \in Campaigns, budget'[e] # remote'[e] PROVE \E z \in changes' : Late(z, e)'
  <2>1. budget' = Stored(x) => ~(Major(x) /\ e = x.entity)
    BY <1>2, <1>5, <1>6, <1>8 DEF Stored
  <2>2. budget'[e] = budget[e]
    BY <1>2, <1>5, <1>6, <2>1 DEF Stored
  <2>3. PICK z \in changes : Late(z, e)
    BY <1>2, <1>8, <2>2 DEF Mirrors
  <2>4. ~Vouched(z)'
    <3> SUFFICES ASSUME Vouched(z)' PROVE FALSE
      OBVIOUS
    <3>1. z.by \in Cycles /\ Confirms(z.by) /\ SameAction(z, cyc[z.by].cur)
      BY <2>3, VouchGrows DEF AnyInv, Late
    <3>2. z.by = c
      BY <1>4, <3>1 DEF Confirms
    <3>3. Major(x) /\ e = x.entity /\ cyc'[c].status = "APPLIED"
      BY <1>1, <2>3, <3>1, <3>2 DEF Late, SameAction, Major, Confirms
    <3> QED
      BY <1>2, <2>1, <3>3
  <2>5. Late(z, e)'
    BY <1>2, <2>3, <2>4 DEF Late, Latest, Rival, Major
  <2> QED
    BY <1>2, <2>5
<1> QED
  BY <1>2, <1>4, <1>7, <1>8 DEF Mirrors, AtStore, MirrorInv

LEMMA MirrorNext ==
  ASSUME AnyInv, TurnsTaken, PricesHold, ChainInv, MirrorInv, [Next]_vars, SingleInv', ChainInv'
  PROVE  MirrorInv'
<1>1. Mirrors
  BY MirroredBy DEF AnyInv, MirrorInv
<1>2. SingleInv' /\ ChainInv' => (MirrorsPlatform' <=> Mirrors')
  BY MirroredBy, PTL
<1>3. /\ budget' \in [Campaigns -> Amounts] /\ remote' \in [Campaigns -> Nat]
      /\ Mirrors' /\ \A d \in Cycles : AtStore(d)'
  <2>1. CASE ~(\E c \in Cycles : Call(c) \/ Store(c))
    <3>1. /\ UNCHANGED <<changes, budget, remote>>
          /\ \A d \in Cycles : ~Confirms(d)
          /\ \A d \in Cycles : cyc'[d].pc = "store" => cyc'[d] = cyc[d]
      BY <2>1, Elsewhere DEF AnyInv
    <3>2. \A z \in changes : Vouched(z)' => Vouched(z)
      BY <3>1, VouchGrows DEF AnyInv
    <3>3. Mirrors'
      BY <1>1, <3>1, <3>2, MirrorsStand
    <3>4. \A d \in Cycles : AtStore(d)'
      BY <3>1 DEF MirrorInv, AtStore
    <3> QED
      BY <3>1, <3>3, <3>4 DEF MirrorInv
  <2> QED
    BY <1>1, <2>1, MirrorCall, MirrorStore
<1> QED
  BY <1>2, <1>3 DEF MirrorInv

-----------------------------------------------------------------------------
(* Cooldowns *)

LEMMA Domains ==
  ASSUME IInv
  PROVE  /\ \A x \in changes : x.by \in Cycles /\ Key(x) \in Entities \X ActionTypes
         /\ \A k \in Entities \X ActionTypes : pg[k] \in Nat /\ pg[k] <= now + Window
         /\ now \in Nat /\ Window \in Nat
<1>1. now \in Nat /\ Window \in Nat
  BY OptimizerAssumption DEF IInv, Typed
<1>2. ASSUME NEW k \in Entities \X ActionTypes PROVE pg[k] \in Nat /\ pg[k] <= now + Window
  BY <1>2 DEF IInv, Typed, CooldownIsEarned
<1>3. ASSUME NEW x \in changes PROVE x.by \in Cycles /\ Key(x) \in Entities \X ActionTypes
  BY RuleFields DEF IInv, Typed, Key
<1> QED
  BY <1>1, <1>2, <1>3

\* Changes stay, and none of them goes through.
Steady ==
  /\ UNCHANGED changes /\ \A x \in changes : Vouched(x)' => Vouched(x)
  /\ now' \in Nat /\ now' >= now
PgGrows == \A k \in Entities \X ActionTypes : pg'[k] \in Nat /\ pg'[k] >= pg[k]

LEMMA PastStays ==
  ASSUME IInv, ChainInv, Steady, NEW c, NEW z, Past(c, z)
  PROVE  Past(c, z)'
<1> SUFFICES ASSUME NEW x \in changes, x.by # c, Key(x) = Key(z), Vouched(x)'
             PROVE  x.at + Window <= now'
  BY DEF Past, Key, Steady
<1>1. x.at + Window <= now /\ x.at \in Nat
  BY DEF Past, ChainInv, Numbered, Steady
<1> QED
  BY <1>1, Domains DEF Steady

LEMMA CoolingStays ==
  ASSUME IInv, ChainInv, Steady, PgGrows, NEW x \in changes, Cooling(x),
         \/ cyc[x.by].pc \notin {"log", "cool"}
         \/ cyc'[x.by] = cyc[x.by]
         \/ cyc'[x.by].pc \in {"log", "cool"} /\ cyc'[x.by].cur = cyc[x.by].cur
  PROVE  Cooling(x)'
<1> SUFFICES ASSUME Vouched(x)'
             PROVE  \/ x.at + Window <= pg'[Key(x)]
                    \/ cyc'[x.by].pc \in {"log", "cool"} /\ SameAction(x, cyc'[x.by].cur)
  BY DEF Cooling, Key, SameAction
<1>1. x.at \in Nat /\ Window \in Nat /\ Key(x) \in Entities \X ActionTypes
  BY Domains DEF ChainInv, Numbered
<1>2. pg[Key(x)] \in Nat /\ pg'[Key(x)] \in Nat /\ pg'[Key(x)] >= pg[Key(x)]
  BY <1>1, Domains DEF PgGrows
<1>3. \/ x.at + Window <= pg[Key(x)]
      \/ cyc[x.by].pc \in {"log", "cool"} /\ SameAction(x, cyc[x.by].cur)
  BY DEF Cooling, Steady
<1> QED
  BY <1>1, <1>2, <1>3

LEMMA SpacedStep ==
  ASSUME IInv, ChainInv, SpacedInv, Steady, \A x \in changes : Cooling(x)',
         \A d \in Cycles : /\ \A z \in cyc'[d].plan : Past(d, z)
                           /\ cyc'[d].pc = "call" => Past(d, cyc'[d].cur)
  PROVE  SpacedInv'
<1>1. \A d \in Cycles : PastOf(d)'
  BY PastStays DEF PastOf
<1>2. ASSUME NEW x \in changes, NEW y \in changes PROVE Apart(x, y)'
  <2>1. Apart(x, y)
    BY DEF SpacedInv
  <2> QED
    BY <2>1 DEF Apart, Key, Major, Steady
<1>3. UNCHANGED changes
  BY DEF Steady
<1> QED
  BY <1>1, <1>2, <1>3 DEF SpacedInv

LEMMA SteadyElsewhere ==
  ASSUME AnyInv, [Next]_vars, ~(\E c \in Cycles : Call(c) \/ Store(c))
  PROVE  Steady
BY Elsewhere, VouchGrows, ClockGoesOn DEF AnyInv, Steady

\* Steps of a cycle that neither call nor settle a change.
LEMMA SpacedPlan ==
  ASSUME IInv, ChainInv, SpacedInv, Steady, UNCHANGED pg, NEW c \in Cycles,
         \A d \in Cycles : d # c => cyc'[d] = cyc[d],
         cyc[c].pc \notin {"log", "cool"},
         \A z \in cyc'[c].plan : z \in cyc[c].plan \/ Past(c, z),
         cyc'[c].pc = "call" => Past(c, cyc'[c].cur)
  PROVE  SpacedInv'
<1>1. PgGrows
  BY Domains DEF PgGrows
<1>2. ASSUME NEW x \in changes PROVE Cooling(x)'
  <2>1. x.by \in Cycles /\ Cooling(x)
    BY Domains DEF SpacedInv
  <2> QED
    BY <1>1, <2>1, CoolingStays
<1>3. ASSUME NEW d \in Cycles PROVE /\ \A z \in cyc'[d].plan : Past(d, z)
                                    /\ cyc'[d].pc = "call" => Past(d, cyc'[d].cur)
  BY DEF SpacedInv, PastOf
<1> QED
  BY <1>2, <1>3, SpacedStep

LEMMA SpacedGuard ==
  ASSUME IInv, TurnsTaken, ChainInv, SpacedInv, Steady, NEW c \in Cycles, Guard(c)
  PROVE  SpacedInv'
<1>1. PICK x \in cyc[c].queue :
        LET Q == cyc[c].queue \ {x}
            N == IF Major(x) THEN cyc[c].seen \cup {x.entity} ELSE cyc[c].seen
        IN  \/ Moves(c, "guard", Q, cyc[c].plan, cyc[c].seen, cyc[c].cur, cyc[c].status)
            \/ /\ ~OnCooldown(Key(x)) /\ ~Spent(c, x) /\ ~Abrupt(x)
               /\ Moves(c, "guard", Q, cyc[c].plan \cup {Clamp(x)}, N, cyc[c].cur, cyc[c].status)
  BY GuardShape
<1>2. /\ cyc'[c].pc = "guard"
      /\ \/ cyc'[c].plan = cyc[c].plan
         \/ ~OnCooldown(Key(x)) /\ cyc'[c].plan = cyc[c].plan \cup {Clamp(x)}
      /\ \A d \in Cycles : d # c => cyc'[d] = cyc[d]
  BY <1>1 DEF Moves
<1>3. cyc[c].pc = "guard" /\ UNCHANGED pg /\ Running(c)
  BY GuardShape DEF Running, Ended
<1>4. ASSUME ~OnCooldown(Key(x)) PROVE Past(c, Clamp(x))
  <2>1. IsAction(x) /\ SameAction(Clamp(x), x)
    BY ClampKeeps DEF IInv, Fits, Once, Open
  <2>2. Key(Clamp(x)) = Key(x)
    BY <2>1 DEF SameAction, Key
  <2> SUFFICES ASSUME NEW w \in changes, w.by # c, Key(w) = Key(x), Vouched(w) PROVE w.at + Window <= now
    BY <2>2 DEF Past
  <2>3. w.by \in Cycles /\ pg[Key(w)] \in Nat /\ now \in Nat /\ Window \in Nat /\ w.at \in Nat
    BY Domains DEF ChainInv, Numbered
  <2>4. cyc[w.by].pc \notin {"log", "cool"}
    BY <1>3, <2>3, OthersRest
  <2>5. w.at + Window <= pg[Key(w)]
    BY <2>4 DEF SpacedInv, Cooling
  <2>6. ~(pg[Key(w)] > now)
    BY <1>4 DEF OnCooldown
  <2> QED
    BY <2>3, <2>5, <2>6
<1>5. \A z \in cyc'[c].plan : z \in cyc[c].plan \/ Past(c, z)
  BY <1>2, <1>4
<1> QED
  BY <1>2, <1>3, <1>5, SpacedPlan

LEMMA SpacedMoves ==
  ASSUME IInv, ChainInv, SpacedInv, Steady, NEW c \in Cycles,
         Start(c) \/ Recall(c) \/ Warm(c) \/ Validated(c) \/ Suggest(c) \/ Apply(c) \/ Cache(c)
  PROVE  SpacedInv'
<1>1. CASE Apply(c)
  <2>1. PICK x \in cyc[c].plan :
          /\ cyc'[c].plan = cyc[c].plan \ {x} /\ cyc'[c].cur = x
          /\ \A d \in Cycles : d # c => cyc'[d] = cyc[d]
    BY <1>1, ApplyShape DEF Moves
  <2>2. cyc[c].pc = "act" /\ UNCHANGED pg
    BY <1>1, ApplyShape
  <2>3. Past(c, cyc'[c].cur)
    BY <2>1 DEF SpacedInv, PastOf
  <2> QED
    BY <2>1, <2>2, <2>3, SpacedPlan
<1>2. CASE Start(c) \/ Validated(c) \/ Suggest(c) \/ Cache(c)
  <2>1. /\ cyc[c].pc \notin {"log", "cool"} /\ cyc'[c].pc # "call" /\ cyc'[c].plan \subseteq cyc[c].plan
        /\ UNCHANGED pg /\ \A d \in Cycles : d # c => cyc'[d] = cyc[d]
    BY <1>2, StartShape, ValidatedShape, SuggestShape, CacheShape DEF Moves
  <2> QED
    BY <2>1, SpacedPlan
<1>3. CASE Recall(c) \/ Warm(c)
  <2>1. /\ cyc[c].pc \notin {"log", "cool"} /\ cyc'[c].pc # "call" /\ cyc'[c].plan \subseteq cyc[c].plan
        /\ UNCHANGED pg /\ \A d \in Cycles : d # c => cyc'[d] = cyc[d]
    BY <1>3, RecallShape, WarmShape DEF Moves
  <2> QED
    BY <2>1, SpacedPlan
<1> QED
  BY <1>1, <1>2, <1>3

\* The action log gets its entry ...
LEMMA SpacedLog ==
  ASSUME IInv, ChainInv, SpacedInv, Steady, NEW c \in Cycles, Log(c)
  PROVE  SpacedInv'
<1>1. /\ cyc[c].pc = "log" /\ UNCHANGED pg /\ cyc'[c].cur = cyc[c].cur
      /\ cyc'[c].plan = cyc[c].plan /\ cyc'[c].pc = AfterLog(cyc[c].status)
      /\ \A d \in Cycles : d # c => cyc'[d] = cyc[d]
  BY LogShape DEF Moves
<1>2. PgGrows
  BY <1>1, Domains DEF PgGrows
<1>3. ASSUME NEW x \in changes PROVE Cooling(x)'
  <2>1. x.by \in Cycles /\ Cooling(x)
    BY Domains DEF SpacedInv
  <2>2. CASE x.by # c \/ cyc[c].status = "APPLIED"
    BY <1>1, <1>2, <2>1, <2>2, CoolingStays DEF AfterLog
  <2>3. CASE x.by = c /\ cyc[c].status # "APPLIED"
    <3>1. ASSUME SameAction(x, cyc[c].cur) PROVE ~Vouched(x)
      <4>1. log[x.by, x.entity, x.rule] = "none"
        BY <1>1, <2>3, <3>1 DEF IInv, Fits, AtHand, SameAction
      <4> QED
        BY <1>1, <2>3, <4>1 DEF Vouched, Word
    <3>2. Vouched(x) => x.at + Window <= pg[Key(x)]
      BY <2>1, <2>3, <3>1 DEF Cooling
    <3> QED
      BY <1>1, <3>2 DEF Cooling, Steady, Key
  <2> QED
    BY <2>2, <2>3
<1>4. ASSUME NEW d \in Cycles PROVE /\ \A z \in cyc'[d].plan : Past(d, z)
                                    /\ cyc'[d].pc = "call" => Past(d, cyc'[d].cur)
  BY <1>1 DEF SpacedInv, PastOf, AfterLog
<1> QED
  BY <1>3, <1>4, SpacedStep

\* ... and Postgres the cooldown.
LEMMA SpacedCool ==
  ASSUME IInv, ChainInv, SpacedInv, Steady, NEW c \in Cycles, Cool(c)
  PROVE  SpacedInv'
<1>1. PICK k : k = Key(cyc[c].cur)
  OBVIOUS
<1>2. /\ cyc[c].pc = "cool" /\ pg' = [pg EXCEPT ![k] = now + Window]
      /\ cyc'[c].plan = cyc[c].plan /\ cyc'[c].pc = "cache"
      /\ \A d \in Cycles : d # c => cyc'[d] = cyc[d]
  BY <1>1, CoolShape DEF Expiry, Moves
<1>3. IsAction(cyc[c].cur)
  BY <1>2 DEF IInv, Fits, AtHand
<1>4. k \in Entities \X ActionTypes
  BY <1>1, <1>3, RuleFields DEF IsAction, Key
<1>5. pg'[k] = now + Window /\ \A j \in Entities \X ActionTypes : j # k => pg'[j] = pg[j]
  BY <1>2, <1>4 DEF IInv, Typed
<1>6. PgGrows
  BY <1>5, Domains DEF PgGrows
<1>7. ASSUME NEW x \in changes PROVE Cooling(x)'
  <2>1. x.by \in Cycles /\ Cooling(x) /\ x.at \in Nat /\ x.at <= now
    BY Domains DEF SpacedInv, ChainInv, Numbered
  <2>2. CASE x.by # c \/ ~SameAction(x, cyc[c].cur)
    <3>1. CASE x.by # c
      BY <1>2, <1>6, <2>1, <3>1, CoolingStays
    <3>2. CASE x.by = c /\ ~SameAction(x, cyc[c].cur)
      <4>1. Vouched(x) => x.at + Window <= pg[Key(x)]
        BY <2>1, <3>2 DEF Cooling
      <4>2. /\ Key(x) \in Entities \X ActionTypes /\ Window \in Nat /\ pg[Key(x)] \in Nat
            /\ pg'[Key(x)] \in Nat /\ pg'[Key(x)] >= pg[Key(x)]
        BY <1>6, Domains DEF PgGrows
      <4>3. Vouched(x)' => x.at + Window <= pg'[Key(x)]
        BY <2>1, <4>1, <4>2 DEF Steady
      <4> QED
        BY <4>3 DEF Cooling, Key
    <3> QED
      BY <2>2, <3>1, <3>2
  <2>3. CASE SameAction(x, cyc[c].cur)
    <3>1. Key(x) = k
      BY <1>1, <2>3 DEF SameAction, Key
    <3>2. x.at + Window <= pg'[Key(x)]
      BY <1>5, <2>1, <3>1, Domains
    <3> QED
      BY <3>2 DEF Cooling, Key
  <2> QED
    BY <2>2, <2>3
<1>8. ASSUME NEW d \in Cycles PROVE /\ \A z \in cyc'[d].plan : Past(d, z)
                                    /\ cyc'[d].pc = "call" => Past(d, cyc'[d].cur)
  BY <1>2 DEF SpacedInv, PastOf
<1> QED
  BY <1>7, <1>8, SpacedStep

\* Cycles that end or break off: what they leave torn did not go through.
LEMMA SpacedDropped ==
  ASSUME IInv, ChainInv, SpacedInv, Steady, UNCHANGED pg,
         \A d \in Cycles : cyc'[d] = cyc[d] \/ Dropped(cyc[d], cyc'[d])
  PROVE  SpacedInv'
<1>1. PgGrows
  BY Domains DEF PgGrows
<1>2. ASSUME NEW x \in changes PROVE Cooling(x)'
  <2>1. x.by \in Cycles /\ Cooling(x)
    BY Domains DEF SpacedInv
  <2>2. CASE cyc'[x.by] = cyc[x.by] \/ cyc[x.by].pc \notin {"log", "cool"}
    BY <1>1, <2>1, <2>2, CoolingStays
  <2>3. CASE Dropped(cyc[x.by], cyc'[x.by]) /\ cyc[x.by].pc \in {"log", "cool"}
    <3>1. cyc'[x.by].pc = "torn" /\ cyc'[x.by].cur = cyc[x.by].cur
      BY <2>3 DEF Dropped
    <3>2. SameAction(x, cyc[x.by].cur) => ~Vouched(x)'
      BY <3>1 DEF Vouched, Torn, SameAction
    <3>3. Vouched(x)' => x.at + Window <= pg[Key(x)]
      BY <2>1, <3>2 DEF Cooling, Steady
    <3> QED
      BY <3>3 DEF Cooling, Key
  <2> QED
    BY <2>1, <2>2, <2>3
<1>3. ASSUME NEW d \in Cycles PROVE /\ \A z \in cyc'[d].plan : Past(d, z)
                                    /\ cyc'[d].pc = "call" => Past(d, cyc'[d].cur)
  BY DEF SpacedInv, PastOf, Dropped, Ended
<1> QED
  BY <1>2, <1>3, SpacedStep

\* Our row is updated: the change at hand goes through, or does not.
LEMMA SpacedStore ==
  ASSUME AnyInv, TurnsTaken, ChainInv, MirrorInv, SpacedInv, [Next]_vars, NEW c \in Cycles, Store(c)
  PROVE  SpacedInv'
<1>1. /\ cyc[c].pc = "store" /\ UNCHANGED <<changes, pg, now>> /\ cyc'[c].pc = "log"
      /\ cyc'[c].cur = cyc[c].cur /\ cyc'[c].plan = cyc[c].plan
      /\ \A d \in Cycles : d # c => cyc'[d] = cyc[d]
  BY StoreShape DEF Moves, AnyInv
<1>2. Running(c)
  BY <1>1 DEF Running, Ended
<1>3. ASSUME NEW d \in Cycles, d # c PROVE cyc[d].pc \notin {"store", "log", "cool", "call"} /\ cyc[d].plan = {}
  BY <1>2, <1>3, OthersRest
<1>4. ASSUME NEW x \in changes, Vouched(x)', ~Vouched(x) PROVE x.by = c /\ SameAction(x, cyc[c].cur)
  <2>1. x.by \in Cycles /\ Confirms(x.by) /\ SameAction(x, cyc[x.by].cur)
    BY <1>4, VouchGrows DEF AnyInv
  <2> QED
    BY <1>3, <2>1 DEF Confirms
<1>5. ASSUME NEW x \in changes, Vouched(x)' PROVE Cooling(x)'
  <2>1. CASE Vouched(x)
    <3>1. x.by \in Cycles /\ Cooling(x)
      BY Domains DEF SpacedInv, AnyInv
    <3>2. cyc[x.by].pc \notin {"log", "cool"}
      BY <1>1, <1>3, <3>1
    <3>3. x.at + Window <= pg[Key(x)]
      BY <2>1, <3>1, <3>2 DEF Cooling
    <3> QED
      BY <1>1, <3>3 DEF Cooling, Key
  <2>2. CASE ~Vouched(x)
    <3>1. cyc'[x.by].pc = "log" /\ SameAction(x, cyc'[x.by].cur)
      BY <1>1, <1>4, <1>5, <2>2
    <3> QED
      BY <3>1 DEF Cooling, SameAction
  <2> QED
    BY <2>1, <2>2
<1>6. ASSUME NEW d \in Cycles PROVE PastOf(d)'
  <2>1. CASE d = c
    <3>1. \A z \in cyc[c].plan : Past(c, z)
      BY DEF SpacedInv, PastOf
    <3>2. ASSUME NEW z, Past(c, z) PROVE Past(c, z)'
      BY <1>1, <1>4, <3>2 DEF Past, Key
    <3> QED
      BY <1>1, <2>1, <3>1, <3>2 DEF PastOf
  <2>2. CASE d # c
    BY <1>1, <1>3, <2>2 DEF PastOf
  <2> QED
    BY <2>1, <2>2
<1>7. ASSUME NEW x \in changes, NEW y \in changes PROVE Apart(x, y)'
  <2>1. CASE Vouched(x)' => Vouched(x)
    <3>1. Apart(x, y)
      BY DEF SpacedInv
    <3> QED
      BY <2>1, <3>1 DEF Apart, Key, Major
  <2>2. CASE Vouched(x)' /\ ~Vouched(x)
    <3>1. y.n <= x.n
      BY <1>1, <1>4, <2>2 DEF MirrorInv, AtStore
    <3>2. x.n \in Nat /\ y.n \in Nat
      BY DEF ChainInv, Numbered
    <3> QED
      BY <3>1, <3>2 DEF Apart
  <2> QED
    BY <2>1, <2>2
<1>8. \A x \in changes : Cooling(x)'
  BY <1>5 DEF Cooling
<1> QED
  BY <1>1, <1>6, <1>7, <1>8 DEF SpacedInv

\* The change a call has just made has not gone through.
LEMMA NotYet ==
  ASSUME AnyInv, NEW c \in Cycles, Call(c), NEW y, y = Change(c, cyc[c].cur)
  PROVE  ~Vouched(y)'
<1>1. PICK x : x = cyc[c].cur
  OBVIOUS
<1>2. cyc[c].pc = "call" /\ UNCHANGED log /\ (cyc'[c].pc = "log" => cyc'[c].status = "FAILED")
  BY CallShape DEF Moves, AnyInv
<1>3. y.by = c /\ y.entity = x.entity /\ y.rule = x.rule
  BY <1>1, ChangeOf
<1>4. log'[y.by, y.entity, y.rule] = "none"
  BY <1>1, <1>2, <1>3 DEF AnyInv, IInv, Fits, AtHand
<1> QED
  BY <1>2, <1>3, <1>4 DEF Vouched, Word

LEMMA SpacedCall ==
  ASSUME AnyInv, TurnsTaken, PricesHold, ChainInv, MirrorInv, SpacedInv, [Next]_vars,
         NEW c \in Cycles, Call(c)
  PROVE  SpacedInv'
<1>1. PICK x : x = cyc[c].cur
  OBVIOUS
<1>2. /\ cyc[c].pc = "call" /\ Running(c) /\ UNCHANGED <<now, pg>>
      /\ cyc'[c].plan = cyc[c].plan /\ cyc'[c].pc # "call"
      /\ \A d \in Cycles : d # c => cyc'[d] = cyc[d]
      /\ Carry(c, x) \/ UNCHANGED changes
      /\ \A d \in Cycles : ~Confirms(d)
  BY <1>1, SerialCall DEF AnyInv
<1>3. ASSUME NEW z \in changes, Vouched(z)' PROVE Vouched(z)
  BY <1>2, <1>3, VouchGrows DEF AnyInv
<1>4. now \in Nat /\ Window \in Nat
  BY Domains DEF AnyInv
<1>5. CASE UNCHANGED changes
  <2>1. Steady
    BY <1>2, <1>3, <1>4, <1>5 DEF Steady
  <2> QED
    BY <1>2, <2>1, SpacedPlan DEF AnyInv
<1>6. CASE changes' = changes \cup {Change(c, x)}
  <2>1. PICK y : y = Change(c, x)
    OBVIOUS
  <2>2. /\ y.by = c /\ y.at = now /\ Key(y) = Key(x) /\ (Major(y) <=> Major(x)) /\ y.entity = x.entity
        /\ y.n = Cardinality(changes)
    BY <2>1, ChangeOf DEF Key, Major
  <2>3. changes' = changes \cup {y} /\ ~Vouched(y)'
    BY <1>1, <1>6, <2>1, NotYet
  <2>4. ASSUME NEW w \in changes PROVE Cooling(w)'
    <3>1. Cooling(w) /\ w.by \in Cycles
      BY Domains DEF SpacedInv, AnyInv
    <3> QED
      BY <1>2, <1>3, <3>1 DEF Cooling, Key, SameAction
  <2>5. Cooling(y)'
    BY <2>3 DEF Cooling
  <2>6. ASSUME NEW d \in Cycles PROVE PastOf(d)'
    <3>1. CASE d = c
      <4>1. \A z \in cyc[c].plan : Past(c, z)
        BY DEF SpacedInv, PastOf
      <4>2. ASSUME NEW z, Past(c, z) PROVE Past(c, z)'
        BY <1>2, <1>3, <2>2, <2>3, <4>2 DEF Past, Key
      <4> QED
        BY <1>2, <3>1, <4>1, <4>2 DEF PastOf
    <3>2. CASE d # c
      <4>1. cyc'[d].plan = {} /\ cyc'[d].pc # "call"
        BY <1>2, <3>2, OthersRest
      <4> QED
        BY <4>1 DEF PastOf
    <3> QED
      BY <3>1, <3>2
  <2>7. ASSUME NEW w \in changes, Key(w) = Key(y), w.by # c \/ Major(w), Vouched(w)
        PROVE  y.at - w.at >= Window
    <3>1. w.at \in Nat
      BY DEF ChainInv, Numbered
    <3>2. CASE w.by # c
      <4>1. w.at + Window <= now
        BY <1>1, <1>2, <2>2, <2>7, <3>2 DEF SpacedInv, PastOf, Past
      <4> QED
        BY <1>4, <2>2, <3>1, <4>1
    <3>3. CASE w.by = c /\ Major(w)
      <4>1. ~Clash(w, x)
        BY <1>1, <1>2, <3>3 DEF AnyInv, SingleInv, Single
      <4>2. w.entity = x.entity /\ Major(x)
        BY <2>2, <2>7, <3>3 DEF Key, Major
      <4> QED
        BY <3>3, <4>1, <4>2 DEF Clash
    <3> QED
      BY <2>7, <3>2, <3>3
  <2>8. ASSUME NEW u \in changes', NEW w \in changes' PROVE Apart(u, w)'
    <3> SUFFICES ASSUME u.n < w.n, Key(u) = Key(w), u.by # w.by \/ Major(u), Vouched(u)'
                 PROVE  w.at - u.at >= Window
      BY DEF Apart, Key, Major
    <3>1. u # y /\ u \in changes /\ Vouched(u)
      BY <1>3, <2>3
    <3>2. CASE w = y
      BY <2>2, <2>7, <3>1, <3>2
    <3>3. CASE w \in changes
      BY <3>1, <3>3 DEF SpacedInv, Apart
    <3> QED
      BY <2>3, <3>2, <3>3
  <2> QED
    BY <2>3, <2>4, <2>5, <2>6, <2>8 DEF SpacedInv
<1> QED
  BY <1>2, <1>5, <1>6, Carried

LEMMA SpacedNext ==
  ASSUME AnyInv, TurnsTaken, PricesHold, ChainInv, MirrorInv, SpacedInv, [Next]_vars
  PROVE  SpacedInv'
<1>1. ASSUME NEW c \in Cycles, Call(c) \/ Store(c) PROVE SpacedInv'
  BY <1>1, SpacedCall, SpacedStore
<1>2. CASE ~(\E c \in Cycles : Call(c) \/ Store(c))
  <2>1. Steady /\ IInv
    BY <1>2, SteadyElsewhere DEF AnyInv
  <2>2. ASSUME NEW c \in Cycles, Start(c) \/ (Step(c) /\ ~Finish(c)) PROVE SpacedInv'
    BY <1>2, <2>1, <2>2, SpacedGuard, SpacedMoves, SpacedLog, SpacedCool DEF Step
  <2>3. ASSUME NEW c \in Cycles, Finish(c) \/ Throw(c) PROVE SpacedInv'
    BY <2>1, <2>3, EndShape, SpacedDropped DEF Ends
  <2>4. CASE Crash
    BY <2>1, <2>4, CrashShape, SpacedDropped
  <2>5. CASE ~(\E c \in Cycles : Start(c) \/ Step(c) \/ Throw(c)) /\ ~Crash
    <3>1. UNCHANGED <<cyc, pg>>
      BY <2>1, <2>5, OutsideShape
    <3> QED
      BY <2>1, <3>1, SpacedDropped
  <2> QED
    BY <2>2, <2>3, <2>4, <2>5
<1> QED
  BY <1>1, <1>2

-----------------------------------------------------------------------------
(* Limits of a change *)

LEMMA BoundStays ==
  ASSUME BoundInv, UNCHANGED changes,
         \A z \in changes : Vouched(z)' /\ ~Vouched(z) => \A w \in changes : ~(z.n < w.n)
  PROVE  BoundInv'
<1>1. ASSUME NEW y \in changes, Clean(y)' PROVE Clean(y)
  BY <1>1 DEF Clean, Rival, Major
<1>2. ASSUME NEW y \in changes, Bound(y) PROVE Bound(y)'
  BY <1>2 DEF Bound
<1> QED
  BY <1>1, <1>2 DEF BoundInv, Major

LEMMA BoundCall ==
  ASSUME AnyInv, TurnsTaken, PricesHold, ChainInv, MirrorInv, BoundInv, [Next]_vars,
         NEW c \in Cycles, Call(c)
  PROVE  BoundInv'
<1>1. PICK x : x = cyc[c].cur
  OBVIOUS
<1>2. /\ IsAction(x) /\ Priced(x) /\ Checked(x)
      /\ Major(x) => x.current \in Amounts
      /\ Carry(c, x) \/ UNCHANGED changes
      /\ \A d \in Cycles : ~Confirms(d)
  BY <1>1, SerialCall DEF AnyInv
<1>3. ASSUME NEW z \in changes, Vouched(z)' PROVE Vouched(z)
  BY <1>2, <1>3, VouchGrows DEF AnyInv
<1>4. CASE UNCHANGED changes
  BY <1>3, <1>4, BoundStays
<1>5. CASE changes' = changes \cup {Change(c, x)}
  <2>1. PICK y : y = Change(c, x)
    OBVIOUS
  <2>2. /\ y.entity = x.entity /\ y.rule = x.rule /\ y.n = Cardinality(changes) /\ y.to = x.value
        /\ (Major(y) <=> Major(x)) /\ (Major(x) => y.from = remote[x.entity])
    BY <2>1, ChangeOf DEF Major
  <2>3. changes' = changes \cup {y}
    BY <1>5, <2>1
  <2>4. Cardinality(changes) \in Nat /\ \A z \in changes : z.n \in Nat /\ z.n < Cardinality(changes)
    BY FS_CardinalityType DEF ChainInv, Numbered
  <2>5. ASSUME NEW w \in changes, Major(w), Clean(w)' PROVE Bound(w)
    <3>1. Clean(w)
      BY <1>3, <2>3, <2>5 DEF Clean, Rival, Major
    <3> QED
      BY <2>5, <3>1 DEF BoundInv
  <2>6. ASSUME Major(y), Clean(y)' PROVE Bound(y)
    <3>1. x.entity \in Campaigns /\ x.current = budget[x.entity] /\ x.current \in Amounts
          /\ x.delta \in Int /\ x.delta >= -100 /\ x.value = ApplyDelta(x.current, x.delta)
      BY <1>2, <2>2, <2>6 DEF Priced, Checked
    <3>2. ASSUME NEW z \in changes, Major(z), z.entity = x.entity PROVE Vouched(z)
      <4>1. Vouched(z)'
        BY <2>2, <2>3, <2>4, <2>6, <3>2 DEF Clean, Rival, Major
      <4> QED
        BY <1>3, <4>1
    <3>3. budget[x.entity] = remote[x.entity]
      <4>1. Mirrors
        BY MirroredBy DEF AnyInv, MirrorInv
      <4> QED
        BY <3>1, <3>2, <4>1 DEF Mirrors, Late
    <3>4. y.from = x.current /\ y.to = ApplyDelta(y.from, x.delta)
      BY <2>2, <2>6, <3>1, <3>3
    <3>5. ASSUME y.rule.type = "INCREASE_BUDGET"
          PROVE  y.from \in Amounts /\ \E d \in -100 .. MaxIncrease : y.to = ApplyDelta(y.from, d)
      <4>1. x.delta <= MaxIncrease /\ MaxIncrease \in Nat
        BY <1>2, <2>2, <2>6, <3>5, OptimizerAssumption DEF Checked
      <4>2. x.delta \in -100 .. MaxIncrease
        BY <3>1, <4>1
      <4> QED
        BY <3>1, <3>4, <4>2
    <3>6. ASSUME y.rule.type = "DECREASE_BUDGET", DecreasesLower PROVE y.to <= y.from
      <4>1. x.delta <= 0
        BY <1>2, <2>2, <2>6, <3>6 DEF Checked
      <4> QED
        BY <3>1, <3>4, <4>1, DeltaBounds
    <3> QED
      BY <3>5, <3>6 DEF Bound
  <2> QED
    BY <2>3, <2>5, <2>6 DEF BoundInv, Bound, Major
<1> QED
  BY <1>2, <1>4, <1>5, Carried

LEMMA BoundNext ==
  ASSUME AnyInv, TurnsTaken, PricesHold, ChainInv, MirrorInv, BoundInv, [Next]_vars
  PROVE  BoundInv'
<1>1. ASSUME NEW c \in Cycles, Store(c) PROVE BoundInv'
  <2>1. cyc[c].pc = "store" /\ UNCHANGED changes /\ Running(c)
    BY <1>1, StoreShape DEF Running, Ended, AnyInv
  <2>2. ASSUME NEW z \in changes, Vouched(z)', ~Vouched(z), NEW w \in changes PROVE ~(z.n < w.n)
    <3>1. z.by \in Cycles /\ Confirms(z.by) /\ SameAction(z, cyc[z.by].cur)
      BY <2>2, VouchGrows DEF AnyInv
    <3>2. w.n <= z.n
      BY <3>1 DEF MirrorInv, AtStore, Confirms
    <3>3. w.n \in Nat /\ z.n \in Nat
      BY DEF ChainInv, Numbered
    <3> QED
      BY <3>2, <3>3
  <2> QED
    BY <2>1, <2>2, BoundStays
<1>2. CASE ~(\E c \in Cycles : Call(c) \/ Store(c))
  BY <1>2, SteadyElsewhere, BoundStays DEF Steady
<1> QED
  BY <1>1, <1>2, BoundCall

-----------------------------------------------------------------------------
(* What holds of cycles that take turns *)

LEMMA SerialInit == Init => SerialInv
<1> SUFFICES ASSUME Init PROVE SerialInv
  OBVIOUS
<1>1. \A c \in Cycles : cyc[c].pc = "idle" /\ cyc[c].queue = {} /\ cyc[c].plan = {}
  BY DEF Init, Idle
<1>2. TurnsTaken
  BY <1>1 DEF TurnsTaken, OneRuns, RestsEmpty, Running, Ended
<1>3. PricesHold
  BY <1>1 DEF PricesHold, PricesOf
<1>4. changes = {} /\ budget = [e \in Campaigns |-> Budget0] /\ remote = budget
  BY DEF Init
<1>5. Budget0 \in Amounts
  <2>1. PICK k \in Nat : Budget0 = Unit * k
    <3>1. CASE Unit = 1
      BY <3>1, OptimizerAssumption
    <3>2. CASE Unit = 100
      <4>1. Budget0 \in Nat /\ Budget0 % 100 = 0
        BY <3>2, OptimizerAssumption
      <4>2. Budget0 = 100 * (Budget0 \div 100) /\ Budget0 \div 100 \in Nat
        BY <4>1
      <4> QED
        BY <3>2, <4>2
    <3> QED
      BY <3>1, <3>2, OptimizerAssumption
  <2> QED
    BY <2>1, OptimizerAssumption DEF Amounts
<1>6. budget \in [Campaigns -> Amounts] /\ remote \in [Campaigns -> Nat]
  BY <1>4, <1>5, OptimizerAssumption
<1>7. MirrorInv
  BY <1>1, <1>4, <1>6 DEF MirrorInv, MirrorsPlatform, AtStore
<1>8. SpacedInv
  BY <1>1, <1>4 DEF SpacedInv, PastOf
<1>9. ChainInv
  BY <1>4, FS_EmptySet DEF ChainInv
<1>10. BoundInv
  BY <1>4 DEF BoundInv
<1> QED
  BY <1>2, <1>3, <1>7, <1>8, <1>9, <1>10 DEF SerialInv

LEMMA AnyInvariance == Spec => []AnyInv
<1>1. Init => LoggedInv /\ ReviewedInv
  BY DEF Init, LoggedInv, ReviewedInv
<1>2. AnyInv /\ [Next]_vars => AnyInv'
  BY NextInv, SingleNext, LoggedNext, ReviewedNext DEF AnyInv
<1>3. Init => AnyInv
  BY <1>1, InitInv, SingleInit DEF AnyInv
<1> QED
  BY <1>2, <1>3, PTL DEF Spec

LEMMA SerialInvariance ==
  ASSUME ~Overlap
  PROVE  Spec => [](AnyInv /\ SerialInv)
<1>1. AnyInv /\ SerialInv /\ [Next]_vars => SerialInv'
  <2> SUFFICES ASSUME AnyInv, SerialInv, [Next]_vars PROVE SerialInv'
    OBVIOUS
  <2>1. /\ IInv /\ SingleInv
        /\ TurnsTaken /\ PricesHold /\ ChainInv /\ MirrorInv /\ SpacedInv /\ BoundInv
    BY DEF AnyInv, SerialInv
  <2>2. SingleInv'
    BY <2>1, SingleNext
  <2>3. TurnsTaken' /\ PricesHold' /\ ChainInv'
    BY <2>1, TurnsNext, PricesNext, ChainNext
  <2>4. MirrorInv'
    BY <2>1, <2>2, <2>3, MirrorNext
  <2>5. SpacedInv' /\ BoundInv'
    BY <2>1, SpacedNext, BoundNext
  <2> QED
    BY <2>3, <2>4, <2>5 DEF SerialInv
<1> QED
  BY <1>1, AnyInvariance, SerialInit, PTL DEF Spec

\* When cycles take turns, our budget is the platform's, but for a change
\* that did not go through: a lost answer, a failed update or a crash
\* (executor.service.ts 67-94, 187-209).
THEOREM MirrorCorrect == ASSUME ~Overlap PROVE Spec => []MirrorsPlatform
  BY SerialInvariance, PTL DEF SerialInv, MirrorInv

\* No organization has two rules that switch the bidding strategy, as the
\* seeded ones (prisma/seed.ts 277): one cycle would run both.
OneStrategyRule ==
  \A p, q \in Rules :
    p.type = "SWITCH_BIDDING_STRATEGY" /\ q.type = "SWITCH_BIDDING_STRATEGY" => p = q

\* "Cooldown ... after intervention": a change that went through is followed
\* by none of its kind on its entity within a cooldown, whichever cycles made
\* them, whatever fails and however often Redis loses what it holds.
THEOREM SpacingCorrect ==
  ASSUME ~Overlap, OneStrategyRule
  PROVE  Spec => []OneChangePerCooldown
<1>1. ASSUME AnyInv, SerialInv PROVE OneChangePerCooldown
  <2> SUFFICES ASSUME NEW x \in changes, NEW y \in changes, x.n < y.n, x.entity = y.entity,
                      x.rule.type = y.rule.type, Vouched(x)
               PROVE  y.at - x.at >= Window
    BY DEF OneChangePerCooldown
  <2>1. Apart(x, y)
    BY <1>1 DEF SerialInv, SpacedInv
  <2>2. CASE x.by # y.by \/ Major(x)
    BY <2>1, <2>2 DEF Apart, Key
  <2>3. CASE x.by = y.by /\ ~Major(x)
    <3>1. x.rule.type = "SWITCH_BIDDING_STRATEGY" /\ x.rule \in Rules /\ y.rule \in Rules
      BY <1>1, <2>3 DEF AnyInv, SingleInv, Writes, IInv, Typed
    <3>2. x.rule = y.rule
      BY <3>1 DEF OneStrategyRule
    <3>3. x = y
      BY <1>1, <2>3, <3>2 DEF AnyInv, SingleInv, Clash, SameAction
    <3> QED
      BY <1>1, <3>3 DEF SerialInv, ChainInv, Numbered
  <2> QED
    BY <2>2, <2>3
<1> QED
  BY <1>1, SerialInvariance, PTL

\* Two changes of one budget within a cooldown: at most a raise and a cut.
LEMMA RaiseLimit ==
  ASSUME SerialInv, DecreasesLower,
         NEW x \in changes, NEW y \in changes, Major(x), Rival(y, x), x.n <= y.n, y.at - x.at < Window,
         \A z \in changes : Rival(z, x) /\ z.n < y.n => Vouched(z)
  PROVE  100 * y.to <= (100 + MaxIncrease) * x.from + 50 * Unit
<1> DEFINE Within(t, b) == 100 * t <= (100 + MaxIncrease) * b + 50 * Unit
<1>1. /\ Bound(x) /\ Sized(x) /\ Bound(y) /\ Sized(y) /\ Major(y) /\ y.entity = x.entity
      /\ x.rule.type \in BudgetTypes /\ y.rule.type \in BudgetTypes
  <2>1. Major(y) /\ y.entity = x.entity /\ Sized(x) /\ Sized(y)
    BY DEF SerialInv, ChainInv, Rival
  <2>2. \A z \in changes : z.n \in Nat
    BY DEF SerialInv, ChainInv, Numbered
  <2>3. Clean(x) /\ Clean(y)
    BY <2>1, <2>2 DEF Clean, Rival
  <2> QED
    BY <2>1, <2>3 DEF SerialInv, BoundInv, Major
<1>2. /\ x.from \in Nat /\ x.to \in Nat /\ y.from \in Nat /\ y.to \in Nat
      /\ MaxIncrease \in Nat /\ Window \in Nat /\ Unit \in Nat
  BY <1>1, OptimizerAssumption DEF Sized
<1>3. ASSUME NEW b \in Nat, NEW z, z.rule.type \in BudgetTypes, Sized(z), Bound(z), z.from <= b
      PROVE  Within(z.to, b)
  <2>1. z.from \in Nat /\ z.to \in Nat
    BY <1>3 DEF Sized
  <2>2. CASE z.rule.type = "INCREASE_BUDGET"
    <3>1. PICK d \in -100 .. MaxIncrease : z.from \in Amounts /\ z.to = ApplyDelta(z.from, d)
      BY <1>3, <2>2 DEF Bound
    <3>2. d \in Int /\ d >= -100 /\ 100 + d \in Nat /\ 100 + MaxIncrease \in Nat /\ 100 + d <= 100 + MaxIncrease
      BY <1>2, <3>1
    <3>3. 100 * z.to <= z.from * (100 + d) + 50 * Unit
      BY <2>1, <3>1, <3>2, DeltaBounds
    <3>4. z.from * (100 + d) <= b * (100 + MaxIncrease)
      BY <1>3, <2>1, <3>2, ProductGrows
    <3>5. PICK p \in Nat, q \in Nat : p = z.from * (100 + d) /\ q = b * (100 + MaxIncrease)
      BY <1>3, <2>1, <3>2
    <3>6. q = (100 + MaxIncrease) * b
      BY <1>2, <1>3, <3>5
    <3>7. 100 * z.to <= p + 50 * Unit /\ p <= q
      BY <3>3, <3>4, <3>5
    <3>8. 100 * z.to <= q + 50 * Unit
      BY <1>2, <2>1, <3>5, <3>7
    <3> QED
      BY <3>6, <3>8
  <2>3. CASE z.rule.type = "DECREASE_BUDGET"
    <3>1. z.to <= z.from
      BY <1>3, <2>3 DEF Bound
    <3>2. z.to * 100 <= b * (100 + MaxIncrease)
      BY <1>2, <1>3, <2>1, <3>1, ProductGrows
    <3> QED
      BY <1>2, <1>3, <2>1, <3>2
  <2> QED
    BY <1>3, <2>2, <2>3 DEF BudgetTypes
<1> HIDE DEF Within
<1>4. ASSUME x = y PROVE Within(y.to, x.from)
  <2>1. y.from <= x.from
    BY <1>2, <1>4
  <2> QED
    BY <1>1, <1>2, <1>3, <2>1
<1>5. ASSUME x # y PROVE Within(y.to, x.from)
  <2>1. x.n \in Nat /\ y.n \in Nat /\ x.n < y.n
    BY <1>5 DEF SerialInv, ChainInv, Numbered, InOrder
  <2>2. ASSUME NEW z \in changes, NEW w \in changes, z.n < w.n, w.n <= y.n, Rival(z, x), Rival(w, x),
               x.at <= z.at, w.at <= y.at
        PROVE  z.rule.type # w.rule.type
    <3>1. z.at \in Nat /\ w.at \in Nat /\ x.at \in Nat /\ y.at \in Nat /\ z.n \in Nat /\ w.n \in Nat
      BY DEF SerialInv, ChainInv, Numbered
    <3>2. Apart(z, w) /\ Major(z) /\ Vouched(z)
      <4>1. z.n < y.n
        BY <2>1, <2>2, <3>1
      <4> QED
        BY <2>2, <4>1 DEF SerialInv, SpacedInv, Rival
    <3>3. w.at - z.at < Window
      BY <1>2, <2>2, <3>1
    <3>4. ~(w.at - z.at >= Window)
      BY <1>2, <3>1, <3>3
    <3> QED
      BY <2>2, <3>1, <3>2, <3>4 DEF Apart, Key, Rival
  <2>3. x.at <= y.at /\ x.at \in Nat /\ y.at \in Nat
    BY <2>1 DEF SerialInv, ChainInv, InOrder, Numbered
  <2>4. Rival(x, x)
    BY DEF Rival
  <2>5. x.rule.type # y.rule.type
    BY <2>1, <2>2, <2>3, <2>4
  <2>6. NextAfter(x, y, changes)
    <3> SUFFICES ASSUME NEW z \in changes, Rival(z, x), ~(z.n <= x.n), ~(y.n <= z.n) PROVE FALSE
      BY <2>1 DEF NextAfter
    <3>1. z.n \in Nat
      BY DEF SerialInv, ChainInv, Numbered
    <3>2. x.n < z.n /\ z.n < y.n /\ x.n <= z.n /\ z.n <= y.n
      BY <2>1, <3>1
    <3>3. x.at <= z.at /\ z.at <= y.at
      BY <3>2 DEF SerialInv, ChainInv, InOrder
    <3>4. x.rule.type # z.rule.type
      BY <2>2, <2>3, <2>4, <3>2, <3>3
    <3>5. z.rule.type # y.rule.type
      <4>1. z.n < y.n /\ y.n <= y.n /\ x.at <= z.at /\ y.at <= y.at
        BY <2>1, <2>3, <3>2, <3>3
      <4> QED
        BY <2>2, <4>1
    <3>6. z.rule.type \in BudgetTypes
      BY DEF Rival, Major
    <3> QED
      BY <1>1, <2>5, <3>4, <3>5, <3>6 DEF BudgetTypes
  <2>7. y.from = x.to
    BY <2>6 DEF SerialInv, ChainInv, Linked
  <2>8. CASE x.rule.type = "DECREASE_BUDGET"
    <3>1. y.from <= x.from
      BY <1>1, <2>7, <2>8 DEF Bound
    <3> QED
      BY <1>1, <1>2, <1>3, <3>1
  <2>9. CASE x.rule.type = "INCREASE_BUDGET"
    <3>1. y.rule.type = "DECREASE_BUDGET"
      BY <1>1, <2>5, <2>9 DEF BudgetTypes
    <3>2. y.to <= x.to
      BY <1>1, <2>7, <3>1 DEF Bound
    <3>3. x.from <= x.from
      BY <1>2
    <3>4. Within(x.to, x.from)
      BY <1>1, <1>2, <1>3, <3>3
    <3>5. PICK q \in Nat : q = (100 + MaxIncrease) * x.from
      BY <1>2
    <3>6. 100 * x.to <= q + 50 * Unit
      BY <3>4, <3>5 DEF Within
    <3>7. 100 * y.to <= q + 50 * Unit
      BY <1>2, <3>2, <3>6
    <3> QED
      BY <3>5, <3>7 DEF Within
  <2> QED
    BY <1>1, <2>8, <2>9 DEF BudgetTypes
<1> QED
  BY <1>4, <1>5 DEF Within

\* "Never exceed +30% budget increase in 24h", and one budget action for each
\* entity and cycle: for any campaigns, rules, amounts and limits, whatever
\* fails, when cycles take turns and a decreasing rule decreases.
THEOREM ModestyCorrect ==
  ASSUME ~Overlap, DecreasesLower
  PROVE  Spec => []CycleIsModest
<1>1. ASSUME AnyInv, SerialInv PROVE RaiseBounded
  <2> SUFFICES ASSUME NEW x \in changes, NEW y \in changes, x.from # None, y.from # None,
                      x.entity = y.entity, x.n <= y.n, y.at - x.at < Window,
                      \A z \in changes : z.from # None /\ z.entity = x.entity /\ z.n < y.n => Vouched(z)
               PROVE  100 * y.to <= (100 + MaxIncrease) * x.from + 50 * Unit
    BY DEF RaiseBounded
  <2>1. ASSUME NEW z \in changes PROVE z.from # None <=> Major(z)
    <3>1. Major(z) => z.from \in Nat
      BY <1>1 DEF SerialInv, ChainInv, Sized
    <3> QED
      BY <1>1, <3>1, OptimizerAssumption DEF AnyInv, SingleInv
  <2>2. /\ Major(x) /\ Rival(y, x)
        /\ \A z \in changes : Rival(z, x) /\ z.n < y.n => Vouched(z)
    BY <2>1 DEF Rival
  <2> QED
    BY <1>1, <2>2, RaiseLimit
<1>2. Spec => []RaiseBounded
  BY <1>1, SerialInvariance, PTL
<1>3. Spec => [](RaiseBounded /\ OneBudgetActionPerCycle)
  BY <1>2, OneBudgetAction, PTL
<1>4. RaiseBounded /\ OneBudgetActionPerCycle => CycleIsModest
  BY DEF CycleIsModest
<1> QED
  BY <1>3, <1>4, PTL

=============================================================================
