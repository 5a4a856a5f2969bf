-------------------------- MODULE RuleTuner_proofs --------------------------
(***************************************************************************)
(* What is proved of the auto-tuner for every set of rules and requests    *)
(* and every setting: it stays within its cap, it respects the cooldown,   *)
(* it only ever tightens, and a rollback gives back what the run found.    *)
(*                                                                         *)
(* Request by request the inductive invariant says what a request may      *)
(* still write (RequestsOk), how many rows a run has and may still add     *)
(* (WithinCap), and, as long as nobody else has written a rule, how the    *)
(* rules differ from those the run found (RulesOk), what the changes still *)
(* to come would write (PlannedOk, PendingOk) and how old the standing     *)
(* changes of others are (Rested).                                         *)
(***************************************************************************)
EXTENDS RuleTuner, Overview, CollectionTheorems

-----------------------------------------------------------------------------
(* The inductive invariant                                                 *)

\* What the request r still has to write: one change for a rule; a run changes
\* a rule it has no row for, and a rollback the rule of a row of its run.
RequestOk(r) ==
  /\ req[r].pc \in {"idle", "simulate", "done"} => req[r].todo = {}
  /\ \A c, d \in req[r].todo : c.rule = d.rule => c = d
  /\ req[r].pc = "simulate" => req[r].scope \in Scopes
  /\ req[r].pc = "apply" =>
       /\ req[r].scope \in Scopes
       /\ \A c \in req[r].todo : <<r, c.rule>> \notin DOMAIN tlog
  /\ req[r].pc \in {"idle", "simulate", "rollback"} =>
       \A x \in Rules : <<r, x>> \notin DOMAIN tlog
  /\ req[r].pc = "rollback" =>
       /\ req[r].of \in Requests /\ req[req[r].of].pc \in {"apply", "done"}
       /\ \A c \in req[r].todo : c.rule \in DOMAIN rule =>
            /\ <<req[r].of, c.rule>> \in DOMAIN tlog
            /\ tlog[<<req[r].of, c.rule>>].field = c.field
            /\ tlog[<<req[r].of, c.rule>>].before = c.value

RequestsOk ==
  /\ \A r \in Requests : RequestOk(r)
  /\ \A u \in Requests : \A x \in Rules : <<u, x>> \in DOMAIN tlog => x \in DOMAIN rule

\* The rows of a run and the changes it has still to make are within the cap.
WithinCap(u) ==
  /\ IsFiniteSet(RowsOf(u)) /\ Cardinality(RowsOf(u)) <= MaxChanges
  /\ IsFiniteSet(req[u].todo)
  /\ req[u].pc = "apply" => Cardinality(RowsOf(u)) + Cardinality(req[u].todo) <= MaxChanges

\* Some row of the run changed this field of the rule, and still stands.
Changed(u, x, f) ==
  /\ <<u, x>> \in DOMAIN tlog
  /\ tlog[<<u, x>>].status = "APPLIED" /\ tlog[<<u, x>>].field = f

Started(u) == req[u].pc \in {"simulate", "apply"} \/ \E x \in Rules : <<u, x>> \in DOMAIN tlog

\* As long as nobody else writes, the rules are those the run found, except
\* for its changes that stand, and each row holds the value that was found.
RulesOk(u) == (Alone(u) /\ Started(u)) =>
  /\ found[u] \in [DOMAIN rule -> [Fields -> Int]]
  /\ \A x \in DOMAIN rule : \A f \in Fields : ~Changed(u, x, f) => rule[x][f] = found[u][x][f]
  /\ \A x \in Rules : <<u, x>> \in DOMAIN tlog =>
       tlog[<<u, x>>].before = found[u][x][tlog[<<u, x>>].field]

\* ... the changes still to come are what the rules of now call for ...
PlannedOk(u) == (Alone(u) /\ req[u].pc = "apply") =>
  \A c \in req[u].todo : c.rule \in DOMAIN rule /\ c = Change(c.rule, c.field)

\* ... what a rollback has still to restore has not been restored ...
PendingOk(r) == (Alone(r) /\ req[r].pc = "rollback") =>
  \A c \in req[r].todo :
    /\ c.rule \in DOMAIN rule
    /\ tlog[<<req[r].of, c.rule>>].status = "APPLIED"

\* ... and the changes of other runs that stand are a cooldown old.
Rested(u) == (Alone(u) /\ req[u].pc \in {"simulate", "apply"}) =>
  \A i \in DOMAIN tlog :
    (/\ i[1] # u /\ tlog[i].status = "APPLIED"
     /\ req[u].scope \in {All, tlog[i].scope}) => tlog[i].at + Cooldown <= now

IInv ==
  /\ TypeOK /\ RequestsOk /\ CooldownHolds
  /\ \A u \in Requests : /\ WithinCap(u) /\ RulesOk(u) /\ PlannedOk(u)
                         /\ PendingOk(u) /\ Rested(u)

-----------------------------------------------------------------------------
(* Sets of numbers, and counting                                           *)

\* The newest of the applied changes is at least as new as each of them: what
\* findFirst, ordered by appliedAt desc, is relied on for in the cooldown.
LEMMA NewestIsMax ==
  ASSUME NEW S, IsFiniteSet(S), S \subseteq Nat, S # {}
  PROVE  Max(S) \in S /\ \A y \in S : y <= Max(S)
<1> DEFINE NoMax == {W \in FiniteSubsetsOf(S) : W # {} /\ ~ \E x \in W : \A y \in W : y <= x}
<1>1. NoMax = {}
  <2>1. SUFFICES ASSUME NoMax # {} PROVE FALSE
    OBVIOUS
  <2>2. NoMax \subseteq FiniteSubsetsOf(S)
    OBVIOUS
  <2>3. PICK W \in NoMax : \A V \in NoMax : <<V, W>> \notin StrictSubsetOrdering(S)
    BY <2>1, <2>2, WFMin, FS_StrictSubsetOrderingWellFounded
  <2>4. PICK w \in W : TRUE
    OBVIOUS
  <2>5. IsFiniteSet(W) /\ W \subseteq S
    BY DEF FiniteSubsetsOf
  <2>6. IsFiniteSet(W \ {w}) /\ W \ {w} \in SUBSET S
    BY <2>5, FS_RemoveElement
  <2>7. W \ {w} \notin NoMax
    BY <2>3, <2>4, <2>5, <2>6 DEF StrictSubsetOrdering
  <2>8. W \ {w} = {} \/ \E x \in W \ {w} : \A y \in W \ {w} : y <= x
    BY <2>6, <2>7 DEF FiniteSubsetsOf
  <2>9. \E x \in W : \A y \in W : y <= x
    <3>1. CASE W \ {w} = {}
      BY <3>1, <2>4, <2>5
    <3>2. CASE \E x \in W \ {w} : \A y \in W \ {w} : y <= x
      <4>1. PICK x \in W \ {w} : \A y \in W \ {w} : y <= x
        BY <3>2
      <4>2. x \in Nat /\ w \in Nat /\ W \subseteq Nat
        BY <2>4, <2>5
      <4>3. QED
        BY <4>1, <4>2, <2>4
    <3>3. QED
      BY <2>8, <3>1, <3>2
  <2>10. QED
    BY <2>9
<1>2. S \in FiniteSubsetsOf(S)
  BY DEF FiniteSubsetsOf
<1>3. \E x \in S : \A y \in S : y <= x
  BY <1>1, <1>2
<1>4. \E x \in S : \A y \in S : x >= y
  BY <1>3
<1>5. Max(S) \in S /\ \A y \in S : Max(S) >= y
  BY <1>4 DEF Max
<1>6. QED
  BY <1>5

\* What is kept of a list under the cap is within it.
LEMMA CappedIsWithin ==
  ASSUME NEW s, IsFiniteSet(s), NEW kept \in Capped(s), MaxChanges \in Nat
  PROVE  kept \subseteq s /\ IsFiniteSet(kept) /\ Cardinality(kept) <= MaxChanges
<1>1. kept \subseteq s /\ Cardinality(kept) = Min({Cardinality(s), MaxChanges})
  BY DEF Capped, kSubset
<1>2. Cardinality(s) \in Nat
  BY FS_CardinalityType
<1>3. \E x \in {Cardinality(s), MaxChanges} : \A y \in {Cardinality(s), MaxChanges} : x =< y
  BY <1>2
<1>4. \A y \in {Cardinality(s), MaxChanges} : Min({Cardinality(s), MaxChanges}) =< y
  BY <1>3 DEF Min
<1>5. IsFiniteSet(kept)
  BY <1>1, FS_Subset
<1>6. QED
  BY <1>1, <1>4, <1>5

\* There are at most as many changes as rules they are made of.
LEMMA ChangesAreCounted ==
  ASSUME NEW kept, IsFiniteSet(kept), NEW kind
  PROVE  /\ IsFiniteSet({Change(x, kind[x]) : x \in kept})
         /\ Cardinality({Change(x, kind[x]) : x \in kept}) <= Cardinality(kept)
<1> DEFINE T == {Change(x, kind[x]) : x \in kept}
           g == [x \in kept |-> Change(x, kind[x])]
<1>1. g \in Surjection(kept, T)
  BY DEF Surjection
<1>2. QED
  BY <1>1, FS_Surjection

-----------------------------------------------------------------------------
(* Types                                                                   *)

-----------------------------------------------------------------------------
(* What the steps do to requests and rows                                  *)

\* A request is what its parts say.
LEMMA RequestParts ==
  ASSUME NEW pc, NEW scope, NEW of, NEW todo
  PROVE  /\ Request(pc, scope, of, todo).pc = pc
         /\ Request(pc, scope, of, todo).scope = scope
         /\ Request(pc, scope, of, todo).of = of
         /\ Request(pc, scope, of, todo).todo = todo
BY DEF Request

\* Replacing one request leaves the others alone and keeps the types.
LEMMA OneRequest ==
  ASSUME NEW r \in Requests, req \in [Requests -> Requested],
         NEW pc \in {"idle", "simulate", "apply", "rollback", "done"},
         NEW scope \in Scopes \cup {None}, NEW of \in Requests \cup {None},
         NEW todo \in SUBSET Changes,
         req' = [req EXCEPT ![r] = Request(pc, scope, of, todo)]
  PROVE  /\ req' \in [Requests -> Requested]
         /\ \A q \in Requests : q # r => req'[q] = req[q]
         /\ req'[r].pc = pc /\ req'[r].scope = scope
         /\ req'[r].of = of /\ req'[r].todo = todo
<1>1. Request(pc, scope, of, todo) \in Requested
  BY DEF Request, Requested
<1>2. req'[r] = Request(pc, scope, of, todo)
  OBVIOUS
<1>3. /\ req'[r].pc = pc /\ req'[r].scope = scope
      /\ req'[r].of = of /\ req'[r].todo = todo
  BY <1>2, RequestParts
<1>4. req' \in [Requests -> Requested] /\ \A q \in Requests : q # r => req'[q] = req[q]
  BY <1>1
<1>5. QED
  BY <1>3, <1>4

\* A request with one write less to do.
LEMMA OneWriteLess ==
  ASSUME NEW r \in Requests, req \in [Requests -> Requested], NEW c, req' = Without(r, c)
  PROVE  /\ req' \in [Requests -> Requested]
         /\ \A q \in Requests : q # r => req'[q] = req[q]
         /\ req'[r].todo = req[r].todo \ {c}
         /\ req'[r].pc = req[r].pc /\ req'[r].scope = req[r].scope /\ req'[r].of = req[r].of
<1>1. /\ req[r].pc \in {"idle", "simulate", "apply", "rollback", "done"}
      /\ req[r].scope \in Scopes \cup {None} /\ req[r].of \in Requests \cup {None}
      /\ req[r].todo \ {c} \in SUBSET Changes
  BY DEF Requested
<1>2. Request(req[r].pc, req[r].scope, req[r].of, req[r].todo \ {c}) \in Requested
  BY <1>1 DEF Request, Requested
<1>3. req'[r] = Request(req[r].pc, req[r].scope, req[r].of, req[r].todo \ {c})
  BY DEF Without
<1>4. /\ req'[r].pc = req[r].pc /\ req'[r].scope = req[r].scope
      /\ req'[r].of = req[r].of /\ req'[r].todo = req[r].todo \ {c}
  BY <1>3, RequestParts
<1>5. req' \in [Requests -> Requested] /\ \A q \in Requests : q # r => req'[q] = req[q]
  BY <1>2 DEF Without
<1>6. QED
  BY <1>4, <1>5

\* A request that ends, or has one write less to do, keeps everything else.
LEMMA FewerWrites ==
  ASSUME NEW r \in Requests, req \in [Requests -> Requested],
         \/ req' = Ended(r)
         \/ \E c \in req[r].todo : req' = Without(r, c)
  PROVE  /\ req' \in [Requests -> Requested]
         /\ \A q \in Requests : q # r => req'[q] = req[q]
         /\ req'[r].todo \subseteq req[r].todo
         /\ \/ req'[r].pc = "done" /\ req'[r].todo = {}
            \/ /\ req'[r].pc = req[r].pc /\ req'[r].scope = req[r].scope
               /\ req'[r].of = req[r].of
<1>1. CASE req' = Ended(r)
  <2>1. /\ "done" \in {"idle", "simulate", "apply", "rollback", "done"}
        /\ None \in Scopes \cup {None} /\ None \in Requests \cup {None}
        /\ {} \in SUBSET Changes
    OBVIOUS
  <2>2. req' = [req EXCEPT ![r] = Request("done", None, None, {})]
    BY <1>1 DEF Ended
  <2>3. /\ req' \in [Requests -> Requested]
        /\ \A q \in Requests : q # r => req'[q] = req[q]
        /\ req'[r].pc = "done" /\ req'[r].todo = {}
    BY <2>1, <2>2, OneRequest
  <2>4. QED
    BY <2>3
<1>2. CASE \E c \in req[r].todo : req' = Without(r, c)
  <2>1. PICK c \in req[r].todo : req' = Without(r, c)
    BY <1>2
  <2>2. QED
    BY <2>1, OneWriteLess
<1>3. QED
  BY <1>1, <1>2

\* Writing one field of a rule.
LEMMA OneField ==
  ASSUME TypeOK, NEW x \in DOMAIN rule, NEW f \in Fields, NEW v \in Int, Legal(f, v),
         rule' = [rule EXCEPT ![x][f] = v]
  PROVE  /\ DOMAIN rule' = DOMAIN rule
         /\ rule' \in [DOMAIN rule -> [Fields -> Int]]
         /\ rule'[x][f] = v
         /\ \A y \in DOMAIN rule : \A g \in Fields : (y # x \/ g # f) => rule'[y][g] = rule[y][g]
         /\ \A y \in DOMAIN rule : \A g \in Fields : Legal(g, rule'[y][g])
<1>1. rule \in [DOMAIN rule -> [Fields -> Int]] /\ rule[x] \in [Fields -> Int]
  BY DEF TypeOK
<1>2. DOMAIN rule' = DOMAIN rule /\ rule' \in [DOMAIN rule -> [Fields -> Int]]
  BY <1>1
<1>3. rule'[x] = [rule[x] EXCEPT ![f] = v] /\ \A y \in DOMAIN rule : y # x => rule'[y] = rule[y]
  BY <1>1
<1>4. rule'[x][f] = v /\ \A g \in Fields : g # f => rule'[x][g] = rule[x][g]
  BY <1>1, <1>3
<1>5. \A y \in DOMAIN rule : \A g \in Fields : (y # x \/ g # f) => rule'[y][g] = rule[y][g]
  BY <1>3, <1>4
<1>6. \A y \in DOMAIN rule : \A g \in Fields : Legal(g, rule'[y][g])
  BY <1>4, <1>5 DEF TypeOK
<1>7. QED
  BY <1>2, <1>4, <1>5, <1>6

-----------------------------------------------------------------------------
(* The clock, the settings, and requests that end                          *)

\* Time and the settings disturb nothing.
LEMMA QuietStep ==
  ASSUME IInv, Cooldown \in Nat, UNCHANGED <<rule, tlog, req, found>>,
         tunable' \subseteq Scopes, now' \in Nat, now <= now'
  PROVE  IInv'
<1>1. TypeOK'
  BY DEF IInv, TypeOK
<1>2. RequestsOk' /\ CooldownHolds'
  BY DEF IInv, RequestsOk, RequestOk, CooldownHolds, Alone
<1>3. ASSUME NEW u \in Requests PROVE (WithinCap(u) /\ RulesOk(u) /\ PlannedOk(u) /\ PendingOk(u))'
  <2>1. WithinCap(u)'
    BY DEF IInv, WithinCap, RowsOf
  <2>2. RulesOk(u)'
    BY DEF IInv, RulesOk, Alone, Started, Changed
  <2>3. PlannedOk(u)'
    BY DEF IInv, PlannedOk, Alone, Change, Tightened
  <2>4. PendingOk(u)'
    BY DEF IInv, PendingOk, Alone
  <2>5. QED
    BY <2>1, <2>2, <2>3, <2>4
<1>4. ASSUME NEW u \in Requests PROVE Rested(u)'
  <2>1. SUFFICES ASSUME (Alone(u) /\ req[u].pc \in {"simulate", "apply"})',
                        NEW i \in DOMAIN tlog, i[1] # u, tlog[i].status = "APPLIED",
                        req[u].scope \in {All, tlog[i].scope}
                 PROVE  tlog[i].at + Cooldown <= now'
    BY DEF Rested
  <2>2. tlog[i].at + Cooldown <= now
    BY <2>1 DEF IInv, Rested, Alone
  <2>3. tlog[i].at \in Nat /\ now \in Nat
    BY DEF IInv, TypeOK, TuningRow
  <2>4. QED
    BY <2>2, <2>3
<1>5. QED
  BY <1>1, <1>2, <1>3, <1>4 DEF IInv

\* A request that ends, with or without writes to come, or drops a write.
LEMMA EndingStep ==
  ASSUME IInv, MaxChanges \in Nat, NEW r \in Requests, req[r].pc \in {"apply", "rollback"},
         UNCHANGED <<rule, tunable, tlog, found, now>>,
         \/ req' = Ended(r)
         \/ \E c \in req[r].todo : req' = Without(r, c)
  PROVE  IInv'
<1>1. /\ req' \in [Requests -> Requested]
      /\ \A q \in Requests : q # r => req'[q] = req[q]
      /\ req'[r].todo \subseteq req[r].todo
      /\ \/ req'[r].pc = "done" /\ req'[r].todo = {}
         \/ /\ req'[r].pc = req[r].pc /\ req'[r].scope = req[r].scope
            /\ req'[r].of = req[r].of
  BY FewerWrites DEF IInv, TypeOK
<1>2. \A q \in Requests : req'[q].todo \subseteq req[q].todo
  BY <1>1
<1>3. TypeOK'
  BY <1>1, <1>2 DEF IInv, TypeOK
<1>4. RequestsOk'
  <2>1. ASSUME NEW q \in Requests PROVE RequestOk(q)'
    <3>1. RequestOk(q)
      BY DEF IInv, RequestsOk
    <3>2. CASE q = r
      <4>1. CASE req'[r].pc = "done"
        BY <4>1, <3>1, <3>2, <1>1 DEF RequestOk
      <4>2. CASE req'[r].pc = req[r].pc /\ req'[r].scope = req[r].scope /\ req'[r].of = req[r].of
        <5>1. (req[q].pc = "rollback")' => req[r].of # r
          BY <3>1, <3>2, <4>2 DEF RequestOk
        <5>2. (req[q].pc = "rollback")' => req'[req[r].of] = req[req[r].of]
          BY <5>1, <3>1, <3>2, <4>2, <1>1 DEF RequestOk
        <5>3. QED
          BY <5>2, <4>2, <3>1, <3>2, <1>1 DEF RequestOk
      <4>3. QED
        BY <4>1, <4>2, <1>1
    <3>3. CASE q # r
      <4>1. req'[q] = req[q]
        BY <1>1, <3>3
      <4>2. req[q].pc = "rollback" => req'[req[q].of].pc \in {"apply", "done"}
        BY <3>1, <1>1 DEF RequestOk
      <4>3. QED
        BY <4>1, <4>2, <3>1 DEF RequestOk
    <3>4. QED
      BY <3>2, <3>3
  <2>2. QED
    BY <2>1 DEF IInv, RequestsOk
<1>5. CooldownHolds'
  BY DEF IInv, CooldownHolds, Alone
<1>6. ASSUME NEW u \in Requests PROVE WithinCap(u)'
  <2>1. WithinCap(u) /\ RowsOf(u)' = RowsOf(u)
    BY DEF IInv, RowsOf
  <2>2. IsFiniteSet(req'[u].todo) /\ Cardinality(req'[u].todo) <= Cardinality(req[u].todo)
    BY <2>1, <1>2, FS_Subset DEF WithinCap
  <2>3. /\ Cardinality(RowsOf(u)) \in Nat /\ Cardinality(req[u].todo) \in Nat
        /\ Cardinality(req'[u].todo) \in Nat
    BY <2>1, <2>2, FS_CardinalityType DEF WithinCap
  <2>4. (req[u].pc = "apply")' => req[u].pc = "apply"
    BY <1>1
  <2>5. QED
    BY <2>1, <2>2, <2>3, <2>4 DEF WithinCap
<1>7. ASSUME NEW u \in Requests PROVE RulesOk(u)'
  <2>1. Started(u)' => Started(u)
    BY <1>1 DEF Started
  <2>2. RulesOk(u) /\ (Alone(u)' <=> Alone(u))
    BY DEF IInv, Alone
  <2>3. QED
    BY <2>1, <2>2 DEF RulesOk, Changed
<1>8. ASSUME NEW u \in Requests PROVE PlannedOk(u)' /\ PendingOk(u)' /\ Rested(u)'
  <2>1. PlannedOk(u) /\ PendingOk(u) /\ Rested(u) /\ (Alone(u)' <=> Alone(u))
    BY DEF IInv, Alone
  <2>2. req'[u].pc \in {"simulate", "apply", "rollback"} =>
          /\ req'[u].pc = req[u].pc /\ req'[u].scope = req[u].scope
          /\ req'[u].of = req[u].of
    BY <1>1
  <2>3. PlannedOk(u)'
    BY <2>1, <2>2, <1>2 DEF PlannedOk, Change, Tightened
  <2>4. PendingOk(u)'
    BY <2>1, <2>2, <1>2 DEF PendingOk
  <2>5. Rested(u)'
    BY <2>1, <2>2 DEF Rested
  <2>6. QED
    BY <2>3, <2>4, <2>5
<1>9. QED
  BY <1>3, <1>4, <1>5, <1>6, <1>7, <1>8 DEF IInv

-----------------------------------------------------------------------------
(* Requests that start                                                     *)

\* The key of a log row: its run and its rule.
LEMMA RowKey ==
  ASSUME TypeOK, NEW i \in DOMAIN tlog
  PROVE  i = <<i[1], i[2]>> /\ i[1] \in Requests /\ i[2] \in Rules /\ tlog[i] \in TuningRow
BY DEF TypeOK

\* Once the cooldown of a scope is over, every standing change in the scope is
\* a cooldown old (isCooldownActive looks at the newest only).
LEMMA CooldownIsOver ==
  ASSUME TypeOK, NEW s, ~CooldownActive(s)
  PROVE  \A i \in DOMAIN tlog :
           (tlog[i].status = "APPLIED" /\ s \in {All, tlog[i].scope})
             => tlog[i].at + Cooldown <= now
<1> DEFINE Standing == {j \in DOMAIN tlog :
                          tlog[j].status = "APPLIED" /\ (s = All \/ tlog[j].scope = s)}
           g == [j \in Standing |-> tlog[j].at]
<1>1. IsFiniteSet(Requests \X Rules)
  BY FS_Product, TunerAssumption
<1>2. IsFiniteSet(Standing)
  BY <1>1, FS_Subset DEF TypeOK
<1>3. g \in Surjection(Standing, AppliedAt(s))
  BY DEF Surjection, AppliedAt
<1>4. IsFiniteSet(AppliedAt(s))
  BY <1>2, <1>3, FS_Surjection
<1>5. AppliedAt(s) \subseteq Nat
  BY RowKey DEF AppliedAt, TuningRow
<1>6. Cooldown \in Nat /\ now \in Nat
  BY TunerAssumption DEF TypeOK
<1>7. SUFFICES ASSUME NEW i \in DOMAIN tlog, tlog[i].status = "APPLIED", s \in {All, tlog[i].scope}
               PROVE  tlog[i].at + Cooldown <= now
  OBVIOUS
<1>8. tlog[i].at \in AppliedAt(s)
  BY <1>7 DEF AppliedAt
<1>9. Max(AppliedAt(s)) \in AppliedAt(s) /\ tlog[i].at <= Max(AppliedAt(s))
  BY <1>4, <1>5, <1>8, NewestIsMax
<1>10. ~(Max(AppliedAt(s)) + Cooldown > now)
  BY <1>8 DEF CooldownActive
<1>11. tlog[i].at \in Nat /\ Max(AppliedAt(s)) \in Nat
  BY <1>5, <1>8, <1>9
<1>12. QED
  BY <1>6, <1>9, <1>10, <1>11

\* A run that passes its preflight finds the rules as they are, and every
\* standing change of its scope a cooldown old.
LEMMA PreflightStep ==
  ASSUME IInv, NEW r \in Requests, Preflight(r)
  PROVE  IInv'
<1>1. PICK s \in tunable : ~CooldownActive(s) /\ req' = [req EXCEPT ![r] = Request("simulate", s, None, {})]
  BY DEF Preflight
<1>2. /\ req[r].pc = "idle" /\ found' = [found EXCEPT ![r] = rule]
      /\ UNCHANGED <<rule, tunable, tlog, now>>
  BY DEF Preflight
<1>3. /\ "simulate" \in {"idle", "simulate", "apply", "rollback", "done"}
      /\ s \in Scopes \cup {None} /\ None \in Requests \cup {None} /\ {} \in SUBSET Changes
      /\ s \in Scopes /\ req \in [Requests -> Requested]
  BY DEF IInv, TypeOK
<1>4. /\ req' \in [Requests -> Requested]
      /\ \A q \in Requests : q # r => req'[q] = req[q]
      /\ req'[r].pc = "simulate" /\ req'[r].scope = s
      /\ req'[r].of = None /\ req'[r].todo = {}
  BY <1>1, <1>3, OneRequest
<1>5. /\ found' = [q \in Requests |-> found'[q]] /\ found'[r] = rule
      /\ \A q \in Requests : q # r => found'[q] = found[q]
  BY <1>2 DEF IInv, TypeOK
<1>6. TypeOK'
  <2>1. \A q \in Requests : req'[q].todo \subseteq req[q].todo
    BY <1>4
  <2>2. QED
    BY <1>2, <1>4, <1>5, <2>1 DEF IInv, TypeOK
<1>7. \A x \in Rules : <<r, x>> \notin DOMAIN tlog
  BY <1>2 DEF IInv, RequestsOk, RequestOk
<1>8. RequestsOk'
  <2>1. ASSUME NEW q \in Requests PROVE RequestOk(q)'
    <3>1. CASE q = r
      BY <3>1, <1>2, <1>3, <1>4, <1>7 DEF RequestOk
    <3>2. CASE q # r
      <4>1. RequestOk(q) /\ req'[q] = req[q]
        BY <3>2, <1>4 DEF IInv, RequestsOk
      <4>2. req[q].pc = "rollback" => req'[req[q].of] = req[req[q].of]
        BY <4>1, <1>2, <1>4 DEF RequestOk
      <4>3. QED
        BY <4>1, <4>2, <1>2 DEF RequestOk
    <3>3. QED
      BY <3>1, <3>2
  <2>2. QED
    BY <2>1, <1>2 DEF IInv, RequestsOk
<1>9. CooldownHolds'
  <2>1. \A j \in DOMAIN tlog : j[1] \in Requests /\ j[1] # r
    BY <1>7, RowKey DEF IInv
  <2>2. QED
    BY <2>1, <1>2, <1>5 DEF IInv, CooldownHolds, Alone
<1>10. ASSUME NEW u \in Requests PROVE WithinCap(u)'
  <2>1. WithinCap(u) /\ RowsOf(u)' = RowsOf(u)
    BY <1>2 DEF IInv, RowsOf
  <2>2. CASE u = r
    BY <2>1, <2>2, <1>4, FS_EmptySet DEF WithinCap
  <2>3. CASE u # r
    BY <2>1, <2>3, <1>4 DEF WithinCap
  <2>4. QED
    BY <2>2, <2>3
<1>11. ASSUME NEW u \in Requests, u # r PROVE (RulesOk(u) /\ PlannedOk(u) /\ PendingOk(u) /\ Rested(u))'
  <2>1. RulesOk(u) /\ PlannedOk(u) /\ PendingOk(u) /\ Rested(u)
    BY DEF IInv
  <2>2. req'[u] = req[u] /\ found'[u] = found[u]
    BY <1>11, <1>4, <1>5
  <2>3. RulesOk(u)'
    BY <2>1, <2>2, <1>2 DEF RulesOk, Alone, Started, Changed
  <2>4. PlannedOk(u)'
    BY <2>1, <2>2, <1>2 DEF PlannedOk, Alone, Change, Tightened
  <2>5. PendingOk(u)'
    BY <2>1, <2>2, <1>2 DEF PendingOk, Alone
  <2>6. Rested(u)'
    BY <2>1, <2>2, <1>2 DEF Rested, Alone
  <2>7. QED
    BY <2>3, <2>4, <2>5, <2>6
<1>12. (RulesOk(r) /\ PlannedOk(r) /\ PendingOk(r) /\ Rested(r))'
  <2>1. RulesOk(r)'
    BY <1>2, <1>5, <1>7 DEF IInv, TypeOK, RulesOk
  <2>2. PlannedOk(r)' /\ PendingOk(r)'
    BY <1>4 DEF PlannedOk, PendingOk
  <2>3. Rested(r)'
    BY <1>1, <1>2, <1>4, CooldownIsOver DEF IInv, Rested
  <2>4. QED
    BY <2>1, <2>2, <2>3
<1>13. QED
  BY <1>6, <1>8, <1>9, <1>10, <1>11, <1>12 DEF IInv

\* A tightened threshold (applyTighteningDelta) is an amount again, on the side
\* of the old one where fewer values match.
LEMMA TightenedOk ==
  ASSUME TypeOK, NEW x \in DOMAIN rule
  PROVE  /\ Tightened(x) \in Int
         /\ rule[x].thresholdValue >= 0 /\ Comparator[x] = "GT" => Tightened(x) >= rule[x].thresholdValue
         /\ rule[x].thresholdValue >= 0 /\ Comparator[x] = "LT" => Tightened(x) <= rule[x].thresholdValue
         /\ Comparator[x] = "EQ" => Tightened(x) = rule[x].thresholdValue
<1> DEFINE v == rule[x].thresholdValue
<1>1. x \in Rules /\ v \in Int
  BY DEF TypeOK, Fields
<1>2. Comparator[x] \in {"GT", "LT", "EQ"}
  BY <1>1, TunerAssumption
<1> HIDE DEF v
<1>3. (v * 110 + 50) \div 100 \in Int /\ (v >= 0 => (v * 110 + 50) \div 100 >= v)
  BY <1>1
<1>4. (v * 90 + 50) \div 100 \in Int /\ (v >= 0 => (v * 90 + 50) \div 100 <= v)
  BY <1>1
<1>5. CASE Comparator[x] = "GT"
  <2>1. Tightened(x) = (v * 110 + 50) \div 100
    BY <1>5 DEF Tightened, v
  <2>2. QED
    BY <2>1, <1>3, <1>5 DEF v
<1>6. CASE Comparator[x] = "LT"
  <2>1. Tightened(x) = (v * 90 + 50) \div 100
    BY <1>6 DEF Tightened, v
  <2>2. QED
    BY <2>1, <1>4, <1>6 DEF v
<1>7. CASE Comparator[x] = "EQ"
  <2>1. Tightened(x) = v
    BY <1>7 DEF Tightened, v
  <2>2. QED
    BY <2>1, <1>1, <1>7 DEF v
<1>8. QED
  BY <1>2, <1>5, <1>6, <1>7

\* What a change is made of.
LEMMA ChangeOk ==
  ASSUME TypeOK, NEW x \in DOMAIN rule, NEW f \in Fields
  PROVE  /\ Change(x, f) \in Changes /\ Legal(f, Change(x, f).value)
         /\ Change(x, f).rule = x /\ Change(x, f).field = f
<1>1. x \in Rules /\ Tightened(x) \in Int
  BY TightenedOk DEF TypeOK
<1>2. Change(x, f).rule = x /\ Change(x, f).field = f
  BY DEF Change
<1>3. CASE f = "isEnabled"
  <2>1. Change(x, f) = [rule |-> x, field |-> f, value |-> 0]
    BY <1>3 DEF Change
  <2>2. QED
    BY <2>1, <1>1, <1>2, <1>3 DEF Changes, Legal
<1>4. CASE f # "isEnabled"
  <2>1. Change(x, f) = [rule |-> x, field |-> f, value |-> Tightened(x)]
    BY <1>4 DEF Change
  <2>2. QED
    BY <2>1, <1>1, <1>2, <1>4 DEF Changes, Legal
<1>5. QED
  BY <1>3, <1>4

\* A run that has simulated plans one change for a rule, within the cap, as the
\* rules of now call for.
LEMMA SimulateStep ==
  ASSUME IInv, NEW r \in Requests, Simulate(r)
  PROVE  IInv'
<1>1. PICK s \in SUBSET DOMAIN rule : \E kind \in [s -> Fields] : \E kept \in Capped(s) :
        req' = [req EXCEPT ![r] =
                  Request("apply", req[r].scope, None, {Change(x, kind[x]) : x \in kept})]
  BY DEF Simulate
<1>2. PICK kind \in [s -> Fields] : \E kept \in Capped(s) :
        req' = [req EXCEPT ![r] =
                  Request("apply", req[r].scope, None, {Change(x, kind[x]) : x \in kept})]
  BY <1>1
<1>3. PICK kept \in Capped(s) :
        req' = [req EXCEPT ![r] =
                  Request("apply", req[r].scope, None, {Change(x, kind[x]) : x \in kept})]
  BY <1>2
<1>4. req[r].pc = "simulate" /\ UNCHANGED <<rule, tunable, tlog, found, now>>
  BY DEF Simulate
<1>5. TypeOK /\ MaxChanges \in Nat /\ IsFiniteSet(Rules)
  BY TunerAssumption DEF IInv
<1>6. IsFiniteSet(s) /\ s \subseteq DOMAIN rule
  BY <1>5, FS_Subset DEF TypeOK
<1>7. kept \subseteq s /\ IsFiniteSet(kept) /\ Cardinality(kept) <= MaxChanges
  BY <1>5, <1>6, CappedIsWithin
<1> DEFINE todo == {Change(x, kind[x]) : x \in kept}
           scope == req[r].scope
<1>8. \A x \in kept : x \in DOMAIN rule /\ kind[x] \in Fields
  BY <1>6, <1>7
<1>9. \A c \in todo :
        /\ c \in Changes /\ Legal(c.field, c.value)
        /\ c.rule \in kept /\ c = Change(c.rule, kind[c.rule]) /\ c.field = kind[c.rule]
  <2>1. SUFFICES ASSUME NEW x \in kept
                 PROVE  /\ Change(x, kind[x]) \in Changes
                        /\ Legal(Change(x, kind[x]).field, Change(x, kind[x]).value)
                        /\ Change(x, kind[x]).rule = x /\ Change(x, kind[x]).field = kind[x]
    OBVIOUS
  <2>2. x \in DOMAIN rule /\ kind[x] \in Fields
    BY <1>8
  <2>3. QED
    BY <2>2, <1>5, ChangeOk
<1>10. \A c, d \in todo : c.rule = d.rule => c = d
  BY <1>9
<1>11. IsFiniteSet(todo) /\ Cardinality(todo) <= Cardinality(kept)
  BY <1>7, ChangesAreCounted
<1>12. /\ "apply" \in {"idle", "simulate", "apply", "rollback", "done"}
       /\ scope \in Scopes \cup {None} /\ None \in Requests \cup {None} /\ todo \in SUBSET Changes
       /\ scope \in Scopes /\ req \in [Requests -> Requested]
  BY <1>4, <1>9 DEF IInv, TypeOK, RequestsOk, RequestOk
<1>13. req' = [req EXCEPT ![r] = Request("apply", scope, None, todo)]
  BY <1>3
<1> HIDE DEF todo, scope
<1>14. /\ req' \in [Requests -> Requested]
       /\ \A q \in Requests : q # r => req'[q] = req[q]
       /\ req'[r].pc = "apply" /\ req'[r].scope = scope
       /\ req'[r].of = None /\ req'[r].todo = todo
  BY <1>12, <1>13, OneRequest
<1>15. TypeOK'
  <2>1. \A q \in Requests : \A c \in req'[q].todo : Legal(c.field, c.value)
    BY <1>5, <1>9, <1>14 DEF TypeOK
  <2>2. QED
    BY <1>4, <1>5, <1>14, <2>1 DEF TypeOK
<1>16. \A x \in Rules : <<r, x>> \notin DOMAIN tlog
  BY <1>4 DEF IInv, RequestsOk, RequestOk
<1>17. RequestsOk'
  <2>1. ASSUME NEW q \in Requests PROVE RequestOk(q)'
    <3>1. CASE q = r
      <4>1. \A c \in todo : <<r, c.rule>> \notin DOMAIN tlog
        BY <1>9, <1>16 DEF Changes
      <4>2. QED
        BY <3>1, <4>1, <1>4, <1>10, <1>12, <1>14 DEF RequestOk
    <3>2. CASE q # r
      <4>1. RequestOk(q) /\ req'[q] = req[q]
        BY <3>2, <1>14 DEF IInv, RequestsOk
      <4>2. req[q].pc = "rollback" => req'[req[q].of] = req[req[q].of]
        BY <4>1, <1>4, <1>14 DEF RequestOk
      <4>3. QED
        BY <4>1, <4>2, <1>4 DEF RequestOk
    <3>3. QED
      BY <3>1, <3>2
  <2>2. QED
    BY <2>1, <1>4 DEF IInv, RequestsOk
<1>18. CooldownHolds'
  BY <1>4 DEF IInv, CooldownHolds, Alone
<1>19. ASSUME NEW u \in Requests PROVE WithinCap(u)'
  <2>1. WithinCap(u) /\ RowsOf(u)' = RowsOf(u)
    BY <1>4 DEF IInv, RowsOf
  <2>2. CASE u = r
    <3>1. RowsOf(r) = {}
      BY <1>5, <1>16, RowKey DEF RowsOf
    <3>2. Cardinality(RowsOf(r)) = 0
      BY <3>1, FS_EmptySet
    <3>3. Cardinality(kept) \in Nat /\ Cardinality(todo) \in Nat
      BY <1>7, <1>11, FS_CardinalityType
    <3>4. QED
      BY <2>1, <2>2, <3>2, <3>3, <1>5, <1>7, <1>11, <1>14 DEF WithinCap
  <2>3. CASE u # r
    BY <2>1, <2>3, <1>14 DEF WithinCap
  <2>4. QED
    BY <2>2, <2>3
<1>20. ASSUME NEW u \in Requests PROVE (RulesOk(u) /\ PlannedOk(u) /\ PendingOk(u) /\ Rested(u))'
  <2>1. RulesOk(u) /\ PlannedOk(u) /\ PendingOk(u) /\ Rested(u) /\ (Alone(u)' <=> Alone(u))
    BY <1>4 DEF IInv, Alone
  <2>2. Started(u)' => Started(u)
    BY <1>4, <1>14 DEF Started
  <2>3. RulesOk(u)'
    BY <2>1, <2>2, <1>4 DEF RulesOk, Changed
  <2>4. PlannedOk(u)'
    <3>1. CASE u = r
      BY <3>1, <1>4, <1>8, <1>9, <1>14 DEF PlannedOk, Change, Tightened
    <3>2. CASE u # r
      BY <3>2, <2>1, <1>4, <1>14 DEF PlannedOk, Change, Tightened
    <3>3. QED
      BY <3>1, <3>2
  <2>5. PendingOk(u)'
    BY <2>1, <1>4, <1>14 DEF PendingOk
  <2>6. Rested(u)'
    <3>1. req'[u].scope = req[u].scope
      BY <1>14 DEF scope
    <3>2. req'[u].pc \in {"simulate", "apply"} => req[u].pc \in {"simulate", "apply"}
      BY <1>4, <1>14
    <3>3. QED
      BY <3>1, <3>2, <2>1, <1>4 DEF Rested
  <2>7. QED
    BY <2>3, <2>4, <2>5, <2>6
<1>21. QED
  BY <1>15, <1>17, <1>18, <1>19, <1>20 DEF IInv

\* A rollback that has read the standing rows of a run has, for each of them,
\* the value that was there before.
LEMMA LoadRowsStep ==
  ASSUME IInv, NEW r \in Requests, LoadRows(r)
  PROVE  IInv'
<1> DEFINE Back(i) == [rule |-> i[2], field |-> tlog[i].field, value |-> Restored(i)]
           Standing(u) == {j \in RowsOf(u) : Replayable(j)}
<1>1. PICK u \in {i[1] : i \in DOMAIN tlog} :
        req' = [req EXCEPT ![r] = Request("rollback", None, u, {Back(i) : i \in Standing(u)})]
  BY DEF LoadRows
<1>2. /\ req[r].pc = "idle" /\ found' = [found EXCEPT ![r] = rule]
      /\ UNCHANGED <<rule, tunable, tlog, now>>
  BY DEF LoadRows
<1>3. TypeOK
  BY DEF IInv
<1> DEFINE todo == {Back(i) : i \in Standing(u)}
<1>4. PICK k \in DOMAIN tlog : k[1] = u
  BY <1>1
<1>5. u \in Requests /\ k[2] \in Rules /\ <<u, k[2]>> \in DOMAIN tlog
  BY <1>3, <1>4, RowKey
<1>6. req[u].pc \in {"apply", "done"}
  <2>1. req[u] \in Requested /\ RequestOk(u)
    BY <1>5 DEF IInv, TypeOK, RequestsOk
  <2>2. QED
    BY <2>1, <1>5 DEF RequestOk, Requested
<1>7. u # r
  BY <1>2, <1>6
<1>8. \A i \in Standing(u) :
        /\ i \in DOMAIN tlog /\ i = <<u, i[2]>> /\ i[2] \in Rules /\ i[2] \in DOMAIN rule
        /\ tlog[i].status = "APPLIED" /\ tlog[i] \in TuningRow
        /\ Legal(tlog[i].field, tlog[i].before)
  <2>1. SUFFICES ASSUME NEW i \in Standing(u)
                 PROVE  /\ i \in DOMAIN tlog /\ i = <<u, i[2]>> /\ i[2] \in Rules
                        /\ i[2] \in DOMAIN rule
                        /\ tlog[i].status = "APPLIED" /\ tlog[i] \in TuningRow
                        /\ Legal(tlog[i].field, tlog[i].before)
    OBVIOUS
  <2>2. i \in DOMAIN tlog /\ i[1] = u /\ tlog[i].status = "APPLIED"
    BY DEF RowsOf, Replayable
  <2>3. i = <<u, i[2]>> /\ i[2] \in Rules /\ tlog[i] \in TuningRow
    BY <2>2, <1>3, RowKey
  <2>4. i[2] \in DOMAIN rule
    BY <2>2, <2>3, <1>5 DEF IInv, RequestsOk
  <2>5. Legal(tlog[i].field, tlog[i].before)
    BY <2>2 DEF IInv, TypeOK
  <2>6. QED
    BY <2>2, <2>3, <2>4, <2>5
<1>9. \A i \in Standing(u) :
        /\ Back(i).rule = i[2] /\ Back(i).field = tlog[i].field /\ Back(i).value = tlog[i].before
        /\ Back(i) \in Changes
  BY <1>8 DEF Restored, Changes, TuningRow
<1>10. \A c \in todo :
         /\ c \in Changes /\ Legal(c.field, c.value)
         /\ c.rule \in DOMAIN rule /\ <<u, c.rule>> \in Standing(u) /\ c = Back(<<u, c.rule>>)
         /\ c.field = tlog[<<u, c.rule>>].field /\ c.value = tlog[<<u, c.rule>>].before
         /\ tlog[<<u, c.rule>>].status = "APPLIED" /\ <<u, c.rule>> \in DOMAIN tlog
  <2>1. SUFFICES ASSUME NEW c \in todo, NEW i \in Standing(u), c = Back(i)
                 PROVE  /\ c \in Changes /\ Legal(c.field, c.value)
                        /\ c.rule \in DOMAIN rule /\ <<u, c.rule>> \in Standing(u)
                        /\ c = Back(<<u, c.rule>>)
                        /\ c.field = tlog[<<u, c.rule>>].field
                        /\ c.value = tlog[<<u, c.rule>>].before
                        /\ tlog[<<u, c.rule>>].status = "APPLIED" /\ <<u, c.rule>> \in DOMAIN tlog
    OBVIOUS
  <2>2. c.rule = i[2] /\ <<u, c.rule>> = i
    BY <2>1, <1>8, <1>9
  <2> HIDE DEF Back, Standing
  <2>3. QED
    BY <2>1, <2>2, <1>8, <1>9
<1>11. \A c, d \in todo : c.rule = d.rule => c = d
  <2> HIDE DEF todo, Back, Standing
  <2>1. SUFFICES ASSUME NEW c \in todo, NEW d \in todo, c.rule = d.rule
                 PROVE  c = d
    OBVIOUS
  <2>2. c = Back(<<u, c.rule>>) /\ d = Back(<<u, d.rule>>)
    BY <1>10
  <2>3. Back(<<u, c.rule>>) = Back(<<u, d.rule>>)
    BY <2>1
  <2>4. QED
    BY <2>2, <2>3
<1>12. IsFiniteSet(todo)
  <2> DEFINE g == [i \in Standing(u) |-> Back(i)]
  <2>1. g \in Surjection(Standing(u), todo)
    BY DEF Surjection
  <2>2. IsFiniteSet(Standing(u))
    BY <1>5, FS_Subset DEF IInv, WithinCap
  <2>3. QED
    BY <2>1, <2>2, FS_Surjection
<1>13. /\ "rollback" \in {"idle", "simulate", "apply", "rollback", "done"}
       /\ None \in Scopes \cup {None} /\ u \in Requests \cup {None} /\ todo \in SUBSET Changes
       /\ req \in [Requests -> Requested]
  BY <1>3, <1>5, <1>10 DEF TypeOK
<1>14. req' = [req EXCEPT ![r] = Request("rollback", None, u, todo)]
  BY <1>1
<1> HIDE DEF todo, Back, Standing
<1>15. /\ req' \in [Requests -> Requested]
       /\ \A q \in Requests : q # r => req'[q] = req[q]
       /\ req'[r].pc = "rollback" /\ req'[r].scope = None
       /\ req'[r].of = u /\ req'[r].todo = todo
  BY <1>13, <1>14, OneRequest
<1>16. /\ found' = [q \in Requests |-> found'[q]]
       /\ \A q \in Requests : q # r => found'[q] = found[q]
  BY <1>2, <1>3 DEF TypeOK
<1>17. TypeOK'
  <2>1. \A q \in Requests : \A c \in req'[q].todo : Legal(c.field, c.value)
    BY <1>3, <1>10, <1>15 DEF TypeOK
  <2>2. QED
    BY <1>2, <1>3, <1>15, <1>16, <2>1 DEF TypeOK
<1>18. \A x \in Rules : <<r, x>> \notin DOMAIN tlog
  BY <1>2 DEF IInv, RequestsOk, RequestOk
<1>19. RequestsOk'
  <2>1. ASSUME NEW q \in Requests PROVE RequestOk(q)'
    <3>1. CASE q = r
      <4>1. req'[req'[r].of].pc \in {"apply", "done"}
        BY <1>5, <1>6, <1>7, <1>15
      <4>2. QED
        BY <3>1, <4>1, <1>2, <1>5, <1>10, <1>11, <1>15, <1>18 DEF RequestOk
    <3>2. CASE q # r
      <4>1. RequestOk(q) /\ req'[q] = req[q]
        BY <3>2, <1>15 DEF IInv, RequestsOk
      <4>2. req[q].pc = "rollback" => req'[req[q].of] = req[req[q].of]
        BY <4>1, <1>2, <1>15 DEF RequestOk
      <4>3. QED
        BY <4>1, <4>2, <1>2 DEF RequestOk
    <3>3. QED
      BY <3>1, <3>2
  <2>2. QED
    BY <2>1, <1>2 DEF IInv, RequestsOk
<1>20. CooldownHolds'
  <2>1. \A j \in DOMAIN tlog : j[1] \in Requests /\ j[1] # r
    BY <1>3, <1>18, RowKey
  <2>2. QED
    BY <2>1, <1>2, <1>16 DEF IInv, CooldownHolds, Alone
<1>21. ASSUME NEW v \in Requests PROVE WithinCap(v)'
  <2>1. WithinCap(v) /\ RowsOf(v)' = RowsOf(v)
    BY <1>2 DEF IInv, RowsOf
  <2>2. QED
    BY <2>1, <1>12, <1>15 DEF WithinCap
<1>22. ASSUME NEW v \in Requests, v # r PROVE (RulesOk(v) /\ PlannedOk(v) /\ PendingOk(v) /\ Rested(v))'
  <2>1. RulesOk(v) /\ PlannedOk(v) /\ PendingOk(v) /\ Rested(v)
    BY DEF IInv
  <2>2. req'[v] = req[v] /\ found'[v] = found[v]
    BY <1>22, <1>15, <1>16
  <2>3. RulesOk(v)'
    <3>1. rule' = rule /\ tlog' = tlog
      BY <1>2
    <3>2. (Alone(v)' <=> Alone(v)) /\ (Started(v)' <=> Started(v)) /\ \A x, f : Changed(v, x, f)' <=> Changed(v, x, f)
      BY <2>2, <3>1 DEF Alone, Started, Changed
    <3> QED
      BY <2>1, <2>2, <3>1, <3>2 DEF RulesOk
  <2>4. PlannedOk(v)'
    BY <2>1, <2>2, <1>2 DEF PlannedOk, Alone, Change, Tightened
  <2>5. PendingOk(v)'
    BY <2>1, <2>2, <1>2 DEF PendingOk, Alone
  <2>6. Rested(v)'
    BY <2>1, <2>2, <1>2 DEF Rested, Alone
  <2>7. QED
    BY <2>3, <2>4, <2>5, <2>6
<1>23. (RulesOk(r) /\ PlannedOk(r) /\ PendingOk(r) /\ Rested(r))'
  <2>1. ~Started(r)'
    BY <1>2, <1>15, <1>18 DEF Started
  <2>2. RulesOk(r)' /\ PlannedOk(r)' /\ Rested(r)'
    BY <2>1, <1>15 DEF RulesOk, PlannedOk, Rested
  <2>3. PendingOk(r)'
    BY <1>2, <1>10, <1>15 DEF PendingOk
  <2>4. QED
    BY <2>2, <2>3
<1>24. QED
  BY <1>17, <1>19, <1>20, <1>21, <1>22, <1>23 DEF IInv

-----------------------------------------------------------------------------
(* Edits and deletions by others                                           *)

\* Somebody edited a rule: no request is alone any longer.
LEMMA EditStep ==
  ASSUME IInv, NEW x \in DOMAIN rule, EditRule(x)
  PROVE  IInv'
<1>1. UNCHANGED <<tunable, tlog, req, now>> /\ found' = [r \in Requests |-> None]
  BY DEF EditRule, Disturb
<1>2. PICK f \in Fields, v \in Int : Legal(f, v) /\ rule' = [rule EXCEPT ![x][f] = v]
  <2>1. CASE rule' = [rule EXCEPT ![x]["isEnabled"] = 1 - rule[x].isEnabled]
    <3>1. "isEnabled" \in Fields /\ Legal("isEnabled", rule[x].isEnabled)
      BY DEF IInv, TypeOK, Fields
    <3>2. 1 - rule[x].isEnabled \in Int /\ Legal("isEnabled", 1 - rule[x].isEnabled)
      BY <3>1 DEF Legal
    <3>3. PICK flag \in Int : flag = 1 - rule[x].isEnabled /\ Legal("isEnabled", flag)
      BY <3>2
    <3>4. QED
      BY <2>1, <3>1, <3>3
  <2>2. CASE \E v \in {2 * Threshold0, -Threshold0} : rule' = [rule EXCEPT ![x]["thresholdValue"] = v]
    <3>1. PICK v \in {2 * Threshold0, -Threshold0} : rule' = [rule EXCEPT ![x]["thresholdValue"] = v]
      BY <2>2
    <3>2. "thresholdValue" \in Fields /\ v \in Int
      BY TunerAssumption DEF Fields
    <3>3. Legal("thresholdValue", v)
      BY <3>2 DEF Legal
    <3>4. QED
      BY <3>1, <3>2, <3>3
  <2>3. QED
    BY <2>1, <2>2 DEF EditRule
<1>3. /\ DOMAIN rule' = DOMAIN rule /\ rule' \in [DOMAIN rule -> [Fields -> Int]]
      /\ \A y \in DOMAIN rule : \A g \in Fields : Legal(g, rule'[y][g])
  BY <1>2, OneField DEF IInv
<1>4. \A u \in Requests : ~Alone(u)'
  BY <1>1 DEF Alone
<1>5. TypeOK'
  BY <1>1, <1>3 DEF IInv, TypeOK
<1>6. RequestsOk'
  BY <1>1, <1>3 DEF IInv, RequestsOk, RequestOk
<1>7. CooldownHolds'
  <2>1. \A j \in DOMAIN tlog : j[1] \in Requests
    BY RowKey DEF IInv
  <2>2. QED
    BY <2>1, <1>1, <1>4 DEF CooldownHolds
<1>8. \A u \in Requests : WithinCap(u)'
  BY <1>1 DEF IInv, WithinCap, RowsOf
<1>9. \A u \in Requests : (RulesOk(u) /\ PlannedOk(u) /\ PendingOk(u) /\ Rested(u))'
  BY <1>4 DEF RulesOk, PlannedOk, PendingOk, Rested
<1>10. QED
  BY <1>5, <1>6, <1>7, <1>8, <1>9 DEF IInv

\* A rule goes, and its log rows with it.
LEMMA DeleteStep ==
  ASSUME IInv, NEW x \in DOMAIN rule, DeleteRule(x)
  PROVE  IInv'
<1>1. UNCHANGED <<tunable, req, now>> /\ found' = [r \in Requests |-> None]
  BY DEF DeleteRule, Disturb
<1>2. /\ DOMAIN rule' = DOMAIN rule \ {x}
      /\ \A y \in DOMAIN rule \ {x} : rule'[y] = rule[y]
      /\ rule' = [y \in DOMAIN rule \ {x} |-> rule[y]]
  BY DEF DeleteRule
<1>3. /\ DOMAIN tlog' = {j \in DOMAIN tlog : j[2] # x}
      /\ \A i \in DOMAIN tlog' : tlog'[i] = tlog[i]
      /\ tlog' = [i \in {j \in DOMAIN tlog : j[2] # x} |-> tlog[i]]
  BY DEF DeleteRule
<1>4. \A u \in Requests : ~Alone(u)'
  BY <1>1 DEF Alone
<1>5. TypeOK'
  <2>1. /\ DOMAIN rule' \subseteq Rules /\ rule' \in [DOMAIN rule' -> [Fields -> Int]]
        /\ \A y \in DOMAIN rule' : \A f \in Fields : Legal(f, rule'[y][f])
    BY <1>2 DEF IInv, TypeOK
  <2>2. /\ DOMAIN tlog' \subseteq Requests \X Rules
        /\ tlog' \in [DOMAIN tlog' -> TuningRow]
        /\ \A i \in DOMAIN tlog' : Legal(tlog'[i].field, tlog'[i].before)
    BY <1>3 DEF IInv, TypeOK
  <2>3. QED
    BY <2>1, <2>2, <1>1 DEF IInv, TypeOK
<1>6. RequestsOk'
  <2>1. \A u \in Requests : \A y \in Rules :
          <<u, y>> \in DOMAIN tlog' <=> <<u, y>> \in DOMAIN tlog /\ y # x
    BY <1>3
  <2>2. ASSUME NEW q \in Requests PROVE RequestOk(q)'
    <3>1. RequestOk(q) /\ req'[q] = req[q] /\ req[q].todo \subseteq Changes
      BY <1>1 DEF IInv, RequestsOk, TypeOK, Requested
    <3>2. \A c \in req[q].todo : c.rule \in Rules
      BY <3>1 DEF Changes
    <3>3. (req[q].pc = "rollback")' =>
            /\ req[req[q].of].pc \in {"apply", "done"} /\ req[q].of \in Requests
            /\ \A c \in req[q].todo : c.rule \in DOMAIN rule' =>
                 /\ <<req[q].of, c.rule>> \in DOMAIN tlog'
                 /\ tlog'[<<req[q].of, c.rule>>].field = c.field
                 /\ tlog'[<<req[q].of, c.rule>>].before = c.value
      BY <3>1, <3>2, <2>1, <1>2, <1>3 DEF RequestOk
    <3>4. QED
      BY <3>1, <3>2, <3>3, <2>1, <1>1 DEF RequestOk
  <2>3. \A u \in Requests : \A y \in Rules : <<u, y>> \in DOMAIN tlog' => y \in DOMAIN rule'
    BY <2>1, <1>2 DEF IInv, RequestsOk
  <2>4. QED
    BY <2>2, <2>3 DEF RequestsOk
<1>7. CooldownHolds'
  <2>1. \A j \in DOMAIN tlog' : j[1] \in Requests
    BY <1>3, RowKey DEF IInv
  <2>2. QED
    BY <2>1, <1>4 DEF CooldownHolds
<1>8. ASSUME NEW u \in Requests PROVE WithinCap(u)'
  <2>1. WithinCap(u) /\ RowsOf(u)' \subseteq RowsOf(u) /\ MaxChanges \in Nat
    BY <1>3, TunerAssumption DEF IInv, RowsOf
  <2>2. IsFiniteSet(RowsOf(u)') /\ Cardinality(RowsOf(u)') <= Cardinality(RowsOf(u))
    BY <2>1, FS_Subset DEF WithinCap
  <2>3. /\ Cardinality(RowsOf(u)) \in Nat /\ Cardinality(RowsOf(u)') \in Nat
        /\ Cardinality(req[u].todo) \in Nat
    BY <2>1, <2>2, FS_CardinalityType DEF WithinCap
  <2>4. QED
    BY <2>1, <2>2, <2>3, <1>1 DEF WithinCap
<1>9. \A u \in Requests : (RulesOk(u) /\ PlannedOk(u) /\ PendingOk(u) /\ Rested(u))'
  BY <1>4 DEF RulesOk, PlannedOk, PendingOk, Rested
<1>10. QED
  BY <1>5, <1>6, <1>7, <1>8, <1>9 DEF IInv

-----------------------------------------------------------------------------
(* Writes of runs and rollbacks                                            *)

\* A run writes a rule and logs it: nobody but the run is alone any longer, and
\* the row says what was there.
LEMMA ApplyStep ==
  ASSUME IInv, NEW r \in Requests, NEW c \in req[r].todo, ApplyChange(r, c)
  PROVE  IInv'
<1> DEFINE x == c.rule
           f == c.field
           i0 == <<r, c.rule>>
<1>1. /\ req[r].pc = "apply" /\ x \in DOMAIN rule
      /\ rule' = [rule EXCEPT ![x][f] = c.value] /\ req' = Without(r, c)
      /\ UNCHANGED <<tunable, now>>
  BY DEF ApplyChange
<1>2. TypeOK /\ RequestOk(r) /\ MaxChanges \in Nat
  BY TunerAssumption DEF IInv, RequestsOk
<1>3. /\ c \in Changes /\ x \in Rules /\ f \in Fields /\ c.value \in Int /\ Legal(f, c.value)
      /\ req[r].scope \in Scopes /\ req \in [Requests -> Requested]
  BY <1>1, <1>2 DEF TypeOK, RequestOk, Requested, Changes
<1>4. i0 \notin DOMAIN tlog /\ \A d \in req[r].todo : d # c => d.rule # x
  BY <1>1, <1>2 DEF RequestOk
<1>5. /\ DOMAIN rule' = DOMAIN rule
      /\ rule' \in [DOMAIN rule -> [Fields -> Int]]
      /\ rule'[x][f] = c.value
      /\ \A y \in DOMAIN rule : \A g \in Fields : (y # x \/ g # f) => rule'[y][g] = rule[y][g]
      /\ \A y \in DOMAIN rule : \A g \in Fields : Legal(g, rule'[y][g])
  BY <1>1, <1>2, <1>3, OneField
<1> DEFINE row == [scope |-> req[r].scope, field |-> f, before |-> rule[x][f],
                   after |-> c.value, status |-> "APPLIED", at |-> now]
<1>6. /\ tlog' = [i \in DOMAIN tlog \cup {i0} |-> IF i # i0 THEN tlog[i] ELSE row]
      /\ found' = [q \in Requests |-> IF q \in {r} THEN found[q] ELSE None]
  BY DEF ApplyChange, Disturb
<1>7. /\ row \in TuningRow /\ Legal(f, row.before) /\ row.scope = req[r].scope /\ row.field = f
      /\ row.before = rule[x][f] /\ row.status = "APPLIED" /\ row.at = now
  BY <1>1, <1>2, <1>3 DEF TypeOK, TuningRow
<1> HIDE DEF row, x, f, i0
<1>8. /\ DOMAIN tlog' = DOMAIN tlog \cup {i0} /\ tlog'[i0] = row
      /\ \A i \in DOMAIN tlog : tlog'[i] = tlog[i]
  BY <1>4, <1>6
<1>9. /\ req' \in [Requests -> Requested]
      /\ \A q \in Requests : q # r => req'[q] = req[q]
      /\ req'[r].todo = req[r].todo \ {c}
      /\ req'[r].pc = req[r].pc /\ req'[r].scope = req[r].scope /\ req'[r].of = req[r].of
  BY <1>1, <1>3, OneWriteLess
<1>10. /\ found' = [q \in Requests |-> found'[q]] /\ found'[r] = found[r]
       /\ \A q \in Requests : q # r => ~Alone(q)'
  BY <1>6 DEF Alone
<1>11. \A q \in Requests : req'[q].pc = req[q].pc /\ req'[q].todo \subseteq req[q].todo
  BY <1>9
<1>12. i0 = <<r, x>> /\ i0 \in Requests \X Rules
  BY <1>3 DEF i0, x
<1>13. TypeOK'
  <2>1. DOMAIN tlog' \subseteq Requests \X Rules /\ tlog' \in [DOMAIN tlog' -> TuningRow]
    BY <1>2, <1>6, <1>7, <1>8, <1>12 DEF TypeOK
  <2>2. \A i \in DOMAIN tlog' : Legal(tlog'[i].field, tlog'[i].before)
    BY <1>2, <1>7, <1>8 DEF TypeOK
  <2>3. QED
    BY <1>1, <1>2, <1>5, <1>9, <1>10, <1>11, <2>1, <2>2 DEF TypeOK
<1>14. RequestsOk'
  <2>1. ASSUME NEW q \in Requests PROVE RequestOk(q)'
    <3>1. RequestOk(q)
      BY DEF IInv, RequestsOk
    <3>2. CASE q = r
      <4>1. \A d \in req'[r].todo : <<r, d.rule>> \notin DOMAIN tlog'
        <5>1. SUFFICES ASSUME NEW d \in req'[r].todo PROVE <<r, d.rule>> \notin DOMAIN tlog'
          OBVIOUS
        <5>2. d \in req[r].todo /\ d.rule # x
          BY <1>4, <1>9
        <5>3. <<r, d.rule>> \notin DOMAIN tlog /\ <<r, d.rule>> # i0
          BY <5>2, <1>1, <1>2, <1>12 DEF RequestOk
        <5>4. QED
          BY <5>3, <1>8
      <4>2. QED
        BY <3>1, <3>2, <4>1, <1>1, <1>9 DEF RequestOk
    <3>3. CASE q # r
      <4>1. req'[q] = req[q] /\ \A y : <<q, y>> \in DOMAIN tlog' <=> <<q, y>> \in DOMAIN tlog
        BY <3>3, <1>8, <1>9, <1>12
      <4>2. (req[q].pc = "rollback")' => req'[req'[q].of].pc \in {"apply", "done"} /\ req'[q].of \in Requests
        BY <3>1, <4>1, <1>11 DEF RequestOk
      <4>3. QED
        BY <3>1, <4>1, <4>2, <1>5, <1>8 DEF RequestOk
    <3>4. QED
      BY <3>2, <3>3
  <2>2. \A u \in Requests : \A y \in Rules : <<u, y>> \in DOMAIN tlog' => y \in DOMAIN rule'
    BY <1>1, <1>5, <1>8, <1>12 DEF IInv, RequestsOk
  <2>3. QED
    BY <2>1, <2>2 DEF RequestsOk
<1>15. \A i \in DOMAIN tlog' : i[1] # r => i \in DOMAIN tlog /\ tlog'[i] = tlog[i]
  BY <1>8, <1>12
<1>16. Alone(r)' => Alone(r)
  BY <1>10 DEF Alone
<1>17. CooldownHolds'
  <2>1. SUFFICES ASSUME NEW i \in DOMAIN tlog', NEW j \in DOMAIN tlog',
                        i[1] # j[1], Alone(j[1])', tlog'[i].at <= tlog'[j].at,
                        tlog'[i].status = "APPLIED", tlog'[j].status = "APPLIED",
                        tlog'[j].scope \in {All, tlog'[i].scope}
                 PROVE  tlog'[j].at - tlog'[i].at >= Cooldown
    BY DEF CooldownHolds
  <2>2. j[1] = r
    BY <2>1, <1>10, <1>13, RowKey DEF TypeOK
  <2>3. i \in DOMAIN tlog /\ tlog'[i] = tlog[i] /\ tlog[i].at \in Nat
    BY <2>1, <2>2, <1>2, <1>15, RowKey DEF TuningRow
  <2>4. CASE j \in DOMAIN tlog
    BY <2>1, <2>2, <2>3, <2>4, <1>8, <1>16 DEF IInv, CooldownHolds
  <2>5. CASE j \notin DOMAIN tlog
    <3>1. tlog'[j] = row
      BY <2>5, <1>8
    <3>2. tlog[i].at + Cooldown <= now
      BY <2>1, <2>2, <2>3, <3>1, <1>1, <1>7, <1>16 DEF IInv, Rested
    <3>3. now \in Nat /\ Cooldown \in Nat
      BY <1>2, TunerAssumption DEF TypeOK
    <3>4. QED
      BY <2>3, <3>1, <3>2, <3>3, <1>7
  <2>6. QED
    BY <2>4, <2>5
<1>18. ASSUME NEW u \in Requests PROVE WithinCap(u)'
  <2>1. WithinCap(u)
    BY DEF IInv
  <2>2. CASE u = r
    <3>1. RowsOf(r)' = RowsOf(r) \cup {i0} /\ i0 \notin RowsOf(r)
      BY <1>4, <1>8, <1>12 DEF RowsOf
    <3>2. IsFiniteSet(RowsOf(r)') /\ Cardinality(RowsOf(r)') = Cardinality(RowsOf(r)) + 1
      BY <2>1, <2>2, <3>1, FS_AddElement DEF WithinCap
    <3>3. IsFiniteSet(req'[r].todo) /\ Cardinality(req'[r].todo) = Cardinality(req[r].todo) - 1
      BY <2>1, <2>2, <1>9, FS_RemoveElement DEF WithinCap
    <3>4. /\ Cardinality(RowsOf(r)) \in Nat /\ Cardinality(req[r].todo) \in Nat
          /\ Cardinality(req'[r].todo) \in Nat
      BY <2>1, <2>2, <3>3, FS_CardinalityType DEF WithinCap
    <3>5. QED
      BY <2>1, <2>2, <3>2, <3>3, <3>4, <1>1, <1>2 DEF WithinCap
  <2>3. CASE u # r
    <3>1. RowsOf(u)' = RowsOf(u)
      BY <2>3, <1>8, <1>12 DEF RowsOf
    <3>2. QED
      BY <2>1, <2>3, <3>1, <1>9 DEF WithinCap
  <2>4. QED
    BY <2>2, <2>3
<1>19. ASSUME NEW u \in Requests, u # r PROVE (RulesOk(u) /\ PlannedOk(u) /\ PendingOk(u) /\ Rested(u))'
  BY <1>10, <1>19 DEF RulesOk, PlannedOk, PendingOk, Rested
<1>20. RulesOk(r)'
  <2>1. SUFFICES ASSUME Alone(r)'
                 PROVE  /\ found'[r] \in [DOMAIN rule' -> [Fields -> Int]]
                        /\ \A y \in DOMAIN rule' : \A g \in Fields :
                             ~Changed(r, y, g)' => rule'[y][g] = found'[r][y][g]
                        /\ \A y \in Rules : <<r, y>> \in DOMAIN tlog' =>
                             tlog'[<<r, y>>].before = found'[r][y][tlog'[<<r, y>>].field]
    BY DEF RulesOk
  <2>2. /\ found[r] \in [DOMAIN rule -> [Fields -> Int]]
        /\ \A y \in DOMAIN rule : \A g \in Fields :
             ~Changed(r, y, g) => rule[y][g] = found[r][y][g]
        /\ \A y \in Rules : <<r, y>> \in DOMAIN tlog =>
             tlog[<<r, y>>].before = found[r][y][tlog[<<r, y>>].field]
    BY <2>1, <1>1, <1>16 DEF IInv, RulesOk, Started
  <2>3. ASSUME NEW y \in DOMAIN rule, NEW g \in Fields, ~Changed(r, y, g)'
        PROVE  rule'[y][g] = found[r][y][g]
    <3>1. CASE y = x /\ g = f
      BY <3>1, <2>3, <1>7, <1>8, <1>12 DEF Changed
    <3>2. CASE y # x
      <4>1. ~Changed(r, y, g)
        BY <2>3, <1>8 DEF Changed
      <4>2. QED
        BY <3>2, <4>1, <2>2, <1>5
    <3>3. CASE y = x /\ g # f
      <4>1. ~Changed(r, y, g)
        BY <3>3, <1>4, <1>12 DEF Changed
      <4>2. QED
        BY <3>3, <4>1, <2>2, <1>5
    <3>4. QED
      BY <3>1, <3>2, <3>3
  <2>4. ASSUME NEW y \in Rules, <<r, y>> \in DOMAIN tlog'
        PROVE  tlog'[<<r, y>>].before = found[r][y][tlog'[<<r, y>>].field]
    <3>1. CASE y = x
      <4>1. ~Changed(r, x, f)
        BY <1>4, <1>12 DEF Changed
      <4>2. rule[x][f] = found[r][x][f]
        BY <4>1, <2>2, <1>1, <1>3
      <4>3. tlog'[<<r, y>>] = row
        BY <3>1, <1>8, <1>12
      <4>4. QED
        BY <3>1, <4>2, <4>3, <1>7
    <3>2. CASE y # x
      <4>1. <<r, y>> \in DOMAIN tlog /\ tlog'[<<r, y>>] = tlog[<<r, y>>]
        BY <3>2, <2>4, <1>8, <1>12
      <4>2. QED
        BY <4>1, <2>2
    <3>3. QED
      BY <3>1, <3>2
  <2>5. QED
    BY <2>2, <2>3, <2>4, <1>5, <1>10
<1>21. PlannedOk(r)'
  <2>1. SUFFICES ASSUME Alone(r)', NEW d \in req'[r].todo
                 PROVE  d.rule \in DOMAIN rule' /\ d = Change(d.rule, d.field)'
    BY DEF PlannedOk
  <2>2. d \in req[r].todo /\ d.rule # x
    BY <1>4, <1>9
  <2>3. d.rule \in DOMAIN rule /\ d = Change(d.rule, d.field)
    BY <2>1, <2>2, <1>1, <1>16 DEF IInv, PlannedOk
  <2>4. rule'[d.rule].thresholdValue = rule[d.rule].thresholdValue
    BY <2>2, <2>3, <1>5 DEF Fields
  <2>5. Change(d.rule, d.field)' = Change(d.rule, d.field)
    BY <2>4 DEF Change, Tightened
  <2>6. QED
    BY <2>3, <2>5, <1>5
<1>22. PendingOk(r)' /\ Rested(r)'
  <2>1. PendingOk(r)'
    BY <1>1, <1>9 DEF PendingOk
  <2>2. Rested(r)'
    BY <1>1, <1>9, <1>15, <1>16 DEF IInv, Rested
  <2>3. QED
    BY <2>1, <2>2
<1>23. QED
  BY <1>13, <1>14, <1>17, <1>18, <1>19, <1>20, <1>21, <1>22 DEF IInv

\* A rollback writes back what a row found, and marks the row: only it and its
\* run are still alone.
LEMMA RollbackStep ==
  ASSUME IInv, NEW r \in Requests, NEW c \in req[r].todo, RollbackRow(r, c)
  PROVE  IInv'
<1> DEFINE x == c.rule
           f == c.field
<1>0. PICK u : u = req[r].of
  OBVIOUS
<1> DEFINE i0 == <<u, x>>
<1>1. /\ req[r].pc = "rollback" /\ x \in DOMAIN rule
      /\ rule' = [rule EXCEPT ![x][f] = c.value] /\ req' = Without(r, c)
      /\ tlog' = [tlog EXCEPT ![i0].status = "ROLLED_BACK"]
      /\ found' = [q \in Requests |-> IF q \in {r, u} THEN found[q] ELSE None]
      /\ UNCHANGED <<tunable, now>>
  BY <1>0 DEF RollbackRow, Disturb
<1>2. TypeOK /\ RequestOk(r)
  BY DEF IInv, RequestsOk
<1>3. /\ c \in Changes /\ x \in Rules /\ f \in Fields /\ c.value \in Int /\ Legal(f, c.value)
      /\ req \in [Requests -> Requested]
  BY <1>1, <1>2 DEF TypeOK, Requested, Changes
<1>4. /\ u \in Requests /\ req[u].pc \in {"apply", "done"} /\ u # r
      /\ i0 \in DOMAIN tlog /\ tlog[i0].field = f /\ tlog[i0].before = c.value
      /\ \A d \in req[r].todo : d # c => d.rule # x
      /\ \A y \in Rules : <<r, y>> \notin DOMAIN tlog
  BY <1>0, <1>1, <1>2 DEF RequestOk
<1>5. /\ DOMAIN rule' = DOMAIN rule
      /\ rule' \in [DOMAIN rule -> [Fields -> Int]]
      /\ rule'[x][f] = c.value
      /\ \A y \in DOMAIN rule : \A g \in Fields : (y # x \/ g # f) => rule'[y][g] = rule[y][g]
      /\ \A y \in DOMAIN rule : \A g \in Fields : Legal(g, rule'[y][g])
  BY <1>1, <1>2, <1>3, OneField
<1>6. i0 = <<u, x>>
  OBVIOUS
<1> HIDE DEF x, f, i0
<1>7. tlog[i0] \in TuningRow
  BY <1>2, <1>4, RowKey
<1>8. /\ DOMAIN tlog' = DOMAIN tlog
      /\ \A i \in DOMAIN tlog : i # i0 => tlog'[i] = tlog[i]
      /\ tlog'[i0] \in TuningRow /\ tlog'[i0].status = "ROLLED_BACK"
      /\ tlog'[i0].field = f /\ tlog'[i0].before = c.value
      /\ tlog'[i0].scope = tlog[i0].scope /\ tlog'[i0].at = tlog[i0].at
  <2>1. tlog'[i0] = [tlog[i0] EXCEPT !.status = "ROLLED_BACK"]
    BY <1>1, <1>4
  <2>2. /\ tlog'[i0] \in TuningRow /\ tlog'[i0].status = "ROLLED_BACK"
        /\ tlog'[i0].field = tlog[i0].field /\ tlog'[i0].before = tlog[i0].before
        /\ tlog'[i0].scope = tlog[i0].scope /\ tlog'[i0].at = tlog[i0].at
    BY <2>1, <1>7 DEF TuningRow
  <2>3. DOMAIN tlog' = DOMAIN tlog /\ \A i \in DOMAIN tlog : i # i0 => tlog'[i] = tlog[i]
    BY <1>1
  <2>4. QED
    BY <2>2, <2>3, <1>4
<1>9. /\ req' \in [Requests -> Requested]
      /\ \A q \in Requests : q # r => req'[q] = req[q]
      /\ req'[r].todo = req[r].todo \ {c}
      /\ req'[r].pc = req[r].pc /\ req'[r].scope = req[r].scope /\ req'[r].of = req[r].of
  BY <1>1, <1>3, OneWriteLess
<1>10. /\ found' = [q \in Requests |-> found'[q]] /\ found'[r] = found[r] /\ found'[u] = found[u]
       /\ \A q \in Requests : (q # r /\ q # u) => ~Alone(q)'
       /\ \A q \in Requests : Alone(q)' => Alone(q)
  BY <1>1, <1>4 DEF Alone
<1>11. \A q \in Requests : req'[q].pc = req[q].pc /\ req'[q].todo \subseteq req[q].todo
  BY <1>9
<1>12. \A i \in DOMAIN tlog :
         /\ tlog'[i].field = tlog[i].field /\ tlog'[i].before = tlog[i].before
         /\ tlog'[i].scope = tlog[i].scope /\ tlog'[i].at = tlog[i].at
         /\ tlog'[i].status = "APPLIED" => tlog[i].status = "APPLIED" /\ tlog'[i] = tlog[i] /\ i # i0
  <2>1. SUFFICES ASSUME NEW i \in DOMAIN tlog
                 PROVE  /\ tlog'[i].field = tlog[i].field /\ tlog'[i].before = tlog[i].before
                        /\ tlog'[i].scope = tlog[i].scope /\ tlog'[i].at = tlog[i].at
                        /\ tlog'[i].status = "APPLIED" =>
                              tlog[i].status = "APPLIED" /\ tlog'[i] = tlog[i] /\ i # i0
    OBVIOUS
  <2>2. CASE i = i0
    BY <2>2, <1>4, <1>8
  <2>3. CASE i # i0
    BY <2>3, <1>8
  <2>4. QED
    BY <2>2, <2>3
<1>13. TypeOK'
  <2>1. \A i \in DOMAIN tlog : tlog'[i] \in TuningRow
    BY <1>2, <1>8, RowKey
  <2>2. tlog' = [i \in DOMAIN tlog |-> tlog'[i]]
    BY <1>1, <1>2 DEF TypeOK
  <2>3. DOMAIN tlog' \subseteq Requests \X Rules /\ tlog' \in [DOMAIN tlog' -> TuningRow]
    BY <2>1, <2>2, <1>2, <1>8 DEF TypeOK
  <2>4. \A i \in DOMAIN tlog' : Legal(tlog'[i].field, tlog'[i].before)
    BY <1>2, <1>8, <1>12 DEF TypeOK
  <2>5. QED
    BY <1>1, <1>2, <1>5, <1>9, <1>10, <1>11, <2>3, <2>4 DEF TypeOK
<1>14. RequestsOk'
  <2>1. ASSUME NEW q \in Requests PROVE RequestOk(q)'
    <3>1. RequestOk(q) /\ req'[q].pc = req[q].pc /\ req'[q].todo \subseteq req[q].todo
      BY <1>11 DEF IInv, RequestsOk
    <3>2. req'[q].scope = req[q].scope /\ req'[q].of = req[q].of
      BY <1>9
    <3>3. (req[q].pc = "rollback")' =>
            /\ req'[q].of \in Requests /\ req'[req'[q].of].pc \in {"apply", "done"}
            /\ \A d \in req'[q].todo : d.rule \in DOMAIN rule' =>
                 /\ <<req'[q].of, d.rule>> \in DOMAIN tlog'
                 /\ tlog'[<<req'[q].of, d.rule>>].field = d.field
                 /\ tlog'[<<req'[q].of, d.rule>>].before = d.value
      BY <3>1, <3>2, <1>5, <1>8, <1>11, <1>12 DEF RequestOk
    <3>4. QED
      BY <3>1, <3>2, <3>3, <1>8 DEF RequestOk
  <2>2. \A v \in Requests : \A y \in Rules : <<v, y>> \in DOMAIN tlog' => y \in DOMAIN rule'
    BY <1>5, <1>8 DEF IInv, RequestsOk
  <2>3. QED
    BY <2>1, <2>2 DEF RequestsOk
<1>15. CooldownHolds'
  <2>1. \A j \in DOMAIN tlog : j[1] \in Requests
    BY <1>2, RowKey
  <2>2. QED
    BY <2>1, <1>8, <1>10, <1>12 DEF IInv, CooldownHolds
<1>16. ASSUME NEW v \in Requests PROVE WithinCap(v)'
  <2>1. WithinCap(v) /\ RowsOf(v)' = RowsOf(v)
    BY <1>8 DEF IInv, RowsOf
  <2>2. CASE v = r
    <3>1. IsFiniteSet(req'[r].todo)
      BY <2>1, <2>2, <1>9, FS_RemoveElement DEF WithinCap
    <3>2. QED
      BY <2>1, <2>2, <3>1, <1>1, <1>9 DEF WithinCap
  <2>3. CASE v # r
    BY <2>1, <2>3, <1>9 DEF WithinCap
  <2>4. QED
    BY <2>2, <2>3
<1>17. ASSUME NEW v \in Requests, v # r, v # u
       PROVE  (RulesOk(v) /\ PlannedOk(v) /\ PendingOk(v) /\ Rested(v))'
  BY <1>10, <1>17 DEF RulesOk, PlannedOk, PendingOk, Rested
<1>18. (RulesOk(r) /\ PlannedOk(r) /\ PendingOk(r) /\ Rested(r))'
  <2>1. ~Started(r)'
    BY <1>1, <1>4, <1>8, <1>9 DEF Started
  <2>2. RulesOk(r)' /\ PlannedOk(r)' /\ Rested(r)'
    BY <2>1, <1>1, <1>9 DEF RulesOk, PlannedOk, Rested
  <2>3. PendingOk(r)'
    <3>1. SUFFICES ASSUME Alone(r)', NEW d \in req'[r].todo
                   PROVE  /\ d.rule \in DOMAIN rule'
                          /\ tlog'[<<req'[r].of, d.rule>>].status = "APPLIED"
      BY DEF PendingOk
    <3>2. d \in req[r].todo /\ d.rule # x
      BY <1>4, <1>9
    <3>3. d.rule \in DOMAIN rule /\ tlog[<<u, d.rule>>].status = "APPLIED"
      BY <3>1, <3>2, <1>0, <1>1, <1>10 DEF IInv, PendingOk
    <3>4. <<u, d.rule>> \in DOMAIN tlog
      BY <3>2, <3>3, <1>0, <1>1, <1>2 DEF RequestOk
    <3>5. tlog'[<<u, d.rule>>] = tlog[<<u, d.rule>>]
      BY <3>2, <3>4, <1>6, <1>8
    <3>6. QED
      BY <3>3, <3>5, <1>0, <1>5, <1>9
  <2>4. QED
    BY <2>2, <2>3
<1>19. RulesOk(u)'
  <2>1. SUFFICES ASSUME Alone(u)'
                 PROVE  /\ found'[u] \in [DOMAIN rule' -> [Fields -> Int]]
                        /\ \A y \in DOMAIN rule' : \A g \in Fields :
                             ~Changed(u, y, g)' => rule'[y][g] = found'[u][y][g]
                        /\ \A y \in Rules : <<u, y>> \in DOMAIN tlog' =>
                             tlog'[<<u, y>>].before = found'[u][y][tlog'[<<u, y>>].field]
    BY DEF RulesOk
  <2>2. Started(u) /\ Alone(u)
    BY <2>1, <1>3, <1>4, <1>6, <1>10 DEF Started
  <2>3. /\ found[u] \in [DOMAIN rule -> [Fields -> Int]]
        /\ \A y \in DOMAIN rule : \A g \in Fields :
             ~Changed(u, y, g) => rule[y][g] = found[u][y][g]
        /\ \A y \in Rules : <<u, y>> \in DOMAIN tlog =>
             tlog[<<u, y>>].before = found[u][y][tlog[<<u, y>>].field]
    BY <2>2, <1>4 DEF IInv, RulesOk
  <2>4. c.value = found[u][x][f]
    BY <2>3, <1>3, <1>4, <1>6
  <2>5. ASSUME NEW y \in DOMAIN rule, NEW g \in Fields, ~Changed(u, y, g)'
        PROVE  rule'[y][g] = found[u][y][g]
    <3>1. CASE y = x /\ g = f
      BY <3>1, <2>4, <1>5
    <3>2. CASE y = x /\ g # f
      <4>1. ~Changed(u, y, g)
        BY <3>2, <1>4, <1>6 DEF Changed
      <4>2. QED
        BY <3>2, <4>1, <2>3, <1>5
    <3>3. CASE y # x
      <4>1. <<u, y>> \in DOMAIN tlog => tlog'[<<u, y>>] = tlog[<<u, y>>]
        BY <3>3, <1>6, <1>8
      <4>2. ~Changed(u, y, g)
        BY <2>5, <4>1, <1>8 DEF Changed
      <4>3. QED
        BY <3>3, <4>2, <2>3, <1>5
    <3>4. QED
      BY <3>1, <3>2, <3>3
  <2>6. QED
    BY <2>3, <2>5, <1>5, <1>8, <1>10, <1>12
<1>20. PlannedOk(u)'
  <2>1. SUFFICES ASSUME Alone(u)', (req[u].pc = "apply")', NEW d \in req'[u].todo
                 PROVE  d.rule \in DOMAIN rule' /\ d = Change(d.rule, d.field)'
    BY DEF PlannedOk
  <2>2. d \in req[u].todo /\ req[u].pc = "apply" /\ Alone(u)
    BY <2>1, <1>4, <1>10, <1>11
  <2>3. <<u, d.rule>> \notin DOMAIN tlog
    BY <2>2, <1>4 DEF IInv, RequestsOk, RequestOk
  <2>4. d.rule # x
    BY <2>3, <1>4, <1>6
  <2>5. d.rule \in DOMAIN rule /\ d = Change(d.rule, d.field)
    BY <2>2, <1>4 DEF IInv, PlannedOk
  <2>6. rule'[d.rule].thresholdValue = rule[d.rule].thresholdValue
    BY <2>4, <2>5, <1>5 DEF Fields
  <2>7. Change(d.rule, d.field)' = Change(d.rule, d.field)
    BY <2>6 DEF Change, Tightened
  <2>8. QED
    BY <2>5, <2>7, <1>5
<1>21. PendingOk(u)' /\ Rested(u)'
  <2>1. PendingOk(u)'
    BY <1>4, <1>11 DEF PendingOk
  <2>2. req'[u] = req[u] /\ (Alone(u)' => Alone(u))
    BY <1>4, <1>9, <1>10
  <2>3. Rested(u)'
    BY <2>2, <1>1, <1>4, <1>8, <1>12 DEF IInv, Rested
  <2>4. QED
    BY <2>1, <2>3
<1>22. QED
  BY <1>13, <1>14, <1>15, <1>16, <1>17, <1>18, <1>19, <1>20, <1>21 DEF IInv

-----------------------------------------------------------------------------
(* The theorems                                                            *)

\* Nothing has happened: every request is idle and there is no row.
LEMMA InitIInv == ASSUME Init PROVE IInv
<1>1. /\ rule = [x \in Rules |-> [f \in Fields |-> IF f = "isEnabled" THEN 1 ELSE Threshold0]]
      /\ tunable = Scopes /\ tlog = <<>> /\ req = [r \in Requests |-> Idle]
      /\ found = [r \in Requests |-> None] /\ now = 0
      /\ Threshold0 \in Nat /\ MaxChanges \in Nat
  BY TunerAssumption DEF Init
<1>2. DOMAIN tlog = {}
  BY <1>1
<1>3. Idle \in Requested /\ Idle.pc = "idle" /\ Idle.todo = {}
  BY DEF Idle, Request, Requested
<1>4. /\ \A r \in Requests : req[r] = Idle
      /\ \A r \in Requests : ~Alone(r)
  BY <1>1 DEF Alone
<1>5. TypeOK
  <2>1. /\ DOMAIN rule \subseteq Rules /\ rule \in [DOMAIN rule -> [Fields -> Int]]
        /\ \A x \in DOMAIN rule : \A f \in Fields : Legal(f, rule[x][f])
    BY <1>1 DEF Legal, Fields
  <2>2. tlog \in [DOMAIN tlog -> TuningRow]
    BY <1>1, <1>2
  <2>3. /\ req \in [Requests -> Requested]
        /\ \A r \in Requests : \A c \in req[r].todo : Legal(c.field, c.value)
    BY <1>1, <1>3
  <2>4. QED
    BY <2>1, <2>2, <2>3, <1>1, <1>2 DEF TypeOK
<1>6. RequestsOk /\ CooldownHolds
  BY <1>2, <1>3, <1>4 DEF RequestsOk, RequestOk, CooldownHolds
<1>7. ASSUME NEW u \in Requests PROVE WithinCap(u)
  <2>1. RowsOf(u) = {} /\ req[u].todo = {} /\ req[u].pc # "apply"
    BY <1>2, <1>3, <1>4 DEF RowsOf
  <2>2. QED
    BY <2>1, <1>1, FS_EmptySet DEF WithinCap
<1>8. \A u \in Requests : RulesOk(u) /\ PlannedOk(u) /\ PendingOk(u) /\ Rested(u)
  BY <1>4 DEF RulesOk, PlannedOk, PendingOk, Rested
<1>9. QED
  BY <1>5, <1>6, <1>7, <1>8 DEF IInv

\* Every step of a request, of an admin and of the clock.
LEMMA NextIInv == ASSUME IInv, [Next]_vars PROVE IInv'
<1>1. Cooldown \in Nat /\ MaxChanges \in Nat /\ TypeOK
  BY TunerAssumption DEF IInv
<1>2. ASSUME NEW r \in Requests, Step(r) \/ Crash(r) PROVE IInv'
  <2>1. CASE Simulate(r)
    BY <2>1, SimulateStep
  <2>2. CASE Finish(r) \/ Crash(r)
    <3>1. req[r] \in Requested /\ RequestOk(r)
      BY DEF IInv, RequestsOk, TypeOK
    <3>2. req[r].pc \in {"apply", "rollback"}
      BY <2>2, <3>1 DEF Finish, Crash, RequestOk, Requested
    <3>3. req' = Ended(r) /\ UNCHANGED <<rule, tunable, tlog, found, now>>
      BY <2>2 DEF Finish, Crash
    <3>4. QED
      BY <3>2, <3>3, <1>1, EndingStep
  <2>3. ASSUME NEW c \in req[r].todo, ApplyFails(r, c) \/ RollbackThrows(r, c) PROVE IInv'
    <3>1. /\ req[r].pc \in {"apply", "rollback"} /\ UNCHANGED <<rule, tunable, tlog, found, now>>
          /\ req' = Ended(r) \/ \E d \in req[r].todo : req' = Without(r, d)
      BY <2>3 DEF ApplyFails, RollbackThrows
    <3>2. QED
      BY <3>1, <1>1, EndingStep
  <2>4. ASSUME NEW c \in req[r].todo, ApplyChange(r, c) PROVE IInv'
    BY <2>4, ApplyStep
  <2>5. ASSUME NEW c \in req[r].todo, RollbackRow(r, c) PROVE IInv'
    BY <2>5, RollbackStep
  <2>6. QED
    BY <1>2, <2>1, <2>2, <2>3, <2>4, <2>5 DEF Step
<1>3. ASSUME NEW r \in Requests, Preflight(r) PROVE IInv'
  BY <1>3, PreflightStep
<1>4. ASSUME NEW r \in Requests, LoadRows(r) PROVE IInv'
  BY <1>4, LoadRowsStep
<1>5. ASSUME NEW x \in DOMAIN rule, EditRule(x) PROVE IInv'
  BY <1>5, EditStep
<1>6. ASSUME NEW x \in DOMAIN rule, DeleteRule(x) PROVE IInv'
  BY <1>6, DeleteStep
<1>7. CASE (\E s \in Scopes : EditSettings(s)) \/ Tick \/ UNCHANGED vars
  <2>1. now \in Nat /\ tunable \subseteq Scopes
    BY <1>1 DEF TypeOK
  <2>2. /\ UNCHANGED <<rule, tlog, req, found>> /\ tunable' \subseteq Scopes
        /\ now' = now \/ now' = now + 1
    BY <1>7, <2>1 DEF EditSettings, Tick, vars
  <2>3. now' \in Nat /\ now <= now'
    BY <2>1, <2>2
  <2>4. QED
    BY <2>2, <2>3, <1>1, QuietStep
<1>8. QED
  BY <1>2, <1>3, <1>4, <1>5, <1>6, <1>7 DEF Next

\* The inductive invariant holds throughout, of overlapping runs, rollbacks and
\* edits (rule-tuner.service.ts).
THEOREM InvariantCorrect == Spec => []IInv
<1>1. Init => IInv
  BY InitIInv
<1>2. IInv /\ [Next]_vars => IInv'
  BY NextIInv
<1>3. QED
  BY <1>1, <1>2, PTL DEF Spec

\* Whatever the requests do, rules, rows and requests stay what the tables and
\* the service allow (rule-tuner.service.ts).
THEOREM TypeCorrect == Spec => []TypeOK
<1>1. IInv => TypeOK
  BY DEF IInv
<1>2. QED
  BY <1>1, InvariantCorrect, PTL

\* No run ever has more changes than the cap, and the changes of two runs of a
\* scope that both stand are a cooldown apart, unless the runs overlapped
\* (decideChanges, isCooldownActive).
THEOREM RunLimitsCorrect == Spec => []RunLimitsHold
<1>1. IInv => RunLimitsHold
  BY DEF IInv, WithinCap, RunLimitsHold, CapHolds
<1>2. QED
  BY <1>1, InvariantCorrect, PTL

\* A run that is all rolled back, by whatever rollbacks and in whatever order,
\* has left no trace, and no rollback has still to restore what was restored
\* (RuleTunerService.rollback).
THEOREM RollbackCorrect == Spec => []RollbackHolds
<1>1. IInv => RestoredOnce
  BY DEF IInv, PendingOk, RestoredOnce
<1>2. ASSUME IInv PROVE UndoRestores
  <2>1. SUFFICES ASSUME NEW u \in Requests, Undone(u), Alone(u)
                 PROVE  rule = found[u]
    BY DEF UndoRestores
  <2>2. PICK i \in DOMAIN tlog : i[1] = u
    BY <2>1 DEF Undone, RowsOf
  <2>3. \E x \in Rules : <<u, x>> \in DOMAIN tlog
    BY <2>2, <1>2, RowKey DEF IInv
  <2>4. /\ found[u] \in [DOMAIN rule -> [Fields -> Int]]
        /\ \A x \in DOMAIN rule : \A f \in Fields : ~Changed(u, x, f) => rule[x][f] = found[u][x][f]
    BY <2>1, <2>3, <1>2 DEF IInv, RulesOk, Started
  <2>5. \A x \in DOMAIN rule : \A f \in Fields : ~Changed(u, x, f)
    <3>1. SUFFICES ASSUME NEW x, <<u, x>> \in DOMAIN tlog PROVE tlog[<<u, x>>].status # "APPLIED"
      BY DEF Changed
    <3>2. <<u, x>> \in RowsOf(u)
      BY <3>1 DEF RowsOf
    <3>3. QED
      BY <3>2, <2>1 DEF Undone
  <2>6. rule \in [DOMAIN rule -> [Fields -> Int]]
    BY <1>2 DEF IInv, TypeOK
  <2>7. \A x \in DOMAIN rule : rule[x] = found[u][x]
    <3>1. SUFFICES ASSUME NEW x \in DOMAIN rule PROVE rule[x] = found[u][x]
      OBVIOUS
    <3>2. rule[x] \in [Fields -> Int] /\ found[u][x] \in [Fields -> Int]
      BY <2>4, <2>6
    <3>3. \A f \in Fields : rule[x][f] = found[u][x][f]
      BY <2>4, <2>5
    <3>4. QED
      BY <3>2, <3>3
  <2>8. QED
    BY <2>4, <2>6, <2>7
<1>3. IInv => RollbackHolds
  BY <1>1, <1>2 DEF RollbackHolds
<1>4. QED
  BY <1>3, InvariantCorrect, PTL

\* A run whose rules nobody else writes only ever makes a rule match less
\* if its threshold is not negative (applyTighteningDelta, applyChange), however its writes interleave with
\* those of a rollback of itself.
THEOREM TunerTightens == Spec => TunerOnlyTightens
<1>1. ASSUME IInv, [Next]_vars
      PROVE  [\A i \in DOMAIN tlog' \ DOMAIN tlog :
                Alone(i[1]) /\ rule[i[2]].thresholdValue >= 0
                  => Tighter(i[2], rule'[i[2]], rule[i[2]])]_<<rule, tlog>>
  <2>1. CASE \E r \in Requests : \E c \in req[r].todo : ApplyChange(r, c)
    <3>0. PICK r \in Requests : \E c \in req[r].todo : ApplyChange(r, c)
      BY <2>1
    <3>1. PICK c \in req[r].todo : ApplyChange(r, c)
      BY <3>0
    <3>2. SUFFICES ASSUME NEW i \in DOMAIN tlog' \ DOMAIN tlog, Alone(i[1]), rule[i[2]].thresholdValue >= 0
                   PROVE  Tighter(i[2], rule'[i[2]], rule[i[2]])
      OBVIOUS
    <3>3. i = <<r, c.rule>> /\ req[r].pc = "apply" /\ rule' = [rule EXCEPT ![c.rule][c.field] = c.value]
      BY <3>1 DEF ApplyChange
    <3>4. i[1] = r /\ i[2] = c.rule
      BY <3>3
    <3>5. c.rule \in DOMAIN rule /\ c = Change(c.rule, c.field)
      BY <3>2, <3>3, <3>4, <1>1 DEF IInv, PlannedOk
    <3>6. TypeOK /\ c \in Changes
      BY <1>1 DEF IInv, TypeOK, Requested
    <3>7. c.field \in Fields /\ c.value \in Int /\ Legal(c.field, c.value)
      BY <3>6, <1>1 DEF Changes, TypeOK
    <3>8. /\ rule'[c.rule][c.field] = c.value
          /\ \A g \in Fields : g # c.field => rule'[c.rule][g] = rule[c.rule][g]
      <4>1. rule \in [DOMAIN rule -> [Fields -> Int]]
        BY <3>6 DEF TypeOK
      <4>2. rule'[c.rule] = [rule[c.rule] EXCEPT ![c.field] = c.value]
        BY <3>3, <3>5, <4>1
      <4>3. QED
        BY <3>5, <3>7, <4>1, <4>2
    <3>9. rule[c.rule].isEnabled \in {0, 1} /\ rule[c.rule].thresholdValue \in Int /\ rule[c.rule].thresholdValue >= 0
      BY <3>2, <3>4, <3>5, <3>6 DEF TypeOK, Legal, Fields
    <3>10. CASE c.field = "isEnabled"
      <4>1. c.value = 0
        BY <3>5, <3>10 DEF Change
      <4>2. rule'[c.rule].isEnabled = 0 /\ rule'[c.rule].thresholdValue = rule[c.rule].thresholdValue
        BY <4>1, <3>8, <3>10 DEF Fields
      <4>3. QED
        BY <4>2, <3>4, <3>9 DEF Tighter
    <3>11. CASE c.field = "thresholdValue"
      <4>1. c.value = Tightened(c.rule)
        BY <3>5, <3>11 DEF Change
      <4>2. /\ rule'[c.rule].thresholdValue = Tightened(c.rule)
            /\ rule'[c.rule].isEnabled = rule[c.rule].isEnabled
        BY <4>1, <3>8, <3>11 DEF Fields
      <4>3. QED
        BY <4>2, <3>4, <3>5, <3>6, <3>9, TightenedOk DEF Tighter
    <3>12. QED
      BY <3>7, <3>10, <3>11 DEF Fields
  <2>2. CASE ~ \E r \in Requests : \E c \in req[r].todo : ApplyChange(r, c)
    <3>1. DOMAIN tlog' \subseteq DOMAIN tlog
      <4>1. ASSUME NEW r \in Requests, NEW c, RollbackRow(r, c)
            PROVE  DOMAIN tlog' \subseteq DOMAIN tlog
        BY <4>1 DEF RollbackRow
      <4>2. ASSUME NEW x, DeleteRule(x) PROVE DOMAIN tlog' \subseteq DOMAIN tlog
        BY <4>2 DEF DeleteRule
      <4>3. QED
        BY <1>1, <2>2, <4>1, <4>2
           DEF Next, vars, Step, Preflight, LoadRows, Simulate, Finish, Crash, ApplyFails,
               RollbackThrows, EditRule, EditSettings, Tick
    <3>2. QED
      BY <3>1
  <2>3. QED
    BY <2>1, <2>2
<1>2. QED
  BY <1>1, InvariantCorrect, PTL DEF Spec, TunerOnlyTightens

-----------------------------------------------------------------------------
(***************************************************************************)
(* What is shown: every page of RulePerformance and of Overview.  A page   *)
(* is one computation over tables that are any the assumptions allow, so   *)
(* its answer stays what that computation gives (PagesInv), and the proofs *)
(* below are about the computation: what a list sorted twice is in the     *)
(* order of, what a rate rounds to, what is counted once.                  *)
(***************************************************************************)

\* What is sorted by one key and then by another is in the order of the second, and of
\* the first where the second is the same.
SortsTwice(list, s, at, later, earlier) ==
  \E n, p :
    /\ Placed(p, n, at) /\ list = [k \in 1..n |-> s[p[k]]]
    /\ \A j, k \in 1..n : j < k => \/ later[p[j]] < later[p[k]]
                                   \/ later[p[j]] = later[p[k]] /\ earlier[p[j]] <= earlier[p[k]]

\* A list sorted by one key and then by another is in the order of both.
LEMMA SortedTwice ==
  ASSUME NEW s, NEW at, at = DOMAIN s, IsFiniteSet(at), at \subseteq Nat,
         NEW earlier, \A i \in at : earlier[i] \in Int,
         NEW later, \A i \in at : later[i] \in Int,
         NEW once, once = Sorted(s, earlier),
         NEW key, \A k \in DOMAIN once : \A i \in at : once[k] = s[i] => key[k] = later[i]
  PROVE  SortsTwice(Sorted(once, key), s, at, later, earlier)
<1>1. Orders(once, s, at, earlier)
  BY ArrangedOrders DEF Sorted
<1>2. PICK n, p :
        /\ Placed(p, n, at) /\ once = [k \in 1..n |-> s[p[k]]]
        /\ \A j, k \in 1..n : j < k => earlier[p[j]] < earlier[p[k]] \/ (earlier[p[j]] = earlier[p[k]] /\ p[j] < p[k])
  BY <1>1 DEF Orders
<1>3. n \in Nat /\ p \in [1..n -> at] /\ (\A j, k \in 1..n : p[j] = p[k] => j = k) /\ (\A i \in at : \E k \in 1..n : p[k] = i)
  BY <1>2 DEF Placed
<1>4. PICK places : places = 1..n
  OBVIOUS
<1>5. DOMAIN once = places /\ IsFiniteSet(places) /\ Cardinality(places) = n /\ places \subseteq Nat
  BY <1>2, <1>3, <1>4, IntervalIs
<1>6. \A k \in places : key[k] = later[p[k]] /\ key[k] \in Int
  BY <1>2, <1>3, <1>4, <1>5
<1>7. Orders(Sorted(once, key), once, places, key)
  BY <1>5, <1>6, ArrangedOrders DEF Sorted
<1>8. PICK m, q :
        /\ Placed(q, m, places) /\ Sorted(once, key) = [k \in 1..m |-> once[q[k]]]
        /\ \A j, k \in 1..m : j < k => key[q[j]] < key[q[k]] \/ (key[q[j]] = key[q[k]] /\ q[j] < q[k])
  BY <1>7 DEF Orders
<1>9. m = n /\ q \in [1..n -> places] /\ (\A j, k \in 1..n : q[j] = q[k] => j = k) /\ (\A i \in places : \E k \in 1..n : q[k] = i)
  BY <1>5, <1>8 DEF Placed
<1>10. PICK r : r = [k \in 1..n |-> p[q[k]]]
  OBVIOUS
<1>11. \A k \in 1..n : q[k] \in 1..n /\ r[k] = p[q[k]] /\ r[k] \in at
  BY <1>3, <1>4, <1>9, <1>10
<1>12. Placed(r, n, at)
  <2>1. \A j, k \in 1..n : r[j] = r[k] => j = k
    BY <1>3, <1>9, <1>11
  <2>2. ASSUME NEW i \in at PROVE \E k \in 1..n : r[k] = i
    <3>1. PICK h \in 1..n : p[h] = i
      BY <1>3
    <3>2. PICK k \in 1..n : q[k] = h
      BY <1>4, <1>9, <3>1
    <3> QED
      BY <1>11, <3>1, <3>2
  <2>3. n = Cardinality(at) /\ r \in [1..n -> at]
    BY <1>2, <1>10, <1>11 DEF Placed
  <2> QED
    BY <1>3, <2>1, <2>2, <2>3 DEF Placed
<1>13. Sorted(once, key) = [k \in 1..n |-> s[r[k]]]
  <2>1. \A k \in 1..n : once[q[k]] = s[r[k]]
    <3>1. TAKE k \in 1..n
    <3>2. PICK h \in 1..n : h = q[k] /\ r[k] = p[h]
      BY <1>11
    <3>3. once[h] = s[p[h]]
      BY <1>2
    <3> QED
      BY <3>2, <3>3
  <2>2. Sorted(once, key) = [k \in 1..n |-> once[q[k]]]
    BY <1>8, <1>9
  <2>3. [k \in 1..n |-> once[q[k]]] = [k \in 1..n |-> s[r[k]]]
    BY <2>1, Zenon
  <2> QED
    BY <2>2, <2>3
<1>14. ASSUME NEW j \in 1..n, NEW k \in 1..n, j < k
       PROVE  later[r[j]] < later[r[k]] \/ (later[r[j]] = later[r[k]] /\ earlier[r[j]] <= earlier[r[k]])
  <2>1. key[q[j]] = later[r[j]] /\ key[q[k]] = later[r[k]]
    <3>1. PICK a \in places, b \in places : a = q[j] /\ b = q[k] /\ r[j] = p[a] /\ r[k] = p[b]
      BY <1>4, <1>11
    <3>2. key[a] = later[p[a]] /\ key[b] = later[p[b]]
      BY <1>6
    <3> QED
      BY <3>1, <3>2, Zenon
  <2>2. CASE key[q[j]] < key[q[k]]
    BY <2>1, <2>2
  <2>3. CASE key[q[j]] = key[q[k]] /\ q[j] < q[k]
    <3>1. earlier[p[q[j]]] < earlier[p[q[k]]] \/ earlier[p[q[j]]] = earlier[p[q[k]]]
      BY <1>2, <1>11, <2>3
    <3>2. earlier[r[j]] <= earlier[r[k]]
      BY <1>11, <3>1
    <3> QED
      BY <2>1, <2>3, <3>2
  <2> QED
    BY <1>8, <1>9, <1>14, <2>2, <2>3
<1> QED
  BY <1>12, <1>13, <1>14 DEF SortsTwice

-----------------------------------------------------------------------------
(* What is said of one rule.                                               *)

\* Division rounds down, and a rate is rounded to the nearest.
LEMMA QuotientIs ==
  ASSUME NEW a \in Nat, NEW b \in Nat, b > 0
  PROVE  a \div b \in Nat /\ b * (a \div b) <= a /\ a < b * (a \div b) + b
  OBVIOUS

\* A product grows with its second factor.
LEMMA TimesGrows ==
  ASSUME NEW b \in Nat, NEW x \in Int, NEW y \in Int, x <= y
  PROVE  b * x \in Int /\ b * y \in Int /\ b * x <= b * y
<1>1. PICK d \in Nat : y = x + d
  <2>1. y - x \in Nat /\ y = x + (y - x)
    OBVIOUS
  <2> QED
    BY <2>1
<1>2. b * y = b * x + b * d /\ b * d \in Nat
  BY <1>1
<1> QED
  BY <1>2

\* A rounded rate is a number of ten-thousandths, zero of nothing.
LEMMA RateTyped ==
  ASSUME NEW n \in Nat, NEW r \in Nat
  PROVE  RateOver(n, r) \in Nat /\ (r = 0 => RateOver(n, r) = 0)
<1>1. CASE r = 0
  BY <1>1 DEF RateOver
<1>2. CASE r > 0
  <2>1. PICK a \in Nat, b \in Nat : a = 20000 * n + r /\ b = 2 * r
    OBVIOUS
  <2>2. RateOver(n, r) = a \div b /\ b > 0
    BY <1>2, <2>1 DEF RateOver
  <2> QED
    BY <1>2, <2>2, QuotientIs
<1> QED
  BY <1>1, <1>2

RateWithin(n, r, b) == b * RateOver(n, r) <= 20000 * n + r /\ 20000 * n + r < b * RateOver(n, r) + b

\* Rounding a rate moves it by half a step at most.
LEMMA RateIs ==
  ASSUME NEW n \in Nat, NEW r \in Nat, r > 0, NEW b \in Nat, b = 2 * r
  PROVE  RateWithin(n, r, b)
<1>1. PICK a \in Nat : a = 20000 * n + r
  OBVIOUS
<1>2. RateOver(n, r) = a \div b /\ b > 0
  BY <1>1 DEF RateOver
<1>3. b * RateOver(n, r) <= a /\ a < b * RateOver(n, r) + b
  BY <1>2, QuotientIs
<1> QED
  BY <1>1, <1>3 DEF RateWithin

\* Of as many votes, more on one side round to no lower rate.
LEMMA RateGrows ==
  ASSUME NEW m \in Nat, NEW n \in Nat, NEW r \in Nat, m <= n
  PROVE  RateOver(m, r) <= RateOver(n, r)
<1>1. CASE r = 0
  BY <1>1, RateTyped
<1>2. CASE r > 0
  <2>1. PICK x \in Nat, y \in Nat : x = RateOver(m, r) /\ y = RateOver(n, r)
    BY RateTyped
  <2>2. PICK b \in Nat : b = 2 * r
    OBVIOUS
  <2>3. RateWithin(m, r, b) /\ RateWithin(n, r, b)
    BY <1>2, <2>2, RateIs
  <2>4. b * x <= 20000 * m + r /\ 20000 * n + r < b * y + b
    BY <2>1, <2>3 DEF RateWithin
  <2>5. ASSUME y + 1 <= x PROVE FALSE
    <3>1. PICK z \in Int : z = y + 1
      BY <2>1
    <3>2. b * z <= b * x /\ b * z \in Int /\ b * x \in Int
      BY <2>5, <3>1, TimesGrows
    <3>3. b * z = b * y + b /\ b * y \in Int
      BY <3>1
    <3> QED
      BY <2>4, <3>2, <3>3
  <2> QED
    BY <2>1, <2>5
<1> QED
  BY <1>1, <1>2

\* A rounded rate that reaches a limit is of a rate within half a step of it.
LEMMA RateAtLeast ==
  ASSUME NEW n \in Nat, NEW r \in Nat, NEW k \in Nat, k > 0, k <= RateOver(n, r)
  PROVE  r > 0 /\ r * (2 * k) <= 20000 * n + r
<1>1. r > 0
  BY RateTyped
<1>2. PICK x \in Nat : x = RateOver(n, r)
  BY RateTyped
<1>3. PICK b \in Nat : b = 2 * r
  OBVIOUS
<1>4. b * k <= b * x /\ b * k \in Int /\ b * x \in Int
  BY <1>2, TimesGrows
<1>5. RateWithin(n, r, b)
  BY <1>1, <1>3, RateIs
<1>6. b * x <= 20000 * n + r
  BY <1>2, <1>5 DEF RateWithin
<1>7. b * k = r * (2 * k)
  BY <1>3
<1> QED
  BY <1>1, <1>4, <1>6, <1>7

\* The breakdown of a rule's votes holds numbers.
LEMMA BreakdownTyped ==
  ASSUME NEW v \in VoteTypes
  PROVE  /\ Rated(v) \in Nat /\ v.rows \in Nat
         /\ ComputeBreakdown(v).interactions = v.rows /\ ComputeBreakdown(v).rated = Rated(v)
         /\ ComputeBreakdown(v).useful = RateOver(v.useful, Rated(v)) /\ ComputeBreakdown(v).useful \in Nat
         /\ ComputeBreakdown(v).wrong = RateOver(v.wrong, Rated(v)) /\ ComputeBreakdown(v).wrong \in Nat
         /\ ComputeBreakdown(v).needsContext = RateOver(v.needsContext, Rated(v)) /\ ComputeBreakdown(v).needsContext \in Nat
<1>1. v.rows \in Nat /\ v.useful \in Nat /\ v.notUseful \in Nat /\ v.wrong \in Nat /\ v.needsContext \in Nat
  BY DEF VoteTypes
<1>2. Rated(v) \in Nat
  BY <1>1 DEF Rated
<1>3. \A n \in Nat : RateOver(n, Rated(v)) \in Nat
  BY <1>2, RateTyped
<1> QED
  BY <1>1, <1>2, <1>3 DEF ComputeBreakdown

Bands == {"NEEDS_TUNING", "UNSTABLE", "HEALTHY", "LOW_SIGNAL"}

\* The health that calls for tuning ranks lowest.
LEMMA RankIs ==
  /\ HealthRank("NEEDS_TUNING") = 0 /\ HealthRank("UNSTABLE") = 1
  /\ HealthRank("HEALTHY") = 2 /\ HealthRank("LOW_SIGNAL") = 3
  /\ \A h \in Bands : HealthRank(h) \in Int
<1>1. HealthRank("NEEDS_TUNING") = 0
  BY DEF HealthRank
<1>2. HealthRank("UNSTABLE") = 1
  BY DEF HealthRank
<1>3. HealthRank("HEALTHY") = 2
  BY DEF HealthRank
<1>4. HealthRank("LOW_SIGNAL") = 3
  BY DEF HealthRank
<1> QED
  BY <1>1, <1>2, <1>3, <1>4 DEF Bands

\* What classifyRules says of a rule has the types its parts have.
LEMMA RuleTyped ==
  ASSUME NEW v \in VoteTypes, NEW i
  PROVE  /\ ClassifyRule(i, v).rule = i /\ ClassifyRule(i, v).score \in Int
         /\ ClassifyRule(i, v).health = ClassifyHealth(ComputeBreakdown(v)) /\ ClassifyRule(i, v).health \in Bands
         /\ HealthRank(ClassifyRule(i, v).health) \in Int
<1>1. ClassifyHealth(ComputeBreakdown(v)) \in Bands
  BY DEF ClassifyHealth, Bands
<1>2. ComputeRuleScore(ComputeBreakdown(v)) \in Int
  BY BreakdownTyped DEF ComputeRuleScore, Smaller, HighConfidence
<1> QED
  BY <1>1, <1>2, RankIs DEF ClassifyRule


\* A rule users judge better in every respect is neither scored nor ranked below.
LEMMA BetterRule ==
  ASSUME NEW v \in VoteTypes, NEW w \in VoteTypes, NEW i, NEW j,
         v.rows = w.rows, Rated(v) = Rated(w),
         v.useful >= w.useful, v.wrong <= w.wrong, v.needsContext <= w.needsContext
  PROVE  /\ ClassifyRule(i, v).score >= ClassifyRule(j, w).score
         /\ HealthRank(ClassifyRule(i, v).health) >= HealthRank(ClassifyRule(j, w).health)
<1>1. PICK a, b : a = ComputeBreakdown(v) /\ b = ComputeBreakdown(w)
  OBVIOUS
<1>2. /\ a.interactions \in Nat /\ a.interactions = b.interactions /\ a.rated \in Nat /\ a.rated = b.rated
      /\ a.useful \in Nat /\ b.useful \in Nat /\ a.wrong \in Nat /\ b.wrong \in Nat
      /\ a.needsContext \in Nat /\ b.needsContext \in Nat
  BY <1>1, BreakdownTyped
<1>3. a.useful >= b.useful /\ a.wrong <= b.wrong /\ a.needsContext <= b.needsContext
  <2>1. /\ v.useful \in Nat /\ w.useful \in Nat /\ v.wrong \in Nat /\ w.wrong \in Nat
        /\ v.needsContext \in Nat /\ w.needsContext \in Nat
    BY DEF VoteTypes
  <2>2. PICK r \in Nat : r = Rated(v) /\ r = Rated(w)
    BY BreakdownTyped
  <2>3. RateOver(w.useful, r) <= RateOver(v.useful, r)
    BY <2>1, RateGrows
  <2>4. RateOver(v.wrong, r) <= RateOver(w.wrong, r)
    BY <2>1, RateGrows
  <2>5. RateOver(v.needsContext, r) <= RateOver(w.needsContext, r)
    BY <2>1, RateGrows
  <2> QED
    BY <1>1, <1>2, <2>2, <2>3, <2>4, <2>5, BreakdownTyped
<1>4. ComputeRuleScore(a) >= ComputeRuleScore(b)
  BY <1>2, <1>3 DEF ComputeRuleScore, Smaller, HighConfidence
<1>5. HealthRank(ClassifyHealth(a)) >= HealthRank(ClassifyHealth(b))
  <2>1. ClassifyHealth(b) = "LOW_SIGNAL" => ClassifyHealth(a) = "LOW_SIGNAL"
    BY <1>2 DEF ClassifyHealth
  <2>2. ClassifyHealth(b) = "HEALTHY" => ClassifyHealth(a) \in {"HEALTHY"}
    BY <1>2, <1>3 DEF ClassifyHealth
  <2>3. ClassifyHealth(a) = "NEEDS_TUNING" => ClassifyHealth(b) = "NEEDS_TUNING"
    BY <1>2, <1>3 DEF ClassifyHealth
  <2>4. ClassifyHealth(a) \in Bands /\ ClassifyHealth(b) \in Bands
    BY DEF ClassifyHealth, Bands
  <2>5. PICK x \in Bands, y \in Bands : x = ClassifyHealth(a) /\ y = ClassifyHealth(b)
    BY <2>4
  <2>6. (y = "LOW_SIGNAL" => x = "LOW_SIGNAL") /\ (y = "HEALTHY" => x = "HEALTHY") /\ (x = "NEEDS_TUNING" => y = "NEEDS_TUNING")
    BY <2>1, <2>2, <2>3, <2>5
  <2>7. HealthRank(x) >= HealthRank(y)
    BY <2>6, RankIs DEF Bands
  <2> QED
    BY <2>5, <2>7
<1> QED
  BY <1>1, <1>4, <1>5 DEF ClassifyRule

\* Past actions are counted once, whether their KPI is known or not.
LEMMA PastIs ==
  ASSUME NEW replay, ReplayOk(replay)
  PROVE  /\ Sum(replay.seen, DOMAIN replay.seen) \in Nat /\ replay.unknown \in Nat
         /\ SumFunction(replay.seen) = Sum(replay.seen, DOMAIN replay.seen)
         /\ Past(replay) = replay.unknown + Sum(replay.seen, DOMAIN replay.seen)
<1>1. SumFunction(replay.seen) = Sum(replay.seen, DOMAIN replay.seen)
  BY DEF SumFunction, Sum
<1>2. PICK S : S = DOMAIN replay.seen /\ IsFiniteSet(S) /\ S \in SUBSET S
  BY DEF ReplayOk
<1>3. \A kpi \in S : replay.seen[kpi] \in Nat
  BY <1>2 DEF ReplayOk
<1>4. Sum(replay.seen, S) \in Nat
  BY <1>2, <1>3, SumPart
<1> QED
  BY <1>1, <1>2, <1>4 DEF Past, ReplayOk

\* What a tighter threshold lets fire is on or beyond its rounded value.
LEMMA FiresBeyond ==
  ASSUME NEW def \in DefTypes, NEW kpi \in Int, StillFires(kpi, def), NEW after, after = TighterThreshold(def)
  PROVE  \/ kpi \in (after - 1)..(after + 1)
         \/ def.comparator \in {"GT", "GTE"} /\ kpi > after
         \/ def.comparator \in {"LT", "LTE"} /\ kpi < after
<1>1. PICK t \in Int : t = def.threshold
  BY DEF DefTypes
<1>2. CASE def.comparator \in {"GT", "GTE"}
  <2>1. after = (t * 11 + 5) \div 10
    BY <1>1, <1>2 DEF TighterThreshold
  <2>2. 10 * kpi >= 11 * t
    <3>1. def.comparator = "GT" => 10 * kpi > 11 * t
      BY <1>1 DEF StillFires
    <3>2. def.comparator = "GTE" => 10 * kpi >= 11 * t
      BY <1>1 DEF StillFires
    <3> QED
      BY <1>1, <1>2, <3>1, <3>2
  <2> QED
    BY <1>2, <2>1, <2>2
<1>3. CASE def.comparator \in {"LT", "LTE"}
  <2>1. after = (t * 9 + 5) \div 10
    BY <1>1, <1>3 DEF TighterThreshold
  <2>2. 10 * kpi <= 9 * t
    <3>1. def.comparator = "LT" => 10 * kpi < 9 * t
      BY <1>1 DEF StillFires
    <3>2. def.comparator = "LTE" => 10 * kpi <= 9 * t
      BY <1>1 DEF StillFires
    <3> QED
      BY <1>1, <1>3, <3>1, <3>2
  <2> QED
    BY <1>3, <2>1, <2>2
<1>4. CASE def.comparator = "EQ"
  <2>1. after = t
    BY <1>1, <1>4 DEF TighterThreshold
  <2>2. kpi = t
    BY <1>1, <1>4 DEF StillFires
  <2> QED
    BY <2>1, <2>2
<1> QED
  BY <1>2, <1>3, <1>4 DEF DefTypes

\* A threshold the simulation proposes never lets a rule fire more.
LEMMA TighterIs ==
  ASSUME NEW def \in DefTypes
  PROVE  /\ def.threshold >= 0 /\ def.comparator \in {"GT", "GTE"} => TighterThreshold(def) >= def.threshold
         /\ def.threshold >= 0 /\ def.comparator \in {"LT", "LTE"} => TighterThreshold(def) <= def.threshold
<1>1. PICK t \in Int : t = def.threshold
  BY DEF DefTypes
<1>2. def.comparator \in {"GT", "GTE"} => TighterThreshold(def) = (t * 11 + 5) \div 10
  BY <1>1 DEF TighterThreshold
<1>3. def.comparator \in {"LT", "LTE"} => TighterThreshold(def) = (t * 9 + 5) \div 10
  BY <1>1 DEF TighterThreshold
<1> QED
  BY <1>1, <1>2, <1>3

\* What is not lost for good is no more than what is suppressed.
LEMMA LostIsSuppressed ==
  ASSUME NEW replay, ReplayOk(replay), NEW def \in DefTypes, NEW c, c.after = TighterThreshold(def)
  PROVE  /\ Suppressed(def, replay) \in Nat /\ Suppressed(def, replay) <= Sum(replay.seen, DOMAIN replay.seen)
         /\ SumFunctionOnSet(replay.seen, FiringAfter(c, def, replay)) \in Nat
         /\ SumFunction(replay.seen) - SumFunctionOnSet(replay.seen, FiringAfter(c, def, replay)) <= Suppressed(def, replay)
<1>1. PICK S, f : S = DOMAIN replay.seen /\ f = replay.seen /\ IsFiniteSet(S) /\ S \subseteq Int /\ S \in SUBSET S
  BY DEF ReplayOk
<1>2. \A kpi \in S : f[kpi] \in Nat
  BY <1>1 DEF ReplayOk
<1>3. PICK gone, firing : gone = {kpi \in S : ~StillFires(kpi, def)} /\ firing = FiringAfter(c, def, replay)
  OBVIOUS
<1>4. gone \in SUBSET S /\ firing \in SUBSET S /\ S \ firing \in SUBSET gone
  <2>1. ASSUME NEW kpi \in S, StillFires(kpi, def) PROVE kpi \in firing
    <3>1. PICK after : after = c.after
      OBVIOUS
    <3>2. \/ kpi \in (after - 1)..(after + 1)
          \/ def.comparator \in {"GT", "GTE"} /\ kpi > after
          \/ def.comparator \in {"LT", "LTE"} /\ kpi < after
      BY <1>1, <2>1, <3>1, FiresBeyond
    <3> QED
      BY <1>1, <1>3, <3>1, <3>2 DEF FiringAfter
  <2>2. firing \in SUBSET S
    BY <1>1, <1>3 DEF FiringAfter
  <2> QED
    BY <1>3, <2>1, <2>2
<1>5. Sum(f, gone) \in Nat /\ Sum(f, S) \in Nat /\ Sum(f, gone) <= Sum(f, S)
  BY <1>1, <1>2, <1>4, SumPart
<1>6. Sum(f, firing) \in Nat
  BY <1>1, <1>2, <1>4, SumPart
<1>7. IsFiniteSet(gone) /\ IsFiniteSet(firing) /\ IsFiniteSet(S \ firing)
  BY <1>1, <1>4, FS_Subset
<1>8. Sum(f, S \ firing) \in Nat /\ Sum(f, S \ firing) <= Sum(f, gone)
  <2>1. \A kpi \in gone : f[kpi] \in Nat
    BY <1>2, <1>4
  <2> QED
    BY <1>4, <1>7, <2>1, SumPart
<1>9. Sum(f, S) = Sum(f, firing) + Sum(f, S \ firing)
  <2>1. PICK rest : rest = S \ firing
    OBVIOUS
  <2>2. firing \cap rest = {} /\ firing \cup rest = S /\ \A kpi \in firing \cup rest : f[kpi] \in Int
    BY <1>2, <1>4, <2>1
  <2>3. Sum(f, firing \cup rest) = Sum(f, firing) + Sum(f, rest)
    BY <1>7, <2>1, <2>2, SumApart
  <2> QED
    BY <2>1, <2>2, <2>3
<1>10. /\ Suppressed(def, replay) = Sum(f, gone)
       /\ SumFunctionOnSet(replay.seen, FiringAfter(c, def, replay)) = Sum(f, firing)
       /\ SumFunction(replay.seen) = Sum(f, S)
  BY <1>1, <1>3 DEF Suppressed, Sum, SumFunction
<1> QED
  BY <1>1, <1>5, <1>6, <1>8, <1>9, <1>10


\* A past action is lost at most once, and a rule's actions are all that its replay holds.
Simulated(e, entry, def, replay) ==
  /\ e.action = DecideAction(entry, def) /\ e.impact = ProjectImpact(def, replay, e.action)
  /\ e.impact.count = Past(replay) /\ e.impact.count \in Nat
  /\ e.impact.lost \in Nat /\ e.impact.lost <= e.impact.count
  /\ e.action.type = "DISABLE_RULE" => e.impact.lost = Past(replay)
  /\ e.action.type = "TIGHTEN_THRESHOLD" /\ def # None => e.impact.lost = Suppressed(def, replay)
  /\ e.action.type = "TIGHTEN_THRESHOLD" /\ e.impact.confidence # "LOW" => def # None
  /\ e.action.type = "TIGHTEN_THRESHOLD" /\ e.impact.confidence = "HIGH" => 10 * replay.unknown < Past(replay)

\* What the simulation says a tightening loses is lost of the rule's past actions.
LEMMA ImpactIs ==
  ASSUME NEW entry, NEW def \in DefTypes \cup {None}, NEW replay, ReplayOk(replay),
         NEW e, e = SimulateRule(entry, def, replay)
  PROVE  Simulated(e, entry, def, replay)
<1>1. e.action = DecideAction(entry, def) /\ e.impact = ProjectImpact(def, replay, e.action)
  BY DEF SimulateRule
<1>2. PICK known \in Nat, unknown \in Nat : known = Sum(replay.seen, DOMAIN replay.seen) /\ unknown = replay.unknown
  BY PastIs
<1>3. Past(replay) = known + unknown
  BY <1>2, PastIs
<1>4. e.impact.count = Past(replay)
  BY <1>1 DEF ProjectImpact, Impact
<1>5. e.impact.lost \in {0, Past(replay)} \/ (def # None /\ e.impact.lost = Suppressed(def, replay))
  BY <1>1 DEF ProjectImpact, Impact
<1>6. e.impact.lost \in Nat /\ e.impact.lost <= e.impact.count
  <2>1. CASE def # None
    <3>1. PICK c : c = [after |-> TighterThreshold(def)]
      OBVIOUS
    <3>2. def \in DefTypes /\ c.after = TighterThreshold(def)
      BY <2>1, <3>1
    <3>3. Suppressed(def, replay) \in Nat /\ Suppressed(def, replay) <= known
      BY <1>2, <3>2, LostIsSuppressed
    <3> QED
      BY <1>3, <1>4, <1>5, <3>3
  <2>2. CASE def = None
    BY <1>3, <1>4, <1>5, <2>2
  <2> QED
    BY <2>1, <2>2
<1>7. e.action.type = "DISABLE_RULE" => e.impact.lost = Past(replay)
  BY <1>1 DEF ProjectImpact, Impact
<1>8. e.action.type = "TIGHTEN_THRESHOLD" /\ def # None => e.impact.lost = Suppressed(def, replay)
  BY <1>1 DEF ProjectImpact, Impact
<1>9. e.action.type = "TIGHTEN_THRESHOLD" /\ def = None => e.impact.confidence = "LOW"
  BY <1>1 DEF ProjectImpact, Impact
<1>10. e.action.type = "TIGHTEN_THRESHOLD" /\ e.impact.confidence = "HIGH" => 10 * replay.unknown < Past(replay)
  BY <1>1 DEF ProjectImpact, Impact, PickConfidence
<1> QED
  BY <1>1, <1>3, <1>4, <1>6, <1>7, <1>8, <1>9, <1>10 DEF Simulated

\* Only a rule that users often found wrong is disabled or tightened.
LEMMA TunedIsWrong ==
  ASSUME NEW v \in VoteTypes, NEW i, NEW def \in DefTypes \cup {None},
         NEW entry, entry = ClassifyRule(i, v), NEW action, action = DecideAction(entry, def)
  PROVE  /\ action.type \in {"DISABLE_RULE", "TIGHTEN_THRESHOLD"} =>
              /\ ComputeBreakdown(v).interactions >= 10 /\ ComputeBreakdown(v).rated > 0
              /\ ComputeBreakdown(v).wrong >= 3000
         /\ action.type = "DISABLE_RULE" => ComputeBreakdown(v).wrong >= 5000
         /\ action.type = "TIGHTEN_THRESHOLD" /\ action.threshold # None =>
              def \in DefTypes /\ action.threshold = TighterThreshold(def)
<1>1. PICK b : b = ComputeBreakdown(v)
  OBVIOUS
<1>2. b.interactions \in Nat /\ b.rated \in Nat /\ b.wrong \in Nat
  BY <1>1, BreakdownTyped
<1>3. PICK hooks : hooks = entry.hooks
  OBVIOUS
<1>4. /\ hooks.disable => ClassifyHealth(b) = "NEEDS_TUNING" /\ b.wrong >= 5000
      /\ hooks.tighten => ClassifyHealth(b) = "NEEDS_TUNING"
  <2>1. PICK health, score : health = ClassifyHealth(b) /\ score = ComputeRuleScore(b)
    OBVIOUS
  <2>2. hooks = BuildHooks(health, b, score)
    BY <1>1, <1>3, <2>1 DEF ClassifyRule
  <2>3. hooks.disable => ShouldDisable(health, b)
    BY <2>2 DEF BuildHooks
  <2>4. hooks.tighten => health = "NEEDS_TUNING"
    BY <2>2 DEF BuildHooks
  <2> QED
    BY <2>1, <2>3, <2>4 DEF ShouldDisable
<1>5. /\ action.type = "DISABLE_RULE" => hooks.disable
      /\ action.type = "TIGHTEN_THRESHOLD" => hooks.tighten
      /\ action.threshold # None => def # None /\ action.threshold = TighterThreshold(def)
  BY <1>3 DEF DecideAction
<1>6. ClassifyHealth(b) = "NEEDS_TUNING" => b.interactions >= 10 /\ b.rated # 0 /\ b.wrong >= 3000
  BY <1>2 DEF ClassifyHealth, MinForClassification
<1>7. action.type = "DISABLE_RULE" => ClassifyHealth(b) = "NEEDS_TUNING" /\ b.wrong >= 5000
  BY <1>4, <1>5
<1>8. action.type = "TIGHTEN_THRESHOLD" => ClassifyHealth(b) = "NEEDS_TUNING"
  BY <1>4, <1>5
<1>9. action.type \in {"DISABLE_RULE", "TIGHTEN_THRESHOLD"} => b.interactions >= 10 /\ b.rated > 0 /\ b.wrong >= 3000
  BY <1>2, <1>6, <1>7, <1>8
<1>10. action.type = "TIGHTEN_THRESHOLD" /\ action.threshold # None => def \in DefTypes /\ action.threshold = TighterThreshold(def)
  BY <1>5
<1> QED
  BY <1>1, <1>7, <1>9, <1>10

\* A change that is not blocked rests on verdicts and on past actions.
LEMMA Justified ==
  ASSUME NEW v \in VoteTypes, NEW i, NEW def \in DefTypes \cup {None}, NEW replay, ReplayOk(replay),
         NEW settings, settings.maxRatio \in Nat,
         NEW entry, entry = ClassifyRule(i, v), NEW e, Simulated(e, entry, def, replay), CanBeApplied(e), ~BlockedBy(e, settings),
         NEW c, c.type = e.action.type, c.after = e.action.threshold
  PROVE  IsJustified(c, v, def, replay, settings)
<1>1. PICK known \in Nat, unknown \in Nat : known = SumFunction(replay.seen) /\ unknown = replay.unknown
  BY PastIs
<1>2. Past(replay) = known + unknown
  BY <1>1, PastIs
<1>3. /\ e.action = DecideAction(entry, def) /\ e.impact = ProjectImpact(def, replay, e.action)
      /\ e.impact.count = known + unknown /\ e.impact.lost \in Nat
  BY <1>2 DEF Simulated
<1>4. e.impact.confidence = "HIGH" /\ e.impact.count # 0 /\ ~(100 * e.impact.lost > settings.maxRatio * e.impact.count)
  BY DEF BlockedBy
<1>5. c.type \in {"DISABLE_RULE", "TIGHTEN_THRESHOLD"} /\ (c.type = "TIGHTEN_THRESHOLD" => c.after # None)
  BY DEF CanBeApplied
<1>6. PICK fired \in Nat, most \in Nat : fired = known + unknown /\ most = settings.maxRatio * fired
  BY <1>1
<1>7. fired > 0 /\ 100 * e.impact.lost <= most
  BY <1>3, <1>4, <1>6
<1>8. fired >= 30 /\ (c.type = "TIGHTEN_THRESHOLD" /\ def # None => 10 * unknown < fired)
  BY <1>1, <1>2, <1>3, <1>4, <1>5, <1>6 DEF ProjectImpact, Impact, PickConfidence
<1>9. PICK r \in Nat, w \in Nat : r = Rated(v) /\ w = v.wrong
  BY BreakdownTyped DEF VoteTypes
<1>10. v.rows >= 10 /\ 3000 <= RateOver(w, r) /\ (c.type = "DISABLE_RULE" => 5000 <= RateOver(w, r))
  BY <1>3, <1>5, <1>9, TunedIsWrong, BreakdownTyped
<1>11. 20000 * w >= 5999 * r /\ w > 0
  <2>1. r > 0 /\ r * (2 * 3000) <= 20000 * w + r
    BY <1>10, RateAtLeast
  <2> QED
    BY <2>1
<1>12. c.type = "DISABLE_RULE" => settings.maxRatio >= 100 /\ 20000 * w >= 9999 * r
  <2> SUFFICES ASSUME c.type = "DISABLE_RULE" PROVE settings.maxRatio >= 100 /\ 20000 * w >= 9999 * r
    OBVIOUS
  <2>1. r * (2 * 5000) <= 20000 * w + r
    BY <1>10, RateAtLeast
  <2>2. e.impact.lost = fired
    BY <1>2, <1>6 DEF Simulated
  <2>3. PICK m \in Nat : m = settings.maxRatio
    OBVIOUS
  <2>4. ASSUME m <= 99 PROVE FALSE
    <3>1. fired * m <= fired * 99 /\ fired * m \in Int
      BY <2>4, TimesGrows
    <3>2. fired * m = most
      BY <1>6, <2>3
    <3> QED
      BY <1>7, <2>2, <3>1, <3>2
  <2> QED
    BY <2>1, <2>3, <2>4
<1>13. c.type = "TIGHTEN_THRESHOLD" =>
         /\ def # None /\ 10 * unknown < fired
         /\ def.threshold >= 0 /\ def.comparator \in {"GT", "GTE"} => c.after >= def.threshold
         /\ def.threshold >= 0 /\ def.comparator \in {"LT", "LTE"} => c.after <= def.threshold
         /\ 100 * (known - SumFunctionOnSet(replay.seen, FiringAfter(c, def, replay))) <= most
  <2> SUFFICES ASSUME c.type = "TIGHTEN_THRESHOLD"
               PROVE  /\ def # None /\ 10 * unknown < fired
                      /\ def.threshold >= 0 /\ def.comparator \in {"GT", "GTE"} => c.after >= def.threshold
                      /\ def.threshold >= 0 /\ def.comparator \in {"LT", "LTE"} => c.after <= def.threshold
                      /\ 100 * (known - SumFunctionOnSet(replay.seen, FiringAfter(c, def, replay))) <= most
    OBVIOUS
  <2>1. def \in DefTypes /\ c.after = TighterThreshold(def)
    <3>1. PICK action : action = e.action /\ action = DecideAction(entry, def)
      BY <1>3
    <3>2. action.type = "TIGHTEN_THRESHOLD" /\ action.threshold # None
      BY <1>5, <3>1
    <3>3. def \in DefTypes /\ action.threshold = TighterThreshold(def)
      BY <3>1, <3>2, TunedIsWrong
    <3> QED
      BY <3>1, <3>3
  <2>2. def # None
    <3>1. e.action.type = "TIGHTEN_THRESHOLD"
      OBVIOUS
    <3>2. e.impact.confidence # "LOW" => def # None
      BY <3>1 DEF Simulated
    <3> QED
      BY <1>4, <3>2
  <2>3. e.impact.lost = Suppressed(def, replay)
    BY <2>2 DEF Simulated
  <2>4. PICK s \in Nat, g \in Nat : s = Suppressed(def, replay) /\ g = SumFunctionOnSet(replay.seen, FiringAfter(c, def, replay))
    BY <2>1, LostIsSuppressed
  <2>5. known - g <= s
    BY <1>1, <2>1, <2>4, LostIsSuppressed
  <2>6. 100 * (known - g) <= most
    BY <1>7, <2>3, <2>4, <2>5
  <2> QED
    BY <1>8, <2>1, <2>2, <2>4, <2>6, TighterIs
<1> QED
  BY <1>1, <1>6, <1>8, <1>9, <1>10, <1>11, <1>12, <1>13 DEF IsJustified

-----------------------------------------------------------------------------
(* What a run makes of all rules.                                          *)

\* Every rule is classified once; the loudest first, the worst of a band before the others.
Classified(list, votes) ==
  \E n, p :
    /\ Placed(p, n, DOMAIN votes) /\ n = Len(votes)
    /\ list = [k \in 1..n |-> ClassifyRule(p[k], votes[p[k]])]
    /\ \A j, k \in 1..n : j < k => \/ HealthRank(list[j].health) < HealthRank(list[k].health)
                                   \/ HealthRank(list[j].health) = HealthRank(list[k].health) /\ list[j].score <= list[k].score

\* classifyRules lists every rule once, in the order of its health and its score.
LEMMA RulesClassified ==
  ASSUME NEW votes \in Seq(VoteTypes)
  PROVE  Classified(ClassifyRules(votes), votes)
<1>1. PICK at, entries : at = DOMAIN votes /\ entries = [i \in at |-> ClassifyRule(i, votes[i])]
  OBVIOUS
<1>2. IsFiniteSet(at) /\ at \subseteq Nat /\ Cardinality(at) = Len(votes) /\ Len(votes) \in Nat
  BY <1>1, IntervalIs
<1>3. \A i \in at : entries[i].score \in Int /\ HealthRank(entries[i].health) \in Int
  BY <1>1, RuleTyped
<1>4. PICK earlier, later : earlier = [i \in at |-> entries[i].score] /\ later = [i \in at |-> HealthRank(entries[i].health)]
  OBVIOUS
<1>5. PICK once : once = Sorted(entries, earlier)
  OBVIOUS
<1>6. PICK key : key = [k \in DOMAIN once |-> HealthRank(once[k].health)]
  OBVIOUS
<1>7. \A k \in DOMAIN once : \A i \in at : once[k] = entries[i] => key[k] = later[i]
  BY <1>4, <1>6
<1>8. \A i \in at : earlier[i] \in Int /\ later[i] \in Int
  BY <1>3, <1>4
<1>9. at = DOMAIN entries
  BY <1>1
<1>10. SortsTwice(Sorted(once, key), entries, at, later, earlier)
  BY <1>2, <1>5, <1>7, <1>8, <1>9, SortedTwice
<1>11. ClassifyRules(votes) = Sorted(once, key)
  BY <1>1, <1>4, <1>5, <1>6 DEF ClassifyRules
<1>12. PICK n, p :
         /\ Placed(p, n, at) /\ ClassifyRules(votes) = [k \in 1..n |-> entries[p[k]]]
         /\ \A j, k \in 1..n : j < k => \/ later[p[j]] < later[p[k]]
                                        \/ later[p[j]] = later[p[k]] /\ earlier[p[j]] <= earlier[p[k]]
  BY <1>10, <1>11 DEF SortsTwice
<1>13. n \in Nat /\ n = Len(votes) /\ \A k \in 1..n : p[k] \in at
  BY <1>2, <1>12 DEF Placed
<1>14. \A k \in 1..n : entries[p[k]] = ClassifyRule(p[k], votes[p[k]])
  BY <1>1, <1>13
<1>15. PICK list : list = ClassifyRules(votes)
  OBVIOUS
<1>16. \A k \in 1..n : list[k] = entries[p[k]] /\ later[p[k]] = HealthRank(list[k].health) /\ earlier[p[k]] = list[k].score
  BY <1>4, <1>12, <1>13, <1>15
<1>17. list = [k \in 1..n |-> ClassifyRule(p[k], votes[p[k]])]
  BY <1>12, <1>14, <1>15
<1>18. \A j, k \in 1..n : j < k => \/ HealthRank(list[j].health) < HealthRank(list[k].health)
                                   \/ HealthRank(list[j].health) = HealthRank(list[k].health) /\ list[j].score <= list[k].score
  BY <1>12, <1>16
<1>19. Placed(p, n, DOMAIN votes) /\ n = Len(votes)
  BY <1>1, <1>12, <1>13
<1>20. Classified(list, votes)
  BY <1>17, <1>18, <1>19 DEF Classified
<1> QED
  BY <1>15, <1>20

\* What a simulation says of a rule.
OfRule(e, q) ==
  /\ e.rule \in DOMAIN q.votes
  /\ Simulated(e, ClassifyRule(e.rule, q.votes[e.rule]), q.defs[e.rule], q.replays[e.rule])
SimulationIs(sim, q) == \E n \in Nat : DOMAIN sim = 1..n /\ sim = [k \in 1..n |-> sim[k]] /\ \A k \in 1..n : OfRule(sim[k], q)

\* simulateRules lists a change for every rule, computed of its votes and past actions.
LEMMA RulesSimulated ==
  ASSUME NEW q, FeedbackOk(q)
  PROVE  SimulationIs(SimulateRules(q), q)
<1>1. Classified(ClassifyRules(q.votes), q.votes)
  BY RulesClassified DEF FeedbackOk
<1>2. PICK n, p : Placed(p, n, DOMAIN q.votes) /\ ClassifyRules(q.votes) = [k \in 1..n |-> ClassifyRule(p[k], q.votes[p[k]])]
  BY <1>1 DEF Classified
<1>3. n \in Nat /\ \A k \in 1..n : p[k] \in DOMAIN q.votes
  BY <1>2 DEF Placed
<1>4. PICK health : health = ClassifyRules(q.votes)
  OBVIOUS
<1>5. DOMAIN health = 1..n /\ \A k \in 1..n : health[k] = ClassifyRule(p[k], q.votes[p[k]])
  BY <1>2, <1>4
<1>6. PICK sim : sim = SimulateRules(q)
  OBVIOUS
<1>7. sim = [k \in 1..n |-> SimulateRule(health[k], q.defs[health[k].rule], q.replays[health[k].rule])]
  BY <1>4, <1>5, <1>6 DEF SimulateRules
<1>8. ASSUME NEW k \in 1..n PROVE OfRule(sim[k], q)
  <2>1. PICK i, entry : i = p[k] /\ i \in DOMAIN q.votes /\ entry = ClassifyRule(i, q.votes[i])
    BY <1>3
  <2>2. health[k] = entry /\ entry.rule = i
    BY <1>5, <2>1 DEF ClassifyRule
  <2>3. sim[k] = SimulateRule(entry, q.defs[i], q.replays[i])
    BY <1>7, <2>2
  <2>4. q.defs[i] \in DefTypes \cup {None} /\ ReplayOk(q.replays[i])
    BY <2>1 DEF FeedbackOk
  <2>5. Simulated(sim[k], entry, q.defs[i], q.replays[i])
    BY <2>3, <2>4, ImpactIs
  <2>6. sim[k].rule = i
    BY <2>2, <2>3 DEF SimulateRule
  <2> QED
    BY <2>1, <2>5, <2>6 DEF OfRule
<1> QED
  BY <1>3, <1>6, <1>7, <1>8 DEF SimulationIs

\* The candidates of a run: each of one simulated rule, those not blocked first, of
\* these the ones that cost most.
RankedBy(ranked, m, p, sim, settings) ==
  /\ m \in Nat /\ p \in [1..m -> DOMAIN sim] /\ (\A j, k \in 1..m : p[j] = p[k] => j = k)
  /\ DOMAIN ranked = 1..m
  /\ \A k \in 1..m : CanBeApplied(sim[p[k]]) /\ ranked[k] = Candidate(sim[p[k]], settings)
  /\ \A j, k \in 1..m : j < k /\ ranked[k].status = "APPLIED" => ranked[j].lost >= ranked[k].lost

\* The candidates of a run are ranked by what they lose.
LEMMA CandidatesRanked ==
  ASSUME NEW sim, NEW n \in Nat, DOMAIN sim = 1..n, NEW settings, \A k \in 1..n : sim[k].impact.lost \in Int
  PROVE  \E m, p : RankedBy(RankCandidates(sim, settings), m, p, sim, settings)
<1>1. PICK chosen : chosen = {i \in DOMAIN sim : CanBeApplied(sim[i])}
  OBVIOUS
<1>2. IsFiniteSet(chosen) /\ chosen \subseteq Nat
  <2>1. PICK all : all = 1..n /\ IsFiniteSet(all)
    BY IntervalIs
  <2>2. chosen \in SUBSET all /\ all \subseteq Nat
    BY <1>1, <2>1
  <2> QED
    BY <2>1, <2>2, FS_Subset
<1>3. Keeps(Kept(sim, chosen), sim, chosen)
  BY <1>2, KeptKeeps
<1>4. PICK c, h : Placed(h, c, chosen) /\ Kept(sim, chosen) = [k \in 1..c |-> sim[h[k]]]
  BY <1>3 DEF Keeps
<1>5. c \in Nat /\ (\A k \in 1..c : h[k] \in chosen) /\ (\A j, k \in 1..c : h[j] = h[k] => j = k)
  BY <1>4 DEF Placed
<1>6. PICK at : at = 1..c
  OBVIOUS
<1>7. IsFiniteSet(at) /\ at \subseteq Nat
  BY <1>5, <1>6, IntervalIs
<1>8. PICK candidates : candidates = [i \in at |-> Candidate(sim[h[i]], settings)]
  OBVIOUS
<1>9. \A i \in at : candidates[i].lost = sim[h[i]].impact.lost /\ candidates[i].lost \in Int
  BY <1>1, <1>5, <1>6, <1>8 DEF Candidate
<1>10. PICK earlier, later :
          /\ earlier = [i \in at |-> -candidates[i].lost]
          /\ later = [i \in at |-> IF candidates[i].status = "APPLIED" THEN 0 ELSE 1]
  OBVIOUS
<1>11. PICK once : once = Sorted(candidates, earlier)
  OBVIOUS
<1>12. PICK key : key = [i \in DOMAIN once |-> IF once[i].status = "APPLIED" THEN 0 ELSE 1]
  OBVIOUS
<1>13. RankCandidates(sim, settings) = Sorted(once, key)
  <2>1. PICK eligible : eligible = Kept(sim, chosen)
    OBVIOUS
  <2>2. DOMAIN eligible = at /\ \A i \in at : eligible[i] = sim[h[i]]
    BY <1>4, <1>6, <2>1
  <2>3. candidates = [i \in DOMAIN eligible |-> Candidate(eligible[i], settings)]
    BY <1>8, <2>2
  <2>4. DOMAIN candidates = at
    BY <1>8
  <2>5. once = Sorted(candidates, [i \in DOMAIN candidates |-> -candidates[i].lost])
    BY <1>10, <1>11, <2>4
  <2> QED
    BY <1>1, <1>12, <2>1, <2>3, <2>5 DEF RankCandidates
<1>14. SortsTwice(Sorted(once, key), candidates, at, later, earlier)
  <2>1. \A k \in DOMAIN once : \A i \in at : once[k] = candidates[i] => key[k] = later[i]
    BY <1>10, <1>12
  <2>2. \A i \in at : earlier[i] \in Int /\ later[i] \in Int
    BY <1>9, <1>10
  <2>3. at = DOMAIN candidates
    BY <1>8
  <2> QED
    BY <1>7, <1>11, <2>1, <2>2, <2>3, SortedTwice
<1>15. PICK m, r :
         /\ Placed(r, m, at) /\ Sorted(once, key) = [k \in 1..m |-> candidates[r[k]]]
         /\ \A j, k \in 1..m : j < k => \/ later[r[j]] < later[r[k]]
                                        \/ later[r[j]] = later[r[k]] /\ earlier[r[j]] <= earlier[r[k]]
  BY <1>14 DEF SortsTwice
<1>16. m \in Nat /\ (\A k \in 1..m : r[k] \in at) /\ (\A j, k \in 1..m : r[j] = r[k] => j = k)
  BY <1>15 DEF Placed
<1>17. PICK p : p = [k \in 1..m |-> h[r[k]]]
  OBVIOUS
<1>18. PICK ranked : ranked = RankCandidates(sim, settings)
  OBVIOUS
<1>19. \A k \in 1..m : p[k] = h[r[k]] /\ p[k] \in chosen /\ ranked[k] = candidates[r[k]]
  BY <1>5, <1>6, <1>13, <1>15, <1>16, <1>17, <1>18
<1>20. p \in [1..m -> DOMAIN sim] /\ DOMAIN ranked = 1..m
  BY <1>1, <1>13, <1>15, <1>17, <1>18, <1>19
<1>21. \A j, k \in 1..m : p[j] = p[k] => j = k
  BY <1>5, <1>6, <1>16, <1>19
<1>22. \A k \in 1..m : CanBeApplied(sim[p[k]]) /\ ranked[k] = Candidate(sim[p[k]], settings)
  BY <1>1, <1>8, <1>16, <1>19
<1>23. ASSUME NEW j \in 1..m, NEW k \in 1..m, j < k, ranked[k].status = "APPLIED"
       PROVE  ranked[j].lost >= ranked[k].lost
  <2>1. PICK a \in at, b \in at : a = r[j] /\ b = r[k]
    BY <1>16
  <2>2. later[a] < later[b] \/ (later[a] = later[b] /\ earlier[a] <= earlier[b])
    BY <1>15, <1>23, <2>1
  <2>3. ranked[j] = candidates[a] /\ ranked[k] = candidates[b]
    BY <1>19, <2>1
  <2>4. later[b] = 0 /\ later[a] \in {0, 1}
    BY <1>10, <1>23, <2>3
  <2>5. earlier[a] <= earlier[b]
    BY <2>2, <2>4
  <2>6. PICK x \in Int, y \in Int : x = candidates[a].lost /\ y = candidates[b].lost
    BY <1>9
  <2>7. -x <= -y
    BY <1>10, <2>5, <2>6
  <2>8. x >= y
    BY <2>6, <2>7
  <2> QED
    BY <2>3, <2>6, <2>8
<1>24. \A j, k \in 1..m : j < k /\ ranked[k].status = "APPLIED" => ranked[j].lost >= ranked[k].lost
  BY <1>23
<1>25. RankedBy(ranked, m, p, sim, settings)
  BY <1>16, <1>20, <1>21, <1>22, <1>24, Zenon DEF RankedBy
<1> QED
  BY <1>18, <1>25

\* What becomes of the k-th candidate, of the simulated rule e.
ChangeOf(c, k, e, settings) ==
  /\ c.rule = e.rule /\ c.type = e.action.type /\ c.after = e.action.threshold /\ c.lost = e.impact.lost
  /\ c.status \in {"APPLIED", "SKIPPED_DRY_RUN", "BLOCKED", "CAPPED"}
  /\ c.status \in {"APPLIED", "SKIPPED_DRY_RUN"} => ~BlockedBy(e, settings) /\ k <= settings.maxChanges
  /\ c.status = "CAPPED" => ~BlockedBy(e, settings) /\ k > settings.maxChanges

\* What decideChanges makes of the candidate at a place depends on those before it.
LEMMA CandidateDecided ==
  ASSUME NEW e, NEW k \in Int, NEW settings, settings.maxChanges \in Nat, NEW q,
         NEW capped, capped = CapChange(Candidate(e, settings), k, settings),
         NEW c, c = [capped EXCEPT !.status = Outcome(capped, q)]
  PROVE  ChangeOf(c, k, e, settings)
<1>1. PICK a : a = Candidate(e, settings)
  OBVIOUS
<1>2. a = [rule |-> e.rule, type |-> e.action.type, after |-> e.action.threshold, lost |-> e.impact.lost, status |-> a.status]
  BY <1>1 DEF Candidate
<1>3. a.status = (IF BlockedBy(e, settings) THEN "BLOCKED" ELSE "APPLIED")
  BY <1>1 DEF Candidate
<1>4. PICK s : s = IF a.status = "APPLIED" /\ k > settings.maxChanges THEN "CAPPED" ELSE a.status
  OBVIOUS
<1>5. capped = [rule |-> e.rule, type |-> e.action.type, after |-> e.action.threshold, lost |-> e.impact.lost, status |-> s]
  BY <1>1, <1>2, <1>4 DEF CapChange
<1>6. /\ c.rule = e.rule /\ c.type = e.action.type /\ c.after = e.action.threshold /\ c.lost = e.impact.lost
      /\ c.status = Outcome(capped, q) /\ capped.status = s
  BY <1>5
<1>7. \/ s = "BLOCKED" /\ c.status = "BLOCKED"
      \/ s = "CAPPED" /\ c.status = "CAPPED"
      \/ s = "APPLIED" /\ c.status \in {"APPLIED", "SKIPPED_DRY_RUN", "BLOCKED"}
  BY <1>3, <1>4, <1>6 DEF Outcome
<1>8. /\ s = "CAPPED" => ~BlockedBy(e, settings) /\ k > settings.maxChanges
      /\ s = "APPLIED" => ~BlockedBy(e, settings) /\ k <= settings.maxChanges
  BY <1>3, <1>4
<1> QED
  BY <1>6, <1>7, <1>8 DEF ChangeOf

\* The changes of a run.
Decided(changes, m, p, sim, settings) ==
  /\ m \in Nat /\ p \in [1..m -> DOMAIN sim] /\ (\A j, k \in 1..m : p[j] = p[k] => j = k)
  /\ DOMAIN changes = 1..m
  /\ \A k \in 1..m : CanBeApplied(sim[p[k]]) /\ ChangeOf(changes[k], k, sim[p[k]], settings)
  /\ \A j, k \in 1..m : j < k /\ changes[k].status = "CAPPED" => changes[j].lost >= changes[k].lost

\* The changes of a run: those blocked, those made, and those the cap leaves.
LEMMA RunDecided ==
  ASSUME NEW q, q.settings.maxChanges \in Nat,
         NEW sim, NEW n \in Nat, DOMAIN sim = 1..n, \A k \in 1..n : sim[k].impact.lost \in Int
  PROVE  \E m, p : Decided(ChangesOf(sim, q), m, p, sim, q.settings)
<1>1. PICK settings : settings = q.settings
  OBVIOUS
<1>2. PICK ranked : ranked = RankCandidates(sim, settings)
  OBVIOUS
<1>3. PICK m, p : RankedBy(ranked, m, p, sim, settings)
  BY <1>2, CandidatesRanked
<1>4. /\ m \in Nat /\ p \in [1..m -> DOMAIN sim] /\ (\A j, k \in 1..m : p[j] = p[k] => j = k)
      /\ DOMAIN ranked = 1..m
      /\ \A k \in 1..m : CanBeApplied(sim[p[k]]) /\ ranked[k] = Candidate(sim[p[k]], settings)
      /\ \A j, k \in 1..m : j < k /\ ranked[k].status = "APPLIED" => ranked[j].lost >= ranked[k].lost
  BY <1>3 DEF RankedBy
<1>5. PICK capped : capped = [i \in 1..m |-> CapChange(ranked[i], i, settings)]
  OBVIOUS
<1>6. capped = CapChanges(ranked, settings)
  BY <1>4, <1>5 DEF CapChanges
<1>7. PICK changes : changes = [i \in 1..m |-> [capped[i] EXCEPT !.status = Outcome(capped[i], q)]]
  OBVIOUS
<1>8. changes = ChangesOf(sim, q)
  BY <1>1, <1>2, <1>5, <1>6, <1>7 DEF ChangesOf, RunChanges
<1>9. ASSUME NEW k \in 1..m PROVE ChangeOf(changes[k], k, sim[p[k]], settings)
  <2>1. PICK e, c, t : e = sim[p[k]] /\ c = changes[k] /\ t = capped[k]
    OBVIOUS
  <2>2. t = CapChange(Candidate(e, settings), k, settings)
    BY <1>4, <1>5, <2>1
  <2>3. c = [t EXCEPT !.status = Outcome(t, q)]
    BY <1>7, <2>1
  <2>4. k \in Int /\ settings.maxChanges \in Nat
    BY <1>1, <1>4
  <2>5. ChangeOf(c, k, e, settings)
    BY <2>2, <2>3, <2>4, CandidateDecided
  <2> QED
    BY <2>1, <2>5
<1>10. ASSUME NEW j \in 1..m, NEW k \in 1..m, j < k, changes[k].status = "CAPPED"
       PROVE  changes[j].lost >= changes[k].lost
  <2>1. ~BlockedBy(sim[p[k]], settings)
    BY <1>9, <1>10 DEF ChangeOf
  <2>2. ranked[k].status = "APPLIED"
    BY <1>4, <2>1 DEF Candidate
  <2>3. ranked[j].lost >= ranked[k].lost
    BY <1>4, <1>10, <2>2
  <2>4. ranked[j].lost = sim[p[j]].impact.lost /\ ranked[k].lost = sim[p[k]].impact.lost
    BY <1>4 DEF Candidate
  <2>5. changes[j].lost = sim[p[j]].impact.lost /\ changes[k].lost = sim[p[k]].impact.lost
    BY <1>9 DEF ChangeOf
  <2> QED
    BY <2>3, <2>4, <2>5
<1>11. Decided(changes, m, p, sim, settings)
  BY <1>4, <1>7, <1>9, <1>10 DEF Decided
<1> QED
  BY <1>1, <1>8, <1>11

\* No more of the past actions are lost than there are.
LEMMA LostOfPast ==
  ASSUME NEW q, NEW sim, SimulationIs(sim, q)
  PROVE  SummarizeSimulation(sim).lost <= SummarizeSimulation(sim).actions
<1>1. PICK n \in Nat : DOMAIN sim = 1..n /\ \A k \in 1..n : OfRule(sim[k], q)
  BY DEF SimulationIs
<1>2. PICK T : T = 1..n /\ IsFiniteSet(T)
  BY <1>1, IntervalIs
<1>3. PICK f, g : f = [i \in T |-> sim[i].impact.lost] /\ g = [i \in T |-> sim[i].impact.count]
  OBVIOUS
<1>4. \A i \in T : f[i] \in Int /\ g[i] \in Int /\ f[i] <= g[i]
  BY <1>1, <1>2, <1>3 DEF OfRule, Simulated
<1>5. Sum(f, T) <= Sum(g, T)
  BY <1>2, <1>4, SumAtMost
<1>6. SumFunction(f) = Sum(f, T) /\ SumFunction(g) = Sum(g, T)
  BY <1>3 DEF SumFunction, Sum
<1>7. SummarizeSimulation(sim).lost = SumFunction(f) /\ SummarizeSimulation(sim).actions = SumFunction(g)
  BY <1>1, <1>2, <1>3 DEF SummarizeSimulation
<1> QED
  BY <1>5, <1>6, <1>7

\* What the changes lose is part of what the simulation loses.
LEMMA MadeOfSimulated ==
  ASSUME NEW q, NEW sim, SimulationIs(sim, q), NEW settings, NEW changes, NEW m, NEW p, Decided(changes, m, p, sim, settings)
  PROVE  RunTotals(changes).lost <= SummarizeSimulation(sim).lost
<1>1. PICK n \in Nat : DOMAIN sim = 1..n /\ \A k \in 1..n : OfRule(sim[k], q)
  BY DEF SimulationIs
<1>2. PICK T, at : T = 1..n /\ at = 1..m /\ IsFiniteSet(T) /\ IsFiniteSet(at)
  BY <1>1, IntervalIs DEF Decided
<1>3. /\ \A k \in at : p[k] \in T /\ changes[k].lost = sim[p[k]].impact.lost
      /\ \A j, k \in at : p[j] = p[k] => j = k
      /\ DOMAIN changes = at
  BY <1>1, <1>2 DEF Decided, ChangeOf
<1>4. PICK f : f = [i \in T |-> sim[i].impact.lost]
  OBVIOUS
<1>5. \A i \in T : f[i] \in Nat
  BY <1>1, <1>2, <1>4 DEF OfRule, Simulated
<1>6. PICK made, g : made = Made(changes) /\ g = [i \in made |-> changes[i].lost]
  OBVIOUS
<1>7. made \in SUBSET at
  BY <1>3, <1>6 DEF Made
<1>8. PICK S : S = {p[t] : t \in made}
  OBVIOUS
<1>9. Maps(p, made, S) /\ S \in SUBSET T
  BY <1>3, <1>7, <1>8 DEF Maps
<1>10. IsFiniteSet(made)
  BY <1>2, <1>7, FS_Subset
<1>11. \A t \in made : f[p[t]] \in Int /\ g[t] = f[p[t]]
  BY <1>3, <1>4, <1>5, <1>6, <1>7
<1>12. Sum(g, made) = Sum(f, S)
  BY <1>9, <1>10, <1>11, SumMapped
<1>13. Sum(f, S) <= Sum(f, T)
  BY <1>2, <1>5, <1>9, SumPart
<1>14. RunTotals(changes).lost = SumFunction(g) /\ SumFunction(g) = Sum(g, made)
  BY <1>6 DEF RunTotals, SumFunction, Sum
<1>15. SummarizeSimulation(sim).lost = SumFunction(f) /\ SumFunction(f) = Sum(f, T)
  BY <1>1, <1>2, <1>4 DEF SummarizeSimulation, SumFunction, Sum
<1> QED
  BY <1>12, <1>13, <1>14, <1>15

\* A list is as long as its domain.
LEMMA LenIs == ASSUME NEW s, NEW n \in Nat, DOMAIN s = 1..n PROVE Len(s) = n
  OBVIOUS

\* A change has one of four statuses.
LEMMA StatusesAddUp ==
  ASSUME NEW sim, NEW settings, NEW changes, NEW m, NEW p, Decided(changes, m, p, sim, settings)
  PROVE  /\ RunTotals(changes).applied + RunTotals(changes).skipped + RunTotals(changes).blocked + RunTotals(changes).capped
              = RunTotals(changes).candidates
         /\ Len(changes) = m
<1>1. PICK at : at = 1..m /\ DOMAIN changes = at /\ IsFiniteSet(at) /\ Cardinality(at) = m /\ m \in Nat
  BY IntervalIs DEF Decided
<1>2. PICK a, s, b, c :
        /\ a = WithStatus(changes, "APPLIED") /\ s = WithStatus(changes, "SKIPPED_DRY_RUN")
        /\ b = WithStatus(changes, "BLOCKED") /\ c = WithStatus(changes, "CAPPED")
  OBVIOUS
<1>3. a \in SUBSET at /\ s \in SUBSET at /\ b \in SUBSET at /\ c \in SUBSET at
  BY <1>1, <1>2 DEF WithStatus
<1>4. IsFiniteSet(a) /\ IsFiniteSet(s) /\ IsFiniteSet(b) /\ IsFiniteSet(c) /\ IsFiniteSet(a \cup s) /\ IsFiniteSet(b \cup c)
  BY <1>1, <1>3, FS_Subset, FS_Union
<1>5. a \cap s = {} /\ b \cap c = {} /\ (a \cup s) \cap (b \cup c) = {}
  BY <1>2 DEF WithStatus
<1>6. (a \cup s) \cup (b \cup c) = at
  BY <1>1, <1>2, <1>3 DEF WithStatus, Decided, ChangeOf
<1>7. /\ Cardinality(a \cup s) = Cardinality(a) + Cardinality(s) /\ Cardinality(b \cup c) = Cardinality(b) + Cardinality(c)
  BY <1>4, <1>5, CardApart
<1>8. PICK x, y : x = a \cup s /\ y = b \cup c
  OBVIOUS
<1>9. Cardinality(x \cup y) = Cardinality(x) + Cardinality(y)
  BY <1>4, <1>5, <1>8, CardApart
<1>10. Len(changes) = m
  BY <1>1, LenIs
<1>11. Cardinality(a) \in Nat /\ Cardinality(s) \in Nat /\ Cardinality(b) \in Nat /\ Cardinality(c) \in Nat
  BY <1>4, FS_CardinalityType
<1>12. PICK t : t = RunTotals(changes)
  OBVIOUS
<1>13. t.candidates = m
  BY <1>10, <1>12 DEF RunTotals
<1>14. t.applied = Cardinality(a) /\ t.skipped = Cardinality(s) /\ t.blocked = Cardinality(b) /\ t.capped = Cardinality(c)
  BY <1>2, <1>12 DEF RunTotals
<1>15. Cardinality(a) + Cardinality(s) + Cardinality(b) + Cardinality(c) = m
  <2>1. Cardinality(x) = Cardinality(a) + Cardinality(s) /\ Cardinality(y) = Cardinality(b) + Cardinality(c)
    BY <1>7, <1>8
  <2>2. Cardinality(x) + Cardinality(y) = m
    BY <1>1, <1>6, <1>8, <1>9
  <2> QED
    BY <1>11, <2>1, <2>2
<1> QED
  BY <1>10, <1>12, <1>13, <1>14, <1>15

-----------------------------------------------------------------------------
(* The answers of the tuner.                                               *)

RunAnswered ==
  question.kind = "run" /\ FeedbackOk(question) /\ question.settings.maxChanges \in Nat /\ question.settings.maxRatio \in Nat
  /\ answer = RunResult(question)

\* A run's answer, and which simulated rule each of its changes is of.
LEMMA RunParts ==
  ASSUME RunAnswered
  PROVE  \E sim, m, p :
           /\ SimulationIs(sim, question) /\ answer.summary = SummarizeSimulation(sim)
           /\ Decided(answer.changes, m, p, sim, question.settings) /\ answer.totals = RunTotals(answer.changes)
           /\ Classified(answer.health, question.votes)
<1>1. PICK sim : sim = SimulateRules(question) /\ SimulationIs(sim, question)
  BY RulesSimulated DEF RunAnswered
<1>2. PICK n \in Nat : DOMAIN sim = 1..n /\ \A k \in 1..n : OfRule(sim[k], question)
  BY <1>1 DEF SimulationIs
<1>3. \A k \in 1..n : sim[k].impact.lost \in Int
  BY <1>2 DEF OfRule, Simulated
<1>4. PICK m, p : Decided(ChangesOf(sim, question), m, p, sim, question.settings)
  BY <1>2, <1>3, RunDecided DEF RunAnswered
<1>5. /\ answer.health = ClassifyRules(question.votes) /\ answer.summary = SummarizeSimulation(sim)
      /\ answer.changes = ChangesOf(sim, question) /\ answer.totals = RunTotals(answer.changes)
  BY <1>1 DEF RunAnswered, RunResult
<1>6. Classified(answer.health, question.votes)
  BY <1>5, RulesClassified DEF RunAnswered, FeedbackOk
<1> QED
  BY <1>1, <1>4, <1>5, <1>6

\* The simulated rule that a change is of is the rule of the change.
LEMMA ChangeOfRule ==
  ASSUME NEW q, FeedbackOk(q), NEW sim, SimulationIs(sim, q), NEW settings,
         NEW changes, NEW m, NEW p, Decided(changes, m, p, sim, settings), NEW k \in DOMAIN changes
  PROVE  \E e, v, def, replay :
           /\ v = q.votes[changes[k].rule] /\ def = q.defs[changes[k].rule] /\ replay = q.replays[changes[k].rule]
           /\ v \in VoteTypes /\ def \in DefTypes \cup {None} /\ ReplayOk(replay)
           /\ CanBeApplied(e) /\ ChangeOf(changes[k], k, e, settings)
           /\ Simulated(e, ClassifyRule(changes[k].rule, v), def, replay)
<1>1. PICK n \in Nat : DOMAIN sim = 1..n /\ \A j \in 1..n : OfRule(sim[j], q)
  BY DEF SimulationIs
<1>2. k \in 1..m /\ p[k] \in 1..n /\ CanBeApplied(sim[p[k]]) /\ ChangeOf(changes[k], k, sim[p[k]], settings)
  BY <1>1 DEF Decided
<1>3. PICK e, c : e = sim[p[k]] /\ c = changes[k] /\ OfRule(e, q)
  BY <1>1, <1>2
<1>4. PICK i \in DOMAIN q.votes : i = e.rule /\ Simulated(e, ClassifyRule(i, q.votes[i]), q.defs[i], q.replays[i])
  BY <1>3 DEF OfRule
<1>5. c.rule = i
  BY <1>2, <1>3, <1>4 DEF ChangeOf
<1>6. q.votes[i] \in VoteTypes /\ q.defs[i] \in DefTypes \cup {None} /\ ReplayOk(q.replays[i])
  BY <1>4 DEF FeedbackOk
<1> QED
  BY <1>2, <1>3, <1>4, <1>5, <1>6

\* Every change of a run is of a rule that users and past actions speak against.
LEMMA RunIsJustified == ASSUME RunAnswered PROVE ChangesAreJustified
<1>1. PICK sim, m, p :
        /\ SimulationIs(sim, question) /\ Decided(answer.changes, m, p, sim, question.settings)
  BY RunParts
<1>2. FeedbackOk(question) /\ question.settings.maxRatio \in Nat
  BY DEF RunAnswered
<1>3. ASSUME NEW i \in Made(answer.changes), NEW c, c = answer.changes[i]
      PROVE  IsJustified(c, question.votes[c.rule], question.defs[c.rule], question.replays[c.rule], question.settings)
  <2>1. i \in DOMAIN answer.changes /\ c.status \in {"APPLIED", "SKIPPED_DRY_RUN"}
    BY <1>3 DEF Made
  <2>2. PICK e, v, def, replay :
          /\ v = question.votes[c.rule] /\ def = question.defs[c.rule] /\ replay = question.replays[c.rule]
          /\ v \in VoteTypes /\ def \in DefTypes \cup {None} /\ ReplayOk(replay)
          /\ CanBeApplied(e) /\ ChangeOf(c, i, e, question.settings)
          /\ Simulated(e, ClassifyRule(c.rule, v), def, replay)
    BY <1>1, <1>2, <1>3, <2>1, ChangeOfRule
  <2>3. ~BlockedBy(e, question.settings) /\ c.type = e.action.type /\ c.after = e.action.threshold
    BY <2>1, <2>2 DEF ChangeOf
  <2>4. PICK entry : entry = ClassifyRule(c.rule, v)
    OBVIOUS
  <2>5. IsJustified(c, v, def, replay, question.settings)
    BY <1>2, <2>2, <2>3, <2>4, Justified
  <2> QED
    BY <2>2, <2>5
<1> QED
  BY <1>3 DEF ChangesAreJustified

\* No threshold changes on actions whose KPI was not stored.
LEMMA RunIsNotBlind == ASSUME RunAnswered PROVE NothingIsTightenedBlindly
<1>1. PICK sim, m, p :
        /\ SimulationIs(sim, question) /\ Decided(answer.changes, m, p, sim, question.settings)
  BY RunParts
<1>2. FeedbackOk(question)
  BY DEF RunAnswered
<1>3. ASSUME NEW i \in DOMAIN answer.changes, NEW c, c = answer.changes[i], c.type = "TIGHTEN_THRESHOLD",
             \A kpi \in DOMAIN question.replays[c.rule].seen : question.replays[c.rule].seen[kpi] = 0
      PROVE  c.status \in {"BLOCKED", "CAPPED"}
  <2>1. PICK e, v, def, replay :
          /\ replay = question.replays[c.rule] /\ ReplayOk(replay)
          /\ ChangeOf(c, i, e, question.settings) /\ Simulated(e, ClassifyRule(c.rule, v), def, replay)
    BY <1>1, <1>2, <1>3, ChangeOfRule
  <2>2. PICK f, S : f = replay.seen /\ S = DOMAIN f /\ IsFiniteSet(S)
    BY <2>1 DEF ReplayOk
  <2>3. \A x \in S : f[x] \in Int /\ 0 <= f[x] /\ f[x] <= 0
    <3>1. \A x \in DOMAIN replay.seen : replay.seen[x] = 0
      BY <1>3, <2>1
    <3>2. \A x \in S : f[x] = 0
      BY <2>2, <3>1
    <3> QED
      BY <3>2
  <2>4. Sum(f, S) = 0
    <3>1. PICK zero \in Int : zero = 0
      OBVIOUS
    <3>2. \A x \in S : f[x] \in Int /\ zero <= f[x] /\ f[x] <= zero
      BY <2>3, <3>1
    <3>3. /\ Sum(f, S) \in Int /\ Cardinality(S) \in Nat
          /\ zero * Cardinality(S) <= Sum(f, S) /\ Sum(f, S) <= zero * Cardinality(S)
      BY <2>2, <3>2, SumBetween
    <3> QED
      BY <3>1, <3>3
  <2>5. Past(replay) = replay.unknown /\ replay.unknown \in Nat
    BY <2>1, <2>2, <2>4, PastIs
  <2>6. e.action.type = "TIGHTEN_THRESHOLD"
    BY <1>3, <2>1 DEF ChangeOf
  <2>7. e.impact.confidence # "HIGH"
    BY <2>1, <2>5, <2>6 DEF Simulated
  <2>8. BlockedBy(e, question.settings)
    BY <2>7 DEF BlockedBy
  <2> QED
    BY <2>1, <2>8 DEF ChangeOf
<1> QED
  BY <1>3 DEF NothingIsTightenedBlindly

\* A run keeps its cap, for the changes that count most, and its totals add up.
LEMMA RunKeepsTheCap == ASSUME RunAnswered PROVE CapKeepsTheLargest
<1>1. PICK sim, m, p :
        /\ SimulationIs(sim, question) /\ answer.summary = SummarizeSimulation(sim)
        /\ Decided(answer.changes, m, p, sim, question.settings) /\ answer.totals = RunTotals(answer.changes)
  BY RunParts
<1>2. PICK changes, settings, max : changes = answer.changes /\ settings = question.settings /\ max = settings.maxChanges /\ max \in Nat
  BY DEF RunAnswered
<1>3. /\ m \in Nat /\ DOMAIN changes = 1..m
      /\ \A k \in 1..m : ChangeOf(changes[k], k, sim[p[k]], settings)
      /\ \A j, k \in 1..m : j < k /\ changes[k].status = "CAPPED" => changes[j].lost >= changes[k].lost
  BY <1>1, <1>2 DEF Decided
<1>4. PICK made : made = Made(changes)
  OBVIOUS
<1>5. \A i \in made : i \in 1..m /\ i <= max
  BY <1>2, <1>3, <1>4 DEF Made, ChangeOf
<1>6. Cardinality(made) <= max
  <2>1. PICK T : T = 1..max /\ IsFiniteSet(T) /\ Cardinality(T) = max
    BY <1>2, IntervalIs
  <2>2. made \in SUBSET T
    BY <1>2, <1>3, <1>5, <2>1
  <2> QED
    BY <2>1, <2>2, FS_Subset
<1>7. \A i \in made, j \in 1..m : changes[j].status = "CAPPED" => changes[i].lost >= changes[j].lost
  <2>1. ASSUME NEW i \in made, NEW j \in 1..m, changes[j].status = "CAPPED" PROVE changes[i].lost >= changes[j].lost
    <3>1. j > max
      BY <1>2, <1>3, <2>1 DEF ChangeOf
    <3>2. i < j /\ i \in 1..m
      BY <1>2, <1>3, <1>5, <3>1
    <3> QED
      BY <1>3, <2>1, <3>2
  <2> QED
    BY <2>1
<1>8. PICK t : t = answer.totals
  OBVIOUS
<1>9. t.applied + t.skipped + t.blocked + t.capped = t.candidates
  BY <1>1, <1>8, StatusesAddUp
<1>10. t.lost <= answer.summary.lost
  BY <1>1, <1>8, MadeOfSimulated
<1>11. answer.summary.lost <= answer.summary.actions
  BY <1>1, LostOfPast
<1> QED
  BY <1>2, <1>3, <1>4, <1>6, <1>7, <1>8, <1>9, <1>10, <1>11 DEF CapKeepsTheLargest

\* A rule that is judged better in every respect ranks no lower.
LEMMA RunJudgesBetter == ASSUME RunAnswered PROVE BetterIsNotWorse
<1>1. PICK n, p :
        /\ Placed(p, n, DOMAIN question.votes)
        /\ answer.health = [k \in 1..n |-> ClassifyRule(p[k], question.votes[p[k]])]
  <2>1. Classified(answer.health, question.votes)
    BY RunParts
  <2> QED
    BY <2>1 DEF Classified
<1>2. \A k \in 1..n : p[k] \in DOMAIN question.votes
  BY <1>1 DEF Placed
<1>3. \A k \in DOMAIN question.votes : question.votes[k] \in VoteTypes
  BY DEF RunAnswered, FeedbackOk
<1>4. ASSUME NEW i \in DOMAIN answer.health, NEW j \in DOMAIN answer.health,
             NEW v, v = question.votes[answer.health[i].rule], NEW w, w = question.votes[answer.health[j].rule],
             v.rows = w.rows, Rated(v) = Rated(w), v.useful >= w.useful, v.wrong <= w.wrong, v.needsContext <= w.needsContext
      PROVE  /\ answer.health[i].score >= answer.health[j].score
             /\ HealthRank(answer.health[i].health) >= HealthRank(answer.health[j].health)
  <2>1. PICK a, b : a = p[i] /\ b = p[j] /\ a \in DOMAIN question.votes /\ b \in DOMAIN question.votes
    BY <1>1, <1>2
  <2>2. answer.health[i] = ClassifyRule(a, question.votes[a]) /\ answer.health[j] = ClassifyRule(b, question.votes[b])
    BY <1>1, <2>1
  <2>3. answer.health[i].rule = a /\ answer.health[j].rule = b
    BY <2>2 DEF ClassifyRule
  <2>4. v = question.votes[a] /\ w = question.votes[b] /\ v \in VoteTypes /\ w \in VoteTypes
    BY <1>3, <1>4, <2>1, <2>3
  <2>5. /\ ClassifyRule(a, v).score >= ClassifyRule(b, w).score
        /\ HealthRank(ClassifyRule(a, v).health) >= HealthRank(ClassifyRule(b, w).health)
    BY <1>4, <2>4, BetterRule
  <2> QED
    BY <2>2, <2>4, <2>5
<1> QED
  BY <1>4 DEF BetterIsNotWorse

SettingsAnswered ==
  question.kind = "settings" /\ answer = [used |-> UsedByRun(question.rows), shown |-> ShownToAdmin(question.rows)]

\* The admin's view has the value a run uses.
LEMMA ViewIsUsed == ASSUME SettingsAnswered PROVE ViewIsWhatRunsUse
<1>1. answer.used = UsedByRun(question.rows) /\ answer.shown = ShownToAdmin(question.rows)
  BY DEF SettingsAnswered
<1>2. question.rows.org # Malformed => UsedByRun(question.rows) = ShownToAdmin(question.rows).value
  BY DEF UsedByRun, ShownToAdmin, ReadRow
<1> QED
  BY <1>1, <1>2 DEF ViewIsWhatRunsUse

-----------------------------------------------------------------------------
(* The ledger of runs.                                                     *)

\* The beginning of a list.
LEMMA FirstIs ==
  ASSUME NEW m \in Nat, NEW s, DOMAIN s = 1..m, NEW n \in Nat, NEW t, t = First(s, n)
  PROVE  /\ Smaller(n, m) \in Nat /\ Smaller(n, m) <= n /\ Smaller(n, m) <= m
         /\ DOMAIN t = 1..Smaller(n, m) /\ Len(t) = Smaller(n, m)
         /\ \A k \in 1..Smaller(n, m) : t[k] = s[k]
<1>1. PICK j \in Nat : j = Smaller(n, m) /\ j <= n /\ j <= m
  BY DEF Smaller
<1>2. Len(s) = m
  BY LenIs
<1>3. t = [k \in 1..j |-> s[k]]
  BY <1>1, <1>2 DEF First
<1>4. DOMAIN t = 1..j /\ \A k \in 1..j : t[k] = s[k]
  BY <1>3
<1>5. Len(t) = j
  BY <1>4, LenIs
<1> QED
  BY <1>1, <1>4, <1>5

\* Finitely many things have finitely many values.
LEMMA ValuesFinite ==
  ASSUME NEW S, IsFiniteSet(S), NEW f, NEW K, K = {f[x] : x \in S}
  PROVE  IsFiniteSet(K)
<1>1. PICK g : g = [k \in K |-> Cardinality(Having(S, f, {k}))]
  OBVIOUS
<1>2. Counts(g, K, f, S)
  BY <1>1 DEF Counts, Tallies
<1> QED
  BY <1>2, CountedByKey

\* A run lasts from the first of its rows to the last.
Lasts(u, rows) ==
  /\ StartOf(u, rows) \in Int /\ EndOf(u, rows) \in Int
  /\ \A l \in LogOf(u, rows) : StartOf(u, rows) <= l.at /\ l.at <= EndOf(u, rows)
  /\ \E l \in LogOf(u, rows) : StartOf(u, rows) = l.at

\* The first and the last row of a run are rows of it.
LEMMA RunLasts ==
  ASSUME NEW rows, LogOk(rows), NEW u, LogOf(u, rows) # {}
  PROVE  Lasts(u, rows)
<1>1. PICK S : S = LogOf(u, rows)
  OBVIOUS
<1>2. S \in SUBSET rows /\ IsFiniteSet(rows) /\ \A l \in S : l.at \in Int
  BY <1>1 DEF LogOf, LogOk
<1>3. IsFiniteSet(S)
  BY <1>2, FS_Subset
<1>4. PICK f, K : f = [l \in S |-> l.at] /\ K = {f[l] : l \in S}
  OBVIOUS
<1>5. IsFiniteSet(K)
  BY <1>3, <1>4, ValuesFinite
<1>6. K # {} /\ \A x \in K : x \in Int
  BY <1>1, <1>2, <1>4
<1>7. Max(K) \in K /\ (\A x \in K : x <= Max(K)) /\ Min(K) \in K /\ (\A x \in K : Min(K) <= x)
  BY <1>5, <1>6, MaxIs, MinIs
<1>8. K = {l.at : l \in S}
  BY <1>4
<1>9. StartOf(u, rows) = Min(K) /\ EndOf(u, rows) = Max(K)
  BY <1>1, <1>8 DEF StartOf, EndOf
<1>10. \A l \in S : l.at \in K
  BY <1>4
<1>11. \E l \in S : Min(K) = l.at
  BY <1>7, <1>8
<1> QED
  BY <1>1, <1>6, <1>7, <1>9, <1>10, <1>11 DEF Lasts

\* Rows that are read are some of those there are, and none left out is newer.
LEMMA NewestIs ==
  ASSUME NEW rows, LogOk(rows), NEW n \in Nat, NEW taken \in Newest(rows, n)
  PROVE  /\ taken \in SUBSET rows /\ IsFiniteSet(taken) /\ LogOk(taken)
         /\ Cardinality(taken) = Smaller(n, Cardinality(rows)) /\ Cardinality(rows) \in Nat
         /\ \A l \in taken, m \in rows \ taken : l.at >= m.at
<1>1. /\ taken \in SUBSET rows /\ Cardinality(taken) = Smaller(n, Cardinality(rows))
      /\ \A l \in taken, m \in rows \ taken : l.at >= m.at
  BY DEF Newest, kSubset
<1>2. IsFiniteSet(rows)
  BY DEF LogOk
<1>3. IsFiniteSet(taken)
  BY <1>1, <1>2, FS_Subset
<1>4. Cardinality(rows) \in Nat
  BY <1>2, FS_CardinalityType
<1> QED
  BY <1>1, <1>3, <1>4 DEF LogOk

\* Each run that rows were read of is summed up once, the later started before the others.
Grouped(list, m, p, rows) ==
  /\ Placed(p, m, {l.run : l \in rows}) /\ DOMAIN list = 1..m /\ list = [k \in 1..m |-> list[k]]
  /\ \A k \in 1..m : list[k] = SummarizeRun(p[k], rows) /\ p[k] \in Nat /\ LogOf(p[k], rows) # {}
  /\ \A j, k \in 1..m : j < k => StartOf(p[k], rows) <= StartOf(p[j], rows)

\* groupLogsIntoRuns lists every run of the rows once, the latest start first.
LEMMA LogsGrouped ==
  ASSUME NEW rows, LogOk(rows)
  PROVE  \E m, p : Grouped(GroupLogsIntoRuns(rows), m, p, rows)
<1>1. PICK at : at = {l.run : l \in rows}
  OBVIOUS
<1>2. IsFiniteSet(at)
  <2>1. PICK f : f = [l \in rows |-> l.run]
    OBVIOUS
  <2>2. at = {f[l] : l \in rows} /\ IsFiniteSet(rows)
    BY <1>1, <2>1 DEF LogOk
  <2> QED
    BY <2>2, ValuesFinite
<1>3. at \subseteq Nat /\ \A u \in at : LogOf(u, rows) # {}
  BY <1>1 DEF LogOk, LogOf
<1>4. \A u \in at : StartOf(u, rows) \in Int /\ EndOf(u, rows) \in Int
  BY <1>3, RunLasts DEF Lasts
<1>5. PICK s : s = [u \in at |-> SummarizeRun(u, rows)]
  OBVIOUS
<1>6. \A u \in at : s[u].startedAt = StartOf(u, rows) /\ s[u].finishedAt = EndOf(u, rows)
  BY <1>5 DEF SummarizeRun
<1>7. PICK earlier, later : earlier = [u \in at |-> -s[u].finishedAt] /\ later = [u \in at |-> -s[u].startedAt]
  OBVIOUS
<1>8. \A u \in at : earlier[u] \in Int /\ later[u] \in Int /\ later[u] = -StartOf(u, rows)
  BY <1>4, <1>6, <1>7
<1>9. PICK once : once = Sorted(s, earlier)
  OBVIOUS
<1>10. PICK key : key = [k \in DOMAIN once |-> -once[k].startedAt]
  OBVIOUS
<1>11. \A k \in DOMAIN once : \A u \in at : once[k] = s[u] => key[k] = later[u]
  BY <1>7, <1>10
<1>12. at = DOMAIN s
  BY <1>5
<1>13. SortsTwice(Sorted(once, key), s, at, later, earlier)
  BY <1>2, <1>3, <1>8, <1>9, <1>11, <1>12, SortedTwice
<1>14. PICK list : list = GroupLogsIntoRuns(rows) /\ list = Sorted(once, key)
  BY <1>1, <1>5, <1>7, <1>9, <1>10, <1>12 DEF GroupLogsIntoRuns
<1>15. PICK m, p :
         /\ Placed(p, m, at) /\ list = [k \in 1..m |-> s[p[k]]]
         /\ \A j, k \in 1..m : j < k => \/ later[p[j]] < later[p[k]]
                                        \/ later[p[j]] = later[p[k]] /\ earlier[p[j]] <= earlier[p[k]]
  BY <1>13, <1>14 DEF SortsTwice
<1>16. m \in Nat /\ \A k \in 1..m : p[k] \in at
  BY <1>15 DEF Placed
<1>17. \A k \in 1..m : list[k] = SummarizeRun(p[k], rows) /\ p[k] \in Nat /\ LogOf(p[k], rows) # {}
  BY <1>3, <1>5, <1>15, <1>16
<1>18. ASSUME NEW j \in 1..m, NEW k \in 1..m, j < k PROVE StartOf(p[k], rows) <= StartOf(p[j], rows)
  <2>1. PICK a \in at, b \in at : a = p[j] /\ b = p[k]
    BY <1>16
  <2>2. later[a] <= later[b]
    BY <1>8, <1>15, <1>18, <2>1
  <2> QED
    BY <1>4, <1>8, <2>1, <2>2
<1>19. DOMAIN list = 1..m /\ list = [k \in 1..m |-> list[k]]
  BY <1>15
<1>20. Placed(p, m, {l.run : l \in rows})
  BY <1>1, <1>15
<1>21. Grouped(list, m, p, rows)
  BY <1>17, <1>18, <1>19, <1>20 DEF Grouped
<1> QED
  BY <1>14, <1>21

\* What is read of a run is part of it.
Reads(taken, rows) == taken \in SUBSET rows /\ LogOk(rows) /\ LogOk(taken) /\ \A l \in taken, m \in rows \ taken : l.at >= m.at

\* What is read of a run lasts no longer than the run.
LEMMA PartLasts ==
  ASSUME NEW rows, NEW taken, Reads(taken, rows), NEW u, LogOf(u, taken) # {}
  PROVE  /\ LogOf(u, taken) \in SUBSET LogOf(u, rows) /\ Lasts(u, rows) /\ Lasts(u, taken)
         /\ StartOf(u, rows) <= StartOf(u, taken) /\ StartOf(u, taken) <= EndOf(u, rows)
<1>1. LogOf(u, taken) \in SUBSET LogOf(u, rows) /\ LogOk(rows) /\ LogOk(taken) /\ LogOf(u, rows) # {}
  BY DEF LogOf, Reads
<1>2. Lasts(u, rows) /\ Lasts(u, taken)
  BY <1>1, RunLasts
<1>3. PICK l \in LogOf(u, taken) : StartOf(u, taken) = l.at
  BY <1>2 DEF Lasts
<1>4. l \in LogOf(u, rows)
  BY <1>1
<1>5. StartOf(u, rows) <= l.at /\ l.at <= EndOf(u, rows)
  BY <1>2, <1>4 DEF Lasts
<1> QED
  BY <1>1, <1>2, <1>3, <1>5

\* A run that is not listed started no later than a listed one ended.
LEMMA UnlistedIsOlder ==
  ASSUME NEW rows, NEW taken, Reads(taken, rows), NEW u, LogOf(u, taken) # {},
         NEW w, LogOf(w, rows) # {}, LogOf(w, taken) # {} => StartOf(w, taken) <= StartOf(u, taken)
  PROVE  StartOf(w, rows) <= EndOf(u, rows)
<1>1. PICK a, b, c : a = StartOf(w, rows) /\ b = StartOf(u, taken) /\ c = EndOf(u, rows) /\ b <= c /\ b \in Int /\ c \in Int
  <2>1. StartOf(u, taken) <= EndOf(u, rows) /\ StartOf(u, taken) \in Int /\ EndOf(u, rows) \in Int
    BY PartLasts DEF Lasts
  <2> QED
    BY <2>1
<1>2. LogOk(rows) /\ Lasts(w, rows) /\ a \in Int
  BY <1>1, RunLasts DEF Reads, Lasts
<1>3. CASE LogOf(w, taken) # {}
  <2>1. a <= StartOf(w, taken) /\ StartOf(w, taken) <= b /\ StartOf(w, taken) \in Int
    BY <1>1, <1>3, PartLasts DEF Lasts
  <2> QED
    BY <1>1, <1>2, <2>1
<1>4. CASE LogOf(w, taken) = {}
  <2>1. PICK r \in LogOf(w, rows) : r \in rows \ taken
    BY <1>4 DEF LogOf
  <2>2. PICK l \in LogOf(u, taken) : b = l.at
    BY <1>1, PartLasts DEF Lasts
  <2>3. l \in taken
    BY DEF LogOf
  <2>4. l.at >= r.at /\ r.at \in Int
    BY <1>2, <2>1, <2>3 DEF Reads, LogOk
  <2>5. a <= r.at
    BY <1>1, <1>2 DEF Lasts
  <2> QED
    BY <1>1, <1>2, <2>2, <2>4, <2>5
<1> QED
  BY <1>1, <1>3, <1>4

\* All rows of a run were read when one of an earlier run was.
LEMMA NewerIsWhole ==
  ASSUME NEW rows, NEW taken, Reads(taken, rows), NEW u, LogOf(u, taken) # {},
         NEW w, LogOf(w, taken) # {}, EndOf(w, rows) < StartOf(u, rows)
  PROVE  LogOf(u, taken) = LogOf(u, rows)
<1>1. PICK l : l \in LogOf(w, taken)
  OBVIOUS
<1>2. PICK e \in Int, s \in Int : e = EndOf(w, rows) /\ s = StartOf(u, rows)
  BY PartLasts DEF Lasts
<1>3. l \in taken /\ l.at <= e
  BY <1>1, <1>2, PartLasts DEF Lasts, LogOf
<1>4. \A r \in LogOf(u, rows) : r \in rows /\ s <= r.at
  BY <1>2, PartLasts DEF Lasts, LogOf
<1>5. ASSUME NEW r \in LogOf(u, rows) PROVE r \in LogOf(u, taken)
  <2>1. l.at \in Int /\ r.at \in Int
    BY <1>3, <1>4 DEF Reads, LogOk
  <2>2. r \in rows \ taken => l.at >= r.at
    BY <1>3 DEF Reads
  <2>3. r \in taken
    BY <1>2, <1>3, <1>4, <2>1, <2>2
  <2> QED
    BY <2>3 DEF LogOf
<1>6. LogOf(u, taken) \in SUBSET LogOf(u, rows)
  BY PartLasts
<1> QED
  BY <1>5, <1>6


-----------------------------------------------------------------------------
(* The list of runs and the overview of them.                              *)

ListAnswered(taken) ==
  /\ question.kind = "list" /\ LogOk(question.rows) /\ question.limit \in Int
  /\ taken \in Newest(question.rows, CappedLimit(question) * RowsPerRun)
  /\ answer = [runs |-> First(GroupLogsIntoRuns(taken), CappedLimit(question))]
OverviewAnswered(taken) ==
  /\ question.kind = "overview" /\ LedgerOk(question)
  /\ taken \in Newest(question.rows, RowsRead) /\ answer = Observed(question, taken)

\* What is listed is the head of the runs, in their order.
Lists(runs, n, m, p, taken) ==
  /\ n \in Nat /\ m \in Nat /\ n <= m /\ DOMAIN runs = 1..n /\ Len(runs) = n
  /\ \A k \in 1..n : runs[k] = SummarizeRun(p[k], taken)
  /\ \A k \in 1..m : LogOf(p[k], taken) # {}
  /\ \A j, k \in 1..m : j < k => StartOf(p[k], taken) <= StartOf(p[j], taken)
  /\ \A l \in taken : \E k \in 1..m : l.run = p[k]

\* The list of runs is the head of the runs of the rows read, in their order.
LEMMA ListIs ==
  ASSUME NEW taken, ListAnswered(taken)
  PROVE  /\ Reads(taken, question.rows)
         /\ \E n, m, p : Lists(answer.runs, n, m, p, taken)
<1>1. PICK rows, limit : rows = question.rows /\ limit = CappedLimit(question)
  OBVIOUS
<1>2. limit \in Nat /\ RowsPerRun \in Nat /\ LogOk(rows)
  BY <1>1, RulePerformanceAssumption DEF ListAnswered, CappedLimit, Smaller, Larger
<1>3. PICK most \in Nat : most = limit * RowsPerRun
  BY <1>2
<1>4. taken \in Newest(rows, most)
  BY <1>1, <1>3 DEF ListAnswered
<1>5. Reads(taken, rows)
  BY <1>2, <1>4, NewestIs DEF Reads
<1>6. PICK list : list = GroupLogsIntoRuns(taken)
  OBVIOUS
<1>7. PICK m, p : Grouped(list, m, p, taken)
  BY <1>5, <1>6, LogsGrouped DEF Reads
<1>8. m \in Nat /\ DOMAIN list = 1..m
  BY <1>7 DEF Grouped, Placed
<1>9. PICK n \in Nat : n = Smaller(limit, m) /\ n <= m
  BY <1>2, <1>8 DEF Smaller
<1>10. PICK runs : runs = First(list, limit)
  OBVIOUS
<1>11. DOMAIN runs = 1..n /\ Len(runs) = n /\ \A k \in 1..n : runs[k] = list[k]
  <2>1. Len(list) = m
    BY <1>8, LenIs
  <2>2. runs = [k \in 1..n |-> list[k]]
    BY <1>9, <1>10, <2>1 DEF First
  <2>3. DOMAIN runs = 1..n /\ \A k \in 1..n : runs[k] = list[k]
    BY <2>2
  <2> QED
    BY <1>9, <2>3, LenIs
<1>12. answer.runs = runs
  BY <1>1, <1>6, <1>10 DEF ListAnswered
<1>13. /\ \A k \in 1..m : list[k] = SummarizeRun(p[k], taken) /\ LogOf(p[k], taken) # {}
       /\ \A j, k \in 1..m : j < k => StartOf(p[k], taken) <= StartOf(p[j], taken)
  BY <1>7 DEF Grouped
<1>14. \A l \in taken : \E k \in 1..m : l.run = p[k]
  <2>1. TAKE l \in taken
  <2>2. l.run \in {x.run : x \in taken}
    OBVIOUS
  <2> QED
    BY <1>7, <2>2 DEF Grouped, Placed
<1>15. \A k \in 1..n : k \in 1..m
  BY <1>8, <1>9
<1>16. \A k \in 1..n : runs[k] = SummarizeRun(p[k], taken)
  BY <1>11, <1>13, <1>15
<1>17. Lists(runs, n, m, p, taken)
  BY <1>8, <1>9, <1>11, <1>13, <1>14, <1>16 DEF Lists
<1> QED
  BY <1>1, <1>5, <1>12, <1>17

\* The list leaves out no newer run, and holds whole runs but for the oldest.
LEMMA ListIsWhole == ASSUME NEW taken, ListAnswered(taken) PROVE LedgerIsWhole
<1>1. PICK rows, runs : rows = question.rows /\ runs = answer.runs
  OBVIOUS
<1>2. Reads(taken, rows)
  BY <1>1, ListIs
<1>3. PICK n, m, p : Lists(runs, n, m, p, taken)
  BY <1>1, ListIs
<1>4. n \in Nat /\ m \in Nat /\ n <= m /\ DOMAIN runs = 1..n /\ Len(runs) = n
  BY <1>3 DEF Lists
<1>5. \A k \in 1..n : k \in 1..m /\ runs[k].run = p[k] /\ runs[k].total = Cardinality(LogOf(p[k], taken)) /\ LogOf(p[k], taken) # {}
  <2>1. TAKE k \in 1..n
  <2>2. k \in 1..m
    BY <1>4
  <2>3. runs[k] = SummarizeRun(p[k], taken) /\ LogOf(p[k], taken) # {}
    BY <1>3, <2>2 DEF Lists
  <2>4. SummarizeRun(p[k], taken).run = p[k] /\ SummarizeRun(p[k], taken).total = Cardinality(LogOf(p[k], taken))
    BY DEF SummarizeRun
  <2> QED
    BY <2>2, <2>3, <2>4
<1>6. PICK listed : listed = {runs[k].run : k \in DOMAIN runs}
  OBVIOUS
<1>7. ASSUME NEW u \in listed, NEW w \in {l.run : l \in rows} \ listed
      PROVE  StartOf(w, rows) <= EndOf(u, rows)
  <2>1. PICK j \in 1..n : u = p[j]
    BY <1>4, <1>5, <1>6
  <2>2. LogOf(w, rows) # {}
    BY DEF LogOf
  <2>3. LogOf(w, taken) # {} => StartOf(w, taken) <= StartOf(u, taken)
    <3>1. SUFFICES ASSUME LogOf(w, taken) # {} PROVE StartOf(w, taken) <= StartOf(u, taken)
      OBVIOUS
    <3>2. PICK k \in 1..m : w = p[k]
      BY <1>3, <3>1 DEF Lists, LogOf
    <3>3. k \notin 1..n
      BY <1>4, <1>5, <1>6, <3>2
    <3>4. j < k /\ j \in 1..m
      BY <1>4, <3>3
    <3> QED
      BY <1>3, <2>1, <3>2, <3>4 DEF Lists
  <2>4. LogOf(u, taken) # {}
    BY <1>5, <2>1
  <2> QED
    BY <1>2, <2>2, <2>3, <2>4, UnlistedIsOlder
<1>8. ASSUME NEW k \in DOMAIN runs, k < Len(runs), EndOf(runs[k + 1].run, rows) < StartOf(runs[k].run, rows)
      PROVE  runs[k].total = Cardinality(LogOf(runs[k].run, rows))
  <2>1. k \in 1..n /\ k + 1 \in 1..n
    BY <1>4, <1>8
  <2>2. LogOf(p[k], taken) # {} /\ LogOf(p[k + 1], taken) # {} /\ runs[k].run = p[k] /\ runs[k + 1].run = p[k + 1]
    BY <1>5, <2>1
  <2>3. LogOf(p[k], taken) = LogOf(p[k], rows)
    BY <1>2, <1>8, <2>2, NewerIsWhole
  <2> QED
    BY <1>5, <2>1, <2>2, <2>3
<1>9. question.kind # "overview"
  BY DEF ListAnswered
<1> QED
  BY <1>1, <1>6, <1>7, <1>8, <1>9 DEF LedgerIsWhole, Answered


\* What is observed counts each row read once; a cooldown has an applied row behind it.
Observes(o, q) ==
  /\ o.applied + o.rolledBack = Smaller(RowsRead, Cardinality(q.rows))
  /\ o.remaining # None => o.remaining <= q.cooldown
  /\ o.remaining # None /\ Cardinality(q.rows) <= RowsRead => o.applied > 0
  /\ o.latest = None <=> q.rows = {}

\* The overview counts every row read once and shows no cooldown but that of a change.
LEMMA ObservedIs ==
  ASSUME NEW q, LedgerOk(q), NEW taken \in Newest(q.rows, RowsRead)
  PROVE  Observes(Observed(q, taken), q)
<1>1. PICK rows : rows = q.rows
  OBVIOUS
<1>2. LogOk(rows) /\ q.cooldown \in Nat /\ q.now \in Int /\ RowsRead \in Nat /\ RowsRead > 0 /\ None \notin Int
  BY <1>1, RulePerformanceAssumption DEF LedgerOk
<1>3. /\ taken \in SUBSET rows /\ IsFiniteSet(taken) /\ LogOk(taken) /\ IsFiniteSet(rows)
      /\ Cardinality(taken) = Smaller(RowsRead, Cardinality(rows)) /\ Cardinality(rows) \in Nat
  BY <1>1, <1>2, NewestIs DEF LogOk
<1>4. PICK A, R : A = AppliedOf(taken) /\ R = {l \in taken : l.status = "ROLLED_BACK"}
  OBVIOUS
<1>5. A \in SUBSET taken /\ R \in SUBSET taken /\ A \cap R = {} /\ A \cup R = taken
  BY <1>3, <1>4 DEF LogOk, AppliedOf
<1>6. IsFiniteSet(A) /\ IsFiniteSet(R)
  BY <1>3, <1>5, FS_Subset
<1>7. Cardinality(A) + Cardinality(R) = Smaller(RowsRead, Cardinality(rows)) /\ Cardinality(A) \in Nat
  BY <1>3, <1>5, <1>6, CardApart, FS_CardinalityType
<1>8. PICK applied, times : applied = AppliedOf(rows) /\ times = {l.at : l \in applied}
  OBVIOUS
<1>9. PICK o : o = Observed(q, taken)
  OBVIOUS
<1>10. o.applied = Cardinality(A) /\ o.rolledBack = Cardinality(R)
  BY <1>4, <1>9 DEF Observed
<1>11. PICK expires : /\ expires = Max(times) + q.cooldown
                      /\ o.remaining = IF applied = {} \/ expires <= q.now THEN None ELSE expires - q.now
  <2>1. PICK expires : expires = Max({l.at : l \in AppliedOf(q.rows)}) + q.cooldown
    OBVIOUS
  <2>2. o.remaining = IF AppliedOf(q.rows) = {} \/ expires <= q.now THEN None ELSE expires - q.now
    BY <1>9, <2>1 DEF Observed
  <2>3. times = {l.at : l \in AppliedOf(q.rows)} /\ applied = AppliedOf(q.rows)
    BY <1>1, <1>8
  <2>4. expires = Max(times) + q.cooldown
    BY <2>1, <2>3
  <2>5. o.remaining = IF applied = {} \/ expires <= q.now THEN None ELSE expires - q.now
    BY <2>2, <2>3, Zenon
  <2> QED
    BY <2>4, <2>5
<1>12. ASSUME o.remaining # None PROVE o.remaining <= q.cooldown /\ applied # {}
  <2>1. applied # {} /\ o.remaining = expires - q.now
    BY <1>11, <1>12
  <2>2. applied \in SUBSET rows /\ \A l \in applied : l.at \in Int /\ l.at <= q.now
    BY <1>1, <1>2, <1>8 DEF LedgerOk, LogOk, AppliedOf
  <2>3. PICK f : f = [l \in applied |-> l.at]
    OBVIOUS
  <2>4. times = {f[l] : l \in applied} /\ IsFiniteSet(applied)
    BY <1>3, <1>8, <2>2, <2>3, FS_Subset
  <2>5. IsFiniteSet(times)
    BY <2>4, ValuesFinite
  <2>6. times # {} /\ \A x \in times : x \in Int /\ x <= q.now
    BY <1>8, <2>1, <2>2
  <2>7. Max(times) \in times
    BY <2>5, <2>6, MaxIs
  <2>8. Max(times) \in Int /\ Max(times) <= q.now
    BY <2>6, <2>7
  <2> QED
    BY <1>2, <1>11, <2>1, <2>8
<1>13. ASSUME o.remaining # None, Cardinality(rows) <= RowsRead PROVE o.applied > 0
  <2>1. Cardinality(taken) = Cardinality(rows)
    BY <1>2, <1>3, <1>13 DEF Smaller
  <2>2. taken = rows
    BY <1>3, <2>1, FS_Subset
  <2>3. A # {}
    BY <1>4, <1>8, <1>12, <1>13, <2>2
  <2>4. Cardinality(A) # 0
    BY <1>6, <2>3, FS_EmptySet
  <2> QED
    BY <1>7, <1>10, <2>4
<1>14. taken = {} <=> rows = {}
  <2>1. ASSUME rows # {} PROVE taken # {}
    <3>1. Cardinality(rows) # 0
      BY <1>3, <2>1, FS_EmptySet
    <3>2. Cardinality(taken) # 0
      BY <1>2, <1>3, <3>1 DEF Smaller
    <3> QED
      BY <3>2, FS_EmptySet
  <2> QED
    BY <1>3, <2>1
<1>15. o.latest = None <=> taken = {}
  <2>1. PICK list : list = GroupLogsIntoRuns(taken)
    OBVIOUS
  <2>2. PICK m, p : Grouped(list, m, p, taken)
    BY <1>3, <2>1, LogsGrouped
  <2>3. PICK at : at = {l.run : l \in taken}
    OBVIOUS
  <2>4. m \in Nat /\ m = Cardinality(at) /\ (\A i \in at : \E k \in 1..m : p[k] = i) /\ \A k \in 1..m : p[k] \in at
    BY <2>2, <2>3 DEF Grouped, Placed
  <2>5. list = [k \in 1..m |-> list[k]] /\ DOMAIN list = 1..m /\ \A k \in 1..m : list[k] = SummarizeRun(p[k], taken) /\ p[k] \in Nat
    BY <2>2 DEF Grouped
  <2>6. o.latest = IF list = <<>> THEN None ELSE list[1].run
    BY <1>9, <2>1 DEF Observed
  <2>7. CASE m = 0
    <3>1. at = {}
      BY <2>4, <2>7
    <3>2. taken = {}
      BY <2>3, <3>1
    <3>3. list = <<>>
      BY <2>5, <2>7
    <3> QED
      BY <2>6, <3>2, <3>3
  <2>8. CASE m > 0
    <3>1. 1 \in 1..m
      BY <2>4, <2>8
    <3>2. list[1] = SummarizeRun(p[1], taken) /\ p[1] \in Nat /\ p[1] \in at
      BY <2>4, <2>5, <3>1
    <3>3. list # <<>>
      BY <2>5, <3>1
    <3>4. list[1].run = p[1]
      BY <3>2 DEF SummarizeRun
    <3>5. taken # {}
      BY <2>3, <3>2
    <3> QED
      BY <1>2, <2>6, <3>2, <3>3, <3>4, <3>5
  <2> QED
    BY <2>4, <2>7, <2>8
<1> QED
  BY <1>1, <1>7, <1>9, <1>10, <1>12, <1>13, <1>14, <1>15 DEF Observes

\* The overview is of the rows read.
LEMMA OverviewIsWhole == ASSUME NEW taken, OverviewAnswered(taken) PROVE LedgerIsWhole
<1>1. Observes(answer, question)
  BY ObservedIs DEF OverviewAnswered
<1>2. question.kind # "list"
  BY DEF OverviewAnswered
<1> QED
  BY <1>1, <1>2 DEF Observes, LedgerIsWhole, Answered


-----------------------------------------------------------------------------
(* The readiness report.                                                   *)

ReportShown == tables.kind = "readiness" /\ TablesOk(tables) /\ shown = ReportOf(tables)

\* What is not among the blockers is there.
Unblocked(q, guardrails, accounts) ==
  /\ \E p \in q.providers : p.enabled
  /\ accounts.active # 0 /\ q.lastIngestion # None /\ SettingOr(q.ingestion, TRUE) # FALSE

\* With no blocker, all that a rollout needs is there.
LEMMA NoBlocker ==
  ASSUME NEW q, q.ingestion \in BOOLEAN \cup {None}, NEW guardrails, NEW accounts, Blockers(q, guardrails, accounts) = {}
  PROVE  Unblocked(q, guardrails, accounts)
<1>1. (\A p \in q.providers : ~p.enabled) => "provider" \in Blockers(q, guardrails, accounts)
  BY Zenon DEF Blockers
<1>2. accounts.active = 0 => "account" \in Blockers(q, guardrails, accounts)
  BY Zenon DEF Blockers
<1>3. q.lastIngestion = None => "no metrics" \in Blockers(q, guardrails, accounts)
  BY Zenon DEF Blockers
<1>4. SettingOr(q.ingestion, TRUE) = FALSE => "ingestion off" \in Blockers(q, guardrails, accounts)
  BY Zenon DEF Blockers
<1> QED
  BY <1>1, <1>2, <1>3, <1>4 DEF Unblocked

\* A report that is not "unsafe" finds no automatic campaign and no tuning.
LEMMA ReportIsSafe == ASSUME ReportShown PROVE ReadyIsSafe
<1>1. PICK q : q = tables
  OBVIOUS
<1>2. /\ q.kind = "readiness" /\ IsFiniteSet(q.accounts) /\ IsFiniteSet(q.campaigns) /\ q.now \in Int
      /\ \A a \in q.accounts : a.syncedAt \in Int \cup {None}
      /\ q.autoTune \in BOOLEAN \cup {None} /\ q.ingestion \in BOOLEAN \cup {None}
  BY <1>1 DEF ReportShown, TablesOk
<1>3. None \notin BOOLEAN /\ None \notin Int
  BY OverviewAssumption, RulePerformanceAssumption
<1>4. PICK guardrails, accounts, blockers :
        /\ guardrails = GuardrailsPillar(q) /\ accounts = AdAccountsPillar(q.accounts, q.now)
        /\ blockers = Blockers(q, guardrails, accounts)
  OBVIOUS
<1>5. /\ shown.status = IF ~guardrails.safe THEN "unsafe" ELSE IF blockers # {} THEN "degraded" ELSE "ready"
      /\ shown.blockers = blockers /\ shown.accounts = accounts
  BY <1>1, <1>4 DEF ReportShown, ReportOf
<1>6. guardrails.safe <=> RolloutSafetyOk(q)
  BY <1>4 DEF GuardrailsPillar
<1>7. ASSUME RolloutSafetyOk(q) PROVE q.autoTune # TRUE /\ \A c \in q.campaigns : c.mode = "AUTO_APPLY" => c.deleted
  <2>1. PICK auto : auto = {c \in q.campaigns : ~c.deleted /\ c.mode = "AUTO_APPLY"}
    OBVIOUS
  <2>2. SettingOr(q.autoTune, FALSE) = FALSE /\ Cardinality(auto) = 0
    BY <1>7, <2>1 DEF RolloutSafetyOk
  <2>3. IsFiniteSet(auto)
    <3>1. auto \in SUBSET q.campaigns
      BY <2>1
    <3> QED
      BY <1>2, <3>1, FS_Subset
  <2>4. auto = {}
    BY <2>2, <2>3, FS_EmptySet
  <2>5. q.autoTune # TRUE
    BY <1>3, <2>2 DEF SettingOr
  <2> QED
    BY <2>1, <2>4, <2>5
<1>8. ASSUME blockers = {}
      PROVE  /\ \E p \in q.providers : p.enabled
             /\ \E a \in q.accounts : a.status = "ACTIVE"
             /\ q.lastIngestion # None /\ q.ingestion # FALSE
  <2>1. Unblocked(q, guardrails, accounts)
    BY <1>2, <1>4, <1>8, NoBlocker
  <2>2. PICK on : on = {a \in q.accounts : a.status = "ACTIVE"}
    OBVIOUS
  <2>3. accounts.active = Cardinality(on)
    BY <1>4, <2>2 DEF AdAccountsPillar, OfStatus
  <2>4. on # {}
    BY <2>1, <2>3, FS_EmptySet DEF Unblocked
  <2>5. q.ingestion # FALSE
    BY <1>3, <2>1 DEF Unblocked, SettingOr
  <2> QED
    BY <2>1, <2>2, <2>4, <2>5 DEF Unblocked
<1>9. ASSUME accounts.sinceSync # None, NEW a \in q.accounts, a.syncedAt # None PROVE q.now - a.syncedAt >= accounts.sinceSync
  <2>1. PICK times, synced : times = {x.syncedAt : x \in q.accounts} /\ synced = times \ {None}
    OBVIOUS
  <2>2. accounts.sinceSync = IF synced = {} THEN None ELSE q.now - Max(synced)
    BY <1>4, <2>1 DEF AdAccountsPillar
  <2>3. PICK f : f = [x \in q.accounts |-> x.syncedAt]
    OBVIOUS
  <2>4. times = {f[x] : x \in q.accounts}
    BY <2>1, <2>3
  <2>5. IsFiniteSet(times)
    BY <1>2, <2>4, ValuesFinite
  <2>6. IsFiniteSet(synced) /\ \A x \in synced : x \in Int
    <3>1. synced \in SUBSET times /\ \A x \in synced : x \in Int
      BY <1>2, <2>1
    <3> QED
      BY <2>5, <3>1, FS_Subset
  <2>7. a.syncedAt \in synced
    BY <1>9, <2>1
  <2>8. Max(synced) \in Int /\ a.syncedAt <= Max(synced) /\ a.syncedAt \in Int
    BY <2>6, <2>7, MaxIs
  <2> QED
    BY <1>2, <2>2, <2>7, <2>8
<1>10. shown.status # "unsafe" => RolloutSafetyOk(q)
  BY <1>5, <1>6
<1>11. shown.status = "ready" => blockers = {}
  BY <1>5
<1>12. shown.status = "degraded" => shown.blockers # {}
  BY <1>5
<1> QED
  BY <1>1, <1>5, <1>7, <1>8, <1>9, <1>10, <1>11, <1>12 DEF ReadyIsSafe


-----------------------------------------------------------------------------
(* The activation lab.                                                     *)

LabShown == tables.kind = "activation" /\ TablesOk(tables) /\ shown = LabOf(tables)

\* What is not among the open rows is done.
Closed(q, campaigns, perPlatform) ==
  /\ \E p \in q.providers : p.configured /\ p.enabled
  /\ \E p \in DOMAIN perPlatform : perPlatform[p].tracked # 0
  /\ campaigns.active # 0 /\ \A c \in q.campaigns : c.mode # "AUTO_APPLY"

\* With no row open, each of them is done.
LEMMA NothingOpen ==
  ASSUME NEW q, NEW campaigns, NEW perPlatform, BuildChecklist(q, campaigns, perPlatform) = {}
  PROVE  Closed(q, campaigns, perPlatform)
<1>1. (\A p \in q.providers : ~(p.configured /\ p.enabled)) => "provider" \in BuildChecklist(q, campaigns, perPlatform)
  BY Zenon DEF BuildChecklist
<1>2. (\A p \in DOMAIN perPlatform : perPlatform[p].tracked = 0) => "account" \in BuildChecklist(q, campaigns, perPlatform)
  BY Zenon DEF BuildChecklist
<1>3. campaigns.active = 0 => "active" \in BuildChecklist(q, campaigns, perPlatform)
  BY Zenon DEF BuildChecklist
<1>4. (\E c \in q.campaigns : c.mode = "AUTO_APPLY") => "autoApply" \in BuildChecklist(q, campaigns, perPlatform)
  BY Zenon DEF BuildChecklist
<1> QED
  BY <1>1, <1>2, <1>3, <1>4 DEF Closed

\* Two parts of a whole, and what is in both.
LEMMA PartsOverlap ==
  ASSUME NEW S, IsFiniteSet(S), NEW A \in SUBSET S, NEW E \in SUBSET S, NEW both, both = A \cap E
  PROVE  /\ Cardinality(A) \in Nat /\ Cardinality(E) \in Nat /\ Cardinality(both) \in Nat /\ Cardinality(S) \in Nat
         /\ Cardinality(both) <= Cardinality(A) /\ Cardinality(both) <= Cardinality(E)
         /\ Cardinality(A) + Cardinality(E) - Cardinality(both) <= Cardinality(S)
<1>1. IsFiniteSet(A) /\ IsFiniteSet(E)
  BY FS_Subset
<1>2. both \in SUBSET A /\ both \in SUBSET E
  OBVIOUS
<1>3. IsFiniteSet(both) /\ Cardinality(both) <= Cardinality(A)
  BY <1>1, <1>2, FS_Subset
<1>4. Cardinality(both) <= Cardinality(E)
  BY <1>1, <1>2, FS_Subset
<1>5. PICK U : U = A \cup E
  OBVIOUS
<1>6. Cardinality(U) = Cardinality(A) + Cardinality(E) - Cardinality(both)
  BY <1>1, <1>5, FS_Union
<1>7. Cardinality(U) <= Cardinality(S)
  <2>1. U \in SUBSET S
    BY <1>5
  <2> QED
    BY <2>1, FS_Subset
<1> QED
  BY <1>1, <1>3, <1>4, <1>6, <1>7, FS_CardinalityType

\* Each account counts for its platform.
LEMMA PlatformsAddUp ==
  ASSUME NEW accounts, IsFiniteSet(accounts), NEW per, per = AdAccountsStatus(accounts)
  PROVE  SumFunction([p \in DOMAIN per |-> per[p].tracked + per[p].available]) = Cardinality(accounts)
<1>1. PICK K, f, g : /\ K = {a.platform : a \in accounts} /\ f = [a \in accounts |-> a.platform]
                     /\ g = [p \in DOMAIN per |-> per[p].tracked + per[p].available]
  OBVIOUS
<1>2. DOMAIN per = K
  BY <1>1 DEF AdAccountsStatus
<1>3. ASSUME NEW p \in K PROVE g[p] = Cardinality(Having(accounts, f, {p}))
  <2>1. PICK T, W : /\ T = {a \in accounts : a.platform = p /\ a.tracked}
                    /\ W = {a \in accounts : a.platform = p /\ ~a.tracked}
    OBVIOUS
  <2>2. T \in SUBSET accounts /\ W \in SUBSET accounts /\ T \cap W = {} /\ T \cup W = Having(accounts, f, {p})
    BY <1>1, <2>1 DEF Having
  <2>3. IsFiniteSet(T) /\ IsFiniteSet(W)
    BY <2>2, FS_Subset
  <2>4. Cardinality(T) + Cardinality(W) = Cardinality(Having(accounts, f, {p}))
    BY <2>2, <2>3, CardApart
  <2>5. per[p].tracked = Cardinality(T) /\ per[p].available = Cardinality(W)
    BY <1>1, <2>1 DEF AdAccountsStatus
  <2> QED
    BY <1>1, <1>2, <2>4, <2>5
<1>4. Counts(g, K, f, accounts)
  BY <1>1, <1>3 DEF Counts, Tallies
<1>5. Sum(g, K) = Cardinality(accounts)
  BY <1>4, CountedByKey
<1>6. SumFunction(g) = Sum(g, DOMAIN g)
  BY DEF SumFunction, Sum
<1>7. DOMAIN g = K
  BY <1>1, <1>2
<1> QED
  BY <1>1, <1>5, <1>6, <1>7

\* The activation lab counts what there is.
LEMMA LabIsTrue == ASSUME LabShown PROVE ChecklistIsTrue
<1>1. PICK q, per, campaigns :
        q = tables /\ per = AdAccountsStatus(q.accounts) /\ campaigns = CampaignsStatus(q.campaigns)
  OBVIOUS
<1>2. q.kind = "activation" /\ IsFiniteSet(q.accounts) /\ IsFiniteSet(q.campaigns)
  BY <1>1 DEF LabShown, TablesOk
<1>3. /\ shown.campaigns = campaigns /\ shown.perPlatform = per /\ shown.total = Cardinality(q.accounts)
      /\ shown.open = BuildChecklist(q, campaigns, per)
  BY <1>1 DEF LabShown, LabOf
<1>4. PICK live, A, E, both :
        /\ live = {c \in q.campaigns : ~c.deleted} /\ A = {c \in live : c.status = "ACTIVE"}
        /\ E = {c \in live : c.phase # "LEARNING"} /\ both = A \cap E
  OBVIOUS
<1>5. campaigns = [total |-> Cardinality(live), active |-> Cardinality(A), eligible |-> Cardinality(E), activeAndEligible |-> Cardinality(both)]
  BY <1>1, <1>4 DEF CampaignsStatus
<1>6. IsFiniteSet(live) /\ A \in SUBSET live /\ E \in SUBSET live
  <2>1. live \in SUBSET q.campaigns
    BY <1>4
  <2> QED
    BY <1>2, <1>4, <2>1, FS_Subset
<1>7. /\ Cardinality(A) \in Nat /\ Cardinality(E) \in Nat /\ Cardinality(both) \in Nat /\ Cardinality(live) \in Nat
      /\ Cardinality(both) <= Cardinality(A) /\ Cardinality(both) <= Cardinality(E)
      /\ Cardinality(A) + Cardinality(E) - Cardinality(both) <= Cardinality(live)
  BY <1>4, <1>6, PartsOverlap
<1>8. /\ campaigns.activeAndEligible <= Smaller(campaigns.active, campaigns.eligible)
      /\ campaigns.active + campaigns.eligible - campaigns.activeAndEligible <= campaigns.total
  BY <1>5, <1>7 DEF Smaller
<1>9. ASSUME shown.open = {}
      PROVE  /\ \E p \in q.providers : p.configured /\ p.enabled
             /\ \E a \in q.accounts : a.tracked
             /\ \E c \in q.campaigns : ~c.deleted /\ c.status = "ACTIVE"
             /\ \A c \in q.campaigns : c.mode # "AUTO_APPLY"
  <2>1. Closed(q, campaigns, per)
    BY <1>3, <1>9, NothingOpen
  <2>2. A # {}
    BY <1>5, <2>1, FS_EmptySet DEF Closed
  <2>3. PICK p \in DOMAIN per : per[p].tracked # 0
    BY <2>1 DEF Closed
  <2>4. PICK T : T = {a \in q.accounts : a.platform = p /\ a.tracked}
    OBVIOUS
  <2>5. per[p].tracked = Cardinality(T)
    BY <1>1, <2>4 DEF AdAccountsStatus
  <2>6. T # {}
    BY <2>3, <2>5, FS_EmptySet
  <2> QED
    BY <1>4, <2>1, <2>2, <2>4, <2>6 DEF Closed
<1>10. SumFunction([p \in DOMAIN per |-> per[p].tracked + per[p].available]) = Cardinality(q.accounts)
  BY <1>1, <1>2, PlatformsAddUp
<1>11. SumFunction([p \in DOMAIN shown.perPlatform |-> shown.perPlatform[p].tracked + shown.perPlatform[p].available]) = shown.total
  BY <1>3, <1>10
<1> QED
  BY <1>1, <1>3, <1>8, <1>9, <1>11 DEF ChecklistIsTrue


-----------------------------------------------------------------------------
(* What a filter or a slice leaves, in the order it was in.                *)

InOrderOf(list, s, at) ==
  \E n, p :
    /\ n \in Nat /\ DOMAIN list = 1..n /\ list = [k \in 1..n |-> list[k]]
    /\ \A k \in 1..n : p[k] \in at /\ list[k] = s[p[k]]
    /\ \A j, k \in 1..n : j < k => p[j] < p[k]

\* A filter keeps the order.
LEMMA KeptInOrder ==
  ASSUME NEW s, NEW at, IsFiniteSet(at), at \subseteq Nat
  PROVE  InOrderOf(Kept(s, at), s, at)
<1>1. PICK n, p :
        /\ n \in Nat /\ p \in [1..n -> at]
        /\ Kept(s, at) = [k \in 1..n |-> s[p[k]]] /\ \A j, k \in 1..n : j < k => p[j] < p[k]
  <2>1. Keeps(Kept(s, at), s, at)
    BY KeptKeeps
  <2> QED
    BY <2>1 DEF Keeps, Placed
<1>2. PICK list : list = Kept(s, at)
  OBVIOUS
<1>3. DOMAIN list = 1..n /\ list = [k \in 1..n |-> list[k]] /\ \A k \in 1..n : p[k] \in at /\ list[k] = s[p[k]]
  BY <1>1, <1>2
<1>4. InOrderOf(list, s, at)
  BY <1>1, <1>3 DEF InOrderOf
<1> QED
  BY <1>2, <1>4

\* A slice keeps the order.
LEMMA FirstInOrder ==
  ASSUME NEW list, NEW s, NEW at, InOrderOf(list, s, at), NEW most \in Nat
  PROVE  InOrderOf(First(list, most), s, at)
<1>1. PICK n, p :
        /\ n \in Nat /\ DOMAIN list = 1..n /\ list = [k \in 1..n |-> list[k]]
        /\ \A k \in 1..n : p[k] \in at /\ list[k] = s[p[k]]
        /\ \A j, k \in 1..n : j < k => p[j] < p[k]
  BY DEF InOrderOf
<1>0. n \in Nat
  BY <1>1
<1>2. PICK m \in Nat : m = Smaller(most, n) /\ m <= n
  BY <1>0 DEF Smaller
<1>9. PICK t : t = First(list, most)
  OBVIOUS
<1>3. t = [k \in 1..m |-> list[k]]
  <2>1. Len(list) = n
    BY <1>0, <1>1, LenIs
  <2> QED
    BY <1>2, <1>9, <2>1 DEF First
<1>4. DOMAIN t = 1..m /\ t = [k \in 1..m |-> t[k]] /\ \A k \in 1..m : t[k] = list[k]
  BY <1>3
<1>5. \A k \in 1..m : k \in 1..n
  BY <1>0, <1>2
<1>7. /\ \A k \in 1..m : p[k] \in at /\ t[k] = s[p[k]]
      /\ \A j, k \in 1..m : j < k => p[j] < p[k]
  BY <1>1, <1>4, <1>5
<1>6. InOrderOf(t, s, at)
  BY <1>4, <1>7 DEF InOrderOf
<1> QED
  BY <1>6, <1>9

\* A filter of a list that is in order is in order.
LEMMA KeptStaysInOrder ==
  ASSUME NEW list, NEW s, NEW at, at \subseteq Nat, InOrderOf(list, s, at), NEW some \in SUBSET DOMAIN list
  PROVE  InOrderOf(Kept(list, some), s, at)
<1>1. PICK n, p :
        /\ n \in Nat /\ DOMAIN list = 1..n /\ \A k \in 1..n : p[k] \in at /\ list[k] = s[p[k]]
        /\ \A j, k \in 1..n : j < k => p[j] < p[k]
  BY DEF InOrderOf
<1>2. IsFiniteSet(some) /\ some \subseteq Nat
  <2>1. PICK T : T = 1..n /\ IsFiniteSet(T)
    BY <1>1, IntervalIs
  <2>2. some \in SUBSET T
    BY <1>1, <2>1
  <2> QED
    BY <1>1, <2>1, <2>2, FS_Subset
<1>3. PICK kept : kept = Kept(list, some)
  OBVIOUS
<1>4. PICK m, q :
        /\ m \in Nat /\ DOMAIN kept = 1..m /\ kept = [k \in 1..m |-> kept[k]]
        /\ \A k \in 1..m : q[k] \in some /\ kept[k] = list[q[k]]
        /\ \A j, k \in 1..m : j < k => q[j] < q[k]
  <2>1. InOrderOf(kept, list, some)
    BY <1>2, <1>3, KeptInOrder
  <2> QED
    BY <2>1 DEF InOrderOf
<1>5. PICK r : r = [k \in 1..m |-> p[q[k]]]
  OBVIOUS
<1>6. \A k \in 1..m : q[k] \in 1..n /\ r[k] = p[q[k]]
  BY <1>1, <1>4, <1>5
<1>7. /\ \A k \in 1..m : r[k] \in at /\ kept[k] = s[r[k]]
      /\ \A j, k \in 1..m : j < k => r[j] < r[k]
  BY <1>1, <1>4, <1>6
<1>8. InOrderOf(kept, s, at)
  BY <1>4, <1>7 DEF InOrderOf
<1> QED
  BY <1>3, <1>8

\* What a filter and a slice leave out comes after all they leave.
HeadOf(list, s, at) ==
  /\ \A j \in DOMAIN list : \E y \in at : list[j] = s[y]
  /\ \A x \in at : (\E k \in DOMAIN list : list[k] = s[x]) \/ \A j \in DOMAIN list : \E y \in at : y < x /\ list[j] = s[y]

\* What a filter and a slice leave out comes after what they keep.
LEMMA HeadIs ==
  ASSUME NEW s, NEW at, IsFiniteSet(at), at \subseteq Nat, NEW most \in Nat
  PROVE  HeadOf(First(Kept(s, at), most), s, at)
<1>1. PICK kept, list : kept = Kept(s, at) /\ list = First(kept, most)
  OBVIOUS
<1>2. PICK n, p :
        Placed(p, n, at) /\ kept = [k \in 1..n |-> s[p[k]]] /\ \A j, k \in 1..n : j < k => p[j] < p[k]
  <2>1. Keeps(kept, s, at)
    BY <1>1, KeptKeeps
  <2> QED
    BY <2>1 DEF Keeps
<1>3. n \in Nat /\ (\A k \in 1..n : p[k] \in at) /\ \A i \in at : \E k \in 1..n : p[k] = i
  BY <1>2 DEF Placed
<1>4. PICK m \in Nat : m = Smaller(most, n) /\ m <= n
  BY <1>3 DEF Smaller
<1>5. list = [k \in 1..m |-> kept[k]]
  <2>1. DOMAIN kept = 1..n
    BY <1>2
  <2>2. Len(kept) = n
    BY <1>3, <2>1, LenIs
  <2> QED
    BY <1>1, <1>4, <2>2 DEF First
<1>6. DOMAIN list = 1..m /\ \A k \in 1..m : k \in 1..n /\ list[k] = s[p[k]] /\ p[k] \in at
  BY <1>2, <1>3, <1>4, <1>5
<1>7. ASSUME NEW x \in at, ~ \E k \in DOMAIN list : list[k] = s[x], NEW j \in DOMAIN list
      PROVE  \E y \in at : y < x /\ list[j] = s[y]
  <2>1. PICK k \in 1..n : p[k] = x
    BY <1>3
  <2>2. k \notin 1..m
    BY <1>6, <1>7, <2>1
  <2>3. j \in 1..m /\ j \in 1..n /\ j < k
    BY <1>3, <1>6, <2>2
  <2>4. p[j] < x /\ p[j] \in at /\ list[j] = s[p[j]]
    BY <1>2, <1>6, <2>1, <2>3
  <2> QED
    BY <2>4
<1>8. HeadOf(list, s, at)
  BY <1>6, <1>7 DEF HeadOf
<1> QED
  BY <1>1, <1>8

-----------------------------------------------------------------------------
(* The freshness of the metrics.                                           *)

IngestionShown == tables.kind = "ingestion" /\ TablesOk(tables) /\ shown = IngestionPage(tables)

\* The runs of a list are of the organization asked for, none that is left out was logged
\* later, and the last run is the last one logged.
OfScope(r, org) == org # None => r.orgs = {org}
NoneIsNewer(list, runs, org) ==
  \A r \in Range(runs) \ Range(list), s \in Range(list) : r.readable /\ OfScope(r, org) => r.created <= s.created
LastLogged(list, last) ==
  list # <<>> => \E r \in Range(list) : r.started = last /\ \A s \in Range(list) : s.created <= r.created
RunsOf(list, last, runs, org) ==
  (\A r \in Range(list) : OfScope(r, org)) /\ NoneIsNewer(list, runs, org) /\ LastLogged(list, last)

\* The runs listed are the last ones logged of the organization asked for.
LEMMA RecentRunsAre ==
  ASSUME NEW runs, IsList(runs), \A i \in DOMAIN runs : runs[i].created \in Int,
         \A i, j \in DOMAIN runs : i < j => runs[i].created >= runs[j].created,
         NEW org, NEW recent, recent = RecentRuns(runs, org)
  PROVE  RunsOf(recent, IF recent = <<>> THEN None ELSE recent[1].started, runs, org)
<1>1. PICK at : at = {i \in DOMAIN runs : OfScope(runs[i], org)}
  OBVIOUS
<1>2. PICK n \in Nat : DOMAIN runs = 1..n
  BY DEF IsList
<1>3. IsFiniteSet(at) /\ at \subseteq Nat
  <2>1. PICK T : T = 1..n /\ IsFiniteSet(T)
    BY IntervalIs
  <2>2. at \in SUBSET T /\ at \subseteq Nat
    BY <1>1, <1>2, <2>1
  <2> QED
    BY <2>1, <2>2, FS_Subset
<1>4. PICK taken : taken = First(Kept(runs, at), RunsListed)
  OBVIOUS
<1>5. InOrderOf(taken, runs, at) /\ HeadOf(taken, runs, at)
  BY <1>3, <1>4, KeptInOrder, FirstInOrder, HeadIs, OverviewAssumption
<1>6. PICK some \in SUBSET DOMAIN taken : some = {i \in DOMAIN taken : taken[i].readable} /\ recent = Kept(taken, some)
  <2>1. at = {i \in DOMAIN runs : org # None => runs[i].orgs = {org}}
    BY <1>1 DEF OfScope
  <2>2. taken = First(RowsOfScope(runs, org), RunsListed)
    BY <1>4, <2>1 DEF RowsOfScope
  <2> QED
    BY <2>2 DEF RecentRuns
<1>7. InOrderOf(recent, runs, at)
  BY <1>3, <1>5, <1>6, KeptStaysInOrder
<1>8. PICK m, p :
        /\ m \in Nat /\ DOMAIN recent = 1..m /\ \A k \in 1..m : p[k] \in at /\ recent[k] = runs[p[k]]
        /\ \A j, k \in 1..m : j < k => p[j] < p[k]
  BY <1>7 DEF InOrderOf
<1>9. ASSUME NEW r \in Range(recent)
      PROVE  OfScope(r, org) /\ recent # <<>> /\ recent[1] \in Range(recent) /\ r.created <= recent[1].created
  <2>1. PICK k \in 1..m : r = recent[k]
    BY <1>8 DEF Range
  <2>2. p[k] \in at /\ 1 \in 1..m /\ p[1] \in at
    BY <1>8
  <2>3. p[k] \in DOMAIN runs /\ p[1] \in DOMAIN runs
    BY <1>1, <2>2
  <2>4. OfScope(r, org)
    BY <1>1, <1>8, <2>1, <2>2
  <2>5. recent # <<>> /\ recent[1] \in Range(recent)
    BY <1>8, <2>2 DEF Range
  <2>6. runs[p[k]].created <= runs[p[1]].created
    <3>1. CASE k = 1
      BY <2>3, <3>1
    <3>2. CASE k # 1
      <4>1. p[1] < p[k]
        BY <1>8, <2>2, <3>2
      <4> QED
        BY <2>3, <4>1
    <3> QED
      BY <3>1, <3>2
  <2> QED
    BY <1>8, <2>1, <2>2, <2>3, <2>4, <2>5, <2>6
<1>10. PICK count, q : /\ count \in Nat /\ DOMAIN recent = 1..count
                       /\ \A k \in 1..count : q[k] \in some /\ recent[k] = taken[q[k]]
                       /\ \A i \in some : \E k \in 1..count : q[k] = i
  <2>1. IsFiniteSet(some) /\ some \subseteq Nat
    <3>1. PICK l \in Nat : DOMAIN taken = 1..l
      BY <1>5 DEF InOrderOf
    <3>2. PICK T : T = 1..l /\ IsFiniteSet(T)
      BY IntervalIs
    <3> QED
      BY <3>1, <3>2, FS_Subset
  <2>2. Keeps(recent, taken, some)
    BY <1>6, <2>1, KeptKeeps
  <2>3. PICK l, q : Placed(q, l, some) /\ recent = [k \in 1..l |-> taken[q[k]]]
    BY <2>2 DEF Keeps
  <2> QED
    BY <2>3 DEF Placed
<1>11. ASSUME NEW r \in Range(runs) \ Range(recent), NEW s \in Range(recent), r.readable, OfScope(r, org)
       PROVE  r.created <= s.created
  <2>1. PICK x \in DOMAIN runs : r = runs[x]
    BY DEF Range
  <2>2. x \in at
    BY <1>1, <1>11, <2>1
  <2>3. ~ \E k \in DOMAIN taken : taken[k] = runs[x]
    <3> SUFFICES ASSUME NEW k \in DOMAIN taken, taken[k] = runs[x] PROVE FALSE
      OBVIOUS
    <3>1. k \in some
      BY <1>6, <1>11, <2>1
    <3>2. PICK l \in 1..count : recent[l] = taken[k]
      BY <1>10, <3>1
    <3> QED
      BY <1>10, <2>1, <3>2 DEF Range
  <2>4. PICK l \in 1..count : s = recent[l]
    BY <1>10 DEF Range
  <2>5. q[l] \in DOMAIN taken /\ s = taken[q[l]]
    BY <1>6, <1>10, <2>4
  <2>6. PICK y \in at : y < x /\ taken[q[l]] = runs[y]
    BY <1>5, <2>2, <2>3, <2>5 DEF HeadOf
  <2>7. y \in DOMAIN runs /\ s = runs[y]
    BY <1>1, <2>5, <2>6
  <2> QED
    BY <2>1, <2>6, <2>7
<1>12. PICK last : last = IF recent = <<>> THEN None ELSE recent[1].started
  OBVIOUS
<1>13. NoneIsNewer(recent, runs, org)
  BY <1>11 DEF NoneIsNewer
<1>14. LastLogged(recent, last)
  <2> SUFFICES ASSUME recent # <<>> PROVE \E r \in Range(recent) : r.started = last /\ \A s \in Range(recent) : s.created <= r.created
    BY DEF LastLogged
  <2>1. m # 0
    <3>1. ASSUME m = 0 PROVE recent = <<>>
      <4>1. PICK l, w : l \in Nat /\ DOMAIN recent = 1..l /\ recent = [k \in 1..l |-> recent[k]]
        BY <1>7 DEF InOrderOf
      <4>2. 1..l = {}
        BY <1>8, <3>1, <4>1
      <4> QED
        BY <4>1, <4>2
    <3> QED
      BY <3>1
  <2>2. PICK r : r = recent[1] /\ r \in Range(recent)
    BY <1>8, <2>1 DEF Range
  <2> QED
    BY <1>9, <1>12, <2>2
<1> QED
  BY <1>9, <1>12, <1>13, <1>14 DEF RunsOf


\* An account is as fresh as the newest snapshot of its campaigns.
Fresh(f, a, campaigns, snapshots) ==
  /\ f.account = a.id
  /\ f.last # None => f.campaigns > 0
  /\ \A c \in campaigns, s \in snapshots :
       c.account = a.id /\ s.entity = c.id => f.last # None /\ s.created <= f.last

\* The freshness of an account is that of its newest snapshot.
LEMMA FreshnessIs ==
  ASSUME NEW a, NEW campaigns, IsFiniteSet(campaigns), NEW snapshots, IsFiniteSet(snapshots),
         \A s \in snapshots : s.created \in Int
  PROVE  Fresh(FreshnessOf(a, campaigns, snapshots), a, campaigns, snapshots)
<1>0. PICK f : f = FreshnessOf(a, campaigns, snapshots)
  OBVIOUS
<1>1. PICK mine, of, created :
        /\ mine = CampaignsOf(a, campaigns)
        /\ of = {t \in snapshots : \E c \in CampaignsOf(a, campaigns) : c.id = t.entity}
        /\ created = CreatedFor(a, campaigns, snapshots)
  OBVIOUS
<1>2. created = {s.created : s \in of}
  BY <1>1 DEF CreatedFor
<1>3. f.account = a.id /\ f.campaigns = Cardinality(mine) /\ f.last = IF created = {} THEN None ELSE Max(created)
  BY <1>0, <1>1 DEF FreshnessOf
<1>4. mine \in SUBSET campaigns /\ of \in SUBSET snapshots /\ \A c \in campaigns : c \in mine <=> c.account = a.id
  BY <1>1 DEF CampaignsOf
<1>5. IsFiniteSet(mine) /\ IsFiniteSet(of)
  BY <1>4, FS_Subset
<1>6. IsFiniteSet(created) /\ \A x \in created : x \in Int
  <2>1. PICK g : g = [s \in of |-> s.created]
    OBVIOUS
  <2>2. created = {g[s] : s \in of} /\ \A x \in created : x \in Int
    BY <1>2, <1>4, <2>1
  <2> QED
    BY <1>5, <2>2, ValuesFinite
<1>7. None \notin Int
  BY RulePerformanceAssumption
<1>8. ASSUME f.last # None PROVE f.campaigns > 0
  <2>1. created # {}
    BY <1>3, <1>8
  <2>2. mine # {}
    BY <1>1, <1>2, <2>1
  <2>3. Cardinality(mine) # 0 /\ Cardinality(mine) \in Nat
    BY <1>5, <2>2, FS_EmptySet, FS_CardinalityType
  <2> QED
    BY <1>3, <2>3
<1>9. ASSUME NEW c \in campaigns, NEW s \in snapshots, c.account = a.id, s.entity = c.id
      PROVE  f.last # None /\ s.created <= f.last
  <2>1. s \in of
    BY <1>1, <1>4, <1>9
  <2>2. s.created \in created
    BY <1>2, <2>1
  <2>3. Max(created) \in Int /\ s.created <= Max(created)
    BY <1>6, <2>2, MaxIs
  <2> QED
    BY <1>3, <1>7, <2>2, <2>3
<1>10. Fresh(f, a, campaigns, snapshots)
  BY <1>3, <1>8, <1>9 DEF Fresh
<1> QED
  BY <1>0, <1>10

\* Each campaign of the accounts listed counts once.
CountsOf(g, n, mine, campaigns) ==
  /\ \A j, k \in 1..n : mine[j].id = mine[k].id => j = k
  /\ \A c \in campaigns : \E k \in 1..n : c.account = mine[k].id
  /\ \A k \in 1..n : g[k] = Cardinality(CampaignsOf(mine[k], campaigns))

\* Every campaign of the listed accounts is one account's.
LEMMA EveryCampaignCounts ==
  ASSUME NEW n \in Nat, NEW mine, NEW campaigns, IsFiniteSet(campaigns), NEW g, CountsOf(g, n, mine, campaigns)
  PROVE  Sum(g, 1..n) = Cardinality(campaigns)
<1>0. /\ \A j, k \in 1..n : mine[j].id = mine[k].id => j = k
      /\ \A c \in campaigns : \E k \in 1..n : c.account = mine[k].id
      /\ \A k \in 1..n : g[k] = Cardinality(CampaignsOf(mine[k], campaigns))
  BY DEF CountsOf
<1>1. PICK K : K = 1..n /\ IsFiniteSet(K)
  BY IntervalIs
<1>2. PICK f : f = [c \in campaigns |-> CHOOSE k \in K : c.account = mine[k].id]
  OBVIOUS
<1>3. \A c \in campaigns : f[c] \in K /\ c.account = mine[f[c]].id
  <2>1. TAKE c \in campaigns
  <2>2. \E k \in K : c.account = mine[k].id
    BY <1>0, <1>1
  <2> QED
    BY <1>2, <2>2
<1>4. ASSUME NEW k \in K PROVE g[k] = Cardinality(Having(campaigns, f, {k}))
  <2>1. Having(campaigns, f, {k}) = CampaignsOf(mine[k], campaigns)
    BY <1>0, <1>1, <1>3, <1>4 DEF Having, CampaignsOf
  <2> QED
    BY <1>0, <1>1, <2>1
<1>5. Tallies(g, K, f, campaigns)
  BY <1>3, <1>4 DEF Tallies
<1> QED
  BY <1>1, <1>5, TalliesAddUp


\* A page with room for all accounts lists each of them once.
AllListed(mine, n, p, accounts) ==
  /\ Placed(p, n, DOMAIN accounts) /\ DOMAIN mine = 1..n /\ \A k \in 1..n : mine[k] = accounts[p[k]]

\* Where all the accounts fit, all are listed.
LEMMA AllAccountsListed ==
  ASSUME NEW accounts, IsList(accounts), NEW most \in Nat, Len(accounts) <= most,
         NEW mine, mine = First(Kept(accounts, DOMAIN accounts), most)
  PROVE  \E n, p : AllListed(mine, n, p, accounts)
<1>1. PICK at, m : m \in Nat /\ at = DOMAIN accounts /\ m = Len(accounts) /\ IsFiniteSet(at) /\ at \subseteq Nat /\ Cardinality(at) = m
  <2>1. Len(accounts) \in Nat /\ DOMAIN accounts = 1..Len(accounts)
    BY DEF IsList
  <2>2. PICK m \in Nat : m = Len(accounts)
    BY <2>1
  <2>3. IsFiniteSet(1..m) /\ Cardinality(1..m) = m
    BY IntervalIs
  <2>4. PICK at : at = DOMAIN accounts /\ at = 1..m
    BY <2>1, <2>2
  <2> QED
    BY <2>2, <2>3, <2>4
<1>2. PICK kept : kept = Kept(accounts, at)
  OBVIOUS
<1>3. PICK n, p : Placed(p, n, at) /\ kept = [k \in 1..n |-> accounts[p[k]]]
  <2>1. Keeps(kept, accounts, at)
    BY <1>1, <1>2, KeptKeeps
  <2> QED
    BY <2>1 DEF Keeps
<1>4. n = m /\ n \in Nat
  BY <1>1, <1>3 DEF Placed
<1>5. Len(kept) = n /\ Smaller(most, n) = n
  <2>1. DOMAIN kept = 1..n
    BY <1>3
  <2>2. Len(kept) = n
    BY <1>4, <2>1, LenIs
  <2> QED
    BY <1>1, <1>4, <2>2 DEF Smaller
<1>6. mine = [k \in 1..n |-> kept[k]]
  BY <1>1, <1>2, <1>4, <1>5 DEF First
<1>7. DOMAIN mine = 1..n /\ \A k \in 1..n : mine[k] = accounts[p[k]]
  BY <1>3, <1>6
<1>8. AllListed(mine, n, p, accounts)
  BY <1>1, <1>3, <1>7 DEF AllListed
<1> QED
  BY <1>8

\* The ingestion page says how fresh each account is, of one organization.
LEMMA IngestionIsTrue == ASSUME IngestionShown PROVE FreshnessIsTrue
<1>1. PICK t : t = tables
  OBVIOUS
<1>2. /\ t.kind = "ingestion"
      /\ IsList(t.runs) /\ \A i \in DOMAIN t.runs : t.runs[i].created \in Int
      /\ \A i, j \in DOMAIN t.runs : i < j => t.runs[i].created >= t.runs[j].created
  BY <1>1 DEF IngestionShown, TablesOk
<1>3. /\ IsList(t.accounts) /\ \A i, j \in DOMAIN t.accounts : t.accounts[i].id = t.accounts[j].id => i = j
      /\ IsFiniteSet(t.campaigns) /\ \A c \in t.campaigns : \E i \in DOMAIN t.accounts : c.account = t.accounts[i].id
      /\ IsFiniteSet(t.snapshots) /\ \A s \in t.snapshots : s.created \in Int
  BY <1>1, <1>2 DEF IngestionShown, TablesOk
<1>4. PICK recent, fresh : recent = RecentRuns(t.runs, t.org) /\ fresh = AccountFreshness(t.accounts, t.campaigns, t.snapshots, t.org)
  OBVIOUS
<1>5. shown.runs = recent /\ shown.fresh = fresh /\ shown.lastRun = IF recent = <<>> THEN None ELSE recent[1].started
  BY <1>1, <1>4 DEF IngestionShown, IngestionPage
<1>6. RunsOf(shown.runs, shown.lastRun, t.runs, t.org)
  <2>1. RunsOf(recent, IF recent = <<>> THEN None ELSE recent[1].started, t.runs, t.org)
    BY <1>2, <1>4, RecentRunsAre
  <2> QED
    BY <1>5, <2>1
<1>7. PICK at, mine : /\ at = {i \in DOMAIN t.accounts : t.org \in {None, t.accounts[i].org}}
                      /\ mine = First(Kept(t.accounts, at), AccountsListed)
  OBVIOUS
<1>8. DOMAIN fresh = DOMAIN mine /\ \A i \in DOMAIN mine : fresh[i] = FreshnessOf(mine[i], t.campaigns, t.snapshots)
  BY <1>4, <1>7 DEF AccountFreshness
<1>9. AccountsListed \in Nat
  BY OverviewAssumption
<1>10. InOrderOf(mine, t.accounts, at)
  <2>1. PICK T, m : m \in Nat /\ T = DOMAIN t.accounts /\ T = 1..m /\ IsFiniteSet(T)
    <3>1. Len(t.accounts) \in Nat /\ DOMAIN t.accounts = 1..Len(t.accounts)
      BY <1>3 DEF IsList
    <3>2. PICK m \in Nat : m = Len(t.accounts)
      BY <3>1
    <3>3. IsFiniteSet(1..m)
      BY IntervalIs
    <3> QED
      BY <3>1, <3>2, <3>3
  <2>2. at \in SUBSET T /\ at \subseteq Nat
    BY <1>7, <2>1
  <2>3. IsFiniteSet(at)
    BY <2>1, <2>2, FS_Subset
  <2> QED
    BY <1>7, <1>9, <2>2, <2>3, KeptInOrder, FirstInOrder
<1>14. PICK accounts : accounts = t.accounts /\ InOrderOf(mine, accounts, at)
  BY <1>10
<1>15. PICK n, p :
         /\ n \in Nat /\ DOMAIN mine = 1..n /\ mine = [k \in 1..n |-> mine[k]]
         /\ \A k \in 1..n : p[k] \in at /\ mine[k] = accounts[p[k]]
         /\ \A j, k \in 1..n : j < k => p[j] < p[k]
  BY <1>14, Zenon DEF InOrderOf
<1>11. n \in Nat /\ DOMAIN mine = 1..n /\ \A k \in 1..n : p[k] \in at /\ mine[k] = t.accounts[p[k]]
  BY <1>14, <1>15
<1>12. ASSUME NEW i \in DOMAIN fresh, NEW f, f = fresh[i]
       PROVE  /\ f.last # None => f.campaigns > 0
              /\ \A c \in t.campaigns, s \in t.snapshots :
                   c.account = f.account /\ s.entity = c.id => f.last # None /\ s.created <= f.last
              /\ \A a \in Range(t.accounts) : a.id = f.account => t.org \in {None, a.org}
  <2>1. PICK a : a = mine[i] /\ f = FreshnessOf(a, t.campaigns, t.snapshots)
    BY <1>8, <1>12
  <2>2. Fresh(f, a, t.campaigns, t.snapshots)
    <3>1. Fresh(FreshnessOf(a, t.campaigns, t.snapshots), a, t.campaigns, t.snapshots)
      BY <1>3, FreshnessIs
    <3> QED
      BY <2>1, <3>1
  <2>3. f.account = a.id
    BY <2>2 DEF Fresh
  <2>4. i \in 1..n
    BY <1>8, <1>11
  <2>5. p[i] \in DOMAIN t.accounts /\ a = t.accounts[p[i]] /\ t.org \in {None, a.org}
    BY <1>7, <1>11, <2>1, <2>4
  <2>6. \A b \in Range(t.accounts) : b.id = f.account => b = a
    BY <1>3, <2>3, <2>5 DEF Range
  <2> QED
    BY <2>2, <2>3, <2>5, <2>6 DEF Fresh
<1>13. ASSUME Len(t.accounts) <= AccountsListed, t.org = None
       PROVE  SumFunction([i \in DOMAIN fresh |-> fresh[i].campaigns]) = Cardinality(t.campaigns)
  <2>1. at = DOMAIN t.accounts
    BY <1>7, <1>13
  <2>2. PICK m, q : AllListed(mine, m, q, t.accounts)
    BY <1>3, <1>7, <1>9, <1>13, <2>1, AllAccountsListed
  <2>3. /\ m \in Nat /\ DOMAIN mine = 1..m
        /\ \A k \in 1..m : mine[k] = t.accounts[q[k]] /\ q[k] \in DOMAIN t.accounts
        /\ \A j, k \in 1..m : q[j] = q[k] => j = k
        /\ \A i \in DOMAIN t.accounts : \E k \in 1..m : q[k] = i
    BY <2>2 DEF AllListed, Placed
  <2>4. \A j, k \in 1..m : mine[j].id = mine[k].id => j = k
    BY <1>3, <2>3
  <2>5. \A c \in t.campaigns : \E k \in 1..m : c.account = mine[k].id
    <3>1. TAKE c \in t.campaigns
    <3>2. PICK i \in DOMAIN t.accounts : c.account = t.accounts[i].id
      BY <1>3
    <3>3. PICK k \in 1..m : q[k] = i
      BY <2>3
    <3>4. mine[k] = t.accounts[i]
      BY <2>3, <3>3
    <3> QED
      BY <3>2, <3>4
  <2>6. PICK g : g = [i \in DOMAIN fresh |-> fresh[i].campaigns]
    OBVIOUS
  <2>7. \A k \in 1..m : g[k] = Cardinality(CampaignsOf(mine[k], t.campaigns))
    <3>1. TAKE k \in 1..m
    <3>2. k \in DOMAIN fresh /\ fresh[k] = FreshnessOf(mine[k], t.campaigns, t.snapshots)
      BY <1>8, <2>3
    <3>3. FreshnessOf(mine[k], t.campaigns, t.snapshots).campaigns = Cardinality(CampaignsOf(mine[k], t.campaigns))
      BY DEF FreshnessOf
    <3> QED
      BY <2>6, <3>2, <3>3
  <2>8. Sum(g, 1..m) = Cardinality(t.campaigns)
    <3>1. CountsOf(g, m, mine, t.campaigns)
      BY <2>4, <2>5, <2>7 DEF CountsOf
    <3> QED
      BY <1>3, <2>3, <3>1, EveryCampaignCounts
  <2>9. SumFunction(g) = Sum(g, DOMAIN g) /\ DOMAIN g = 1..m
    BY <1>8, <2>3, <2>6 DEF SumFunction, Sum
  <2> QED
    BY <2>6, <2>8, <2>9
<1> QED
  BY <1>1, <1>5, <1>6, <1>12, <1>13 DEF FreshnessIsTrue, RunsOf, OfScope, NoneIsNewer, LastLogged


-----------------------------------------------------------------------------
(* The intelligence strip.                                                 *)

StripShown(taken) ==
  /\ tables.kind = "intelligence" /\ TablesOk(tables)
  /\ taken \in Newest(tables.ledger.rows, RowsRead) /\ shown = StripOf(tables, taken)

\* The rules to tune that are left out are no worse than those shown, and a rule has one health.
RulesShown(rules, all, n) ==
  /\ \A e \in Range(all), f \in Range(rules.tune) :
       e.health = "NEEDS_TUNING" /\ e.rule \notin {g.rule : g \in Range(rules.tune)} => f.score <= e.score
  /\ SumFunction(rules.byHealth) = n

\* The rules to tune are the worst of those that need it, and every rule is counted.
LEMMA RulesShownAre ==
  ASSUME NEW votes \in Seq(VoteTypes)
  PROVE  RulesShown(BuildRuleHealth(ClassifyRules(votes)), ClassifyRules(votes), Len(votes))
<1>1. PICK all, rules : all = ClassifyRules(votes) /\ rules = BuildRuleHealth(all)
  OBVIOUS
<1>2. Classified(all, votes)
  BY <1>1, RulesClassified
<1>3. PICK n, p :
        /\ Placed(p, n, DOMAIN votes) /\ n = Len(votes)
        /\ all = [k \in 1..n |-> ClassifyRule(p[k], votes[p[k]])]
        /\ \A j, k \in 1..n : j < k => \/ HealthRank(all[j].health) < HealthRank(all[k].health)
                                       \/ HealthRank(all[j].health) = HealthRank(all[k].health) /\ all[j].score <= all[k].score
  BY <1>2 DEF Classified
<1>4. PICK T : T = 1..n /\ IsFiniteSet(T) /\ Cardinality(T) = n /\ n \in Nat
  <2>1. n \in Nat
    BY <1>3 DEF Placed
  <2> QED
    BY <2>1, IntervalIs
<1>5. DOMAIN all = T
  BY <1>3, <1>4
<1>6. \A k \in T : all[k].health \in Bands /\ all[k].score \in Int
  <2>1. TAKE k \in T
  <2>2. p[k] \in DOMAIN votes /\ all[k] = ClassifyRule(p[k], votes[p[k]])
    BY <1>3, <1>4 DEF Placed
  <2>3. PICK v \in VoteTypes : v = votes[p[k]]
    BY <2>2
  <2> QED
    BY <2>2, <2>3, RuleTyped
<1>7. PICK at, tune : at = {i \in DOMAIN all : all[i].health = "NEEDS_TUNING"} /\ tune = First(Kept(all, at), HighlightsShown)
  OBVIOUS
<1>8. rules.tune = tune
  BY <1>1, <1>7 DEF BuildRuleHealth
<1>9. IsFiniteSet(at) /\ at \subseteq Nat
  <2>1. at \in SUBSET T /\ at \subseteq Nat
    BY <1>4, <1>5, <1>7
  <2> QED
    BY <1>4, <2>1, FS_Subset
<1>10. HeadOf(tune, all, at)
  BY <1>7, <1>9, HeadIs, OverviewAssumption
<1>11. ASSUME NEW e \in Range(all), NEW f \in Range(tune), e.health = "NEEDS_TUNING", e.rule \notin {g.rule : g \in Range(tune)}
       PROVE  f.score <= e.score
  <2>1. PICK x \in T : e = all[x]
    BY <1>5 DEF Range
  <2>2. x \in at
    BY <1>5, <1>7, <1>11, <2>1
  <2>3. PICK j \in DOMAIN tune : f = tune[j]
    BY DEF Range
  <2>4. ~ \E k \in DOMAIN tune : tune[k] = all[x]
    BY <1>11, <2>1 DEF Range
  <2>5. PICK y \in at : y < x /\ tune[j] = all[y]
    BY <1>10, <2>2, <2>3, <2>4 DEF HeadOf
  <2>6. y \in T /\ y \in 1..n /\ x \in 1..n /\ all[y].health = "NEEDS_TUNING" /\ all[x].health = "NEEDS_TUNING"
    BY <1>4, <1>5, <1>7, <1>11, <2>1
  <2>7. PICK r \in Int : r = HealthRank("NEEDS_TUNING")
    BY RankIs DEF Bands
  <2>8. all[y].score <= all[x].score
    BY <1>3, <2>5, <2>6, <2>7
  <2> QED
    BY <2>1, <2>3, <2>5, <2>8
<1>12. SumFunction(rules.byHealth) = n
  <2>1. PICK g, f : g = rules.byHealth /\ f = [i \in T |-> all[i].health]
    OBVIOUS
  <2>2. g = [h \in {"HEALTHY", "NEEDS_TUNING", "UNSTABLE", "LOW_SIGNAL"} |-> Cardinality({i \in DOMAIN all : all[i].health = h})]
    BY <1>1, <2>1 DEF BuildRuleHealth
  <2>3. DOMAIN g = Bands
    BY <2>2 DEF Bands
  <2>4. ASSUME NEW h \in Bands PROVE g[h] = Cardinality(Having(T, f, {h}))
    <3>1. Having(T, f, {h}) = {i \in DOMAIN all : all[i].health = h}
      BY <1>5, <2>1 DEF Having
    <3> QED
      BY <2>2, <3>1 DEF Bands
  <2>5. Tallies(g, Bands, f, T)
    BY <1>6, <2>1, <2>4 DEF Tallies
  <2>6. IsFiniteSet(Bands)
    <3>1. Bands = {"NEEDS_TUNING"} \cup {"UNSTABLE"} \cup {"HEALTHY"} \cup {"LOW_SIGNAL"}
      BY DEF Bands
    <3> QED
      BY <3>1, FS_Singleton, FS_Union
  <2>7. Sum(g, Bands) = n
    BY <1>4, <2>5, <2>6, TalliesAddUp
  <2>8. SumFunction(g) = Sum(g, DOMAIN g)
    BY DEF SumFunction, Sum
  <2> QED
    BY <2>1, <2>3, <2>7, <2>8
<1>13. RulesShown(rules, all, n)
  BY <1>8, <1>11, <1>12 DEF RulesShown
<1> QED
  BY <1>1, <1>3, <1>13


\* The strip shows the most urgent, and counts all.
LEMMA StripIsIt == ASSUME NEW taken, StripShown(taken) PROVE StripIsTheTop
<1>1. PICK t : t = tables
  OBVIOUS
<1>2. t.kind = "intelligence" /\ IsList(t.insights) /\ FeedbackOk(t.feedback) /\ LedgerOk(t.ledger) /\ taken \in Newest(t.ledger.rows, RowsRead)
  BY <1>1 DEF StripShown, TablesOk
<1>3. PICK list : list = t.insights
  OBVIOUS
<1>4. /\ \A i \in DOMAIN list : list[i].score \in Int
      /\ \A i, j \in DOMAIN list : i < j => list[i].score >= list[j].score
  BY <1>1, <1>2, <1>3 DEF StripShown, TablesOk
<1>5. PICK n : n \in Nat /\ DOMAIN list = 1..n
  BY <1>2, <1>3 DEF IsList
<1>6. /\ shown.insights = First(list, InsightsShown) /\ shown.trends = BuildTrendHighlights(list)
      /\ shown.rules = BuildRuleHealth(ClassifyRules(t.feedback.votes))
      /\ shown.simulation = SummarizeSimulation(SimulateRules(t.feedback))
      /\ shown.autoTune = BuildAutoTuneStatus(Observed(t.ledger, taken))
  BY <1>1, <1>3 DEF StripShown, StripOf
<1>7. InsightsShown \in Nat /\ HighlightsShown \in Nat
  BY OverviewAssumption
<1>8. ASSUME NEW i \in Range(list) \ Range(shown.insights), NEW j \in Range(shown.insights) PROVE i.score <= j.score
  <2>1. PICK m \in Nat : m = Smaller(InsightsShown, n) /\ m <= n
    BY <1>5, <1>7 DEF Smaller
  <2>2. PICK top : top = shown.insights /\ top = [k \in 1..m |-> list[k]]
    <3>1. Len(list) = n
      BY <1>5, LenIs
    <3>2. PICK top : top = First(list, InsightsShown)
      OBVIOUS
    <3>3. top = [k \in 1..m |-> list[k]]
      BY <2>1, <3>1, <3>2 DEF First
    <3> QED
      BY <1>6, <3>2, <3>3
  <2>3. PICK x \in 1..n : i = list[x]
    BY <1>5 DEF Range
  <2>4. PICK k \in 1..m : j = list[k]
    BY <2>2 DEF Range
  <2>5. x \notin 1..m
    BY <2>2, <2>3 DEF Range
  <2>6. k < x /\ k \in DOMAIN list /\ x \in DOMAIN list
    BY <1>5, <2>1, <2>5
  <2> QED
    BY <1>4, <2>3, <2>4, <2>6
<1>9. ASSUME NEW i \in Range(list) \ Range(shown.trends), NEW j \in Range(shown.trends), i.type \in TrendTypes PROVE i.score <= j.score
  <2>1. PICK at : at = {k \in DOMAIN list : list[k].type \in TrendTypes}
    OBVIOUS
  <2>2. PICK top : top = shown.trends /\ top = First(Kept(list, at), HighlightsShown)
    BY <1>6, <2>1 DEF BuildTrendHighlights
  <2>3. IsFiniteSet(at) /\ at \subseteq Nat
    <3>1. PICK T : T = 1..n /\ IsFiniteSet(T)
      BY <1>5, IntervalIs
    <3>2. at \in SUBSET T /\ at \subseteq Nat
      BY <1>5, <2>1, <3>1
    <3> QED
      BY <3>1, <3>2, FS_Subset
  <2>4. HeadOf(top, list, at)
    BY <1>7, <2>2, <2>3, HeadIs
  <2>5. PICK x \in DOMAIN list : i = list[x]
    BY DEF Range
  <2>6. x \in at
    BY <1>9, <2>1, <2>5
  <2>7. PICK k \in DOMAIN top : j = top[k]
    BY <2>2 DEF Range
  <2>8. ~ \E l \in DOMAIN top : top[l] = list[x]
    BY <2>2, <2>5 DEF Range
  <2>9. PICK y \in at : y < x /\ top[k] = list[y]
    BY <2>4, <2>6, <2>7, <2>8 DEF HeadOf
  <2>10. y \in DOMAIN list
    BY <2>1
  <2> QED
    BY <1>4, <2>5, <2>7, <2>9, <2>10
<1>10. RulesShown(shown.rules, ClassifyRules(t.feedback.votes), Len(t.feedback.votes))
  <2>1. t.feedback.votes \in Seq(VoteTypes)
    BY <1>2 DEF FeedbackOk
  <2> QED
    BY <1>6, <2>1, RulesShownAre
<1>11. shown.simulation.lost <= shown.simulation.actions
  <2>1. SimulationIs(SimulateRules(t.feedback), t.feedback)
    BY <1>2, RulesSimulated
  <2> QED
    BY <1>6, <2>1, LostOfPast
<1>12. PICK o : o = Observed(t.ledger, taken) /\ Observes(o, t.ledger)
  BY <1>2, ObservedIs
<1>13. shown.autoTune.remaining = o.remaining /\ shown.autoTune.applied = o.applied /\ shown.autoTune.last = o.latest
  BY <1>6, <1>12 DEF BuildAutoTuneStatus
<1>14. /\ shown.autoTune.remaining # None /\ Cardinality(t.ledger.rows) <= RowsRead => shown.autoTune.applied > 0
       /\ (shown.autoTune.last = None) <=> (t.ledger.rows = {})
  BY <1>12, <1>13 DEF Observes
<1> QED
  BY <1>1, <1>3, <1>8, <1>9, <1>10, <1>11, <1>14 DEF StripIsTheTop, RulesShown


-----------------------------------------------------------------------------
(* The dashboard.                                                          *)

SummaryShown == tables.kind = "summary" /\ TablesOk(tables) /\ shown = SummaryOf(tables)

\* The snapshots that are read, one of an entity and a day.
SnapsOk(N) ==
  /\ IsFiniteSet(N) /\ \A s \in N : s.day \in Int /\ s.spend \in Nat /\ s.roas \in Nat
  /\ \A r, s \in N : r.entity = s.entity /\ r.day = s.day => r = s

\* The newest of an entity is what the page takes for it.
IsFinal(e, N) ==
  /\ Final(e, N) \in N /\ Final(e, N).entity = e /\ Final(e, N).day = Max(DaysOf(e, N))
  /\ Max(DaysOf(e, N)) \in Int /\ \A s \in N : s.entity = e => s.day <= Max(DaysOf(e, N))

\* The newest day of an entity has one snapshot.
LEMMA FinalIs ==
  ASSUME NEW N, SnapsOk(N), NEW e, \E s \in N : s.entity = e
  PROVE  IsFinal(e, N)
<1>1. PICK S, D : S = {r \in N : r.entity = e} /\ D = DaysOf(e, N)
  OBVIOUS
<1>2. D = {s.day : s \in S}
  BY <1>1 DEF DaysOf
<1>3. S \in SUBSET N /\ IsFiniteSet(N) /\ S # {} /\ \A s \in S : s.day \in Int
  BY <1>1 DEF SnapsOk
<1>4. IsFiniteSet(D)
  <2>1. PICK f : f = [s \in S |-> s.day]
    OBVIOUS
  <2>2. D = {f[s] : s \in S} /\ IsFiniteSet(S)
    BY <1>2, <1>3, <2>1, FS_Subset
  <2> QED
    BY <2>2, ValuesFinite
<1>5. D # {} /\ \A d \in D : d \in Int
  BY <1>2, <1>3
<1>6. Max(D) \in D /\ \A d \in D : d <= Max(D)
  BY <1>4, <1>5, MaxIs
<1>7. PICK m \in Int : m = Max(D)
  BY <1>5, <1>6
<1>8. \E s \in N : s.entity = e /\ s.day = m
  BY <1>1, <1>2, <1>6, <1>7
<1>9. Final(e, N) = CHOOSE s \in N : s.entity = e /\ s.day = m
  BY <1>1, <1>7 DEF Final, OnDay
<1>10. Final(e, N) \in N /\ Final(e, N).entity = e /\ Final(e, N).day = m
  BY <1>8, <1>9
<1>11. \A s \in N : s.entity = e => s.day <= m
  BY <1>1, <1>2, <1>6, <1>7
<1> QED
  BY <1>1, <1>7, <1>10, <1>11 DEF IsFinal

\* Taking the newest leaves one snapshot of each entity.
LEMMA LatestAre ==
  ASSUME NEW N, SnapsOk(N), NEW L, L = LatestOf(N)
  PROVE  /\ L \in SUBSET N /\ IsFiniteSet(L) /\ SnapsOk(L)
         /\ \A s \in L : s = Final(s.entity, N) /\ IsFinal(s.entity, N)
         /\ \A s \in N : Final(s.entity, N) \in L
         /\ \A r, s \in L : r.entity = s.entity => r = s
<1>1. L \in SUBSET N /\ \A s \in N : s \in L <=> \A o \in N : o.entity = s.entity => o.day <= s.day
  BY DEF LatestOf
<1>2. IsFiniteSet(N) /\ \A s \in N : s.day \in Int
  BY DEF SnapsOk
<1>3. IsFiniteSet(L)
  BY <1>1, <1>2, FS_Subset
<1>4. SnapsOk(L)
  BY <1>1, <1>3 DEF SnapsOk
<1>5. \A s \in N : IsFinal(s.entity, N)
  BY FinalIs
<1>6. ASSUME NEW s \in L PROVE s = Final(s.entity, N)
  <2>1. PICK f : f = Final(s.entity, N) /\ f \in N /\ f.entity = s.entity /\ s.day <= f.day
    BY <1>1, <1>5 DEF IsFinal
  <2>2. f.day <= s.day
    BY <1>1, <2>1
  <2>3. f.day = s.day
    BY <1>1, <1>2, <2>1, <2>2
  <2> QED
    BY <1>1, <2>1, <2>3 DEF SnapsOk
<1>7. ASSUME NEW s \in N PROVE Final(s.entity, N) \in L
  <2>1. PICK f : f = Final(s.entity, N) /\ f \in N /\ f.entity = s.entity /\ \A o \in N : o.entity = s.entity => o.day <= f.day
    BY <1>5 DEF IsFinal
  <2> QED
    BY <1>1, <2>1
<1>8. \A r, s \in L : r.entity = s.entity => r = s
  <2>1. TAKE r, s \in L
  <2>2. r = Final(r.entity, N) /\ s = Final(s.entity, N)
    BY <1>6
  <2> QED
    BY <2>2, Zenon
<1> QED
  BY <1>1, <1>3, <1>4, <1>5, <1>6, <1>7, <1>8

\* What a set of snapshots spent.
Spent(N) == [s \in N |-> s.spend]

\* The spend of some snapshots is a sum over them, and no more than that of all.
LEMMA SpendIs ==
  ASSUME NEW N, SnapsOk(N), NEW S \in SUBSET N
  PROVE  /\ IsFiniteSet(S) /\ SpendOf(S) = Sum(Spent(N), S)
         /\ SpendOf(S) \in Nat /\ SpendOf(S) <= SpendOf(N) /\ SpendOf(N) \in Nat
<1>1. IsFiniteSet(N) /\ \A s \in N : Spent(N)[s] = s.spend /\ Spent(N)[s] \in Nat
  BY DEF SnapsOk, Spent
<1>2. IsFiniteSet(S)
  BY <1>1, FS_Subset
<1>3. ASSUME NEW U \in SUBSET N, IsFiniteSet(U) PROVE SpendOf(U) = Sum(Spent(N), U)
  <2>1. PICK g : g = [s \in U |-> s.spend]
    OBVIOUS
  <2>2. SpendOf(U) = Sum(g, U)
    <3>1. DOMAIN g = U /\ SpendOf(U) = SumFunction(g)
      BY <2>1 DEF SpendOf
    <3> QED
      BY <3>1 DEF SumFunction, Sum
  <2>3. \A s \in U : g[s] \in Int /\ g[s] = Spent(N)[s]
    BY <1>1, <2>1
  <2>4. Sum(g, U) = Sum(Spent(N), U)
    BY <1>3, <2>3, SumSame
  <2> QED
    BY <2>2, <2>4
<1>4. SpendOf(S) = Sum(Spent(N), S) /\ SpendOf(N) = Sum(Spent(N), N)
  BY <1>1, <1>2, <1>3
<1>5. Sum(Spent(N), S) \in Nat /\ Sum(Spent(N), N) \in Nat /\ Sum(Spent(N), S) <= Sum(Spent(N), N)
  BY <1>1, SumPart
<1> QED
  BY <1>2, <1>4, <1>5


\* The total is what the newest snapshot of each entity spent.
Entities(N) == {s.entity : s \in N}

\* The dashboard's total counts each entity once, with its newest day.
LEMMA TotalIs ==
  ASSUME NEW N, SnapsOk(N), NEW L, L = LatestOf(N), NEW E, E = Entities(N)
  PROVE  SpendOf(L) = SumFunction([e \in E |-> Final(e, N).spend])
<1>0. \A e : e \in E <=> \E s \in N : s.entity = e
  BY DEF Entities
<1>1. /\ L \in SUBSET N /\ (\A s \in L : s = Final(s.entity, N)) /\ (\A s \in N : Final(s.entity, N) \in L)
      /\ SnapsOk(L) /\ IsFiniteSet(L)
  BY LatestAre
<1>2. PICK q, g : q = [e \in E |-> Final(e, N)] /\ g = [e \in E |-> Final(e, N).spend]
  OBVIOUS
<1>3. \A e \in E : IsFinal(e, N) /\ q[e] \in L /\ q[e].entity = e
  <2>1. TAKE e \in E
  <2>2. PICK s \in N : s.entity = e
    BY <1>0
  <2>3. IsFinal(e, N)
    BY <2>2, FinalIs
  <2>4. Final(e, N) \in L
    BY <1>1, <2>2
  <2> QED
    BY <1>2, <2>3, <2>4 DEF IsFinal
<1>4. IsFiniteSet(E)
  <2>1. PICK f : f = [s \in N |-> s.entity]
    OBVIOUS
  <2>2. E = {f[s] : s \in N} /\ IsFiniteSet(N)
    BY <1>0, <2>1 DEF SnapsOk
  <2> QED
    BY <2>2, ValuesFinite
<1>5. Maps(q, E, L)
  <2>1. \A s \in L : s.entity \in E /\ q[s.entity] = s
    <3>1. TAKE s \in L
    <3>2. s \in N /\ s.entity \in E /\ s = Final(s.entity, N)
      BY <1>0, <1>1
    <3>3. PICK e \in E : e = s.entity
      BY <3>2
    <3> QED
      BY <1>2, <3>2, <3>3
  <2>2. L = {q[e] : e \in E}
    BY <1>3, <2>1
  <2>3. \A x, y \in E : q[x] = q[y] => x = y
    BY <1>3
  <2> QED
    BY <2>2, <2>3 DEF Maps
<1>6. PICK f : f = Spent(N)
  OBVIOUS
<1>7. \A e \in E : f[q[e]] \in Int /\ g[e] = f[q[e]]
  <2>1. TAKE e \in E
  <2>2. q[e] \in N /\ q[e] = Final(e, N) /\ g[e] = Final(e, N).spend
    BY <1>1, <1>2, <1>3
  <2>3. f[q[e]] = q[e].spend /\ q[e].spend \in Nat
    BY <1>6, <2>2 DEF Spent, SnapsOk
  <2> QED
    BY <2>2, <2>3
<1>8. Sum(g, E) = Sum(f, L)
  BY <1>4, <1>5, <1>7, SumMapped
<1>9. SpendOf(L) = Sum(f, L)
  BY <1>1, <1>6, SpendIs
<1>10. DOMAIN g = E /\ SumFunction(g) = Sum(g, DOMAIN g)
  BY <1>2 DEF SumFunction, Sum
<1> QED
  BY <1>2, <1>8, <1>9, <1>10

Means(N) == {Final(e, N).roas : e \in Entities(N)} \ {0}

\* The mean lies between the smallest and the largest of what it is of.
LEMMA MeanIsBetween ==
  ASSUME NEW N, SnapsOk(N), NEW L, L = LatestOf(N), NEW E, E = Entities(N),
         NEW means, means = Means(N), means # {},
         NEW mean, mean = AggregateKpis(L).roas
  PROVE  mean.by * Min(means) <= mean.of /\ mean.of <= mean.by * Max(means)
<1>0. \A e : e \in E <=> \E s \in N : s.entity = e
  BY DEF Entities
<1>1. /\ L \in SUBSET N /\ (\A s \in L : s = Final(s.entity, N)) /\ (\A s \in N : Final(s.entity, N) \in L)
      /\ SnapsOk(L) /\ IsFiniteSet(L)
  BY LatestAre
<1>2. PICK positive, g : positive = {s \in L : s.roas > 0} /\ g = [s \in positive |-> s.roas]
  OBVIOUS
<1>3. PICK n : n = Cardinality(positive)
  OBVIOUS
<1>4. mean.of = Sum(g, positive) /\ mean.by = Larger(1, n)
  <2>1. mean.of = SumFunction(g) /\ mean.by = Larger(1, n)
    BY <1>2, <1>3 DEF AggregateKpis
  <2>2. DOMAIN g = positive
    BY <1>2
  <2> QED
    BY <2>1, <2>2 DEF SumFunction, Sum
<1>5. positive \in SUBSET L /\ IsFiniteSet(positive)
  <2>1. positive \in SUBSET L
    BY <1>2
  <2> QED
    BY <1>1, <2>1, FS_Subset
<1>6. \A x \in means : \E s \in positive : x = s.roas
  <2>1. TAKE x \in means
  <2>2. PICK e \in E : x = Final(e, N).roas /\ x # 0
    BY DEF Means
  <2>3. PICK s \in N : s.entity = e
    BY <1>0
  <2>4. PICK f \in L : f = Final(e, N)
    BY <1>1, <2>3
  <2>5. f.roas \in Nat
    BY <1>1 DEF SnapsOk
  <2>6. f.roas = x
    BY <2>2, <2>4
  <2>7. f \in positive
    BY <1>2, <2>2, <2>5, <2>6
  <2> QED
    BY <2>6, <2>7
<1>7. \A s \in positive : s.roas \in means
  <2>1. TAKE s \in positive
  <2>2. s \in L /\ s.roas > 0 /\ s.roas \in Nat /\ s \in N
    BY <1>1, <1>2 DEF SnapsOk
  <2>3. PICK e \in E : e = s.entity
    BY <1>0, <2>2
  <2>4. Final(e, N) = s
    BY <1>1, <2>2, <2>3
  <2>5. Final(e, N).roas = s.roas /\ Final(e, N).roas # 0
    BY <2>2, <2>4
  <2>6. Final(e, N).roas \in means
    BY <2>5 DEF Means
  <2> QED
    BY <2>5, <2>6
<1>8. IsFiniteSet(means) /\ \A x \in means : x \in Int
  <2>1. means = {g[s] : s \in positive}
    BY <1>2, <1>6, <1>7
  <2>2. \A x \in means : x \in Int
    BY <1>1, <1>5, <1>6 DEF SnapsOk
  <2> QED
    BY <1>5, <2>1, <2>2, ValuesFinite
<1>9. PICK lo \in Int, hi \in Int : lo = Min(means) /\ hi = Max(means) /\ \A x \in means : lo <= x /\ x <= hi
  <2>1. Min(means) \in Int /\ \A x \in means : Min(means) <= x
    BY <1>8, MinIs
  <2>2. Max(means) \in Int /\ \A x \in means : x <= Max(means)
    BY <1>8, MaxIs
  <2> QED
    BY <2>1, <2>2
<1>10. \A s \in positive : g[s] \in Int /\ lo <= g[s] /\ g[s] <= hi
  BY <1>2, <1>7, <1>8, <1>9
<1>11. /\ Sum(g, positive) \in Int /\ n \in Nat
       /\ lo * n <= Sum(g, positive) /\ Sum(g, positive) <= hi * n
  BY <1>3, <1>5, <1>10, SumBetween
<1>12. positive # {}
  BY <1>6
<1>13. n # 0
  BY <1>3, <1>5, <1>12, FS_EmptySet
<1>14. mean.by = n
  BY <1>4, <1>11, <1>13 DEF Larger
<1>15. n * lo = lo * n /\ n * hi = hi * n
  BY <1>11
<1> QED
  BY <1>4, <1>9, <1>11, <1>14, <1>15


\* Each card shows what its campaign's newest snapshot spent, and no snapshot counts twice.
CardsHold(cards, N) ==
  /\ SumFunction([i \in DOMAIN cards |-> cards[i].spend]) <= SpendOf(LatestOf(N))
  /\ \A i \in DOMAIN cards : cards[i].id \in Entities(N) => cards[i].spend = Final(cards[i].id, N).spend
OneOfEachId(active) == \E n \in Nat : DOMAIN active = 1..n /\ \A j, k \in 1..n : active[j].id = active[k].id => j = k

\* The cards never show more than the total.
LEMMA CardsAre ==
  ASSUME NEW N, SnapsOk(N), NEW active, OneOfEachId(active)
  PROVE  CardsHold(Cards(active, LatestOf(N)), N)
<1>1. PICK L, cards : L = LatestOf(N) /\ cards = Cards(active, L)
  OBVIOUS
<1>2. /\ L \in SUBSET N /\ (\A s \in L : s = Final(s.entity, N)) /\ (\A s \in N : Final(s.entity, N) \in L)
      /\ SnapsOk(L) /\ IsFiniteSet(L) /\ \A r, s \in L : r.entity = s.entity => r = s
  BY <1>1, LatestAre
<1>3. PICK n \in Nat : DOMAIN active = 1..n /\ \A j, k \in 1..n : active[j].id = active[k].id => j = k
  BY DEF OneOfEachId
<1>4. PICK I : I = 1..n /\ IsFiniteSet(I)
  BY IntervalIs
<1>5. PICK P, f, g : /\ P = [i \in I |-> {s \in L : s.entity = active[i].id}] /\ f = Spent(L)
                     /\ g = [i \in DOMAIN cards |-> cards[i].spend]
  OBVIOUS
<1>6. DOMAIN cards = I /\ \A i \in I : cards[i].id = active[i].id /\ cards[i].spend = SpendOf(P[i])
  BY <1>1, <1>3, <1>4, <1>5 DEF Cards
<1>7. \A i \in I : P[i] \in SUBSET L /\ \A s \in L : s \in P[i] <=> s.entity = active[i].id
  BY <1>5
<1>8. \A i \in I : IsFiniteSet(P[i]) /\ SpendOf(P[i]) = Sum(f, P[i])
  BY <1>2, <1>5, <1>7, SpendIs
<1>9. \A i, j \in I : i # j => P[i] \cap P[j] = {}
  BY <1>3, <1>4, <1>7
<1>10. \A s \in L : f[s] \in Nat /\ f[s] = s.spend
  BY <1>2, <1>5 DEF Spent, SnapsOk
<1>11. \A i \in I : g[i] = Sum(f, P[i])
  BY <1>5, <1>6, <1>8
<1>12. PICK U : U = UNION {P[i] : i \in I}
  OBVIOUS
<1>19. U \in SUBSET L
  <2>1. \A x \in U : \E i \in I : x \in P[i]
    BY <1>12
  <2> QED
    BY <1>7, <2>1
<1>13. Sum(g, I) = Sum(f, U)
  <2>1. \A i \in I : \A s \in P[i] : f[s] \in Int
    BY <1>7, <1>10
  <2>2. Divides(P, I, U)
    BY <1>8, <1>9, <1>12 DEF Divides
  <2> QED
    BY <1>4, <1>11, <2>1, <2>2, SumParts
<1>14. Sum(f, U) <= Sum(f, L)
  BY <1>2, <1>10, <1>19, SumPart
<1>15. SpendOf(L) = Sum(f, L)
  <2>1. L \in SUBSET L
    OBVIOUS
  <2> QED
    BY <1>2, <1>5, <2>1, SpendIs
<1>16. SumFunction(g) <= SpendOf(L)
  <2>1. DOMAIN g = I /\ SumFunction(g) = Sum(g, DOMAIN g)
    BY <1>5, <1>6 DEF SumFunction, Sum
  <2> QED
    BY <1>13, <1>14, <1>15, <2>1
<1>17. ASSUME NEW i \in DOMAIN cards, cards[i].id \in Entities(N) PROVE cards[i].spend = Final(cards[i].id, N).spend
  <2>1. PICK s \in N : s.entity = cards[i].id
    BY <1>17 DEF Entities
  <2>2. PICK x \in L : x = Final(s.entity, N) /\ x.entity = s.entity
    <3>1. IsFinal(s.entity, N)
      BY FinalIs
    <3> QED
      BY <1>2, <3>1 DEF IsFinal
  <2>3. i \in I /\ active[i].id = x.entity
    BY <1>6, <2>1, <2>2
  <2>4. P[i] = {x}
    BY <1>2, <1>7, <2>2, <2>3
  <2>5. Sum(f, {x}) = f[x]
    <3>1. f[x] \in Int
      BY <1>10
    <3> QED
      BY <3>1, SumOne
  <2> QED
    BY <1>6, <1>8, <1>10, <2>1, <2>2, <2>3, <2>4, <2>5
<1>18. CardsHold(cards, N)
  BY <1>1, <1>5, <1>16, <1>17 DEF CardsHold
<1> QED
  BY <1>1, <1>18

\* What was spent the day before is no more than the newest, where no earlier day of any entity is.
NeverMore(N) ==
  \A e \in Entities(N) : \A d \in DaysOf(e, N) \ {Max(DaysOf(e, N))} : OnDay(e, d, N).spend <= Final(e, N).spend

\* The day before spent no more, where no entity spent more.
LEMMA BeforeIsNoMore ==
  ASSUME NEW N, SnapsOk(N), NeverMore(N)
  PROVE  SpendOf(YesterdayOf(N)) <= SpendOf(LatestOf(N))
<1>1. PICK L, O, Y : /\ L = LatestOf(N) /\ O = {s \in N : \E t \in LatestOf(N) : t.entity = s.entity /\ 24 * (t.day - s.day) >= 18}
                     /\ Y = LatestOf(O)
  OBVIOUS
<1>2. YesterdayOf(N) = Y
  BY <1>1 DEF YesterdayOf
<1>3. /\ L \in SUBSET N /\ (\A s \in L : s = Final(s.entity, N)) /\ (\A s \in N : Final(s.entity, N) \in L)
      /\ SnapsOk(L) /\ IsFiniteSet(L) /\ \A r, s \in L : r.entity = s.entity => r = s
  BY <1>1, LatestAre
<1>4. O \in SUBSET N /\ SnapsOk(O)
  <2>1. O \in SUBSET N
    BY <1>1
  <2>2. IsFiniteSet(O)
    BY <2>1, FS_Subset DEF SnapsOk
  <2> QED
    BY <2>1, <2>2 DEF SnapsOk
<1>5. Y \in SUBSET O /\ SnapsOk(Y) /\ IsFiniteSet(Y) /\ \A r, s \in Y : r.entity = s.entity => r = s
  <2>1. Y = LatestOf(O)
    BY <1>1
  <2> QED
    BY <1>4, <2>1, LatestAre
<1>6. PICK q, U, f, g, h : /\ q = [y \in Y |-> Final(y.entity, N)] /\ U = {q[y] : y \in Y} /\ f = Spent(N)
                           /\ g = [y \in Y |-> q[y].spend] /\ h = Spent(Y)
  OBVIOUS
<1>7. \A y \in Y : y \in O /\ y \in N /\ q[y] \in L /\ q[y] \in N /\ q[y] = Final(y.entity, N) /\ q[y].entity = y.entity
  <2>1. TAKE y \in Y
  <2>2. y \in O /\ y \in N
    BY <1>4, <1>5
  <2>3. IsFinal(y.entity, N)
    BY <2>2, FinalIs
  <2> QED
    BY <1>3, <1>6, <2>2, <2>3 DEF IsFinal
<1>8. ASSUME NEW y \in Y PROVE y.spend <= q[y].spend
  <2>1. PICK t \in L : t.entity = y.entity /\ 24 * (t.day - y.day) >= 18
    BY <1>1, <1>7
  <2>2. PICK e : e = y.entity
    OBVIOUS
  <2>3. IsFinal(e, N)
    BY <1>7, <2>2, FinalIs
  <2>4. t.day <= Max(DaysOf(e, N)) /\ t.day \in Int /\ y.day \in Int /\ Max(DaysOf(e, N)) \in Int
    BY <1>3, <1>7, <2>1, <2>2, <2>3 DEF IsFinal, SnapsOk
  <2>5. y.day # Max(DaysOf(e, N))
    BY <2>1, <2>4
  <2>6. y.day \in DaysOf(e, N)
    BY <1>7, <2>2 DEF DaysOf
  <2>7. e \in Entities(N)
    BY <1>7, <2>2 DEF Entities
  <2>8. OnDay(e, y.day, N).spend <= Final(e, N).spend
    BY <2>5, <2>6, <2>7 DEF NeverMore
  <2>9. OnDay(e, y.day, N) = y
    <3>1. PICK d : d = y.day
      OBVIOUS
    <3>2. \A s \in N : s.entity = e /\ s.day = d <=> s = y
      BY <1>7, <2>2, <3>1 DEF SnapsOk
    <3>3. OnDay(e, d, N) = CHOOSE s \in N : s.entity = e /\ s.day = d
      BY DEF OnDay
    <3> QED
      BY <1>7, <3>1, <3>2, <3>3
  <2> QED
    BY <1>7, <2>2, <2>8, <2>9
<1>9. \A y \in Y : /\ h[y] = y.spend /\ h[y] \in Int /\ g[y] = q[y].spend /\ g[y] \in Int
                   /\ f[q[y]] = q[y].spend /\ h[y] <= g[y]
  BY <1>6, <1>7, <1>8 DEF Spent, SnapsOk
<1>10. Sum(h, Y) <= Sum(g, Y)
  BY <1>5, <1>9, SumAtMost
<1>11. Maps(q, Y, U)
  <2>1. \A x, y \in Y : q[x] = q[y] => x = y
    BY <1>5, <1>7
  <2> QED
    BY <1>6, <2>1 DEF Maps
<1>12. Sum(g, Y) = Sum(f, U)
  BY <1>5, <1>9, <1>11, SumMapped
<1>13. U \in SUBSET L
  BY <1>6, <1>7
<1>14. Sum(f, U) <= Sum(f, L)
  <2>1. \A s \in L : f[s] \in Nat
    BY <1>3, <1>6 DEF Spent, SnapsOk
  <2> QED
    BY <1>3, <1>13, <2>1, SumPart
<1>15. SpendOf(L) = Sum(f, L)
  BY <1>3, <1>6, SpendIs
<1>16. SpendOf(Y) = Sum(h, Y)
  <2>1. Y \in SUBSET Y
    OBVIOUS
  <2> QED
    BY <1>5, <1>6, <2>1, SpendIs
<1>17. Sum(h, Y) \in Int /\ Sum(g, Y) \in Int /\ Sum(f, L) \in Int
  <2>1. SpendOf(L) \in Nat
    BY <1>3, SpendIs
  <2> QED
    BY <1>5, <1>9, <1>15, <2>1, SumInt
<1> QED
  BY <1>1, <1>2, <1>10, <1>12, <1>14, <1>15, <1>16, <1>17


\* The cards are of different campaigns.
LEMMA ActiveCardsDiffer ==
  ASSUME NEW t, IsList(t.campaigns),
         \A i, j \in DOMAIN t.campaigns : t.campaigns[i].id = t.campaigns[j].id => i = j
  PROVE  OneOfEachId(ActiveCards(t))
<1>1. PICK list, at, active : /\ list = t.campaigns /\ at = {i \in DOMAIN list : list[i].status = "ACTIVE"}
                              /\ active = First(Kept(list, at), CampaignsShown)
  OBVIOUS
<1>2. active = ActiveCards(t)
  BY <1>1 DEF ActiveCards
<1>3. PICK m : m \in Nat /\ DOMAIN list = 1..m
  BY <1>1 DEF IsList
<1>4. IsFiniteSet(at) /\ at \subseteq Nat
  <2>1. PICK T : T = 1..m /\ IsFiniteSet(T)
    BY <1>3, IntervalIs
  <2>2. at \in SUBSET T
    BY <1>1, <1>3, <2>1
  <2>3. IsFiniteSet(at)
    BY <2>1, <2>2, FS_Subset
  <2>4. \A i \in T : i \in Nat
    BY <1>3, <2>1
  <2> QED
    BY <2>2, <2>3, <2>4
<1>5. InOrderOf(active, list, at)
  <2>1. InOrderOf(Kept(list, at), list, at)
    BY <1>4, KeptInOrder
  <2>2. CampaignsShown \in Nat
    BY OverviewAssumption
  <2> QED
    BY <1>1, <2>1, <2>2, FirstInOrder
<1>6. PICK n, p : /\ n \in Nat /\ DOMAIN active = 1..n
                  /\ \A k \in 1..n : p[k] \in at /\ active[k] = list[p[k]]
                  /\ \A j, k \in 1..n : j < k => p[j] < p[k]
  BY <1>5 DEF InOrderOf
<1>7. ASSUME NEW j \in 1..n, NEW k \in 1..n, active[j].id = active[k].id PROVE j = k
  <2>1. p[j] \in DOMAIN list /\ p[k] \in DOMAIN list /\ list[p[j]].id = list[p[k]].id
    BY <1>1, <1>6, <1>7
  <2>2. p[j] = p[k]
    BY <1>1, <2>1
  <2>3. ~(j < k) /\ ~(k < j)
    <3>1. p[j] \in Nat /\ p[k] \in Nat
      BY <1>4, <1>6
    <3> QED
      BY <1>6, <2>2, <3>1
  <2> QED
    BY <1>6, <2>3
<1>8. OneOfEachId(active)
  BY <1>6, <1>7 DEF OneOfEachId
<1> QED
  BY <1>2, <1>8

\* An action that is listed, or an alert, has the name of what it is on, or none.
NamesHold(t, actions, alerts) ==
  /\ \A i \in DOMAIN actions : t.actions[i].type = "CAMPAIGN" /\ t.actions[i].entity \in {c.id : c \in Range(t.campaigns)}
               => actions[i] = t.actions[i].entity
  /\ \A a \in alerts : a.name \in {None, a.alert.entity}

\* Every name shown is that of what the action or the alert is on.
LEMMA NamesAre ==
  ASSUME NEW t, IsList(t.actions), NEW s, s = SummaryOf(t)
  PROVE  NamesHold(t, s.actions, s.alerts)
<1>1. PICK active, recent, names : /\ active = ActiveCards(t) /\ recent = First(t.actions, ActionsShown)
                                   /\ names = NamesKnown(active, recent, t.campaigns)
  OBVIOUS
<1>2. /\ s.actions = [i \in DOMAIN recent |-> NameOf(recent[i], names)]
      /\ s.alerts = {[alert |-> a, name |-> IF a.type = "CAMPAIGN" THEN NameOf(a, names) ELSE None] : a \in t.alerts}
  BY <1>1 DEF SummaryOf
<1>3. PICK list, m : list = t.actions /\ m \in Nat /\ DOMAIN list = 1..m
  BY DEF IsList
<1>4. PICK k \in Nat : k <= m /\ DOMAIN recent = 1..k /\ \A i \in 1..k : recent[i] = list[i]
  <2>1. ActionsShown \in Nat
    BY OverviewAssumption
  <2>2. PICK j \in Nat : j = Smaller(ActionsShown, m) /\ j <= m
    BY <1>3, <2>1 DEF Smaller
  <2>3. Len(list) = m
    BY <1>3, LenIs
  <2>4. recent = [i \in 1..j |-> list[i]]
    BY <1>1, <1>3, <2>2, <2>3 DEF First
  <2>5. DOMAIN recent = 1..j /\ \A i \in 1..j : recent[i] = list[i]
    BY <2>4
  <2> QED
    BY <2>2, <2>5
<1>5. ASSUME NEW i \in DOMAIN s.actions, list[i].type = "CAMPAIGN", NEW c \in Range(t.campaigns), c.id = list[i].entity
      PROVE  s.actions[i] = list[i].entity
  <2>1. i \in DOMAIN recent /\ recent[i] = list[i] /\ s.actions[i] = NameOf(recent[i], names)
    BY <1>2, <1>4
  <2>2. c \in {x \in Range(t.campaigns) : \E j \in DOMAIN recent : recent[j].type = "CAMPAIGN" /\ recent[j].entity = x.id}
    BY <1>5, <2>1
  <2>3. c.id \in names
    BY <1>1, <2>2 DEF NamesKnown
  <2> QED
    BY <1>5, <2>1, <2>3 DEF NameOf
<1>6. ASSUME NEW a \in s.alerts PROVE a.name \in {None, a.alert.entity}
  <2>1. PICK b \in t.alerts : a = [alert |-> b, name |-> IF b.type = "CAMPAIGN" THEN NameOf(b, names) ELSE None]
    BY <1>2
  <2>2. a.alert = b /\ (a.name = NameOf(b, names) \/ a.name = None)
    BY <2>1
  <2> QED
    BY <2>2 DEF NameOf
<1>7. \A i \in DOMAIN s.actions : t.actions[i].type = "CAMPAIGN" /\ t.actions[i].entity \in {c.id : c \in Range(t.campaigns)}
               => s.actions[i] = t.actions[i].entity
  <2>1. TAKE i \in DOMAIN s.actions
  <2>2. HAVE t.actions[i].type = "CAMPAIGN" /\ t.actions[i].entity \in {c.id : c \in Range(t.campaigns)}
  <2>3. PICK c \in Range(t.campaigns) : c.id = t.actions[i].entity
    BY <2>2
  <2> QED
    BY <1>3, <1>5, <2>2, <2>3
<1> QED
  BY <1>6, <1>7 DEF NamesHold

\* Where nothing spends less than on the day before, the trend is not down.
LEMMA TrendIs ==
  ASSUME NEW t, NEW N, N = Shown24(t), SnapsOk(N), NeverMore(N)
  PROVE  SummaryOf(t).spendTrend.of >= 0
<1>1. PICK a, b : a = SpendOf(LatestOf(N)) /\ b = SpendOf(YesterdayOf(N))
  OBVIOUS
<1>2. SummaryOf(t).spendTrend = PctChange([of |-> a, by |-> 1], [of |-> b, by |-> 1])
  <2>1. AggregateKpis(LatestOf(N)).spend = a /\ AggregateKpis(YesterdayOf(N)).spend = b
    BY <1>1 DEF AggregateKpis
  <2> QED
    BY <2>1 DEF SummaryOf
<1>3. a \in Nat /\ b \in Nat /\ b <= a
  <2>1. b <= a
    BY <1>1, BeforeIsNoMore
  <2>2. LatestOf(N) \in SUBSET N
    BY LatestAre
  <2>3. YesterdayOf(N) \in SUBSET N
    BY DEF YesterdayOf, LatestOf
  <2>4. SpendOf(LatestOf(N)) \in Nat /\ SpendOf(YesterdayOf(N)) \in Nat
    BY <2>2, <2>3, SpendIs
  <2> QED
    BY <1>1, <2>1, <2>4
<1>4. PctChange([of |-> a, by |-> 1], [of |-> b, by |-> 1]).of = IF b > 0 THEN 100 * (a * 1 - b * 1) ELSE 0
  BY DEF PctChange
<1>5. (IF b > 0 THEN 100 * (a * 1 - b * 1) ELSE 0) >= 0
  BY <1>3
<1> QED
  BY <1>2, <1>4, <1>5

\* The dashboard is of the newest snapshots.
LEMMA SummaryIsIt == ASSUME SummaryShown PROVE SummaryIsOfTheNewest
<1>1. PICK t : t = tables
  OBVIOUS
<1>2. t.kind = "summary" /\ TablesOk(t) /\ shown = SummaryOf(t)
  BY <1>1 DEF SummaryShown
<1>3. /\ IsFiniteSet(t.snapshots) /\ t.day \in Int
      /\ \A s \in t.snapshots : s.day \in Int /\ s.spend \in Nat /\ s.roas \in Nat
      /\ \A r, s \in t.snapshots : r.entity = s.entity /\ r.day = s.day => r = s
      /\ IsList(t.campaigns) /\ IsList(t.actions)
      /\ \A i, j \in DOMAIN t.campaigns : t.campaigns[i].id = t.campaigns[j].id => i = j
  BY <1>2 DEF TablesOk
<1>4. PICK N, L, E, M : N = Shown24(t) /\ L = LatestOf(N) /\ E = Entities(N) /\ M = Means(N)
  OBVIOUS
<1>5. SnapsOk(N)
  <2>1. N \in SUBSET t.snapshots
    BY <1>4 DEF Shown24
  <2>2. IsFiniteSet(N)
    BY <1>3, <2>1, FS_Subset
  <2> QED
    BY <1>3, <2>1, <2>2 DEF SnapsOk
<1>6. /\ shown.total = SpendOf(L) /\ shown.roas = AggregateKpis(L).roas
      /\ shown.cards = Cards(ActiveCards(t), L)
  <2>1. AggregateKpis(L).spend = SpendOf(L)
    BY DEF AggregateKpis
  <2> QED
    BY <1>2, <1>4, <2>1 DEF SummaryOf
<1>7. shown.total = SumFunction([e \in E |-> Final(e, N).spend])
  BY <1>4, <1>5, <1>6, TotalIs
<1>8. CardsHold(shown.cards, N)
  <2>1. OneOfEachId(ActiveCards(t))
    BY <1>3, ActiveCardsDiffer
  <2> QED
    BY <1>4, <1>5, <1>6, <2>1, CardsAre
<1>9. /\ SumFunction([i \in DOMAIN shown.cards |-> shown.cards[i].spend]) <= shown.total
      /\ \A i \in DOMAIN shown.cards : shown.cards[i].id \in E => shown.cards[i].spend = Final(shown.cards[i].id, N).spend
  BY <1>4, <1>6, <1>8 DEF CardsHold
<1>10. M # {} => shown.roas.by * Min(M) <= shown.roas.of /\ shown.roas.of <= shown.roas.by * Max(M)
  BY <1>4, <1>5, <1>6, MeanIsBetween
<1>11. NeverMore(N) => shown.spendTrend.of >= 0
  BY <1>2, <1>4, <1>5, TrendIs
<1>12. NamesHold(t, shown.actions, shown.alerts)
  BY <1>2, <1>3, NamesAre
<1>13. /\ N = {s \in tables.snapshots : s.day >= tables.day - 3} /\ E = {s.entity : s \in N}
       /\ M = {Final(e, N).roas : e \in E} \ {0}
  BY <1>1, <1>4 DEF Shown24, Entities, Means
<1>14. (\A e \in E : \A d \in DaysOf(e, N) \ {Max(DaysOf(e, N))} : OnDay(e, d, N).spend <= Final(e, N).spend)
         => shown.spendTrend.of >= 0
  BY <1>4, <1>11 DEF NeverMore
<1> QED
  BY <1>1, <1>7, <1>9, <1>10, <1>12, <1>13, <1>14, Zenon DEF SummaryIsOfTheNewest, NamesHold


-----------------------------------------------------------------------------
(* Every page.                                                             *)

\* A page of another kind, or none yet, says nothing of this one.
Unasked(kind) == question.kind # kind \/ answer = None

\* A property of one kind of question holds of every other.
LEMMA OfNoOther ==
  /\ Unasked("run") => ChangesAreJustified /\ NothingIsTightenedBlindly /\ CapKeepsTheLargest /\ BetterIsNotWorse
  /\ Unasked("settings") => ViewIsWhatRunsUse
  /\ Unasked("list") /\ Unasked("overview") => LedgerIsWhole
<1>1. ASSUME NEW kind, Unasked(kind) PROVE ~Answered(kind)
  BY <1>1 DEF Unasked, Answered
<1>2. Unasked("run") => ChangesAreJustified /\ NothingIsTightenedBlindly
  BY <1>1 DEF ChangesAreJustified, NothingIsTightenedBlindly
<1>3. Unasked("run") => CapKeepsTheLargest /\ BetterIsNotWorse
  BY <1>1, Zenon DEF CapKeepsTheLargest, BetterIsNotWorse
<1>4. Unasked("settings") => ViewIsWhatRunsUse
  BY <1>1, Zenon DEF ViewIsWhatRunsUse
<1>5. Unasked("list") /\ Unasked("overview") => LedgerIsWhole
  BY <1>1, Zenon DEF LedgerIsWhole
<1> QED
  BY <1>2, <1>3, <1>4, <1>5

\* What the tuner answered is what it computes of the question.
TunerAnswered ==
  \/ answer = None
  \/ RunAnswered \/ SettingsAnswered
  \/ \E taken : ListAnswered(taken) \/ OverviewAnswered(taken)

\* Whatever the tuner computes of a question is justified by it.
LEMMA AnswersAreJustified == ASSUME TunerAnswered PROVE TuningIsJustified
<1>1. CASE answer = None
  BY <1>1, OfNoOther DEF Unasked, TuningIsJustified
<1>2. CASE RunAnswered
  <2>1. question.kind = "run"
    BY <1>2 DEF RunAnswered
  <2>2. Unasked("settings") /\ Unasked("list") /\ Unasked("overview")
    BY <2>1 DEF Unasked
  <2> QED
    BY <1>2, <2>2, OfNoOther, RunIsJustified, RunIsNotBlind, RunKeepsTheCap, RunJudgesBetter DEF TuningIsJustified
<1>3. CASE SettingsAnswered
  <2>1. question.kind = "settings"
    BY <1>3 DEF SettingsAnswered
  <2>2. Unasked("run") /\ Unasked("list") /\ Unasked("overview")
    BY <2>1 DEF Unasked
  <2> QED
    BY <1>3, <2>2, OfNoOther, ViewIsUsed DEF TuningIsJustified
<1>4. CASE \E taken : ListAnswered(taken) \/ OverviewAnswered(taken)
  <2>1. PICK taken : ListAnswered(taken) \/ OverviewAnswered(taken)
    BY <1>4
  <2>2. question.kind \in {"list", "overview"}
    BY <2>1 DEF ListAnswered, OverviewAnswered
  <2>3. Unasked("run") /\ Unasked("settings")
    BY <2>2 DEF Unasked
  <2>4. LedgerIsWhole
    BY <2>1, ListIsWhole, OverviewIsWhole
  <2> QED
    BY <2>3, <2>4, OfNoOther DEF TuningIsJustified
<1> QED
  BY <1>1, <1>2, <1>3, <1>4 DEF TunerAnswered

Unshown(kind) == tables.kind # kind \/ shown = None

\* A property of one page holds while another is shown.
LEMMA OfNoOtherPage ==
  /\ Unshown("summary") => SummaryIsOfTheNewest
  /\ Unshown("intelligence") => StripIsTheTop
  /\ Unshown("readiness") => ReadyIsSafe
  /\ Unshown("activation") => ChecklistIsTrue
  /\ Unshown("ingestion") => FreshnessIsTrue
<1>1. ASSUME NEW kind, Unshown(kind) PROVE ~IsShown(kind)
  BY <1>1 DEF Unshown, IsShown
<1>2. Unshown("summary") => SummaryIsOfTheNewest
  BY <1>1, Zenon DEF SummaryIsOfTheNewest
<1>3. Unshown("intelligence") => StripIsTheTop
  BY <1>1, Zenon DEF StripIsTheTop
<1>4. Unshown("readiness") => ReadyIsSafe
  BY <1>1, Zenon DEF ReadyIsSafe
<1>5. Unshown("activation") => ChecklistIsTrue
  BY <1>1, Zenon DEF ChecklistIsTrue
<1>6. Unshown("ingestion") => FreshnessIsTrue
  BY <1>1, Zenon DEF FreshnessIsTrue
<1> QED
  BY <1>2, <1>3, <1>4, <1>5, <1>6

\* What a page shows is what it computes of the tables.
PageShown ==
  \/ shown = None
  \/ SummaryShown \/ ReportShown \/ LabShown \/ IngestionShown
  \/ \E taken : StripShown(taken)
PagesHold == SummaryIsOfTheNewest /\ StripIsTheTop /\ ReadyIsSafe /\ ChecklistIsTrue /\ FreshnessIsTrue

\* Whatever page is computed of the tables is true of them.
LEMMA PagesAreTrue == ASSUME PageShown PROVE PagesHold
<1>1. CASE shown = None
  BY <1>1, OfNoOtherPage DEF Unshown, PagesHold
<1>2. CASE SummaryShown
  <2>1. tables.kind = "summary"
    BY <1>2 DEF SummaryShown
  <2>2. Unshown("intelligence") /\ Unshown("readiness") /\ Unshown("activation") /\ Unshown("ingestion")
    BY <2>1 DEF Unshown
  <2> QED
    BY <1>2, <2>2, OfNoOtherPage, SummaryIsIt DEF PagesHold
<1>3. CASE ReportShown
  <2>1. tables.kind = "readiness"
    BY <1>3 DEF ReportShown
  <2>2. Unshown("summary") /\ Unshown("intelligence") /\ Unshown("activation") /\ Unshown("ingestion")
    BY <2>1 DEF Unshown
  <2> QED
    BY <1>3, <2>2, OfNoOtherPage, ReportIsSafe DEF PagesHold
<1>4. CASE LabShown
  <2>1. tables.kind = "activation"
    BY <1>4 DEF LabShown
  <2>2. Unshown("summary") /\ Unshown("intelligence") /\ Unshown("readiness") /\ Unshown("ingestion")
    BY <2>1 DEF Unshown
  <2> QED
    BY <1>4, <2>2, OfNoOtherPage, LabIsTrue DEF PagesHold
<1>5. CASE IngestionShown
  <2>1. tables.kind = "ingestion"
    BY <1>5 DEF IngestionShown
  <2>2. Unshown("summary") /\ Unshown("intelligence") /\ Unshown("readiness") /\ Unshown("activation")
    BY <2>1 DEF Unshown
  <2> QED
    BY <1>5, <2>2, OfNoOtherPage, IngestionIsTrue DEF PagesHold
<1>6. CASE \E taken : StripShown(taken)
  <2>1. tables.kind = "intelligence" /\ StripIsTheTop
    BY <1>6, StripIsIt DEF StripShown
  <2>2. Unshown("summary") /\ Unshown("readiness") /\ Unshown("activation") /\ Unshown("ingestion")
    BY <2>1 DEF Unshown
  <2> QED
    BY <2>1, <2>2, OfNoOtherPage DEF PagesHold
<1> QED
  BY <1>1, <1>2, <1>3, <1>4, <1>5, <1>6 DEF PageShown

PagesInv ==
  /\ question \in TunerQuestions /\ TunerAnswered
  /\ tables \in OverviewTables /\ PageShown

\* A question is answered by what is computed of it.
LEMMA AnswerKept ==
  ASSUME question \in TunerQuestions, PerformanceNext PROVE question' = question /\ TunerAnswered'
<1>1. QuestionOk(question)
  BY RulePerformanceAssumption
<1>2. CASE RunTuner
  <2>1. question' = question /\ question.kind = "run" /\ answer' = RunResult(question)
    BY <1>2 DEF RunTuner
  <2>2. RunAnswered'
    BY <1>1, <2>1 DEF RunAnswered, QuestionOk
  <2> QED
    BY <2>1, <2>2 DEF TunerAnswered
<1>3. CASE AskSettings
  <2>1. question' = question /\ SettingsAnswered'
    BY <1>3 DEF AskSettings, SettingsAnswered
  <2> QED
    BY <2>1 DEF TunerAnswered
<1>4. CASE ListRuns
  <2>1. PICK taken : /\ question' = question /\ question.kind = "list"
                     /\ taken \in Newest(question.rows, CappedLimit(question) * RowsPerRun)
                     /\ answer' = [runs |-> First(GroupLogsIntoRuns(taken), CappedLimit(question))]
    BY <1>4 DEF ListRuns
  <2>2. ListAnswered(taken)'
    BY <1>1, <2>1 DEF ListAnswered, QuestionOk
  <2> QED
    BY <2>1, <2>2 DEF TunerAnswered
<1>5. CASE GetObservability
  <2>1. PICK taken : /\ question' = question /\ question.kind = "overview"
                     /\ taken \in Newest(question.rows, RowsRead) /\ answer' = Observed(question, taken)
    BY <1>5 DEF GetObservability
  <2>2. OverviewAnswered(taken)'
    BY <1>1, <2>1 DEF OverviewAnswered, QuestionOk
  <2> QED
    BY <2>1, <2>2 DEF TunerAnswered
<1> QED
  BY <1>2, <1>3, <1>4, <1>5 DEF PerformanceNext

\* A page shows what is computed of the tables.
LEMMA PageKept ==
  ASSUME tables \in OverviewTables, OverviewNext PROVE tables' = tables /\ PageShown'
<1>1. TablesOk(tables)
  BY OverviewAssumption
<1>2. CASE GetSummary
  <2>1. tables' = tables /\ SummaryShown'
    BY <1>1, <1>2 DEF GetSummary, SummaryShown
  <2> QED
    BY <2>1 DEF PageShown
<1>3. CASE GetIntelligenceForOrg
  <2>1. PICK taken : /\ tables' = tables /\ tables.kind = "intelligence"
                     /\ taken \in Newest(tables.ledger.rows, RowsRead) /\ shown' = StripOf(tables, taken)
    BY <1>3 DEF GetIntelligenceForOrg
  <2>2. StripShown(taken)'
    BY <1>1, <2>1 DEF StripShown
  <2> QED
    BY <2>1, <2>2 DEF PageShown
<1>4. CASE GetReadiness
  <2>1. tables' = tables /\ ReportShown'
    BY <1>1, <1>4 DEF GetReadiness, ReportShown
  <2> QED
    BY <2>1 DEF PageShown
<1>5. CASE GetStatus
  <2>1. tables' = tables /\ LabShown'
    BY <1>1, <1>5 DEF GetStatus, LabShown
  <2> QED
    BY <2>1 DEF PageShown
<1>6. CASE GetIngestionObservability
  <2>1. tables' = tables /\ IngestionShown'
    BY <1>1, <1>6 DEF GetIngestionObservability, IngestionShown
  <2> QED
    BY <2>1 DEF PageShown
<1> QED
  BY <1>2, <1>3, <1>4, <1>5, <1>6 DEF OverviewNext

\* A question leaves the page, and a page the answer, as it is.
LEMMA PagesInvInductive ==
  ASSUME PagesInv, [\/ PerformanceNext /\ UNCHANGED overviewVars
                    \/ OverviewNext /\ UNCHANGED performanceVars]_<<performanceVars, overviewVars>>
  PROVE  PagesInv'
<1>1. CASE PerformanceNext /\ UNCHANGED overviewVars
  <2>1. question' = question /\ TunerAnswered'
    BY <1>1, AnswerKept DEF PagesInv
  <2>2. tables' = tables /\ shown' = shown
    BY <1>1 DEF overviewVars
  <2>3. PageShown'
    BY <2>2 DEF PagesInv, PageShown, SummaryShown, ReportShown, LabShown, IngestionShown, StripShown
  <2> QED
    BY <2>1, <2>2, <2>3 DEF PagesInv
<1>2. CASE OverviewNext /\ UNCHANGED performanceVars
  <2>1. tables' = tables /\ PageShown'
    BY <1>2, PageKept DEF PagesInv
  <2>2. question' = question /\ answer' = answer
    BY <1>2 DEF performanceVars
  <2>3. TunerAnswered'
    BY <2>2 DEF PagesInv, TunerAnswered, RunAnswered, SettingsAnswered, ListAnswered, OverviewAnswered
  <2> QED
    BY <2>1, <2>2, <2>3 DEF PagesInv
<1>3. CASE UNCHANGED <<performanceVars, overviewVars>>
  <2>1. question' = question /\ answer' = answer /\ tables' = tables /\ shown' = shown
    BY <1>3 DEF performanceVars, overviewVars
  <2>2. TunerAnswered'
    BY <2>1 DEF PagesInv, TunerAnswered, RunAnswered, SettingsAnswered, ListAnswered, OverviewAnswered
  <2>3. PageShown'
    BY <2>1 DEF PagesInv, PageShown, SummaryShown, ReportShown, LabShown, IngestionShown, StripShown
  <2> QED
    BY <2>1, <2>2, <2>3 DEF PagesInv
<1> QED
  BY <1>1, <1>2, <1>3

\* Whatever page is asked for, of whatever tables: what it shows, and what the tuner answers
\* and changes, is what the tables hold.
THEOREM WhatIsShownCorrect == PagesSpec => []WhatIsShownHolds
<1>1. PerformanceInit /\ OverviewInit => PagesInv
  BY DEF PerformanceInit, OverviewInit, PagesInv, TunerAnswered, PageShown
<1>2. PagesInv /\ [\/ PerformanceNext /\ UNCHANGED overviewVars
                   \/ OverviewNext /\ UNCHANGED performanceVars]_<<performanceVars, overviewVars>> => PagesInv'
  BY PagesInvInductive
<1>3. PagesInv => WhatIsShownHolds
  BY AnswersAreJustified, PagesAreTrue DEF PagesInv, WhatIsShownHolds, PagesHold
<1> QED
  BY <1>1, <1>2, <1>3, PTL DEF PagesSpec


=============================================================================
