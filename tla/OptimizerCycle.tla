--------------------------- MODULE OptimizerCycle ---------------------------
(***************************************************************************)
(* The optimizer of one organization (apps/api/src/optimizer).  A cycle,   *)
(* started by the hourly cron or by an admin, loads the campaigns and ad   *)
(* sets, proposes the actions whose rules fire, passes them through the    *)
(* guardrails in rule priority, and executes the approved ones: a pending  *)
(* suggestion, or a call to the ad platform followed by the update of our  *)
(* row, the action log and the cooldown.  Nothing keeps two cycles of an   *)
(* organization apart, and users switch modes and phases, approve and      *)
(* reject meanwhile.                                                       *)
(***************************************************************************)
EXTENDS Integers, FiniteSets

CONSTANTS
  Campaigns, AdSets,
  Parent,        \* the campaign of each ad set
  Cycles,        \* cycles the cron or an admin may start
  Rules,         \* the enabled rules: [prio, type, delta, target]
  Capabilities,  \* what the provider of each campaign supports
  Budget0,       \* every campaign's daily budget at first, in cents
  Unit,          \* the smallest amount of the currency: 1 cent, or 100
  MaxIncrease, MaxDecrease,   \* optimizer.max_budget_{in,de}crease_pct
  Swing,         \* ABRUPT_SWING_THRESHOLD_PCT
  Window,        \* optimizer.cooldown_hours, in units of the model's clock
  MaxTime,       \* bound on the clock
  Edits,         \* bound on the edits of modes and phases
  Reviews,       \* do admins approve and reject?
  None,
  Overlap,       \* may cycles overlap?
  MayFail,       \* may the platform refuse a call?
  LostAnswers,   \* may it carry out a call whose answer is lost?
  RedisFails,    \* may Redis calls throw, and Redis lose its keys?
  Faults         \* may database calls throw, and processes crash?

Entities == Campaigns \cup AdSets
BudgetTypes == {"INCREASE_BUDGET", "DECREASE_BUDGET"}
ActionTypes == BudgetTypes \cup
  {"SWITCH_BIDDING_STRATEGY", "ADJUST_BID_CEILING", "ADJUST_BID_FLOOR"}
Abilities == {"cbo", "bidFloor", "bidCeiling", "roasGoal", "cpaGoal"}

ASSUME OptimizerAssumption ==
  /\ Campaigns \cap AdSets = {} /\ None \notin Cycles \cup Nat
  /\ Parent \in [AdSets -> Campaigns]
  /\ Rules \subseteq [prio : Nat, type : ActionTypes, delta : Int,
                      target : {"TARGET_ROAS", "TARGET_CPA", "other"}]
  /\ Capabilities \in [Campaigns -> SUBSET Abilities]
  /\ {Budget0, MaxIncrease, MaxDecrease, Swing, Window, MaxTime, Edits} \subseteq Nat
  /\ Swing <= 100
  /\ Unit \in {1, 100} /\ Budget0 % Unit = 0
  /\ {Reviews, Overlap, MayFail, LostAnswers, RedisFails, Faults} \subseteq BOOLEAN

VARIABLES
  mode, phase,   \* optimizerMode of each entity, campaignPhase of each campaign
  budget,        \* campaigns.dailyBudget in our database
  remote,        \* the daily budget at the platform
  changes,       \* what the platform was made to change, in order
  cyc,           \* the cycles
  log,           \* optimizer_actions: the status of each action, by cycle, entity, rule
  review,        \* pending actions an approveAction has read and not yet written
  pg, redis,     \* when the cooldown of an entity and action type ends; 0 if none
  now, edits     \* the clock; the edits made

users    == <<mode, phase, edits>>
platform == <<remote, changes>>
cooldown == <<pg, redis>>
vars     == <<users, budget, platform, cyc, log, review, cooldown, now>>

Modes  == {"OFF", "SUGGEST_ONLY", "AUTO_APPLY"}
Phases == {"LEARNING", "STABLE", "DEGRADED"}   \* SCALING is handled as STABLE
Ids    == Cycles \X Entities \X Rules

Idle   == [pc |-> "idle", queue |-> {}, plan |-> {}, seen |-> {}, cur |-> None, status |-> None]
Done   == [Idle EXCEPT !.pc = "done"]
Failed == [Idle EXCEPT !.pc = "failed"]
Ended  == {"done", "failed", "torn"}

Init ==
  /\ mode \in [Entities -> {"SUGGEST_ONLY", "AUTO_APPLY"}]
  /\ phase \in [Campaigns -> {"STABLE", "DEGRADED"}]
  /\ budget = [e \in Campaigns |-> Budget0] /\ remote = budget
  /\ changes = {}
  /\ cyc = [c \in Cycles |-> Idle]
  /\ log = [i \in Ids |-> "none"]
  /\ review = {}
  /\ pg = [k \in Entities \X ActionTypes |-> 0] /\ redis = pg
  /\ now = 1 /\ edits = 0

-----------------------------------------------------------------------------
(* Evaluation                                                              *)

Owner(e) == IF e \in AdSets THEN Parent[e] ELSE e

\* applyDelta: base * (1 + pct/100), rounded to the cent, or to the whole unit
\* of a currency without decimals (JPY, KRW, IDR).
ApplyDelta(base, pct) == Unit * ((base * (100 + pct) + 50 * Unit) \div (100 * Unit))

\* The rows a cycle loads.  (An entity that is not ACTIVE, or has
\* optimizerEnabled off, is loaded no more than one that is OFF.)
Eligible(e) == mode[e] # "OFF" /\ phase[Owner(e)] # "LEARNING"

\* What a rule that fires proposes: budget rules only where a baseline is
\* loaded, which is never the case for an ad set; the other handlers propose
\* no value.
Proposal(e, r) ==
  [entity |-> e, rule |-> r, delta |-> r.delta,
   current |-> IF r.type \in BudgetTypes THEN budget[e] ELSE None,
   value |-> IF r.type \in BudgetTypes THEN ApplyDelta(budget[e], r.delta) ELSE None]
Proposals ==
  {Proposal(x[1], x[2]) : x \in {y \in Entities \X Rules :
     Eligible(y[1]) /\ (y[2].type \in BudgetTypes => y[1] \in Campaigns)}}

\* runCycleForOrg up to the guardrails: which rules fire is up to the metrics.
Start(c) ==
  /\ cyc[c].pc = "idle"
  /\ Overlap \/ \A d \in Cycles : cyc[d].pc \in {"idle"} \cup Ended
  /\ \E q \in SUBSET Proposals : cyc' = [cyc EXCEPT ![c].pc = "guard", ![c].queue = q]
  /\ UNCHANGED <<users, budget, platform, log, review, cooldown, now>>

\* The actions of a list that come first by rule priority.
First(s) == {x \in s : \A y \in s : x.rule.prio <= y.rule.prio}

-----------------------------------------------------------------------------
(* Guardrails                                                              *)

Key(x) == <<x.entity, x.rule.type>>
Major(x) == x.rule.type \in BudgetTypes

OnCooldown(k) == redis[k] > now \/ pg[k] > now

\* Postgres knows a cooldown that Redis has lost.
Forgotten(k) == redis[k] <= now /\ pg[k] > now

\* checkCapability (G0): what the provider must support.
Needed(x) ==
  CASE x.rule.type = "ADJUST_BID_FLOOR" -> {"bidFloor"}
    [] x.rule.type = "ADJUST_BID_CEILING" -> {"bidCeiling"}
    [] Major(x) /\ x.entity \in Campaigns -> {"cbo"}
    [] x.rule.type = "SWITCH_BIDDING_STRATEGY" /\ x.rule.target = "TARGET_ROAS" -> {"roasGoal"}
    [] x.rule.type = "SWITCH_BIDDING_STRATEGY" /\ x.rule.target = "TARGET_CPA" -> {"cpaGoal"}
    [] OTHER -> {}
Capable(x) == Needed(x) \subseteq Capabilities[Owner(x.entity)]

\* G3: one major budget action per entity and cycle.
SpentNever(c, x) == FALSE   \* mutant: the set is never consulted
Spent(c, x) == Major(x) /\ x.entity \in cyc[c].seen

Magnitude(d) == IF d < 0 THEN -d ELSE d

\* G4: no abrupt swings.
Abrupt(x) == Magnitude(x.delta) > Swing

\* G2: the delta is clamped, and the value computed anew.
Clamp(x) ==
  LET capped(d) == [x EXCEPT !.delta = d, !.value = ApplyDelta(x.current, d)]
  IN  CASE x.rule.type = "INCREASE_BUDGET" /\ x.delta > MaxIncrease -> capped(MaxIncrease)
        [] x.rule.type = "DECREASE_BUDGET" /\ Magnitude(x.delta) > MaxDecrease -> capped(-MaxDecrease)
        [] OTHER -> x

\* validate, one action at a time: each asks for its cooldown, first Redis,
\* then Postgres.
Guard(c) ==
  /\ cyc[c].pc = "guard"
  /\ \E x \in First(cyc[c].queue) :
       /\ ~(Capable(x) /\ Forgotten(Key(x)))
       /\ IF ~Capable(x) \/ OnCooldown(Key(x)) \/ Spent(c, x) \/ Abrupt(x)
          THEN cyc' = [cyc EXCEPT ![c].queue = cyc[c].queue \ {x}]
          ELSE cyc' = [cyc EXCEPT ![c].queue = cyc[c].queue \ {x}, ![c].plan = cyc[c].plan \cup {Clamp(x)},
                         ![c].seen = IF Major(x) THEN cyc[c].seen \cup {x.entity} ELSE cyc[c].seen]
  /\ UNCHANGED <<users, budget, platform, log, review, cooldown, now>>

\* isOnCooldown finds in Postgres what Redis has lost: the action is skipped,
\* and the time that is left is about to be put back into Redis ...
Recall(c) ==
  /\ cyc[c].pc = "guard"
  /\ \E x \in First(cyc[c].queue) :
       /\ Capable(x) /\ Forgotten(Key(x))
       /\ cyc' = [cyc EXCEPT ![c].pc = "warm", ![c].queue = cyc[c].queue \ {x},
                            ![c].cur = [key |-> Key(x), ttl |-> pg[Key(x)] - now]]
  /\ UNCHANGED <<users, budget, platform, log, review, cooldown, now>>

\* ... where it counts from the moment Redis gets it.
Warm(c) ==
  /\ cyc[c].pc = "warm"
  /\ redis' = [redis EXCEPT ![cyc[c].cur.key] = now + cyc[c].cur.ttl]
  /\ cyc' = [cyc EXCEPT ![c].pc = "guard"]
  /\ UNCHANGED <<users, budget, platform, log, review, pg, now>>

\* All of them are validated before the first is executed.
Validated(c) ==
  /\ cyc[c].pc = "guard" /\ cyc[c].queue = {}
  /\ cyc' = [cyc EXCEPT ![c].pc = "act"]
  /\ UNCHANGED <<users, budget, platform, log, review, cooldown, now>>

-----------------------------------------------------------------------------
(* Execution                                                               *)

\* getEntityMode: a campaign that is learning or degraded only gets
\* suggestions; an ad set goes by its own mode alone.
EntityMode(e) ==
  IF e \in Campaigns /\ phase[e] \in {"LEARNING", "DEGRADED"}
  THEN "SUGGEST_ONLY" ELSE mode[e]

LogId(c, x) == <<c, x.entity, x.rule>>
\* mutant: logging is left to the catch block
RecordFailures(c, x, s) == log' = IF s = "APPLIED" THEN log ELSE [log EXCEPT ![LogId(c, x)] = s]
Record(c, x, s) == log' = [log EXCEPT ![LogId(c, x)] = s]

\* execute in SUGGEST_ONLY mode: a PENDING action, and nothing else.
Suggest(c) ==
  /\ cyc[c].pc = "act"
  /\ \E x \in First(cyc[c].plan) :
       /\ EntityMode(x.entity) = "SUGGEST_ONLY"
       /\ Record(c, x, "PENDING")
       /\ cyc' = [cyc EXCEPT ![c].plan = cyc[c].plan \ {x}]
  /\ UNCHANGED <<users, budget, platform, review, cooldown, now>>

\* execute in any other mode, up to the provider call.
Apply(c) ==
  /\ cyc[c].pc = "act"
  /\ \E x \in First(cyc[c].plan) :
       /\ EntityMode(x.entity) # "SUGGEST_ONLY"
       /\ cyc' = [cyc EXCEPT ![c].pc = "call", ![c].plan = cyc[c].plan \ {x}, ![c].cur = x]
  /\ UNCHANGED <<users, budget, platform, log, review, cooldown, now>>

\* What a call makes the platform change: a budget, a bidding strategy, but
\* nothing for a bid limit without a value, which the adapters answer with
\* success all the same.
Writes(x) == Major(x) \/ x.rule.type = "SWITCH_BIDDING_STRATEGY"
Change(c, x) ==
  [by |-> c, entity |-> x.entity, rule |-> x.rule, at |-> now, n |-> Cardinality(changes),
   from |-> IF Major(x) THEN remote[x.entity] ELSE None, to |-> x.value]
Carry(c, x) ==
  IF Writes(x)
  THEN /\ changes' = changes \cup {Change(c, x)}
       /\ remote' = IF Major(x) THEN [remote EXCEPT ![x.entity] = x.value] ELSE remote
  ELSE UNCHANGED platform

\* Where a provider result leads: our row is updated after a success only.
AfterCallAlways(ok) == [pc |-> "store", status |-> None]   \* mutant: success is not looked at
AfterCallPending(ok) == IF ok THEN [pc |-> "store", status |-> None]   \* mutant: status not set
                              ELSE [pc |-> "log", status |-> "PENDING"]
AfterCall(ok) == IF ok THEN [pc |-> "store", status |-> None]
                       ELSE [pc |-> "log", status |-> "FAILED"]

\* callProvider.
Call(c) ==
  /\ cyc[c].pc = "call"
  /\ \/ /\ Carry(c, cyc[c].cur)
        /\ cyc' = [cyc EXCEPT ![c].pc = AfterCall(TRUE).pc, ![c].status = AfterCall(TRUE).status]
     \/ /\ \/ MayFail /\ UNCHANGED platform
           \/ LostAnswers /\ Carry(c, cyc[c].cur)
        /\ cyc' = [cyc EXCEPT ![c].pc = AfterCall(FALSE).pc, ![c].status = AfterCall(FALSE).status]
  /\ UNCHANGED <<users, budget, log, review, cooldown, now>>

\* updateEntityInDb, then captureEntityState: if either throws, the action
\* counts as failed.
Stored(x) == IF Major(x) THEN [budget EXCEPT ![x.entity] = x.value] ELSE budget
Store(c) ==
  /\ cyc[c].pc = "store"
  /\ \/ /\ budget' = Stored(cyc[c].cur)
        /\ cyc' = [cyc EXCEPT ![c].pc = "log", ![c].status = "APPLIED"]
     \/ /\ Faults
        /\ UNCHANGED budget \/ budget' = Stored(cyc[c].cur)
        /\ cyc' = [cyc EXCEPT ![c].pc = "log", ![c].status = "FAILED"]
  /\ UNCHANGED <<users, platform, log, review, cooldown, now>>

\* The finally block logs the action; only an applied one gets a cooldown.
AfterLogStops(s) == IF s = "APPLIED" THEN "cool" ELSE "done"   \* mutant: a failure ends the cycle
AfterLogCools(s) == "cool"                                     \* mutant: failures cool down too
AfterLog(s) == IF s = "APPLIED" THEN "cool" ELSE "act"

Log(c) ==
  /\ cyc[c].pc = "log"
  /\ Record(c, cyc[c].cur, cyc[c].status)
  /\ cyc' = [cyc EXCEPT ![c].pc = AfterLog(cyc[c].status)]
  /\ UNCHANGED <<users, budget, platform, review, cooldown, now>>

\* registerCooldown: Postgres holds when the cooldown ends ...
Expiry == now + Window
CoolRedisOnly(c) ==   \* mutant: the cooldown never reaches Postgres
  /\ cyc[c].pc = "cool"
  /\ cyc' = [cyc EXCEPT ![c].pc = "cache"]
  /\ UNCHANGED <<users, budget, platform, log, review, cooldown, now>>
Cool(c) ==
  /\ cyc[c].pc = "cool"
  /\ pg' = [pg EXCEPT ![Key(cyc[c].cur)] = Expiry]
  /\ cyc' = [cyc EXCEPT ![c].pc = "cache"]
  /\ UNCHANGED <<users, budget, platform, log, review, redis, now>>

\* ... and Redis, in a write of its own, for how long it lasts.
Cache(c) ==
  /\ cyc[c].pc = "cache"
  /\ redis' = [redis EXCEPT ![Key(cyc[c].cur)] = Expiry]
  /\ cyc' = [cyc EXCEPT ![c].pc = "act"]
  /\ UNCHANGED <<users, budget, platform, log, review, pg, now>>

Finish(c) ==
  /\ cyc[c].pc = "act" /\ cyc[c].plan = {}
  /\ cyc' = [cyc EXCEPT ![c] = Done]
  /\ UNCHANGED <<users, budget, platform, log, review, cooldown, now>>

-----------------------------------------------------------------------------
(* Users                                                                   *)

\* updateOptimizerSettings of a campaign or an ad set, setPhase of a campaign.
Edit ==
  /\ edits < Edits /\ edits' = edits + 1
  /\ \/ \E e \in Entities, m \in Modes : mode' = [mode EXCEPT ![e] = m] /\ UNCHANGED phase
     \/ \E e \in Campaigns, p \in Phases : phase' = [phase EXCEPT ![e] = p] /\ UNCHANGED mode
  /\ UNCHANGED <<budget, platform, cyc, log, review, cooldown, now>>

\* approveAction reads the action and checks that it is PENDING ...
ReadForApproval(i) ==
  /\ Reviews
  /\ log[i] = "PENDING"
  /\ review' = review \cup {i}
  /\ UNCHANGED <<users, budget, platform, cyc, log, cooldown, now>>

\* ... and later writes APPLIED; the platform is not called.
WriteApproval(i) ==
  /\ i \in review
  /\ review' = review \ {i}
  /\ log' = [log EXCEPT ![i] = "APPLIED"]
  /\ UNCHANGED <<users, budget, platform, cyc, cooldown, now>>

\* rejectAction writes SKIPPED over whatever status there is.
Reject(i) ==
  /\ Reviews
  /\ log[i] # "none"
  /\ log' = [log EXCEPT ![i] = "SKIPPED"]
  /\ UNCHANGED <<users, budget, platform, cyc, review, cooldown, now>>

-----------------------------------------------------------------------------
(* Environment                                                             *)

Tick ==
  /\ now < MaxTime
  /\ now' = now + 1
  /\ UNCHANGED <<users, budget, platform, cyc, log, review, cooldown>>

\* What is left of a cycle that breaks off.  Between a call and its cooldown
\* it leaves its action torn, which is noted.
Broken(r) == IF r.pc \in {"store", "log", "cool"}
             THEN [Idle EXCEPT !.pc = "torn", !.cur = r.cur] ELSE Failed

\* A database or Redis call throws outside the try block: the rest of the
\* cycle is dropped.  The audit row comes after the one in the action log.
Throw(c) ==
  /\ \/ Faults /\ cyc[c].pc \in {"guard", "act", "log", "cool"}
     \/ RedisFails /\ cyc[c].pc \in {"guard", "warm", "cache"}
  /\ \/ UNCHANGED log
     \/ cyc[c].pc = "log" /\ Record(c, cyc[c].cur, cyc[c].status)
  /\ cyc' = [cyc EXCEPT ![c] = Broken(cyc[c])]
  /\ UNCHANGED <<users, budget, platform, review, cooldown, now>>

\* The API process dies and restarts.
Crash ==
  /\ Faults
  /\ \E c \in Cycles : cyc[c].pc \notin {"idle"} \cup Ended
  /\ cyc' = [c \in Cycles |-> IF cyc[c].pc \in {"idle"} \cup Ended THEN cyc[c] ELSE Broken(cyc[c])]
  /\ review' = {}
  /\ UNCHANGED <<users, budget, platform, log, cooldown, now>>

\* Redis restarts empty.
RedisLost ==
  /\ RedisFails
  /\ redis' = [k \in DOMAIN redis |-> 0]
  /\ UNCHANGED <<users, budget, platform, cyc, log, review, pg, now>>

Step(c) ==
  \/ Guard(c) \/ Recall(c) \/ Warm(c) \/ Validated(c) \/ Suggest(c) \/ Apply(c)
  \/ Call(c) \/ Store(c) \/ Log(c) \/ Cool(c) \/ Cache(c) \/ Finish(c)

Next ==
  \/ \E c \in Cycles : Start(c) \/ Step(c) \/ Throw(c)
  \/ \E i \in Ids : ReadForApproval(i) \/ WriteApproval(i) \/ Reject(i)
  \/ Edit \/ Tick \/ Crash \/ RedisLost

Spec == Init /\ [][Next]_vars

\* Every await of a cycle settles: the platform answers or the 15 s limit of
\* shared/http-json.ts does.
FairSpec == Spec /\ \A c \in Cycles : WF_vars(Step(c))

-----------------------------------------------------------------------------
(* Properties                                                              *)

Running(c) == cyc[c].pc \notin {"idle"} \cup Ended

\* Every variable stays in its domain.
TypeOK ==
  /\ mode \in [Entities -> Modes] /\ phase \in [Campaigns -> Phases]
  /\ budget \in [Campaigns -> Nat] /\ remote \in [Campaigns -> Nat]
  /\ log \in [Ids -> {"none", "PENDING", "APPLIED", "FAILED", "SKIPPED"}]
  /\ review \subseteq Ids
  /\ pg \in [Entities \X ActionTypes -> Nat] /\ redis \in [Entities \X ActionTypes -> Nat]
  /\ \A c \in Cycles : cyc[c].status \in {None, "APPLIED", "FAILED"}

\* What the action log says of a change, or is about to say.
Word(z) ==
  LET l == log[z.by, z.entity, z.rule]
  IN  IF l = "none" /\ cyc[z.by].pc = "log" THEN cyc[z.by].status ELSE l

\* A change whose cycle broke off before its cooldown was registered.
Torn(z) ==
  /\ cyc[z.by].pc = "torn"
  /\ z.entity = cyc[z.by].cur.entity /\ z.rule = cyc[z.by].cur.rule

\* A change that went through: neither lost, nor failed, nor torn.
Vouched(z) == Word(z) = "APPLIED" /\ ~Torn(z)

\* "Cooldown ... after intervention": a change that went through is followed
\* by none of its kind on its entity within a cooldown, whatever Redis loses
\* or refuses.
OneChangePerCooldown ==
  \A x, y \in changes :
    (x.n < y.n /\ x.entity = y.entity /\ x.rule.type = y.rule.type /\ Vouched(x))
      => y.at - x.at >= Window

\* "Never exceed +30% budget increase in 24h" (src/ai/brain.md:163), but for
\* the rounding of an amount, as long as the changes of the budget went through.
RaiseBounded ==
  \A x, y \in {z \in changes : z.from # None} :
    (/\ x.entity = y.entity /\ x.n <= y.n /\ y.at - x.at < Window
     /\ \A z \in changes : z.from # None /\ z.entity = x.entity /\ z.n < y.n => Vouched(z))
      => 100 * y.to <= (100 + MaxIncrease) * x.from + 50 * Unit

\* "No more than one major budget action per cycle" and entity
\* (src/ai/brain.md:185).
OneBudgetActionPerCycle ==
  \A x, y \in {z \in changes : z.from # None} :
    (x.by = y.by /\ x.entity = y.entity) => x = y

\* Both limits of what cycles that take turns do to a budget (guardrail.service.ts 94-130,
\* optimizer.service.ts 96-118).
CycleIsModest == RaiseBounded /\ OneBudgetActionPerCycle

\* Where our budget is not the platform's, the last change of it did not go
\* through: it is on its way to our row, lost, logged as failed or torn.
MirrorsPlatform ==
  \A e \in Campaigns :
    budget[e] # remote[e] =>
      \E z \in changes :
        /\ z.from # None /\ z.entity = e /\ ~Vouched(z)
        /\ \A y \in changes : y.from # None /\ y.entity = e => y.n <= z.n

\* "All actions must be logged with before/after state" (src/ai/brain.md:188):
\* a change that is not in the action log is at hand in its cycle, or was
\* when the cycle broke off.
ChangeIsLogged ==
  \A x \in changes :
    log[x.by, x.entity, x.rule] = "none" =>
      /\ cyc[x.by].pc \in {"store", "log", "torn"}
      /\ x.entity = cyc[x.by].cur.entity /\ x.rule = cyc[x.by].cur.rule

\* A cooldown stands only for an action that was applied; it ends within one
\* window of the clock in either store, and Redis has none that Postgres
\* never had.
CooldownIsEarned ==
  \A k \in DOMAIN pg :
    /\ pg[k] <= now + Window /\ redis[k] <= now + Window
    /\ redis[k] # 0 => pg[k] # 0
    /\ pg[k] # 0 =>
         \E i \in Ids : i[2] = k[1] /\ i[3].type = k[2] /\ log[i] \in {"APPLIED", "SKIPPED"}

\* What waits for a human has not been done.
SuggestedIsUntouched ==
  \A x \in changes : log[x.by, x.entity, x.rule] # "PENDING"

\* "Optimizer is completely inactive. No evaluations, no pending actions, no
\* changes." (apps/web/messages/en.json:277): what is OFF when its turn comes
\* is left alone.
OffIsLeftAlone ==
  [][\A c \in Cycles : (cyc[c].pc = "act" /\ cyc'[c].pc = "call")
       => mode[cyc'[c].cur.entity] # "OFF"]_cyc

\* Every cycle that starts comes to its end.
CyclesEnd == \A c \in Cycles : Running(c) ~> cyc[c].pc = "done"

\* An action the guardrails approved gets its entry in the action log, even
\* if the ones before it fail.
ApprovedIsLogged ==
  \A c \in Cycles, e \in Entities, r \in Rules :
    (\E x \in cyc[c].plan : x.entity = e /\ x.rule = r) ~> log[c, e, r] # "none"

\* Both: nothing a cycle has taken up is left lying (optimizer.service.ts 96-126).
CyclesSettle == CyclesEnd /\ ApprovedIsLogged

=============================================================================
