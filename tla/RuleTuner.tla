----------------------------- MODULE RuleTuner -----------------------------
(***************************************************************************)
(* The auto-tuner of the optimizer rules                                   *)
(* (apps/api/src/insights/learning): system admins start tuning runs and   *)
(* roll runs back.  A run passes its preflight, simulates what tightening  *)
(* or disabling each rule would do, and then writes the changes it decided *)
(* one transaction at a time; a rollback replays the log rows of a run.    *)
(* Rules and settings may be edited meanwhile, and requests overlap.       *)
(*                                                                         *)
(* "found" is a history variable: the rules a request found at its start,  *)
(* until somebody else writes a rule.                                      *)
(***************************************************************************)
EXTENDS Integers, FiniteSets, FiniteSetsExt, Absent

CONSTANTS
  Rules, Comparator,   \* the rules, and GT, LT or EQ for each
  Orgs, All,           \* the scopes of a run: an organization, or all of them
  Requests,            \* runs and rollbacks the admins may start
  Threshold0,          \* every threshold at first, in units of 0.0001
  MaxChanges,          \* learning.auto_tune_max_changes_per_run
  MaxRatio,            \* learning.auto_tune_max_action_delta_ratio, in percent
  Cooldown,            \* learning.auto_tune_cooldown_minutes, in units of the clock
  MaxTime, Edits       \* bounds on the clock and on the edits

Scopes == Orgs \cup {All}
Fields == {"thresholdValue", "isEnabled"}

ASSUME TunerAssumption ==
  /\ Comparator \in [Rules -> {"GT", "LT", "EQ"}]
  /\ All \notin Orgs /\ None \notin Requests
  /\ IsFiniteSet(Rules) /\ IsFiniteSet(Requests)
  /\ {Threshold0, MaxChanges, MaxRatio, Cooldown, MaxTime, Edits} \subseteq Nat

VARIABLES
  rule,       \* optimizer_rules: the fields of each rule that exists
  tunable,    \* the scopes whose settings and allowlist let a run through
  tlog,       \* rule_tuning_logs, by run and rule
  req,        \* the requests
  found,
  now, edits

vars == <<rule, tunable, tlog, req, found, now, edits>>

\* A request: where it is, the scope of a run, the run of a rollback, and the
\* writes still to come.
Request(pc, scope, of, todo) == [pc |-> pc, scope |-> scope, of |-> of, todo |-> todo]
Idle == Request("idle", None, None, {})
Ended(r) == [req EXCEPT ![r] = Request("done", None, None, {})]
Without(r, c) ==
  [req EXCEPT ![r] = Request(req[r].pc, req[r].scope, req[r].of, req[r].todo \ {c})]

Init ==
  /\ rule = [x \in Rules |-> [f \in Fields |-> IF f = "isEnabled" THEN 1 ELSE Threshold0]]
  /\ tunable = Scopes
  /\ tlog = <<>>
  /\ req = [r \in Requests |-> Idle]
  /\ found = [r \in Requests |-> None]
  /\ now = 0 /\ edits = 0

\* Somebody writes a rule, and it is none of the requests in s.
Disturb(s) == found' = [r \in Requests |-> IF r \in s THEN found[r] ELSE None]
Alone(r) == found[r] # None

-----------------------------------------------------------------------------
(* Tuning runs                                                             *)

\* When the changes in a scope that still stand were applied.
AppliedAt(s) ==
  {tlog[i].at : i \in {j \in DOMAIN tlog :
     tlog[j].status = "APPLIED" /\ (s = All \/ tlog[j].scope = s)}}

CooldownFromOldest(s) == AppliedAt(s) # {} /\ Min(AppliedAt(s)) + Cooldown > now  \* mutant: orderBy asc
CooldownActive(s) == AppliedAt(s) # {} /\ Max(AppliedAt(s)) + Cooldown > now

\* resolveSettings and runPreflight; a run that is blocked changes nothing.
Preflight(r) ==
  /\ req[r].pc = "idle"
  /\ \E s \in tunable :
       /\ ~CooldownActive(s)
       /\ req' = [req EXCEPT ![r] = Request("simulate", s, None, {})]
  /\ found' = [found EXCEPT ![r] = rule]
  /\ UNCHANGED <<rule, tunable, tlog, now, edits>>

\* A tenth more or less, rounded as Math.round does: whichever matches fewer values of
\* the KPI, unless the threshold is negative.
TightenAlwaysRaise(x) == (rule[x].thresholdValue * 110 + 50) \div 100   \* mutant: comparator ignored
Tightened(x) ==
  CASE Comparator[x] = "GT" -> (rule[x].thresholdValue * 110 + 50) \div 100
    [] Comparator[x] = "LT" -> (rule[x].thresholdValue * 90 + 50) \div 100
    [] Comparator[x] = "EQ" -> rule[x].thresholdValue

\* How a rule would be changed: tightened if it is often wrong, disabled if it
\* is mostly wrong.
Change(x, f) == [rule |-> x, field |-> f, value |-> IF f = "isEnabled" THEN 0 ELSE Tightened(x)]

\* A disabled rule loses all of its actions, a ratio of 1; what tightening
\* costs is up to the rule's past actions.
WithinRatio(f) == f = "isEnabled" => MaxRatio >= 100

\* Which changes survive the cap is up to their impacts.
Capped(s) == kSubset(Min({Cardinality(s), MaxChanges}), s)

\* The simulation and decideChanges, on the rules as they are now: which rules
\* are candidates is up to the feedback of the users.
Simulate(r) ==
  /\ req[r].pc = "simulate"
  /\ \E s \in SUBSET DOMAIN rule : \E kind \in [s -> Fields] :
       /\ \A x \in s : WithinRatio(kind[x])
       /\ \E kept \in Capped(s) :
            req' = [req EXCEPT ![r] =
                      Request("apply", req[r].scope, None, {Change(x, kind[x]) : x \in kept})]
  /\ UNCHANGED <<rule, tunable, tlog, found, now, edits>>

\* One transaction: the live value is read for the log, and the value of the
\* simulation written.
ApplyChange(r, c) ==
  /\ req[r].pc = "apply" /\ c \in req[r].todo
  /\ c.rule \in DOMAIN rule
  /\ tlog' = [i \in DOMAIN tlog \cup {<<r, c.rule>>} |->
                IF i # <<r, c.rule>> THEN tlog[i] ELSE
                [scope |-> req[r].scope, field |-> c.field, before |-> rule[c.rule][c.field],
                 after |-> c.value, status |-> "APPLIED", at |-> now]]
  /\ rule' = [rule EXCEPT ![c.rule][c.field] = c.value]
  /\ req' = Without(r, c)
  /\ Disturb({r})
  /\ UNCHANGED <<tunable, now, edits>>

\* The transaction throws, whatever of, and is rolled back: the change is reported as
\* blocked, the run goes on.
ApplyFails(r, c) ==
  /\ req[r].pc = "apply" /\ c \in req[r].todo
  /\ req' = Without(r, c)
  /\ UNCHANGED <<rule, tunable, tlog, found, now, edits>>

Finish(r) ==
  /\ req[r].pc \in {"apply", "rollback"} /\ req[r].todo = {}
  /\ req' = Ended(r)
  /\ UNCHANGED <<rule, tunable, tlog, found, now, edits>>

-----------------------------------------------------------------------------
(* Rollbacks                                                               *)

RowsOf(u) == {i \in DOMAIN tlog : i[1] = u}

ReplayableAll(i) == TRUE       \* mutant: rows already rolled back are not skipped
Replayable(i) == tlog[i].status = "APPLIED"

Restored(i) == tlog[i].before

\* rollback reads the rows of a run, and walks them in any order.
LoadRows(r) ==
  /\ req[r].pc = "idle"
  /\ \E u \in {i[1] : i \in DOMAIN tlog} :
       req' = [req EXCEPT ![r] =
                 Request("rollback", None, u,
                   {[rule |-> i[2], field |-> tlog[i].field, value |-> Restored(i)] :
                      i \in {j \in RowsOf(u) : Replayable(j)}})]
  /\ found' = [found EXCEPT ![r] = rule]
  /\ UNCHANGED <<rule, tunable, tlog, now, edits>>

\* One transaction for each row that was APPLIED when they were read.
RollbackRow(r, c) ==
  /\ req[r].pc = "rollback" /\ c \in req[r].todo
  /\ c.rule \in DOMAIN rule
  /\ rule' = [rule EXCEPT ![c.rule][c.field] = c.value]
  /\ tlog' = [tlog EXCEPT ![<<req[r].of, c.rule>>].status = "ROLLED_BACK"]
  /\ req' = Without(r, c)
  /\ Disturb({r, req[r].of})
  /\ UNCHANGED <<tunable, now, edits>>

\* The rule was deleted meanwhile: the transaction throws out of rollback.
RollbackThrows(r, c) ==
  /\ req[r].pc = "rollback" /\ c \in req[r].todo
  /\ c.rule \notin DOMAIN rule
  /\ req' = Ended(r)
  /\ UNCHANGED <<rule, tunable, tlog, found, now, edits>>

-----------------------------------------------------------------------------
(* Admins, the clock and crashes                                           *)

Edited == edits < Edits /\ edits' = edits + 1

\* An admin of an organization or of the system updates a rule, with any body ...
EditRule(x) ==
  /\ Edited
  /\ \/ rule' = [rule EXCEPT ![x]["isEnabled"] = 1 - rule[x].isEnabled]
     \/ \E v \in {2 * Threshold0, -Threshold0} : rule' = [rule EXCEPT ![x]["thresholdValue"] = v]
  /\ Disturb({})
  /\ UNCHANGED <<tunable, tlog, req, now>>

\* ... or deletes it, and its log rows with it.
DeleteRule(x) ==
  /\ Edited
  /\ rule' = [y \in DOMAIN rule \ {x} |-> rule[y]]
  /\ tlog' = [i \in {j \in DOMAIN tlog : j[2] # x} |-> tlog[i]]
  /\ Disturb({})
  /\ UNCHANGED <<tunable, req, now>>

\* The flag or the allowlist of a scope is changed.
EditSettings(s) ==
  /\ Edited
  /\ tunable' = (tunable \ {s}) \cup ({s} \ tunable)
  /\ UNCHANGED <<rule, tlog, req, found, now>>

Tick ==
  /\ now < MaxTime
  /\ now' = now + 1
  /\ UNCHANGED <<rule, tunable, tlog, req, found, edits>>

\* The API process dies, or a database call of the request throws, with
\* writes of the request still to come.
Crash(r) ==
  /\ req[r].todo # {}
  /\ req' = Ended(r)
  /\ UNCHANGED <<rule, tunable, tlog, found, now, edits>>

Step(r) ==
  \/ Simulate(r) \/ Finish(r)
  \/ \E c \in req[r].todo : \/ ApplyChange(r, c) \/ ApplyFails(r, c)
                            \/ RollbackRow(r, c) \/ RollbackThrows(r, c)

Next ==
  \/ \E r \in Requests : Preflight(r) \/ LoadRows(r) \/ Step(r) \/ Crash(r)
  \/ \E x \in DOMAIN rule : EditRule(x) \/ DeleteRule(x)
  \/ \E s \in Scopes : EditSettings(s)
  \/ Tick

Spec == Init /\ [][Next]_vars

-----------------------------------------------------------------------------
(* Properties                                                              *)

\* A rule is enabled or not; a threshold is any number.
Legal(field, value) == IF field = "isEnabled" THEN value \in {0, 1} ELSE value \in Int

Changes == [rule : Rules, field : Fields, value : Int]
Requested ==
  [pc : {"idle", "simulate", "apply", "rollback", "done"},
   scope : Scopes \cup {None}, of : Requests \cup {None}, todo : SUBSET Changes]
TuningRow ==
  [scope : Scopes, field : Fields, before : Int, after : Int,
   status : {"APPLIED", "ROLLED_BACK"}, at : Nat]

\* Every variable stays in its domain.
TypeOK ==
  /\ DOMAIN rule \subseteq Rules /\ rule \in [DOMAIN rule -> [Fields -> Int]]
  /\ \A x \in DOMAIN rule : \A f \in Fields : Legal(f, rule[x][f])
  /\ tunable \subseteq Scopes
  /\ DOMAIN tlog \subseteq Requests \X Rules /\ tlog \in [DOMAIN tlog -> TuningRow]
  /\ \A i \in DOMAIN tlog : Legal(tlog[i].field, tlog[i].before)
  /\ req \in [Requests -> Requested]
  /\ \A r \in Requests : \A c \in req[r].todo : Legal(c.field, c.value)
  /\ found = [r \in Requests |-> found[r]] /\ now \in Nat

Tighter(x, new, old) ==
  /\ new.isEnabled <= old.isEnabled
  /\ Comparator[x] = "GT" => new.thresholdValue >= old.thresholdValue
  /\ Comparator[x] = "LT" => new.thresholdValue <= old.thresholdValue
  /\ Comparator[x] = "EQ" => new.thresholdValue = old.thresholdValue

\* "For a GT/GTE rule, tighten means raise the threshold (fewer matches)"
\* (rule-tuner-simulation.service.ts:318): a run whose rules nobody else
\* writes only ever makes a rule match less, where its threshold is not negative: that of
\* a GT rule goes down when it is multiplied by 1.1.
TunerOnlyTightens ==
  [][\A i \in DOMAIN tlog' \ DOMAIN tlog :
       Alone(i[1]) /\ rule[i[2]].thresholdValue >= 0 => Tighter(i[2], rule'[i[2]], rule[i[2]])]_<<rule, tlog>>

Undone(u) == RowsOf(u) # {} /\ \A i \in RowsOf(u) : tlog[i].status = "ROLLED_BACK"

\* "Restoring the original threshold or isEnabled value"
\* (insights-admin.controller.ts:131): once all of a run is rolled back, by
\* whatever rollbacks, and nobody else has written, the rules are what the
\* run found.
UndoRestores ==
  \A u \in Requests :
    (req[u].pc = "done" /\ Undone(u) /\ Alone(u)) => rule = found[u]

\* "Idempotent ... so the call can be retried safely": what a rollback has
\* still to restore has not been restored, unless somebody else wrote since.
RestoredOnce ==
  \A r \in Requests : (req[r].pc = "rollback" /\ Alone(r)) =>
    \A c \in req[r].todo : tlog[<<req[r].of, c.rule>>].status = "APPLIED"

\* "A per-run change cap": in any interleaving.
CapHolds == \A u \in Requests : Cardinality(RowsOf(u)) <= MaxChanges

\* "A per-scope cooldown": changes of two runs of a scope that both stand are
\* a cooldown apart, unless the runs overlapped.
CooldownHolds ==
  \A i, j \in DOMAIN tlog :
    (/\ i[1] # j[1] /\ Alone(j[1]) /\ tlog[i].at <= tlog[j].at
     /\ tlog[i].status = "APPLIED" /\ tlog[j].status = "APPLIED"
     /\ tlog[j].scope \in {All, tlog[i].scope})
      => tlog[j].at - tlog[i].at >= Cooldown

\* Both limits of a run (rule-tuner.service.ts 434-470).
RunLimitsHold == CapHolds /\ CooldownHolds

\* Both promises of a rollback (rule-tuner.service.ts 200-300).
RollbackHolds == UndoRestores /\ RestoredOnce

=============================================================================
