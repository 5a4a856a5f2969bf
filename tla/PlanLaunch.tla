----------------------------- MODULE PlanLaunch -----------------------------
(***************************************************************************)
(* One campaign plan of the Campaign Architect and the HTTP requests that  *)
(* work on it: create, regenerate, approve (plan/plan.service.ts) and      *)
(* launch (launcher/launcher.service.ts).                                  *)
(*                                                                         *)
(* Every handler reads the plan row, checks what it read, and later writes *)
(* unconditionally: what it read is its snapshot, and any other request    *)
(* may run between the read and the write.  A launch walks the plan items  *)
(* one after the other; each item runs a pipeline of provider calls that   *)
(* is raced against a 30 s timer, and the pipeline goes on by itself when  *)
(* the timer wins.                                                         *)
(***************************************************************************)
EXTENDS Integers, FiniteSets

CONSTANTS
  Platforms,   \* the accepted platforms of the wizard input: one item each
  Requests,    \* HTTP requests; each performs one operation
  Ops,         \* the operations the requests may perform
  None,        \* SQL NULL, and "nobody"
  Concurrent,  \* may requests overlap?
  MayFail,     \* may provider calls fail?
  Faults       \* may database calls throw and the process crash?

ASSUME PlanAssumption ==
  /\ None \notin Requests
  /\ Ops \subseteq {"regenerate", "approve", "launch"}
  /\ {Concurrent, MayFail, Faults} \subseteq BOOLEAN

VARIABLES
  plan,     \* the campaign_plans row
  row,      \* its campaign_plan_items rows, by platform
  req,      \* the requests: where each stands and what it holds
  pipe,     \* runItemPipeline of each request and item
  ledger    \* what exists at the ad platforms

vars == <<plan, row, req, pipe, ledger>>

Risks      == {"NONE", "WARNING", "BLOCKER"}
PlanStatus == {"ABSENT", "DRAFT", "APPROVED", "LAUNCHING", "LAUNCHED", "FAILED"}
ItemStatus == {"PENDING", "CREATING", "CREATED", "FAILED"}
Kinds      == {"campaign", "adset", "creative", "ad"}
Running    == Kinds \cup {"check"}
Ids        == Requests \cup {None}   \* an external id names the request that made it
LaunchPcs  == {"mark", "loop", "await", "persist"}
PCs        == {"idle", "regenerate", "approve", "done"} \cup LaunchPcs

Items == [status : ItemStatus, camp : Ids, adset : Ids]
Plans == [status : PlanStatus, gen : Nat, risk : Risks, ack : BOOLEAN]
Pipes == [step : Running \cup {"idle", "done", "failed"}, gen : Nat, camp : Ids, adset : Ids]

\* A request: dto.acknowledgedWarnings; the plan and items its load returned;
\* the items it has still to visit, the one it works on and what launchItem
\* is about to store for it; whether it created any (createdCount > 0).
Reqs == [pc : PCs, ack : BOOLEAN,
         status : PlanStatus, gen : Nat, row : [Platforms -> Items],
         todo : SUBSET Platforms, cur : Platforms \cup {None},
         out : Items, created : BOOLEAN]

FreshItem == [status |-> "PENDING", camp |-> None, adset |-> None]
FreshRow  == [p \in Platforms |-> FreshItem]
IdlePipe  == [p \in Platforms |->
                [step |-> "idle", gen |-> 0, camp |-> None, adset |-> None]]
Blank(c)  == [pc |-> c, ack |-> FALSE, status |-> "ABSENT", gen |-> 0, row |-> FreshRow,
              todo |-> {}, cur |-> None, out |-> FreshItem, created |-> FALSE]

\* The provider object of one kind that request r made for the item of
\* platform p in generation g of the plan.
Object(kind, p, g, r) == [kind |-> kind, platform |-> p, gen |-> g, by |-> r]
Objects == [kind : Kinds, platform : Platforms, gen : Nat, by : Requests]

Init ==
  /\ plan = [status |-> "ABSENT", gen |-> 0, risk |-> "NONE", ack |-> FALSE]
  /\ row = FreshRow
  /\ req = [r \in Requests |-> Blank("idle")]
  /\ pipe = [r \in Requests |-> IdlePipe]
  /\ ledger = {}

-----------------------------------------------------------------------------
(* Plan service                                                            *)

\* createPlan: the decision engine, the risk check, then one transaction.
CreatePlan ==
  /\ plan.status = "ABSENT"
  /\ \E k \in Risks :
       plan' = [status |-> "DRAFT", gen |-> 1, risk |-> k, ack |-> FALSE]
  /\ row' = FreshRow
  /\ UNCHANGED <<req, pipe, ledger>>

\* A request may be taken up when nothing else is in flight, or at any time
\* when requests overlap.
Admit(r, op) ==
  /\ op \in Ops
  /\ req[r].pc = "idle"
  /\ Concurrent \/ \A q \in Requests : req[q].pc \in {"idle", "done"}

\* The handler returns or throws: nothing it held matters any more.
End(r) == req' = [req EXCEPT ![r] = Blank("done")]

\* The statuses in which regeneratePlan and approvePlan go ahead.
RegenerableApprovedToo == {"DRAFT", "APPROVED"}   \* mutant: an approved plan may be redone
Regenerable == {"DRAFT"}
ApprovableFailedToo == {"DRAFT", "FAILED"}        \* mutant: a failed plan may be revived
Approvable == {"DRAFT"}

\* regeneratePlan up to its transaction: load, and refuse unless DRAFT.
LoadForRegenerate(r) ==
  /\ Admit(r, "regenerate")
  /\ plan.status \in Regenerable
  /\ req' = [req EXCEPT ![r].pc = "regenerate"]
  /\ UNCHANGED <<plan, row, pipe, ledger>>

\* The transaction: items deleted and made anew (new ids: the next
\* generation), risks replaced, warningsAcknowledged reset, status untouched.
CommitRegenerate(r) ==
  /\ req[r].pc = "regenerate"
  /\ \E k \in Risks :
       plan' = [plan EXCEPT !.gen = @ + 1, !.risk = k, !.ack = FALSE]
  /\ row' = FreshRow
  /\ End(r)
  /\ UNCHANGED <<pipe, ledger>>

\* No blockers, and the warnings acknowledged by the caller.
AcceptableBlockersOnly(a) == plan.risk # "BLOCKER"   \* mutant: warnings never asked for
Acceptable(a) == plan.risk # "BLOCKER" /\ (plan.risk = "WARNING" => a)

\* approvePlan up to its update.
LoadForApprove(r) ==
  /\ Admit(r, "approve")
  /\ plan.status \in Approvable
  /\ \E a \in BOOLEAN :
       /\ Acceptable(a)
       /\ req' = [req EXCEPT ![r] = [@ EXCEPT !.pc = "approve", !.ack = a]]
  /\ UNCHANGED <<plan, row, pipe, ledger>>

CommitApprove(r) ==
  /\ req[r].pc = "approve"
  /\ plan' = [plan EXCEPT !.status = "APPROVED", !.ack = req[r].ack]
  /\ End(r)
  /\ UNCHANGED <<row, pipe, ledger>>

-----------------------------------------------------------------------------
(* Launcher                                                                *)

LaunchableDraftToo == {"DRAFT", "APPROVED", "LAUNCHING"}    \* mutant: approval not asked for
Launchable == {"APPROVED", "LAUNCHING"}

\* launchPlan: load, assertNoBlockers, the status checks, and the refusal of
\* a plan without items.
LoadForLaunch(r) ==
  /\ Admit(r, "launch")
  /\ plan.risk # "BLOCKER"
  /\ plan.status \in Launchable
  /\ Platforms # {}
  /\ req' = [req EXCEPT ![r] = [Blank("mark") EXCEPT
                !.status = plan.status, !.gen = plan.gen, !.row = row, !.todo = Platforms]]
  /\ UNCHANGED <<plan, row, pipe, ledger>>

\* APPROVED becomes LAUNCHING; a plan read as LAUNCHING is left alone.
MarkLaunching(r) ==
  /\ req[r].pc = "mark"
  /\ plan' = IF req[r].status = "APPROVED"
             THEN [plan EXCEPT !.status = "LAUNCHING"] ELSE plan
  /\ req' = [req EXCEPT ![r].pc = "loop"]
  /\ UNCHANGED <<row, pipe, ledger>>

\* The rows a launch loaded still exist until a regenerate replaces them.
RowsExistByPlatform(r) == TRUE   \* mutant: rows updated by (planId, platform), not by id
RowsExist(r) == req[r].gen = plan.gen

\* The loop of launchPlan comes to an item, in whatever order the rows came.
Visit(r, p) == req[r].pc = "loop" /\ p \in req[r].todo

LeftNothingDone(r, p) == req[r].todo   \* mutant: the loop does not advance
Left(r, p) == req[r].todo \ {p}

AlreadySkippedOnly(r, p) == req[r].row[p].status = "SKIPPED"   \* mutant: wrong enum value
AlreadyCreated(r, p) == req[r].row[p].status = "CREATED"

\* launchItem on an item that was CREATED when the plan was loaded.
SkipItem(r, p) ==
  /\ Visit(r, p)
  /\ AlreadyCreated(r, p)
  /\ req' = [req EXCEPT ![r].todo = Left(r, p)]
  /\ UNCHANGED <<plan, row, pipe, ledger>>

\* launchItem otherwise: the row becomes CREATING and the pipeline starts
\* with the ids of the loaded row.
StartItem(r, p) ==
  /\ Visit(r, p)
  /\ ~AlreadyCreated(r, p)
  /\ RowsExist(r)
  /\ row' = [row EXCEPT ![p].status = "CREATING"]
  /\ req' = [req EXCEPT ![r] = [@ EXCEPT !.pc = "await", !.todo = Left(r, p),
                                         !.cur = p, !.out = req[r].row[p]]]
  /\ pipe' = [pipe EXCEPT ![r][p] = [step  |-> "check",
                                     gen   |-> req[r].gen,
                                     camp  |-> req[r].row[p].camp,
                                     adset |-> req[r].row[p].adset]]
  /\ UNCHANGED <<plan, ledger>>

\* Updating a row that regenerate deleted throws out of launchPlan.
LaunchThrows(r) ==
  /\ ~RowsExist(r)
  /\ \/ req[r].pc = "persist"
     \/ \E p \in Platforms : Visit(r, p) /\ ~AlreadyCreated(r, p)
  /\ End(r)
  /\ UNCHANGED <<plan, row, pipe, ledger>>

\* The call each step of the pipeline makes next: a campaign or ad set whose
\* id is already known is not made again.
AfterCampaignEmptyIsSet(a) == "creative"   \* mutant: an empty list of ids counts as an ad set
AfterCampaign(a) == IF a = None THEN "adset" ELSE "creative"
AfterCheck(c, a) == IF c = None THEN "campaign" ELSE AfterCampaign(a)

\* The ad account is looked up and its credentials validated.
PipeCheck(r, p) ==
  /\ pipe[r][p].step = "check"
  /\ \/ pipe' = [pipe EXCEPT ![r][p].step =
                   AfterCheck(pipe[r][p].camp, pipe[r][p].adset)]
     \/ MayFail /\ pipe' = [pipe EXCEPT ![r][p].step = "failed"]
  /\ UNCHANGED <<plan, row, req, ledger>>

\* The object of the current step comes to exist at the platform.
Made(r, p) == ledger' = ledger \cup {Object(pipe[r][p].step, p, pipe[r][p].gen, r)}

\* A create call that answers with an id.
PipeCreate(r, p) ==
  /\ pipe[r][p].step \in Kinds
  /\ Made(r, p)
  /\ \/ /\ pipe[r][p].step = "campaign"
        /\ pipe' = [pipe EXCEPT ![r][p] =
                     [@ EXCEPT !.step = AfterCampaign(pipe[r][p].adset), !.camp = r]]
     \/ /\ pipe[r][p].step = "adset"
        /\ pipe' = [pipe EXCEPT ![r][p] = [@ EXCEPT !.step = "creative", !.adset = r]]
     \/ /\ pipe[r][p].step = "creative"
        /\ pipe' = [pipe EXCEPT ![r][p].step = "ad"]
     \/ /\ pipe[r][p].step = "ad"
        /\ pipe' = [pipe EXCEPT ![r][p].step = "done"]
  /\ UNCHANGED <<plan, row, req>>

\* A create call that fails: refused, or carried out and its answer lost.
PipeFail(r, p) ==
  /\ MayFail
  /\ pipe[r][p].step \in Kinds
  /\ Made(r, p) \/ UNCHANGED ledger
  /\ pipe' = [pipe EXCEPT ![r][p].step = "failed"]
  /\ UNCHANGED <<plan, row, req>>

\* What is stored when the pipeline did not make it: the loaded ids.
FailedOut(r) == [req[r].out EXCEPT !.status = "FAILED"]

\* The pipeline of the awaited item answers before the timer: its ids are
\* stored on success, the loaded ones otherwise.
PipelineSettles(r, p) ==
  /\ req[r].pc = "await" /\ req[r].cur = p
  /\ \/ /\ pipe[r][p].step = "done"
        /\ req' = [req EXCEPT ![r] = [@ EXCEPT !.pc = "persist", !.out =
             [status |-> "CREATED", camp |-> pipe[r][p].camp, adset |-> pipe[r][p].adset]]]
     \/ /\ pipe[r][p].step = "failed"
        /\ req' = [req EXCEPT ![r] = [@ EXCEPT !.pc = "persist", !.out = FailedOut(r)]]
  /\ pipe' = [pipe EXCEPT ![r][p] = IdlePipe[p]]
  /\ UNCHANGED <<plan, row, ledger>>

\* withTimeout: the timer wins, the pipeline is not cancelled.
TimerFires(r, p) ==
  /\ MayFail
  /\ req[r].pc = "await" /\ req[r].cur = p
  /\ pipe[r][p].step \in Running
  /\ req' = [req EXCEPT ![r] = [@ EXCEPT !.pc = "persist", !.out = FailedOut(r)]]
  /\ UNCHANGED <<plan, row, pipe, ledger>>

PersistItem(r, p) ==
  /\ req[r].pc = "persist" /\ req[r].cur = p
  /\ RowsExist(r)
  /\ row' = [row EXCEPT ![p] = req[r].out]
  /\ req' = [req EXCEPT ![r] = [@ EXCEPT !.pc = "loop", !.cur = None, !.out = FreshItem,
                                         !.created = req[r].created \/ req[r].out.status = "CREATED"]]
  /\ UNCHANGED <<plan, pipe, ledger>>

FinalAlways(r) == "LAUNCHED"                                      \* mutant: nobody counts
\* LAUNCHED if this run created an item, FAILED if it did not.
FinalStatus(r) == IF req[r].created THEN "LAUNCHED" ELSE "FAILED"

FinishLaunch(r) ==
  /\ req[r].pc = "loop" /\ req[r].todo = {}
  /\ plan' = [plan EXCEPT !.status = FinalStatus(r)]
  /\ End(r)
  /\ UNCHANGED <<row, pipe, ledger>>

-----------------------------------------------------------------------------
(* Environment                                                             *)

\* A database call of a request throws: the request ends where it is.
DatabaseThrows(r) ==
  /\ Faults
  /\ req[r].pc \in {"regenerate", "approve", "mark", "loop", "persist"}
  /\ End(r)
  /\ UNCHANGED <<plan, row, pipe, ledger>>

\* The API process dies with all its requests and pipelines, and restarts.
Crash ==
  /\ Faults
  /\ \E r \in Requests : req[r].pc \notin {"idle", "done"}
  /\ req' = [r \in Requests |-> Blank(IF req[r].pc = "idle" THEN "idle" ELSE "done")]
  /\ pipe' = [r \in Requests |-> IdlePipe]
  /\ UNCHANGED <<plan, row, ledger>>

PipeStep(r) == \E p \in Platforms : PipeCheck(r, p) \/ PipeCreate(r, p) \/ PipeFail(r, p)

LaunchStep(r) ==
  \/ MarkLaunching(r) \/ LaunchThrows(r) \/ FinishLaunch(r)
  \/ \E p \in Platforms : \/ SkipItem(r, p) \/ StartItem(r, p) \/ PersistItem(r, p)
                          \/ PipelineSettles(r, p) \/ TimerFires(r, p)

RequestStep(r) ==
  \/ LoadForRegenerate(r) \/ CommitRegenerate(r)
  \/ LoadForApprove(r) \/ CommitApprove(r)
  \/ LoadForLaunch(r) \/ LaunchStep(r)
  \/ DatabaseThrows(r)

Next == CreatePlan \/ Crash \/ \E r \in Requests : RequestStep(r) \/ PipeStep(r)

Spec == Init /\ [][Next]_vars

\* Node runs every ready continuation, and every provider call answers or
\* runs into its own 15 s limit (shared/http-json.ts).
Fairness == \A r \in Requests :
  WF_vars(LaunchStep(r)) /\ WF_vars(PipeStep(r))

FairSpec == Spec /\ Fairness

-----------------------------------------------------------------------------
(* Properties                                                              *)

\* Every variable stays in its domain.
TypeOK ==
  /\ plan \in Plans
  /\ row \in [Platforms -> Items]
  /\ req \in [Requests -> Reqs]
  /\ pipe \in [Requests -> [Platforms -> Pipes]]
  /\ ledger \subseteq Objects

Reviewed == {"APPROVED", "LAUNCHING", "LAUNCHED", "FAILED"}

\* Nothing is created at an ad platform for a plan nobody approved: not by a
\* launch in any interleaving, nor by a pipeline that outlived its timer.
ApprovalBeforeSpend == ledger # {} => plan.status \in Reviewed

\* The ids of x are ids of objects made for the item of platform p in
\* generation g.
Real(x, p, g) ==
  /\ x.camp # None => Object("campaign", p, g, x.camp) \in ledger
  /\ x.adset # None => Object("adset", p, g, x.adset) \in ledger

\* The whole chain of that item exists.
Complete(x, p, g) ==
  /\ x.camp # None /\ x.adset # None
  /\ \E r \in Requests : {Object("creative", p, g, r), Object("ad", p, g, r)} \subseteq ledger

\* An external id stored on an item row is the id of an object that exists at
\* the platform and was made for that very item, whatever snapshot the
\* launch that stored it worked from.
StoredIdsAreReal == \A p \in Platforms : Real(row[p], p, plan.gen)

\* An item row in CREATED has its whole chain at the platform: campaign, ad
\* set, and an ad with its creative made for this item by one launch.
CreatedItemIsComplete ==
  \A p \in Platforms : row[p].status = "CREATED" => Complete(row[p], p, plan.gen)

\* A plan reads LAUNCHED only when some ad of it was really created, in this
\* or an earlier generation of its items.
LaunchedMeansAnAdExists ==
  plan.status = "LAUNCHED" => \E o \in ledger : o.kind = "ad"

\* An approved plan is one a user could approve: no blockers, warnings
\* acknowledged (campaign-architect.controller.ts:126).
ApprovedMeansReviewed ==
  plan.status = "APPROVED" =>
    plan.risk # "BLOCKER" /\ (plan.risk = "WARNING" => plan.ack)

\* The items of a plan are replaced only while it is DRAFT.
RegenerateOnlyDraft ==
  [][plan'.gen # plan.gen => plan.status \in {"ABSENT", "DRAFT"}]_plan

\* "LAUNCHED/FAILED are terminal."
TerminalStatuses ==
  [][plan.status \in {"LAUNCHED", "FAILED"} => plan'.status = plan.status]_plan

\* "Items already CREATED are skipped": a CREATED item is never worked on
\* again while its row lives.
CreatedItemsAreSkipped ==
  [][plan'.gen = plan.gen =>
       \A p \in Platforms : row[p].status = "CREATED" => row'[p] = row[p]]_<<plan, row>>

\* Requests that do not overlap drive the status column as PlanLifecycle says.
Lifecycle == INSTANCE PlanLifecycle WITH status <- plan.status
LifecycleRefined == Lifecycle!Spec

\* Every launch that is taken up comes to its end, however its provider calls
\* go.
LaunchesEnd == \A r \in Requests : req[r].pc \in LaunchPcs ~> req[r].pc = "done"

\* A plan does not stay LAUNCHING when no launch dies under it.
LaunchingIsLeft == plan.status = "LAUNCHING" ~> plan.status \in {"LAUNCHED", "FAILED"}

\* Both: what a launch takes up is settled (launcher.service.ts 66-205).
LaunchesSettle == LaunchesEnd /\ LaunchingIsLeft

=============================================================================
