-------------------------- MODULE PlanLaunch_proofs --------------------------
(***************************************************************************)
(* What PlanLaunch guarantees for any platforms and any number of          *)
(* requests: of the workflow and of the objects at the platforms when they *)
(* overlap, fail and crash at will, and of what the controller documents   *)
(* when they come one at a time.                                           *)
(***************************************************************************)
EXTENDS PlanLaunch, TLAPS

USE PlanAssumption

\* TypeOK is inductive by itself.
LEMMA TypeInit == Init => TypeOK
  BY DEF Init, TypeOK, Plans, PlanStatus, Risks, Items, ItemStatus, Ids, Reqs, PCs,
         LaunchPcs, Pipes, Running, Kinds, FreshRow, FreshItem, IdlePipe, Blank

\* What the handlers reset a request and a pipeline to.
LEMMA FreshTyped == FreshItem \in Items /\ FreshRow \in [Platforms -> Items]
  BY DEF FreshItem, FreshRow, Items, ItemStatus, Ids
LEMMA BlankTyped == \A c \in PCs : Blank(c) \in Reqs
  BY DEF Blank, Reqs, FreshRow, FreshItem, Items, ItemStatus, Ids, PlanStatus
LEMMA PCsTyped == {"idle", "regenerate", "approve", "done", "mark", "loop", "await", "persist"} \subseteq PCs
  BY DEF PCs, LaunchPcs
LEMMA IdlePipeTyped == IdlePipe \in [Platforms -> Pipes]
  BY DEF IdlePipe, Pipes, Ids

\* The ways the handlers rewrite a record keep it in its domain.
LEMMA PlanUpdate ==
  ASSUME NEW x \in Plans, NEW g \in Nat, NEW k \in Risks
  PROVE  [x EXCEPT !.gen = g, !.risk = k, !.ack = FALSE] \in Plans
  BY DEF Plans

LEMMA ReqUpdate ==
  ASSUME NEW x \in Reqs, NEW c \in PCs, NEW a \in BOOLEAN, NEW i \in Items,
         NEW t \in SUBSET Platforms, NEW p \in Platforms \cup {None}
  PROVE  /\ [x EXCEPT !.pc = c] \in Reqs
         /\ [x EXCEPT !.todo = t] \in Reqs
         /\ [x EXCEPT !.pc = c, !.ack = a] \in Reqs
         /\ [x EXCEPT !.pc = c, !.todo = t, !.cur = p, !.out = i] \in Reqs
         /\ [x EXCEPT !.pc = c, !.out = i] \in Reqs
         /\ [x EXCEPT !.pc = c, !.cur = p, !.out = i, !.created = a] \in Reqs
  BY DEF Reqs

LEMMA FailedTyped == ASSUME NEW r \in Requests, req \in [Requests -> Reqs]
                     PROVE  FailedOut(r) \in Items
  BY DEF FailedOut, Reqs, Items, ItemStatus

LEMMA PipeUpdate ==
  ASSUME NEW x \in Pipes, NEW s \in Running \cup {"done", "failed"}, NEW i \in Ids
  PROVE  /\ [x EXCEPT !.step = s] \in Pipes
         /\ [x EXCEPT !.step = s, !.camp = i] \in Pipes
         /\ [x EXCEPT !.step = s, !.adset = i] \in Pipes
  BY DEF Pipes

LEMMA TypeStep == TypeOK /\ [Next]_vars => TypeOK'
<1>0. SUFFICES ASSUME TypeOK, [Next]_vars PROVE TypeOK'
  OBVIOUS
<1>1. CASE CreatePlan
  <2>1. plan' \in Plans
    BY <1>1 DEF CreatePlan, Plans, PlanStatus
  <2>2. QED
    BY <1>0, <1>1, <2>1, FreshTyped DEF TypeOK, CreatePlan
<1>2. CASE Crash
  BY <1>0, <1>2, BlankTyped, PCsTyped, IdlePipeTyped DEF TypeOK, Crash
<1>3. ASSUME NEW r \in Requests, LoadForRegenerate(r) PROVE TypeOK'
  <2>1. req \in [Requests -> Reqs] /\ req' = [req EXCEPT ![r].pc = "regenerate"]
    BY <1>0, <1>3 DEF TypeOK, LoadForRegenerate
  <2>2. req[r] \in Reqs /\ [req[r] EXCEPT !.pc = "regenerate"] \in Reqs
    BY <2>1, PCsTyped, FreshTyped, ReqUpdate
  <2>3. QED
    BY <1>0, <1>3, <2>1, <2>2 DEF TypeOK, LoadForRegenerate
<1>4. ASSUME NEW r \in Requests, CommitRegenerate(r) PROVE TypeOK'
  <2> PICK k \in Risks : plan' = [plan EXCEPT !.gen = @ + 1, !.risk = k, !.ack = FALSE]
    BY <1>4 DEF CommitRegenerate
  <2>1. plan \in Plans /\ plan.gen + 1 \in Nat
    BY <1>0 DEF TypeOK, Plans
  <2>2. plan' \in Plans
    BY <2>1, PlanUpdate
  <2>3. QED
    BY <1>0, <1>4, <2>2, FreshTyped, BlankTyped, PCsTyped DEF TypeOK, CommitRegenerate, End
<1>5. ASSUME NEW r \in Requests, LoadForApprove(r) PROVE TypeOK'
  <2> PICK a \in BOOLEAN : req' = [req EXCEPT ![r] = [@ EXCEPT !.pc = "approve", !.ack = a]]
    BY <1>5 DEF LoadForApprove
  <2>1. [req[r] EXCEPT !.pc = "approve", !.ack = a] \in Reqs
    BY <1>0, PCsTyped, FreshTyped, ReqUpdate DEF TypeOK
  <2>2. QED
    BY <1>0, <1>5, <2>1 DEF TypeOK, LoadForApprove
<1>6. ASSUME NEW r \in Requests, CommitApprove(r) PROVE TypeOK'
  <2>1. plan \in Plans /\ req[r] \in Reqs /\ plan' = [plan EXCEPT !.status = "APPROVED", !.ack = req[r].ack]
    BY <1>0, <1>6 DEF TypeOK, CommitApprove
  <2>2. plan' \in Plans
    BY <2>1 DEF Plans, PlanStatus, Reqs
  <2>3. req \in [Requests -> Reqs] /\ req' = [req EXCEPT ![r] = Blank("done")]
    BY <1>0, <1>6 DEF TypeOK, CommitApprove, End
  <2>4. req' \in [Requests -> Reqs]
    BY <2>3, BlankTyped, PCsTyped
  <2>5. QED
    BY <1>0, <1>6, <2>2, <2>4 DEF TypeOK, CommitApprove
<1>7. ASSUME NEW r \in Requests, LoadForLaunch(r) PROVE TypeOK'
  <2> DEFINE x == [Blank("mark") EXCEPT !.status = plan.status, !.gen = plan.gen,
                                        !.row = row, !.todo = Platforms]
  <2>1. plan.status \in PlanStatus /\ plan.gen \in Nat /\ row \in [Platforms -> Items]
    BY <1>0 DEF TypeOK, Plans
  <2>2. Blank("mark") \in Reqs
    BY BlankTyped, PCsTyped
  <2>3. x \in Reqs
    BY <2>1, <2>2 DEF Reqs
  <2>4. req' = [req EXCEPT ![r] = x]
    BY <1>7 DEF LoadForLaunch
  <2>5. QED
    BY <1>0, <1>7, <2>3, <2>4 DEF TypeOK, LoadForLaunch
<1>8. ASSUME NEW r \in Requests, MarkLaunching(r) PROVE TypeOK'
  <2>1. plan \in Plans /\ (plan' = [plan EXCEPT !.status = "LAUNCHING"] \/ plan' = plan)
    BY <1>0, <1>8 DEF TypeOK, MarkLaunching
  <2>2. plan' \in Plans
    BY <2>1 DEF Plans, PlanStatus
  <2>3. req \in [Requests -> Reqs] /\ req' = [req EXCEPT ![r].pc = "loop"]
    BY <1>0, <1>8 DEF TypeOK, MarkLaunching
  <2>4. req[r] \in Reqs /\ [req[r] EXCEPT !.pc = "loop"] \in Reqs
    BY <2>3, PCsTyped, FreshTyped, ReqUpdate
  <2>5. QED
    BY <1>0, <1>8, <2>2, <2>3, <2>4 DEF TypeOK, MarkLaunching
<1>9. ASSUME NEW r \in Requests, NEW p \in Platforms, SkipItem(r, p) PROVE TypeOK'
  <2>1. req \in [Requests -> Reqs] /\ req' = [req EXCEPT ![r].todo = @ \ {p}]
    BY <1>0, <1>9 DEF TypeOK, SkipItem, Left
  <2>2. req[r] \in Reqs /\ req[r].todo \ {p} \in SUBSET Platforms
    BY <2>1 DEF Reqs
  <2>3. [req[r] EXCEPT !.todo = req[r].todo \ {p}] \in Reqs
    BY <2>2, PCsTyped, FreshTyped, ReqUpdate
  <2>4. QED
    BY <1>0, <1>9, <2>1, <2>3 DEF TypeOK, SkipItem
<1>10. ASSUME NEW r \in Requests, NEW p \in Platforms, StartItem(r, p) PROVE TypeOK'
  <2>1. row \in [Platforms -> Items] /\ row' = [row EXCEPT ![p].status = "CREATING"]
    BY <1>0, <1>10 DEF TypeOK, StartItem
  <2>2. row' \in [Platforms -> Items]
    BY <2>1 DEF Items, ItemStatus
  <2>3. /\ req[r] \in Reqs /\ req[r].row[p] \in Items
        /\ req[r].todo \ {p} \in SUBSET Platforms
    BY <1>0 DEF TypeOK, Reqs
  <2>4. [req[r] EXCEPT !.pc = "await", !.todo = req[r].todo \ {p}, !.cur = p,
                       !.out = req[r].row[p]] \in Reqs
    BY <2>3, PCsTyped, ReqUpdate
  <2>5. pipe \in [Requests -> [Platforms -> Pipes]] /\ req \in [Requests -> Reqs]
        /\ pipe' = [pipe EXCEPT ![r][p] = [step |-> "check", gen |-> req[r].gen,
                        camp |-> req[r].row[p].camp, adset |-> req[r].row[p].adset]]
    BY <1>0, <1>10 DEF TypeOK, StartItem
  <2>6. pipe' \in [Requests -> [Platforms -> Pipes]]
    BY <2>5 DEF Pipes, Running, Reqs, Items
  <2>7. QED
    BY <1>0, <1>10, <2>2, <2>4, <2>6 DEF TypeOK, StartItem, Left
<1>11. ASSUME NEW r \in Requests, LaunchThrows(r) PROVE TypeOK'
  <2>1. req \in [Requests -> Reqs] /\ req' = [req EXCEPT ![r] = Blank("done")]
    BY <1>0, <1>11 DEF TypeOK, LaunchThrows, End
  <2>2. req' \in [Requests -> Reqs]
    BY <2>1, BlankTyped, PCsTyped
  <2>3. QED
    BY <1>0, <1>11, <2>2 DEF TypeOK, LaunchThrows
<1>12. ASSUME NEW r \in Requests, NEW p \in Platforms, PipeCheck(r, p) PROVE TypeOK'
  <2>1. pipe[r][p] \in Pipes
    BY <1>0 DEF TypeOK
  <2>2. AfterCheck(pipe[r][p].camp, pipe[r][p].adset) \in Running
    BY DEF AfterCheck, AfterCampaign, Running, Kinds
  <2>3. PICK s \in Running \cup {"failed"} : pipe' = [pipe EXCEPT ![r][p].step = s]
    BY <1>12, <2>2 DEF PipeCheck
  <2>4. [pipe[r][p] EXCEPT !.step = s] \in Pipes /\ None \in Ids
    BY <2>1, PipeUpdate DEF Ids
  <2>5. QED
    BY <1>0, <1>12, <2>3, <2>4 DEF TypeOK, PipeCheck
<1>13. ASSUME NEW r \in Requests, NEW p \in Platforms, PipeCreate(r, p) PROVE TypeOK'
  <2>1. /\ pipe[r][p] \in Pipes /\ r \in Ids /\ ledger \subseteq Objects
        /\ pipe[r][p].step \in Kinds /\ Made(r, p)
        /\ {"creative", "ad", "done"} \subseteq Running \cup {"done", "failed"}
        /\ AfterCampaign(pipe[r][p].adset) \in Running
    BY <1>0, <1>13 DEF TypeOK, Ids, PipeCreate, Running, Kinds, AfterCampaign
  <2>2. \E x \in Pipes : pipe' = [pipe EXCEPT ![r][p] = x]
    BY <1>13, <2>1, PipeUpdate DEF PipeCreate
  <2>3. ledger' \subseteq Objects
    BY <2>1 DEF Made, Object, Objects, Pipes
  <2>4. QED
    BY <1>0, <1>13, <2>2, <2>3 DEF TypeOK, PipeCreate
<1>14. ASSUME NEW r \in Requests, NEW p \in Platforms, PipeFail(r, p) PROVE TypeOK'
  <2>1. /\ pipe[r][p] \in Pipes /\ ledger \subseteq Objects
        /\ pipe[r][p].step \in Kinds
        /\ Made(r, p) \/ UNCHANGED ledger
    BY <1>0, <1>14 DEF TypeOK, PipeFail
  <2>2. ledger' \subseteq Objects
    BY <2>1 DEF Made, Object, Objects, Pipes
  <2>3. [pipe[r][p] EXCEPT !.step = "failed"] \in Pipes
    BY <2>1, PipeUpdate DEF Ids
  <2>4. QED
    BY <1>0, <1>14, <2>2, <2>3 DEF TypeOK, PipeFail
<1>15. ASSUME NEW r \in Requests, NEW p \in Platforms, PipelineSettles(r, p) PROVE TypeOK'
  <2>1. req[r] \in Reqs /\ pipe[r][p] \in Pipes
    BY <1>0 DEF TypeOK
  <2>2. [status |-> "CREATED", camp |-> pipe[r][p].camp, adset |-> pipe[r][p].adset] \in Items
    BY <2>1 DEF Items, ItemStatus, Pipes
  <2>a. FailedOut(r) \in Items
    BY <1>0, FailedTyped DEF TypeOK
  <2>b. \A i \in Items : [req[r] EXCEPT !.pc = "persist", !.out = i] \in Reqs
    BY <2>1, PCsTyped, ReqUpdate
  <2>3. \E x \in Reqs : req' = [req EXCEPT ![r] = x]
    BY <1>15, <2>a, <2>b, <2>2 DEF PipelineSettles
  <2>4. QED
    BY <1>0, <1>15, <2>3, IdlePipeTyped DEF TypeOK, PipelineSettles
<1>16. ASSUME NEW r \in Requests, NEW p \in Platforms, TimerFires(r, p) PROVE TypeOK'
  <2>1. \E x \in Reqs : req' = [req EXCEPT ![r] = x]
    BY <1>0, <1>16, FailedTyped, PCsTyped, ReqUpdate DEF TypeOK, TimerFires
  <2>2. QED
    BY <1>0, <1>16, <2>1 DEF TypeOK, TimerFires
<1>17. ASSUME NEW r \in Requests, NEW p \in Platforms, PersistItem(r, p) PROVE TypeOK'
  <2>1. row \in [Platforms -> Items] /\ req \in [Requests -> Reqs] /\ row' = [row EXCEPT ![p] = req[r].out]
    BY <1>0, <1>17 DEF TypeOK, PersistItem
  <2>2. row' \in [Platforms -> Items]
    BY <2>1 DEF Reqs
  <2>3. /\ req[r] \in Reqs
        /\ (req[r].created \/ req[r].out.status = "CREATED") \in BOOLEAN
    BY <1>0 DEF TypeOK
  <2>4. \E x \in Reqs : req' = [req EXCEPT ![r] = x]
    BY <1>17, <2>3, PCsTyped, FreshTyped, ReqUpdate DEF PersistItem
  <2>5. QED
    BY <1>0, <1>17, <2>2, <2>4 DEF TypeOK, PersistItem
<1>18. ASSUME NEW r \in Requests, FinishLaunch(r) PROVE TypeOK'
  <2>1. plan \in Plans /\ plan' = [plan EXCEPT !.status = FinalStatus(r)]
    BY <1>0, <1>18 DEF TypeOK, FinishLaunch
  <2>2. plan' \in Plans
    BY <2>1 DEF FinalStatus, Plans, PlanStatus
  <2>3. req \in [Requests -> Reqs] /\ req' = [req EXCEPT ![r] = Blank("done")]
    BY <1>0, <1>18 DEF TypeOK, FinishLaunch, End
  <2>4. req' \in [Requests -> Reqs]
    BY <2>3, BlankTyped, PCsTyped
  <2>5. QED
    BY <1>0, <1>18, <2>2, <2>4 DEF TypeOK, FinishLaunch
<1>19. ASSUME NEW r \in Requests, DatabaseThrows(r) PROVE TypeOK'
  <2>1. req \in [Requests -> Reqs] /\ req' = [req EXCEPT ![r] = Blank("done")]
    BY <1>0, <1>19 DEF TypeOK, DatabaseThrows, End
  <2>2. req' \in [Requests -> Reqs]
    BY <2>1, BlankTyped, PCsTyped
  <2>3. QED
    BY <1>0, <1>19, <2>2 DEF TypeOK, DatabaseThrows
<1>20. CASE UNCHANGED vars
  BY <1>0, <1>20 DEF TypeOK, vars
<1>21. QED
  BY <1>0, <1>1, <1>2, <1>3, <1>4, <1>5, <1>6, <1>7, <1>8, <1>9, <1>10, <1>11, <1>12,
     <1>13, <1>14, <1>15, <1>16, <1>17, <1>18, <1>19, <1>20
  DEF Next, RequestStep, LaunchStep, PipeStep

\* Every variable of the workflow stays in its domain.
THEOREM TypeCorrect == Spec => []TypeOK
  BY TypeInit, TypeStep, PTL DEF Spec

-----------------------------------------------------------------------------
(* Nothing is created for a plan that nobody approved.                     *)

Approved == plan.status \in Reviewed

\* The inductive form of ApprovalBeforeSpend: a plan that is not approved has
\* no launch in progress and no pipeline that could still create something.
IApproval ==
  /\ TypeOK
  /\ \A r \in Requests : req[r].pc \in LaunchPcs => Approved
  /\ \A r \in Requests, p \in Platforms : pipe[r][p].step # "idle" => Approved
  /\ ledger # {} => Approved

LEMMA ApprovalInit == Init => IApproval
  BY TypeInit DEF Init, IApproval, LaunchPcs, Blank, IdlePipe

\* No step takes an approval back: the handlers that write the status write
\* APPROVED, LAUNCHING, LAUNCHED or FAILED, whatever they find.
LEMMA ApprovalStays == TypeOK /\ Approved /\ [Next]_vars => Approved'
<1>0. SUFFICES ASSUME TypeOK, Approved, [Next]_vars PROVE Approved'
  OBVIOUS
<1>1. ~CreatePlan
  BY <1>0 DEF CreatePlan, Approved, Reviewed
<1>2. ASSUME NEW r \in Requests, CommitRegenerate(r) PROVE plan'.status = plan.status
  BY <1>0, <1>2 DEF CommitRegenerate, TypeOK, Plans
<1>3. ASSUME NEW r \in Requests, CommitApprove(r) PROVE plan'.status = "APPROVED"
  BY <1>0, <1>3 DEF CommitApprove, TypeOK, Plans
<1>4. ASSUME NEW r \in Requests, MarkLaunching(r)
      PROVE plan' = plan \/ plan'.status = "LAUNCHING"
  BY <1>0, <1>4 DEF MarkLaunching, TypeOK, Plans
<1>5. ASSUME NEW r \in Requests, FinishLaunch(r)
      PROVE plan'.status \in {"LAUNCHED", "FAILED"}
  BY <1>0, <1>5 DEF FinishLaunch, FinalStatus, TypeOK, Plans
<1>6. ASSUME NEW r \in Requests, LaunchStep(r)
      PROVE plan' = plan \/ MarkLaunching(r) \/ FinishLaunch(r)
  BY <1>6 DEF LaunchStep, LaunchThrows, SkipItem, StartItem, PersistItem,
     PipelineSettles, TimerFires
<1>7. ASSUME NEW r \in Requests, RequestStep(r)
      PROVE \/ plan' = plan \/ MarkLaunching(r) \/ FinishLaunch(r)
            \/ CommitRegenerate(r) \/ CommitApprove(r)
  BY <1>6, <1>7 DEF RequestStep, LoadForRegenerate, LoadForApprove, LoadForLaunch,
     DatabaseThrows
<1>8. ASSUME NEW r \in Requests, PipeStep(r) PROVE plan' = plan
  BY <1>8 DEF PipeStep, PipeCheck, PipeCreate, PipeFail
<1>9. Crash \/ UNCHANGED vars => plan' = plan
  BY DEF Crash, vars
<1>10. QED
  BY <1>0, <1>1, <1>2, <1>3, <1>4, <1>5, <1>7, <1>8, <1>9 DEF Next, Approved, Reviewed

\* What can happen to a plan that is not approved: it is created, reworked or
\* approved, and no launch starts or goes on.
LEMMA BeforeApproval ==
  ASSUME IApproval, ~Approved, [Next]_vars
  PROVE  /\ \A r \in Requests : req'[r].pc \notin LaunchPcs
         /\ \A r \in Requests, p \in Platforms : pipe'[r][p].step = "idle"
         /\ ledger' = {}
<1> DEFINE Quiet == /\ \A r \in Requests : req'[r].pc \notin LaunchPcs
                    /\ \A r \in Requests, p \in Platforms : pipe'[r][p].step = "idle"
                    /\ ledger' = {}
<1>1. /\ req \in [Requests -> Reqs]
      /\ \A r \in Requests : req[r].pc \notin LaunchPcs
      /\ \A r \in Requests, p \in Platforms : pipe[r][p].step = "idle"
      /\ ledger = {}
  BY DEF IApproval, TypeOK
<1>2. \A c \in {"idle", "done", "regenerate", "approve"} : c \notin LaunchPcs
  BY DEF LaunchPcs
<1>3. \A r \in Requests : Blank("done").pc = "done" /\ Blank("idle").pc = "idle"
  BY DEF Blank
<1>4. CASE UNCHANGED <<req, pipe, ledger>>
  BY <1>1, <1>4
<1>5. CASE Crash
  BY <1>1, <1>2, <1>3, <1>5 DEF Crash, IdlePipe
<1>6. ASSUME NEW r \in Requests, End(r), UNCHANGED <<pipe, ledger>> PROVE Quiet
  BY <1>1, <1>2, <1>3, <1>6 DEF End
<1>7. ASSUME NEW r \in Requests, LoadForRegenerate(r) PROVE Quiet
  <2>1. req' = [req EXCEPT ![r].pc = "regenerate"] /\ UNCHANGED <<pipe, ledger>>
    BY <1>7 DEF LoadForRegenerate
  <2>2. \A q \in Requests : req'[q].pc = req[q].pc \/ req'[q].pc = "regenerate"
    BY <1>1, <2>1 DEF Reqs
  <2>3. QED
    BY <1>1, <1>2, <2>1, <2>2
<1>8. ASSUME NEW r \in Requests, LoadForApprove(r) PROVE Quiet
  <2> PICK a \in BOOLEAN : req' = [req EXCEPT ![r] = [@ EXCEPT !.pc = "approve", !.ack = a]]
    BY <1>8 DEF LoadForApprove
  <2>1. \A q \in Requests : req'[q].pc = req[q].pc \/ req'[q].pc = "approve"
    BY <1>1 DEF Reqs
  <2>2. QED
    BY <1>1, <1>2, <1>8, <2>1 DEF LoadForApprove
<1>9. ASSUME NEW r \in Requests PROVE ~LoadForLaunch(r)
  BY DEF LoadForLaunch, Launchable, Approved, Reviewed
<1>10. ASSUME NEW r \in Requests PROVE ~LaunchStep(r) \/ LaunchThrows(r)
  BY <1>1 DEF LaunchStep, LaunchPcs, MarkLaunching, FinishLaunch, SkipItem, Visit,
     StartItem, PersistItem, PipelineSettles, TimerFires
<1>11. ASSUME NEW r \in Requests PROVE ~PipeStep(r)
  BY <1>1 DEF PipeStep, PipeCheck, PipeCreate, PipeFail, Kinds
<1>12. QED
  BY <1>4, <1>5, <1>6, <1>7, <1>8, <1>9, <1>10, <1>11
  DEF Next, vars, RequestStep, CreatePlan, CommitRegenerate, CommitApprove,
      LaunchThrows, DatabaseThrows

LEMMA ApprovalStep == IApproval /\ [Next]_vars => IApproval'
<1> SUFFICES ASSUME IApproval, [Next]_vars PROVE IApproval'
  OBVIOUS
<1>1. TypeOK'
  BY TypeStep DEF IApproval
<1>2. CASE Approved
  BY <1>1, <1>2, ApprovalStays DEF IApproval
<1>3. CASE ~Approved
  BY <1>1, <1>3, BeforeApproval DEF IApproval
<1>4. QED
  BY <1>2, <1>3

\* Nothing is created at an ad platform for a plan nobody approved, in any
\* interleaving of requests, pipelines that outlive their timer, and crashes.
THEOREM NoSpendBeforeApproval == Spec => []ApprovalBeforeSpend
<1>1. IApproval => ApprovalBeforeSpend
  BY DEF IApproval, Approved, ApprovalBeforeSpend
<1>2. QED
  BY <1>1, ApprovalInit, ApprovalStep, PTL DEF Spec

-----------------------------------------------------------------------------
(***************************************************************************)
(* The objects: what the rows of a plan say about the objects at the ad    *)
(* platforms, for requests that overlap, fail and crash.                   *)
(***************************************************************************)

(* Real and Complete of PlanLaunch, of any set of objects: what they say   *)
(* stays true when the set grows.                                          *)

RealIn(x, p, g, L) ==
  /\ x.camp # None => Object("campaign", p, g, x.camp) \in L
  /\ x.adset # None => Object("adset", p, g, x.adset) \in L

CompleteIn(x, p, g, L) ==
  /\ x.camp # None /\ x.adset # None
  /\ \E r \in Requests : {Object("creative", p, g, r), Object("ad", p, g, r)} \subseteq L

AdIn(L) == \E o \in L : o.kind = "ad"

\* An item, in a row, in the snapshot of a launch or about to be stored, tells
\* the truth about generation g.
Honest(x, p, g, L) ==
  /\ RealIn(x, p, g, L)
  /\ x.status = "CREATED" => CompleteIn(x, p, g, L)

\* A pipeline of request r holds real ids, and what its earlier steps made.
PipeHonest(y, p, r, L) ==
  y.step # "idle" =>
    /\ RealIn(y, p, y.gen, L)
    /\ y.step \in {"adset", "creative", "ad", "done"} => y.camp # None
    /\ y.step \in {"creative", "ad", "done"} => y.adset # None
    /\ y.step \in {"ad", "done"} => Object("creative", p, y.gen, r) \in L
    /\ y.step = "done" => Object("ad", p, y.gen, r) \in L

\* A launch holds an honest snapshot and stores an honest item; if it counted
\* a created item there is an ad.
ReqHonest(q, L) ==
  /\ q.pc \in LaunchPcs => \A p \in Platforms : Honest(q.row[p], p, q.gen, L)
  /\ q.pc \in {"await", "persist"} => q.cur \in Platforms /\ Honest(q.out, q.cur, q.gen, L)
  /\ q.created => AdIn(L)

RowsHonest == \A p \in Platforms : Honest(row[p], p, plan.gen, ledger)
PipesHonest == \A r \in Requests, p \in Platforms : PipeHonest(pipe[r][p], p, r, ledger)
ReqsHonest == \A r \in Requests : ReqHonest(req[r], ledger)
\* The pipeline a launch waits for works on the generation of its snapshot.
AwaitsMatch ==
  \A r \in Requests : req[r].pc = "await" => pipe[r][req[r].cur].gen = req[r].gen
LaunchedHonest == plan.status = "LAUNCHED" => AdIn(ledger)

IObjects ==
  /\ TypeOK
  /\ RowsHonest /\ PipesHonest /\ ReqsHonest /\ AwaitsMatch /\ LaunchedHonest

-----------------------------------------------------------------------------
(* Operators                                                               *)

LEMMA HonestGrows ==
  \A x, p, g, L, M : L \subseteq M /\ Honest(x, p, g, L) => Honest(x, p, g, M)
  BY DEF Honest, RealIn, CompleteIn

LEMMA AdGrows == \A L, M : L \subseteq M /\ AdIn(L) => AdIn(M)
  BY DEF AdIn

LEMMA PipeGrows ==
  \A y, p, r, L, M : L \subseteq M /\ PipeHonest(y, p, r, L) => PipeHonest(y, p, r, M)
  BY DEF PipeHonest, RealIn

LEMMA ReqGrows == \A q, L, M : L \subseteq M /\ ReqHonest(q, L) => ReqHonest(q, M)
  BY HonestGrows, AdGrows DEF ReqHonest

LEMMA FreshHonest == \A p, g, L : Honest(FreshItem, p, g, L)
  BY DEF Honest, RealIn, FreshItem

LEMMA BlankHonest == \A c \in {"idle", "done"} : \A L : ReqHonest(Blank(c), L)
  BY DEF ReqHonest, Blank, LaunchPcs

LEMMA IdleHonest == \A p \in Platforms : \A r, L : PipeHonest(IdlePipe[p], p, r, L)
  BY DEF PipeHonest, IdlePipe

\* An item whose status becomes one that claims nothing stays honest.
LEMMA HonestStatus ==
  ASSUME NEW x \in Items, NEW s \in {"CREATING", "FAILED"}, NEW p, NEW g, NEW L, Honest(x, p, g, L)
  PROVE  Honest([x EXCEPT !.status = s], p, g, L)
  BY DEF Honest, RealIn, Items

LEMMA CompleteHasAd == \A x, p, g, L : CompleteIn(x, p, g, L) => AdIn(L)
  BY DEF CompleteIn, AdIn, Object

\* Only creating calls touch the platforms, and nothing is deleted there.
LEMMA LedgerGrows == [Next]_vars => ledger \subseteq ledger'
<1>1. ASSUME NEW r \in Requests, PipeStep(r) PROVE ledger \subseteq ledger'
  BY <1>1 DEF PipeStep, PipeCheck, PipeCreate, PipeFail, Made
<1>2. ASSUME NEW r \in Requests, LaunchStep(r) PROVE ledger' = ledger
  BY <1>2 DEF LaunchStep, MarkLaunching, LaunchThrows, FinishLaunch, SkipItem, StartItem,
     PersistItem, PipelineSettles, TimerFires
<1>3. ASSUME NEW r \in Requests, RequestStep(r) PROVE ledger' = ledger
  BY <1>2, <1>3 DEF RequestStep, LoadForRegenerate, CommitRegenerate, LoadForApprove,
     CommitApprove, LoadForLaunch, DatabaseThrows
<1>4. CreatePlan \/ Crash \/ UNCHANGED vars => ledger' = ledger
  BY DEF CreatePlan, Crash, vars
<1>5. QED
  BY <1>1, <1>3, <1>4 DEF Next

-----------------------------------------------------------------------------
(* Rows                                                                    *)

LEMMA RowSteps ==
  ASSUME TypeOK, [Next]_vars
  PROVE  \/ row' = FreshRow
         \/ /\ plan'.gen = plan.gen
            /\ \/ row' = row
               \/ \E r \in Requests, p \in Platforms : StartItem(r, p) \/ PersistItem(r, p)
<1>1. ASSUME NEW r \in Requests, MarkLaunching(r) \/ FinishLaunch(r) \/ CommitApprove(r)
      PROVE  plan'.gen = plan.gen /\ row' = row
  BY <1>1 DEF TypeOK, Plans, MarkLaunching, FinishLaunch, CommitApprove
<1>2. ASSUME NEW r \in Requests, NEW p \in Platforms, StartItem(r, p) \/ PersistItem(r, p)
      PROVE  plan' = plan
  BY <1>2 DEF StartItem, PersistItem
<1>3. ASSUME NEW r \in Requests, LaunchStep(r)
      PROVE  \/ MarkLaunching(r) \/ FinishLaunch(r)
             \/ plan' = plan /\ row' = row
             \/ \E p \in Platforms : StartItem(r, p) \/ PersistItem(r, p)
  BY <1>3 DEF LaunchStep, LaunchThrows, SkipItem, PipelineSettles, TimerFires
<1>4. ASSUME NEW r \in Requests, RequestStep(r)
      PROVE  \/ CommitRegenerate(r) \/ CommitApprove(r) \/ LaunchStep(r)
             \/ plan' = plan /\ row' = row
  BY <1>4 DEF RequestStep, LoadForRegenerate, LoadForApprove, LoadForLaunch, DatabaseThrows
<1>5. ASSUME NEW r \in Requests, PipeStep(r) PROVE plan' = plan /\ row' = row
  BY <1>5 DEF PipeStep, PipeCheck, PipeCreate, PipeFail
<1>6. CreatePlan \/ (\E r \in Requests : CommitRegenerate(r)) => row' = FreshRow
  BY DEF CreatePlan, CommitRegenerate
<1>7. Crash \/ UNCHANGED vars => plan' = plan /\ row' = row
  BY DEF Crash, vars
<1>8. QED
  BY <1>1, <1>2, <1>3, <1>4, <1>5, <1>6, <1>7 DEF Next

LEMMA RowsStep == IObjects /\ [Next]_vars => RowsHonest'
<1> SUFFICES ASSUME IObjects, [Next]_vars PROVE RowsHonest'
  OBVIOUS
<1>0. TypeOK /\ RowsHonest /\ ReqsHonest /\ ledger \subseteq ledger'
  BY LedgerGrows DEF IObjects
<1>1. CASE row' = FreshRow
  BY <1>1, FreshHonest DEF RowsHonest, FreshRow
<1>2. CASE plan'.gen = plan.gen /\ row' = row
  BY <1>0, <1>2, HonestGrows DEF RowsHonest
<1>3. ASSUME NEW r \in Requests, NEW p \in Platforms, StartItem(r, p), plan'.gen = plan.gen
      PROVE  RowsHonest'
  <2>1. /\ row \in [Platforms -> Items] /\ row[p] \in Items
        /\ row' = [row EXCEPT ![p] = [row[p] EXCEPT !.status = "CREATING"]]
    BY <1>0, <1>3 DEF TypeOK, StartItem
  <2>2. Honest(row[p], p, plan.gen, ledger)
    BY <1>0 DEF RowsHonest
  <2>3. Honest([row[p] EXCEPT !.status = "CREATING"], p, plan.gen, ledger)
    BY <2>1, <2>2, HonestStatus
  <2>4. \A q \in Platforms : Honest(row'[q], q, plan.gen, ledger)
    BY <1>0, <2>1, <2>3 DEF RowsHonest
  <2>5. QED
    BY <1>0, <1>3, <2>4, HonestGrows DEF RowsHonest
<1>4. ASSUME NEW r \in Requests, NEW p \in Platforms, PersistItem(r, p), plan'.gen = plan.gen
      PROVE  RowsHonest'
  <2>1. /\ row \in [Platforms -> Items] /\ row' = [row EXCEPT ![p] = req[r].out]
        /\ req[r].pc = "persist" /\ req[r].cur = p /\ req[r].gen = plan.gen
    BY <1>0, <1>4 DEF TypeOK, PersistItem, RowsExist
  <2>2. Honest(req[r].out, p, plan.gen, ledger)
    BY <1>0, <2>1 DEF ReqsHonest, ReqHonest
  <2>3. \A q \in Platforms : Honest(row'[q], q, plan.gen, ledger)
    BY <1>0, <2>1, <2>2 DEF RowsHonest
  <2>4. QED
    BY <1>0, <1>4, <2>3, HonestGrows DEF RowsHonest
<1>5. QED
  BY <1>0, <1>1, <1>2, <1>3, <1>4, RowSteps

-----------------------------------------------------------------------------
(* Pipelines                                                               *)

LEMMA PipeSteps ==
  ASSUME [Next]_vars
  PROVE  \/ pipe' = pipe
         \/ Crash
         \/ \E r \in Requests, p \in Platforms :
              \/ StartItem(r, p) \/ PipelineSettles(r, p)
              \/ PipeCheck(r, p) \/ PipeCreate(r, p) \/ PipeFail(r, p)
<1>1. ASSUME NEW r \in Requests, LaunchStep(r)
      PROVE  pipe' = pipe \/ \E p \in Platforms : StartItem(r, p) \/ PipelineSettles(r, p)
  BY <1>1 DEF LaunchStep, MarkLaunching, LaunchThrows, FinishLaunch, SkipItem, PersistItem,
     TimerFires
<1>2. ASSUME NEW r \in Requests, RequestStep(r) PROVE pipe' = pipe \/ LaunchStep(r)
  BY <1>2 DEF RequestStep, LoadForRegenerate, CommitRegenerate, LoadForApprove,
     CommitApprove, LoadForLaunch, DatabaseThrows
<1>3. CreatePlan \/ UNCHANGED vars => pipe' = pipe
  BY DEF CreatePlan, vars
<1>4. QED
  BY <1>1, <1>2, <1>3 DEF Next, PipeStep

\* One pipeline moves on, the others stay as they were.
LEMMA PipeFrame ==
  ASSUME TypeOK, PipesHonest, ledger \subseteq ledger',
         NEW r \in Requests, NEW p \in Platforms, NEW x, PipeHonest(x, p, r, ledger'),
         pipe' = [pipe EXCEPT ![r][p] = x]
  PROVE  PipesHonest'
<1>1. pipe \in [Requests -> [Platforms -> Pipes]]
  BY DEF TypeOK
<1>2. ASSUME NEW q \in Requests, NEW t \in Platforms PROVE PipeHonest(pipe'[q][t], t, q, ledger')
  <2>1. CASE q = r /\ t = p
    BY <1>1, <2>1
  <2>2. CASE ~(q = r /\ t = p)
    <3>1. pipe'[q][t] = pipe[q][t]
      BY <1>1, <2>2
    <3>2. PipeHonest(pipe[q][t], t, q, ledger)
      BY DEF PipesHonest
    <3>3. QED
      BY <3>1, <3>2, PipeGrows
  <2>3. QED
    BY <2>1, <2>2
<1>3. QED
  BY <1>2 DEF PipesHonest

\* A pipeline that makes no object: it fails, or checks the account first.
LEMMA HonestMoves ==
  ASSUME NEW y \in Pipes, NEW p, NEW r, NEW L, PipeHonest(y, p, r, L)
  PROVE  /\ PipeHonest([y EXCEPT !.step = "failed"], p, r, L) \/ y.step = "idle"
         /\ y.step = "check" =>
              PipeHonest([y EXCEPT !.step = AfterCheck(y.camp, y.adset)], p, r, L)
  BY DEF PipeHonest, RealIn, Pipes, AfterCheck, AfterCampaign

\* A pipeline that has made the object of its step.
LEMMA HonestCreates ==
  ASSUME NEW y \in Pipes, NEW p, NEW r \in Requests, NEW L, PipeHonest(y, p, r, L),
         Object(y.step, p, y.gen, r) \in L
  PROVE  /\ y.step = "campaign" =>
              PipeHonest([y EXCEPT !.step = AfterCampaign(y.adset), !.camp = r], p, r, L)
         /\ y.step = "adset" => PipeHonest([y EXCEPT !.step = "creative", !.adset = r], p, r, L)
         /\ y.step = "creative" => PipeHonest([y EXCEPT !.step = "ad"], p, r, L)
         /\ y.step = "ad" => PipeHonest([y EXCEPT !.step = "done"], p, r, L)
<1>1. r # None
  BY PlanAssumption
<1>2. y.step = "campaign" =>
        PipeHonest([y EXCEPT !.step = AfterCampaign(y.adset), !.camp = r], p, r, L)
  BY <1>1 DEF PipeHonest, RealIn, Pipes, AfterCampaign
<1>3. y.step = "adset" => PipeHonest([y EXCEPT !.step = "creative", !.adset = r], p, r, L)
  BY <1>1 DEF PipeHonest, RealIn, Pipes
<1>4. y.step = "creative" => PipeHonest([y EXCEPT !.step = "ad"], p, r, L)
  BY DEF PipeHonest, RealIn, Pipes
<1>5. y.step = "ad" => PipeHonest([y EXCEPT !.step = "done"], p, r, L)
  BY DEF PipeHonest, RealIn, Pipes
<1>6. QED
  BY <1>2, <1>3, <1>4, <1>5

LEMMA PipesStep == IObjects /\ [Next]_vars => PipesHonest'
<1> SUFFICES ASSUME IObjects, [Next]_vars PROVE PipesHonest'
  OBVIOUS
<1>0. TypeOK /\ PipesHonest /\ ReqsHonest /\ ledger \subseteq ledger'
  BY LedgerGrows DEF IObjects
<1>1. CASE pipe' = pipe
  BY <1>0, <1>1, PipeGrows DEF PipesHonest
<1>2. CASE Crash
  BY <1>2, IdleHonest DEF Crash, PipesHonest
<1>a. ASSUME NEW r \in Requests, NEW p \in Platforms
      PROVE  pipe[r][p] \in Pipes /\ PipeHonest(pipe[r][p], p, r, ledger')
  BY <1>0, PipeGrows DEF TypeOK, PipesHonest
<1>3. ASSUME NEW r \in Requests, NEW p \in Platforms, StartItem(r, p) PROVE PipesHonest'
  <2> DEFINE x == [step |-> "check", gen |-> req[r].gen,
                   camp |-> req[r].row[p].camp, adset |-> req[r].row[p].adset]
  <2>1. pipe' = [pipe EXCEPT ![r][p] = x] /\ req[r].pc = "loop" /\ ledger' = ledger
    BY <1>3 DEF StartItem, Visit
  <2>2. Honest(req[r].row[p], p, req[r].gen, ledger)
    BY <1>0, <2>1 DEF ReqsHonest, ReqHonest, LaunchPcs
  <2>3. PipeHonest(x, p, r, ledger')
    BY <2>1, <2>2 DEF PipeHonest, Honest, RealIn
  <2>4. QED
    BY <1>0, <2>1, <2>3, PipeFrame
<1>4. ASSUME NEW r \in Requests, NEW p \in Platforms, PipelineSettles(r, p) PROVE PipesHonest'
  <2>1. pipe' = [pipe EXCEPT ![r][p] = IdlePipe[p]] /\ PipeHonest(IdlePipe[p], p, r, ledger')
    BY <1>4, IdleHonest DEF PipelineSettles
  <2>2. QED
    BY <1>0, <2>1, PipeFrame
<1>5. ASSUME NEW r \in Requests, NEW p \in Platforms, PipeCheck(r, p) \/ PipeFail(r, p)
      PROVE  PipesHonest'
  <2> DEFINE y == pipe[r][p]
  <2>1. /\ y.step # "idle"
        /\ \/ pipe' = [pipe EXCEPT ![r][p] = [y EXCEPT !.step = "failed"]]
           \/ /\ y.step = "check"
              /\ pipe' = [pipe EXCEPT ![r][p] = [y EXCEPT !.step = AfterCheck(y.camp, y.adset)]]
    BY <1>0, <1>5 DEF TypeOK, PipeCheck, PipeFail, Kinds
  <2>2. /\ PipeHonest([y EXCEPT !.step = "failed"], p, r, ledger')
        /\ y.step = "check" =>
             PipeHonest([y EXCEPT !.step = AfterCheck(y.camp, y.adset)], p, r, ledger')
    BY <1>a, <2>1, HonestMoves
  <2>3. QED
    BY <1>0, <2>1, <2>2, PipeFrame
<1>6. ASSUME NEW r \in Requests, NEW p \in Platforms, PipeCreate(r, p) PROVE PipesHonest'
  <2> DEFINE y == pipe[r][p]
             camped == [y EXCEPT !.step = AfterCampaign(y.adset), !.camp = r]
             setted == [y EXCEPT !.step = "creative", !.adset = r]
             drawn == [y EXCEPT !.step = "ad"]
             ended == [y EXCEPT !.step = "done"]
  <2>1. Object(y.step, p, y.gen, r) \in ledger'
    BY <1>6 DEF PipeCreate, Made
  <2>2. \/ y.step = "campaign" /\ pipe' = [pipe EXCEPT ![r][p] = camped]
        \/ y.step = "adset" /\ pipe' = [pipe EXCEPT ![r][p] = setted]
        \/ y.step = "creative" /\ pipe' = [pipe EXCEPT ![r][p] = drawn]
        \/ y.step = "ad" /\ pipe' = [pipe EXCEPT ![r][p] = ended]
    BY <1>0, <1>6 DEF TypeOK, PipeCreate
  <2>3. /\ y.step = "campaign" => PipeHonest(camped, p, r, ledger')
        /\ y.step = "adset" => PipeHonest(setted, p, r, ledger')
        /\ y.step = "creative" => PipeHonest(drawn, p, r, ledger')
        /\ y.step = "ad" => PipeHonest(ended, p, r, ledger')
    BY <1>a, <2>1, HonestCreates
  <2> HIDE DEF y, camped, setted, drawn, ended
  <2>4. QED
    BY <1>0, <2>2, <2>3, PipeFrame
<1>7. QED
  BY <1>1, <1>2, <1>3, <1>4, <1>5, <1>6, PipeSteps

-----------------------------------------------------------------------------
(* Requests                                                                *)

\* What the steps of one request do to its record, and to no other.
ReqUnits(r) ==
  \/ End(r)
  \/ LoadForRegenerate(r) \/ LoadForApprove(r) \/ LoadForLaunch(r) \/ MarkLaunching(r)
  \/ \E p \in Platforms : \/ SkipItem(r, p) \/ StartItem(r, p) \/ PersistItem(r, p)
                          \/ PipelineSettles(r, p) \/ TimerFires(r, p)

LEMMA ReqSteps ==
  ASSUME [Next]_vars
  PROVE  req' = req \/ Crash \/ \E r \in Requests : ReqUnits(r)
<1>1. ASSUME NEW r \in Requests, LaunchStep(r) PROVE ReqUnits(r)
  BY <1>1 DEF LaunchStep, ReqUnits, LaunchThrows, FinishLaunch
<1>2. ASSUME NEW r \in Requests, RequestStep(r) PROVE ReqUnits(r)
  BY <1>1, <1>2 DEF RequestStep, ReqUnits, CommitRegenerate, CommitApprove, DatabaseThrows
<1>3. ASSUME NEW r \in Requests, PipeStep(r) PROVE req' = req
  BY <1>3 DEF PipeStep, PipeCheck, PipeCreate, PipeFail
<1>4. CreatePlan \/ UNCHANGED vars => req' = req
  BY DEF CreatePlan, vars
<1>5. QED
  BY <1>2, <1>3, <1>4 DEF Next

LEMMA ReqFrame ==
  ASSUME TypeOK, ReqsHonest, ledger \subseteq ledger',
         NEW r \in Requests, NEW x, ReqHonest(x, ledger'), req' = [req EXCEPT ![r] = x]
  PROVE  ReqsHonest'
<1>1. req \in [Requests -> Reqs]
  BY DEF TypeOK
<1>2. ASSUME NEW q \in Requests PROVE ReqHonest(req'[q], ledger')
  <2>1. CASE q = r
    BY <1>1, <2>1
  <2>2. CASE q # r
    BY <1>1, <2>2, ReqGrows DEF ReqsHonest
  <2>3. QED
    BY <2>1, <2>2
<1>3. QED
  BY <1>2 DEF ReqsHonest

\* A request moves on without taking up or finishing an item.
LEMMA HonestWaits ==
  ASSUME NEW q \in Reqs, NEW L, ReqHonest(q, L), NEW a, NEW t
  PROVE  /\ ReqHonest([q EXCEPT !.pc = "regenerate"], L)
         /\ ReqHonest([q EXCEPT !.pc = "approve", !.ack = a], L)
         /\ q.pc \in LaunchPcs => ReqHonest([q EXCEPT !.pc = "loop"], L)
         /\ q.pc = "loop" => ReqHonest([q EXCEPT !.todo = t], L)
  BY DEF ReqHonest, Reqs, LaunchPcs

\* A launch takes up an item, learns what became of it, and stores it.
LEMMA HonestItems ==
  ASSUME NEW q \in Reqs, NEW L, ReqHonest(q, L), q.pc \in LaunchPcs,
         NEW p \in Platforms, NEW t, NEW i, Honest(i, p, q.gen, L)
  PROVE  /\ ReqHonest([q EXCEPT !.pc = "await", !.todo = t, !.cur = p, !.out = i], L)
         /\ q.cur = p => ReqHonest([q EXCEPT !.pc = "persist", !.out = i], L)
  BY DEF ReqHonest, Reqs, LaunchPcs

LEMMA HonestPersists ==
  ASSUME NEW q \in Reqs, NEW L, ReqHonest(q, L), q.pc = "persist"
  PROVE  ReqHonest([q EXCEPT !.pc = "loop", !.cur = None, !.out = FreshItem,
                             !.created = q.created \/ q.out.status = "CREATED"], L)
<1> DEFINE c == q.created \/ q.out.status = "CREATED"
<1>1. c => AdIn(L)
  BY CompleteHasAd DEF ReqHonest, Honest
<1>2. \A p \in Platforms : Honest(q.row[p], p, q.gen, L)
  BY DEF ReqHonest, LaunchPcs
<1> HIDE DEF c
<1>3. ReqHonest([q EXCEPT !.pc = "loop", !.cur = None, !.out = FreshItem, !.created = c], L)
  BY <1>1, <1>2 DEF ReqHonest, Reqs
<1>4. QED
  BY <1>3 DEF c

\* What a pipeline that is done hands to its launch.
LEMMA HonestResult ==
  ASSUME NEW y \in Pipes, NEW p, NEW r \in Requests, NEW L, PipeHonest(y, p, r, L), y.step = "done"
  PROVE  Honest([status |-> "CREATED", camp |-> y.camp, adset |-> y.adset], p, y.gen, L)
  BY DEF PipeHonest, Honest, RealIn, CompleteIn

LEMMA ReqsStep == IObjects /\ [Next]_vars => ReqsHonest'
<1> SUFFICES ASSUME IObjects, [Next]_vars PROVE ReqsHonest'
  OBVIOUS
<1>0. /\ TypeOK /\ RowsHonest /\ PipesHonest /\ ReqsHonest /\ AwaitsMatch
      /\ ledger \subseteq ledger'
  BY LedgerGrows DEF IObjects
<1>1. CASE req' = req
  BY <1>0, <1>1, ReqGrows DEF ReqsHonest
<1>2. CASE Crash
  BY <1>2, BlankHonest DEF Crash, ReqsHonest
<1>3. ASSUME NEW r \in Requests, ReqUnits(r) PROVE ReqsHonest'
  <2>0. /\ req[r] \in Reqs /\ ReqHonest(req[r], ledger')
    BY <1>0, ReqGrows DEF TypeOK, ReqsHonest
  <2>1. CASE End(r)
    BY <1>0, <2>1, BlankHonest, ReqFrame DEF End
  <2>2. CASE LoadForRegenerate(r)
    BY <1>0, <2>0, <2>2, HonestWaits, ReqFrame DEF LoadForRegenerate
  <2>3. CASE LoadForApprove(r)
    <3>1. PICK a \in BOOLEAN : req' = [req EXCEPT ![r] = [req[r] EXCEPT !.pc = "approve", !.ack = a]]
      BY <2>3 DEF LoadForApprove
    <3>2. QED
      BY <1>0, <2>0, <3>1, HonestWaits, ReqFrame
  <2>4. CASE LoadForLaunch(r)
    <3> DEFINE x == [Blank("mark") EXCEPT !.status = plan.status, !.gen = plan.gen,
                                          !.row = row, !.todo = Platforms]
    <3>1. req' = [req EXCEPT ![r] = x] /\ ledger' = ledger
      BY <2>4 DEF LoadForLaunch
    <3>2. x.pc = "mark" /\ x.row = row /\ x.gen = plan.gen /\ x.created = FALSE
      BY DEF Blank
    <3>3. ReqHonest(x, ledger')
      BY <1>0, <3>1, <3>2 DEF ReqHonest, RowsHonest
    <3> HIDE DEF x
    <3>4. QED
      BY <1>0, <3>1, <3>3, ReqFrame
  <2>5. CASE MarkLaunching(r)
    BY <1>0, <2>0, <2>5, HonestWaits, ReqFrame DEF MarkLaunching, LaunchPcs
  <2>6. ASSUME NEW p \in Platforms, SkipItem(r, p) PROVE ReqsHonest'
    <3>1. req' = [req EXCEPT ![r] = [req[r] EXCEPT !.todo = Left(r, p)]] /\ req[r].pc = "loop"
      BY <2>6 DEF SkipItem, Visit
    <3>2. QED
      BY <1>0, <2>0, <3>1, HonestWaits, ReqFrame
  <2>7. ASSUME NEW p \in Platforms, StartItem(r, p) PROVE ReqsHonest'
    <3>1. /\ req[r].pc = "loop"
          /\ req' = [req EXCEPT ![r] = [req[r] EXCEPT !.pc = "await", !.todo = Left(r, p),
                                          !.cur = p, !.out = req[r].row[p]]]
      BY <2>7 DEF StartItem, Visit
    <3>2. Honest(req[r].row[p], p, req[r].gen, ledger')
      BY <2>0, <3>1 DEF ReqHonest, LaunchPcs
    <3>3. ReqHonest([req[r] EXCEPT !.pc = "await", !.todo = Left(r, p),
                                   !.cur = p, !.out = req[r].row[p]], ledger')
      BY <2>0, <3>1, <3>2, HonestItems DEF LaunchPcs
    <3>4. QED
      BY <1>0, <3>1, <3>3, ReqFrame
  <2>8. ASSUME NEW p \in Platforms, PersistItem(r, p) PROVE ReqsHonest'
    <3>1. /\ req[r].pc = "persist"
          /\ req' = [req EXCEPT ![r] = [req[r] EXCEPT !.pc = "loop", !.cur = None,
                !.out = FreshItem, !.created = req[r].created \/ req[r].out.status = "CREATED"]]
      BY <2>8 DEF PersistItem
    <3>2. QED
      BY <1>0, <2>0, <3>1, HonestPersists, ReqFrame
  <2>9. ASSUME req[r].pc = "await" PROVE Honest(FailedOut(r), req[r].cur, req[r].gen, ledger')
    <3>1. req[r].out \in Items /\ Honest(req[r].out, req[r].cur, req[r].gen, ledger')
      BY <2>0, <2>9 DEF Reqs, ReqHonest
    <3>2. QED
      BY <3>1, HonestStatus DEF FailedOut
  <2>10. ASSUME NEW p \in Platforms, PipelineSettles(r, p) PROVE ReqsHonest'
    <3> DEFINE made == [status |-> "CREATED", camp |-> pipe[r][p].camp, adset |-> pipe[r][p].adset]
    <3>1. /\ req[r].pc = "await" /\ req[r].cur = p
          /\ \/ /\ pipe[r][p].step = "done"
                /\ req' = [req EXCEPT ![r] = [req[r] EXCEPT !.pc = "persist", !.out = made]]
             \/ req' = [req EXCEPT ![r] = [req[r] EXCEPT !.pc = "persist", !.out = FailedOut(r)]]
      BY <2>10 DEF PipelineSettles
    <3>2. /\ pipe[r][p] \in Pipes /\ PipeHonest(pipe[r][p], p, r, ledger')
          /\ pipe[r][p].gen = req[r].gen
      BY <1>0, <3>1, PipeGrows DEF TypeOK, PipesHonest, AwaitsMatch
    <3>3. pipe[r][p].step = "done" => Honest(made, p, req[r].gen, ledger')
      BY <3>2, HonestResult
    <3> HIDE DEF made
    <3>4. /\ pipe[r][p].step = "done" =>
               ReqHonest([req[r] EXCEPT !.pc = "persist", !.out = made], ledger')
          /\ ReqHonest([req[r] EXCEPT !.pc = "persist", !.out = FailedOut(r)], ledger')
      BY <2>0, <2>9, <3>1, <3>3, HonestItems DEF LaunchPcs
    <3>5. QED
      BY <1>0, <3>1, <3>4, ReqFrame
  <2>11. ASSUME NEW p \in Platforms, TimerFires(r, p) PROVE ReqsHonest'
    <3>1. /\ req[r].pc = "await" /\ req[r].cur = p
          /\ req' = [req EXCEPT ![r] = [req[r] EXCEPT !.pc = "persist", !.out = FailedOut(r)]]
      BY <2>11 DEF TimerFires
    <3>2. ReqHonest([req[r] EXCEPT !.pc = "persist", !.out = FailedOut(r)], ledger')
      BY <2>0, <2>9, <3>1, HonestItems DEF LaunchPcs
    <3>3. QED
      BY <1>0, <3>1, <3>2, ReqFrame
  <2>12. QED
    BY <1>3, <2>1, <2>2, <2>3, <2>4, <2>5, <2>6, <2>7, <2>8, <2>10, <2>11 DEF ReqUnits
<1>4. QED
  BY <1>1, <1>2, <1>3, ReqSteps

-----------------------------------------------------------------------------
(* A launch and its pipeline; the final status                             *)

\* Only the start of its item makes a launch wait.
LEMMA AwaitSteps ==
  ASSUME TypeOK, [Next]_vars, NEW r \in Requests, req'[r].pc = "await"
  PROVE  \/ \E p \in Platforms : StartItem(r, p)
         \/ /\ req'[r] = req[r]
            /\ ~Crash /\ \A p \in Platforms : ~StartItem(r, p) /\ ~PipelineSettles(r, p)
<1>0. req \in [Requests -> Reqs]
  BY DEF TypeOK
<1>1. ~Crash
  BY DEF Crash, Blank
<1>2. ASSUME NEW q \in Requests, ReqUnits(q), \A p \in Platforms : ~StartItem(q, p)
      PROVE  /\ req'[q].pc # "await"
             /\ q # r => req'[r] = req[r]
  <2>1. \E x : req' = [req EXCEPT ![q] = x]
    BY <1>2 DEF ReqUnits, End, LoadForRegenerate, LoadForApprove, LoadForLaunch, MarkLaunching,
       SkipItem, PersistItem, PipelineSettles, TimerFires
  <2>2. q # r => req'[r] = req[r]
    BY <1>0, <2>1
  <2>3. End(q) => req'[q].pc = "done"
    BY <1>0 DEF End, Blank
  <2>4. LoadForRegenerate(q) \/ LoadForApprove(q) => req'[q].pc \in {"regenerate", "approve"}
    <3>1. LoadForRegenerate(q) => req'[q].pc = "regenerate"
      BY <1>0 DEF LoadForRegenerate, Reqs
    <3>2. ASSUME LoadForApprove(q) PROVE req'[q].pc = "approve"
      <4> PICK a \in BOOLEAN : req' = [req EXCEPT ![q] = [req[q] EXCEPT !.pc = "approve", !.ack = a]]
        BY <3>2 DEF LoadForApprove
      <4>1. QED
        BY <1>0 DEF Reqs
    <3>3. QED
      BY <3>1, <3>2
  <2>5. LoadForLaunch(q) => req'[q].pc = "mark"
    BY <1>0 DEF LoadForLaunch, Blank
  <2>6. MarkLaunching(q) => req'[q].pc = "loop"
    BY <1>0 DEF MarkLaunching, Reqs
  <2>7. ASSUME NEW p \in Platforms
        PROVE  /\ SkipItem(q, p) \/ PersistItem(q, p) => req'[q].pc = "loop"
               /\ PipelineSettles(q, p) \/ TimerFires(q, p) => req'[q].pc = "persist"
    <3>1. SkipItem(q, p) => req'[q].pc = "loop"
      BY <1>0 DEF SkipItem, Visit, Reqs
    <3>2. PersistItem(q, p) => req'[q].pc = "loop"
      BY <1>0 DEF PersistItem, Reqs
    <3>3. PipelineSettles(q, p) => req'[q].pc = "persist"
      BY <1>0 DEF PipelineSettles, Reqs
    <3>4. TimerFires(q, p) => req'[q].pc = "persist"
      BY <1>0 DEF TimerFires, Reqs
    <3>5. QED
      BY <3>1, <3>2, <3>3, <3>4
  <2>8. req'[q].pc # "await"
    BY <1>2, <2>3, <2>4, <2>5, <2>6, <2>7 DEF ReqUnits
  <2>9. QED
    BY <2>2, <2>8
<1>3. ASSUME NEW q \in Requests, q # r, NEW p \in Platforms, StartItem(q, p)
      PROVE  req'[r] = req[r]
  BY <1>0, <1>3 DEF StartItem
<1>4. ASSUME NEW p \in Platforms, PipelineSettles(r, p) PROVE FALSE
  <2>1. r \in Requests /\ req \in [Requests -> Reqs]
    BY <1>0
  <2>2. PICK o : req' = [req EXCEPT ![r] = [req[r] EXCEPT !.pc = "persist", !.out = o]]
    BY <1>4 DEF PipelineSettles
  <2>3. req'[r].pc = "persist"
    BY <2>1, <2>2 DEF Reqs
  <2>4. QED
    BY <1>0, <2>3
<1>5. CASE req' = req
  BY <1>1, <1>4, <1>5
<1>6. ASSUME NEW q \in Requests, ReqUnits(q), \A p \in Platforms : ~StartItem(r, p)
      PROVE  req'[r] = req[r]
  BY <1>2, <1>3, <1>6
<1>7. QED
  BY <1>1, <1>4, <1>5, <1>6, ReqSteps

LEMMA AwaitsStep == IObjects /\ [Next]_vars => AwaitsMatch'
<1> SUFFICES ASSUME IObjects, [Next]_vars, NEW r \in Requests, req'[r].pc = "await"
             PROVE  pipe'[r][req'[r].cur].gen = req'[r].gen
  BY DEF AwaitsMatch
<1>0. /\ TypeOK /\ ReqsHonest /\ AwaitsMatch
      /\ req \in [Requests -> Reqs] /\ pipe \in [Requests -> [Platforms -> Pipes]]
  BY DEF IObjects, TypeOK
<1>1. ASSUME NEW p \in Platforms, StartItem(r, p) PROVE pipe'[r][req'[r].cur].gen = req'[r].gen
  <2>1. req'[r].cur = p /\ req'[r].gen = req[r].gen
    BY <1>0, <1>1 DEF StartItem, Reqs
  <2>2. pipe'[r][p].gen = req[r].gen
    BY <1>0, <1>1 DEF StartItem
  <2>3. QED
    BY <2>1, <2>2
<1>2. CASE /\ req'[r] = req[r]
           /\ ~Crash /\ \A p \in Platforms : ~StartItem(r, p) /\ ~PipelineSettles(r, p)
  <2> DEFINE c == req[r].cur
  <2>1. c \in Platforms /\ pipe[r][c].gen = req[r].gen
    BY <1>0, <1>2 DEF ReqsHonest, ReqHonest, AwaitsMatch
  <2>2. ASSUME NEW q \in Requests, NEW p \in Platforms,
               StartItem(q, p) \/ PipelineSettles(q, p)
        PROVE  pipe'[r][c] = pipe[r][c]
    BY <1>0, <1>2, <2>1, <2>2 DEF StartItem, PipelineSettles
  <2>3. ASSUME NEW q \in Requests, NEW p \in Platforms, PipeCheck(q, p) \/ PipeFail(q, p)
        PROVE  pipe'[r][c].gen = pipe[r][c].gen
    <3>1. \E s : pipe' = [pipe EXCEPT ![q][p].step = s]
      BY <2>3 DEF PipeCheck, PipeFail
    <3>2. pipe[q][p] \in Pipes
      BY <1>0
    <3>3. QED
      BY <1>0, <2>1, <3>1, <3>2 DEF Pipes
  <2>4. ASSUME NEW q \in Requests, NEW p \in Platforms, PipeCreate(q, p)
        PROVE  pipe'[r][c].gen = pipe[r][c].gen
    <3>1. pipe[q][p] \in Pipes
      BY <1>0
    <3>2. \E x : x.gen = pipe[q][p].gen /\ pipe' = [pipe EXCEPT ![q][p] = x]
      BY <1>0, <2>4, <3>1 DEF PipeCreate, Pipes
    <3>3. QED
      BY <1>0, <2>1, <3>2
  <2>5. QED
    BY <1>2, <2>1, <2>2, <2>3, <2>4, PipeSteps
<1>3. QED
  BY <1>0, <1>1, <1>2, AwaitSteps

\* Only the end of a launch writes LAUNCHED.
LEMMA LaunchedSteps ==
  ASSUME TypeOK, [Next]_vars, plan'.status = "LAUNCHED"
  PROVE  plan.status = "LAUNCHED" \/ \E r \in Requests : FinishLaunch(r)
<1>1. ASSUME NEW r \in Requests, MarkLaunching(r) PROVE plan' = plan
  BY <1>1 DEF MarkLaunching, TypeOK, Plans
<1>2. ASSUME NEW r \in Requests, CommitApprove(r) PROVE FALSE
  BY <1>2 DEF CommitApprove, TypeOK, Plans
<1>3. ASSUME NEW r \in Requests, CommitRegenerate(r) PROVE plan'.status = plan.status
  BY <1>3 DEF CommitRegenerate, TypeOK, Plans
<1>4. ~CreatePlan
  BY DEF CreatePlan
<1>5. ASSUME NEW r \in Requests, LaunchStep(r) PROVE plan' = plan \/ FinishLaunch(r)
  BY <1>1, <1>5 DEF LaunchStep, LaunchThrows, SkipItem, StartItem, PersistItem,
     PipelineSettles, TimerFires
<1>6. ASSUME NEW r \in Requests, RequestStep(r)
      PROVE  plan'.status = plan.status \/ FinishLaunch(r)
  BY <1>2, <1>3, <1>5, <1>6 DEF RequestStep, LoadForRegenerate, LoadForApprove, LoadForLaunch,
     DatabaseThrows
<1>7. ASSUME NEW r \in Requests, PipeStep(r) PROVE plan' = plan
  BY <1>7 DEF PipeStep, PipeCheck, PipeCreate, PipeFail
<1>8. Crash \/ UNCHANGED vars => plan' = plan
  BY DEF Crash, vars
<1>9. QED
  BY <1>4, <1>6, <1>7, <1>8 DEF Next

LEMMA LaunchedStep == IObjects /\ [Next]_vars => LaunchedHonest'
<1> SUFFICES ASSUME IObjects, [Next]_vars, plan'.status = "LAUNCHED" PROVE AdIn(ledger')
  BY DEF LaunchedHonest
<1>0. TypeOK /\ ReqsHonest /\ LaunchedHonest /\ ledger \subseteq ledger'
  BY LedgerGrows DEF IObjects
<1>1. CASE plan.status = "LAUNCHED"
  BY <1>0, <1>1, AdGrows DEF LaunchedHonest
<1>2. ASSUME NEW r \in Requests, FinishLaunch(r) PROVE AdIn(ledger')
  <2>1. req[r].created
    BY <1>0, <1>2 DEF FinishLaunch, FinalStatus, TypeOK, Plans
  <2>2. QED
    BY <1>0, <2>1, AdGrows DEF ReqsHonest, ReqHonest
<1>3. QED
  BY <1>0, <1>1, <1>2, LaunchedSteps

-----------------------------------------------------------------------------
(* The theorems                                                            *)

LEMMA ObjectsInit == Init => IObjects
<1> SUFFICES ASSUME Init PROVE IObjects
  OBVIOUS
<1>1. TypeOK
  BY TypeInit
<1>2. RowsHonest
  BY FreshHonest DEF Init, RowsHonest, FreshRow
<1>3. PipesHonest
  BY IdleHonest DEF Init, PipesHonest
<1>4. ReqsHonest
  BY BlankHonest DEF Init, ReqsHonest
<1>5. AwaitsMatch
  BY DEF Init, AwaitsMatch, Blank
<1>6. LaunchedHonest
  BY DEF Init, LaunchedHonest
<1>7. QED
  BY <1>1, <1>2, <1>3, <1>4, <1>5, <1>6 DEF IObjects

LEMMA ObjectsStep == IObjects /\ [Next]_vars => IObjects'
<1> SUFFICES ASSUME IObjects, [Next]_vars PROVE IObjects'
  OBVIOUS
<1>1. TypeOK'
  BY TypeStep DEF IObjects
<1>2. QED
  BY <1>1, RowsStep, PipesStep, ReqsStep, AwaitsStep, LaunchedStep DEF IObjects

LEMMA ObjectsHold == Spec => []IObjects
  BY ObjectsInit, ObjectsStep, PTL DEF Spec

\* An external id stored on an item row is the id of an object that exists and
\* was made for that very item, in any interleaving of launches, regenerates,
\* timers and crashes.
THEOREM StoredIdsCorrect == Spec => []StoredIdsAreReal
<1>1. IObjects => StoredIdsAreReal
  BY DEF IObjects, RowsHonest, Honest, RealIn, StoredIdsAreReal, Real
<1>2. QED
  BY <1>1, ObjectsHold, PTL

\* An item in CREATED has its campaign, ad set, creative and ad.
THEOREM CreatedItemsCorrect == Spec => []CreatedItemIsComplete
<1>1. IObjects => CreatedItemIsComplete
  BY DEF IObjects, RowsHonest, Honest, CompleteIn, CreatedItemIsComplete, Complete
<1>2. QED
  BY <1>1, ObjectsHold, PTL

\* A plan reads LAUNCHED only when an ad of it was created.
THEOREM LaunchedCorrect == Spec => []LaunchedMeansAnAdExists
<1>1. IObjects => LaunchedMeansAnAdExists
  BY DEF IObjects, LaunchedHonest, AdIn, LaunchedMeansAnAdExists
<1>2. QED
  BY <1>1, ObjectsHold, PTL

-----------------------------------------------------------------------------
(***************************************************************************)
(* One request at a time: what the controller documents holds when         *)
(* requests do not overlap, in spite of failing calls, crashes and         *)
(* pipelines that outlive their timer.                                     *)
(***************************************************************************)

Active(q) == q.pc \notin {"idle", "done"}

\* What a request in progress may rely on: the plan P and the rows R are still
\* what it read, or what it made of them.
Fits(q, P, R) ==
  /\ q.pc \in {"regenerate", "approve"} => P.status = "DRAFT"
  /\ q.pc = "approve" => P.risk # "BLOCKER" /\ (P.risk = "WARNING" => q.ack)
  /\ q.pc = "mark" => q.status = P.status /\ P.status \in Launchable
  /\ q.pc \in {"loop", "await", "persist"} => P.status = "LAUNCHING"
  /\ q.pc \in LaunchPcs => q.gen = P.gen /\ \A p \in q.todo : R[p].status = q.row[p].status
  /\ q.pc \in {"await", "persist"} =>
       q.cur \in Platforms \ q.todo /\ R[q.cur].status = "CREATING"

AllFit == \A r \in Requests : Fits(req[r], plan, row)
OneActive == \A r, q \in Requests : Active(req[r]) /\ Active(req[q]) => r = q

\* Before a plan is created it has no items.
NoRowsYet == plan.status = "ABSENT" => row = FreshRow

ISerial == TypeOK /\ AllFit /\ OneActive /\ ApprovedMeansReviewed /\ NoRowsYet

-----------------------------------------------------------------------------
LEMMA InactiveFits == \A q, P, R : ~Active(q) => Fits(q, P, R)
  BY DEF Active, Fits, LaunchPcs

LEMMA BlankInactive == \A c \in {"idle", "done"} : ~Active(Blank(c))
  BY DEF Active, Blank

\* Whoever moves is the only one in progress.
LEMMA SerialFrame ==
  ASSUME TypeOK, OneActive, NEW r \in Requests, NEW x, req' = [req EXCEPT ![r] = x],
         \A q \in Requests : Active(req[q]) => q = r,
         Fits(x, plan', row')
  PROVE  AllFit' /\ OneActive'
<1>1. req \in [Requests -> Reqs]
  BY DEF TypeOK
<1>2. \A q \in Requests : q # r => req'[q] = req[q] /\ ~Active(req[q])
  BY <1>1
<1>3. req'[r] = x
  BY <1>1
<1>4. \A q \in Requests : Fits(req'[q], plan', row')
  BY <1>2, <1>3, InactiveFits
<1>5. QED
  BY <1>2, <1>4 DEF AllFit, OneActive

\* A request is taken up when no other is in progress, and goes on alone.
LEMMA AdmittedAlone ==
  ASSUME ~Concurrent, NEW r \in Requests, NEW op, Admit(r, op)
  PROVE  \A q \in Requests : Active(req[q]) => q = r
  BY DEF Admit, Active

LEMMA ActiveAlone ==
  ASSUME OneActive, NEW r \in Requests, Active(req[r])
  PROVE  \A q \in Requests : Active(req[q]) => q = r
  BY DEF OneActive

\* The ends of requests: nothing is left to fit.
LEMMA EndsFit ==
  ASSUME TypeOK, OneActive, NEW r \in Requests, Active(req[r]), End(r)
  PROVE  AllFit' /\ OneActive'
  BY ActiveAlone, BlankInactive, InactiveFits, SerialFrame DEF End

-----------------------------------------------------------------------------
(* What a step may do to the plan and its rows: the documented moves.      *)

Documented ==
  /\ plan'.status = plan.status \/ Lifecycle!Next
  /\ plan'.gen # plan.gen => plan.status \in {"ABSENT", "DRAFT"}
  /\ plan'.gen = plan.gen =>
       \A p \in Platforms : row[p].status = "CREATED" => row'[p] = row[p]
  /\ ApprovedMeansReviewed' /\ NoRowsYet'

LEMMA Untouched == ISerial /\ plan' = plan /\ row' = row => Documented
  BY DEF ISerial, Documented, ApprovedMeansReviewed, NoRowsYet

LEMMA PlanSteps ==
  ASSUME ISerial, NEW r \in Requests
  PROVE  /\ CommitRegenerate(r) => Documented
         /\ CommitApprove(r) => Documented
         /\ MarkLaunching(r) => Documented
         /\ FinishLaunch(r) => Documented
<1>0. plan \in Plans /\ req[r] \in Reqs /\ Fits(req[r], plan, row) /\ ApprovedMeansReviewed
  BY DEF ISerial, TypeOK, AllFit
<1>1. ASSUME CommitRegenerate(r) PROVE Documented
  <2>1. plan.status = "DRAFT"
    BY <1>0, <1>1 DEF CommitRegenerate, Fits
  <2>2. plan'.status = "DRAFT" /\ plan'.gen # plan.gen
    BY <1>0, <1>1, <2>1 DEF CommitRegenerate, Plans
  <2>3. QED
    BY <2>1, <2>2 DEF Documented, ApprovedMeansReviewed, NoRowsYet
<1>2. ASSUME CommitApprove(r) PROVE Documented
  <2>1. plan.status = "DRAFT" /\ plan.risk # "BLOCKER" /\ (plan.risk = "WARNING" => req[r].ack)
    BY <1>0, <1>2 DEF CommitApprove, Fits
  <2>2. /\ plan'.status = "APPROVED" /\ plan'.gen = plan.gen /\ row' = row
        /\ plan'.risk = plan.risk /\ plan'.ack = req[r].ack
    BY <1>0, <1>2 DEF CommitApprove, Plans
  <2>3. QED
    BY <2>1, <2>2 DEF Documented, ApprovedMeansReviewed, NoRowsYet, Lifecycle!Next, Lifecycle!Approve,
       Lifecycle!Move
<1>3. ASSUME MarkLaunching(r) PROVE Documented
  <2>1. req[r].status = plan.status /\ plan.status \in {"APPROVED", "LAUNCHING"}
    BY <1>0, <1>3 DEF MarkLaunching, Fits, Launchable
  <2>2. plan'.status = "LAUNCHING" /\ plan'.gen = plan.gen /\ row' = row
    BY <1>0, <1>3, <2>1 DEF MarkLaunching, Plans
  <2>3. QED
    BY <2>1, <2>2 DEF Documented, ApprovedMeansReviewed, NoRowsYet, Lifecycle!Next, Lifecycle!Begin,
       Lifecycle!Move
<1>4. ASSUME FinishLaunch(r) PROVE Documented
  <2>1. plan.status = "LAUNCHING"
    BY <1>0, <1>4 DEF FinishLaunch, Fits
  <2>2. plan'.status \in {"LAUNCHED", "FAILED"} /\ plan'.gen = plan.gen /\ row' = row
    BY <1>0, <1>4 DEF FinishLaunch, FinalStatus, Plans
  <2>3. QED
    BY <2>1, <2>2 DEF Documented, ApprovedMeansReviewed, NoRowsYet, Lifecycle!Next, Lifecycle!End,
       Lifecycle!Move, Lifecycle!Terminal
<1>5. QED
  BY <1>1, <1>2, <1>3, <1>4

LEMMA RowStepsSerial ==
  ASSUME ISerial, NEW r \in Requests, NEW p \in Platforms, StartItem(r, p) \/ PersistItem(r, p)
  PROVE  Documented
<1>0. /\ row \in [Platforms -> Items] /\ Fits(req[r], plan, row) /\ ApprovedMeansReviewed
      /\ plan' = plan
  BY DEF ISerial, TypeOK, AllFit, StartItem, PersistItem
<1>1. row[p].status # "CREATED" /\ plan.status = "LAUNCHING"
  BY <1>0 DEF StartItem, PersistItem, Visit, Fits, LaunchPcs, AlreadyCreated
<1>2. \A q \in Platforms : q # p => row'[q] = row[q]
  BY <1>0 DEF StartItem, PersistItem
<1>3. QED
  BY <1>0, <1>1, <1>2 DEF Documented, ApprovedMeansReviewed, NoRowsYet

LEMMA StepsDocumented ==
  ASSUME ISerial, [Next]_vars PROVE Documented
<1>1. ASSUME CreatePlan PROVE Documented
  <2>1. /\ plan.status = "ABSENT" /\ plan'.status = "DRAFT"
        /\ \A p \in Platforms : row[p].status # "CREATED"
    BY <1>1 DEF CreatePlan, ISerial, NoRowsYet, FreshRow, FreshItem
  <2>2. QED
    BY <2>1 DEF Documented, ApprovedMeansReviewed, NoRowsYet, Lifecycle!Next, Lifecycle!Create,
       Lifecycle!Move
<1>2. ASSUME NEW r \in Requests, LaunchStep(r) PROVE Documented
  <2>1. \/ MarkLaunching(r) \/ FinishLaunch(r)
        \/ plan' = plan /\ row' = row
        \/ \E p \in Platforms : StartItem(r, p) \/ PersistItem(r, p)
    BY <1>2 DEF LaunchStep, LaunchThrows, SkipItem, PipelineSettles, TimerFires
  <2>2. QED
    BY <2>1, Untouched, PlanSteps, RowStepsSerial
<1>3. ASSUME NEW r \in Requests, RequestStep(r) PROVE Documented
  <2>1. \/ CommitRegenerate(r) \/ CommitApprove(r) \/ LaunchStep(r)
        \/ plan' = plan /\ row' = row
    BY <1>3 DEF RequestStep, LoadForRegenerate, LoadForApprove, LoadForLaunch, DatabaseThrows
  <2>2. QED
    BY <1>2, <2>1, Untouched, PlanSteps
<1>4. ASSUME NEW r \in Requests, PipeStep(r) PROVE Documented
  <2>1. plan' = plan /\ row' = row
    BY <1>4 DEF PipeStep, PipeCheck, PipeCreate, PipeFail
  <2>2. QED
    BY <2>1, Untouched
<1>5. Crash \/ UNCHANGED vars => plan' = plan /\ row' = row
  BY DEF Crash, vars
<1>6. QED
  BY <1>1, <1>3, <1>4, <1>5, Untouched DEF Next

-----------------------------------------------------------------------------
(* A request goes on fitting                                               *)

LEMMA SerialStep ==
  ASSUME ~Concurrent, ISerial, [Next]_vars PROVE AllFit' /\ OneActive'
<1>0. /\ TypeOK /\ AllFit /\ OneActive
      /\ req \in [Requests -> Reqs] /\ plan \in Plans /\ row \in [Platforms -> Items]
  BY DEF ISerial, TypeOK
<1>a. ASSUME NEW r \in Requests PROVE req[r] \in Reqs /\ Fits(req[r], plan, row)
  BY <1>0 DEF AllFit
<1>1. CASE plan' = plan /\ row' = row /\ req' = req
  BY <1>0, <1>1 DEF AllFit, OneActive
<1>2. CASE CreatePlan
  <2>1. \A r \in Requests : ~Active(req[r])
    BY <1>a, <1>2 DEF CreatePlan, Fits, Active, Launchable, Reqs, PCs, LaunchPcs
  <2>2. req' = req
    BY <1>2 DEF CreatePlan
  <2>3. QED
    BY <2>1, <2>2, InactiveFits DEF AllFit, OneActive
<1>3. CASE Crash
  BY <1>3, BlankInactive, InactiveFits DEF Crash, AllFit, OneActive
<1>4. ASSUME NEW r \in Requests, Active(req[r]), End(r) PROVE AllFit' /\ OneActive'
  BY <1>0, <1>4, EndsFit
<1>5. ASSUME NEW r \in Requests, LoadForRegenerate(r) PROVE AllFit' /\ OneActive'
  <2>1. /\ Admit(r, "regenerate") /\ plan.status = "DRAFT" /\ plan' = plan /\ row' = row
        /\ req' = [req EXCEPT ![r] = [req[r] EXCEPT !.pc = "regenerate"]]
    BY <1>5 DEF LoadForRegenerate, Regenerable
  <2>2. Fits([req[r] EXCEPT !.pc = "regenerate"], plan', row')
    BY <1>a, <2>1 DEF Fits, LaunchPcs, Reqs
  <2>3. QED
    BY <1>0, <2>1, <2>2, AdmittedAlone, SerialFrame
<1>6. ASSUME NEW r \in Requests, LoadForApprove(r) PROVE AllFit' /\ OneActive'
  <2>1. PICK a \in BOOLEAN :
          /\ Acceptable(a)
          /\ req' = [req EXCEPT ![r] = [req[r] EXCEPT !.pc = "approve", !.ack = a]]
    BY <1>6 DEF LoadForApprove
  <2>2. Admit(r, "approve") /\ plan.status = "DRAFT" /\ plan' = plan /\ row' = row
    BY <1>6 DEF LoadForApprove, Approvable
  <2>3. Fits([req[r] EXCEPT !.pc = "approve", !.ack = a], plan', row')
    BY <1>a, <2>1, <2>2 DEF Fits, LaunchPcs, Reqs, Acceptable
  <2>4. QED
    BY <1>0, <2>1, <2>2, <2>3, AdmittedAlone, SerialFrame
<1>7. ASSUME NEW r \in Requests, LoadForLaunch(r) PROVE AllFit' /\ OneActive'
  <2> DEFINE x == [Blank("mark") EXCEPT !.status = plan.status, !.gen = plan.gen,
                                        !.row = row, !.todo = Platforms]
  <2>1. /\ Admit(r, "launch") /\ plan.status \in Launchable /\ plan' = plan /\ row' = row
        /\ req' = [req EXCEPT ![r] = x]
    BY <1>7 DEF LoadForLaunch
  <2>2. /\ x.pc = "mark" /\ x.status = plan.status /\ x.gen = plan.gen /\ x.row = row
    BY DEF Blank
  <2>3. Fits(x, plan', row')
    BY <2>1, <2>2 DEF Fits
  <2> HIDE DEF x
  <2>4. QED
    BY <1>0, <2>1, <2>3, AdmittedAlone, SerialFrame
<1>8. ASSUME NEW r \in Requests, MarkLaunching(r) PROVE AllFit' /\ OneActive'
  <2>1. /\ req[r].pc = "mark" /\ row' = row /\ Active(req[r])
        /\ req' = [req EXCEPT ![r] = [req[r] EXCEPT !.pc = "loop"]]
    BY <1>8 DEF MarkLaunching, Active
  <2>2. plan'.status = "LAUNCHING" /\ plan'.gen = plan.gen
    BY <1>0, <1>a, <1>8, <2>1 DEF MarkLaunching, Fits, Launchable, Plans
  <2>3. Fits([req[r] EXCEPT !.pc = "loop"], plan', row')
    BY <1>a, <2>1, <2>2 DEF Fits, LaunchPcs, Reqs
  <2>4. QED
    BY <1>0, <2>1, <2>3, ActiveAlone, SerialFrame
<1>9. ASSUME NEW r \in Requests, NEW p \in Platforms, SkipItem(r, p) PROVE AllFit' /\ OneActive'
  <2>1. /\ req[r].pc = "loop" /\ plan' = plan /\ row' = row /\ Active(req[r])
        /\ req' = [req EXCEPT ![r] = [req[r] EXCEPT !.todo = req[r].todo \ {p}]]
    BY <1>9 DEF SkipItem, Visit, Left, Active
  <2>2. Fits([req[r] EXCEPT !.todo = req[r].todo \ {p}], plan', row')
    BY <1>a, <2>1 DEF Fits, LaunchPcs, Reqs
  <2>3. QED
    BY <1>0, <2>1, <2>2, ActiveAlone, SerialFrame
<1>10. ASSUME NEW r \in Requests, NEW p \in Platforms, StartItem(r, p)
       PROVE  AllFit' /\ OneActive'
  <2> DEFINE x == [req[r] EXCEPT !.pc = "await", !.todo = req[r].todo \ {p}, !.cur = p,
                                 !.out = req[r].row[p]]
  <2>1. /\ req[r].pc = "loop" /\ plan' = plan /\ Active(req[r])
        /\ req' = [req EXCEPT ![r] = x]
    BY <1>10 DEF StartItem, Visit, Left, Active
  <2>2. /\ row'[p].status = "CREATING"
        /\ \A q \in Platforms : q # p => row'[q] = row[q]
    BY <1>0, <1>10 DEF StartItem, Items
  <2>3. /\ x.pc = "await" /\ x.todo = req[r].todo \ {p} /\ x.cur = p
        /\ x.gen = req[r].gen /\ x.row = req[r].row /\ x.todo \subseteq Platforms
    BY <1>a DEF Reqs
  <2> HIDE DEF x
  <2>4. Fits(x, plan', row')
    BY <1>a, <2>1, <2>2, <2>3 DEF Fits, LaunchPcs
  <2>5. QED
    BY <1>0, <2>1, <2>4, ActiveAlone, SerialFrame
<1>11. ASSUME NEW r \in Requests, NEW p \in Platforms, PipelineSettles(r, p) \/ TimerFires(r, p)
       PROVE  AllFit' /\ OneActive'
  <2>1. /\ req[r].pc = "await" /\ plan' = plan /\ row' = row /\ Active(req[r])
        /\ \E i : req' = [req EXCEPT ![r] = [req[r] EXCEPT !.pc = "persist", !.out = i]]
    BY <1>11 DEF PipelineSettles, TimerFires, Active
  <2>2. PICK i : req' = [req EXCEPT ![r] = [req[r] EXCEPT !.pc = "persist", !.out = i]]
    BY <2>1
  <2>3. Fits([req[r] EXCEPT !.pc = "persist", !.out = i], plan', row')
    BY <1>a, <2>1 DEF Fits, LaunchPcs, Reqs
  <2>4. QED
    BY <1>0, <2>1, <2>2, <2>3, ActiveAlone, SerialFrame
<1>12. ASSUME NEW r \in Requests, NEW p \in Platforms, PersistItem(r, p)
       PROVE  AllFit' /\ OneActive'
  <2>1. /\ req[r].pc = "persist" /\ req[r].cur = p /\ plan' = plan /\ Active(req[r])
        /\ row' = [row EXCEPT ![p] = req[r].out]
    BY <1>12 DEF PersistItem, Active
  <2>2. PICK c : req' = [req EXCEPT ![r] = [req[r] EXCEPT !.pc = "loop", !.cur = None,
                                              !.out = FreshItem, !.created = c]]
    BY <1>12 DEF PersistItem
  <2> DEFINE x == [req[r] EXCEPT !.pc = "loop", !.cur = None, !.out = FreshItem, !.created = c]
  <2>3. /\ x.pc = "loop" /\ x.todo = req[r].todo /\ x.gen = req[r].gen /\ x.row = req[r].row
        /\ x.todo \subseteq Platforms
    BY <1>a DEF Reqs
  <2>4. req' = [req EXCEPT ![r] = x]
    BY <2>2
  <2> HIDE DEF x
  <2>5. \A q \in req[r].todo : row'[q] = row[q]
    BY <1>0, <1>a, <2>1 DEF Fits, Reqs
  <2>6. Fits(x, plan', row')
    BY <1>a, <2>1, <2>3, <2>5 DEF Fits, LaunchPcs
  <2>7. QED
    BY <1>0, <2>1, <2>4, <2>6, ActiveAlone, SerialFrame
<1>13. ASSUME NEW r \in Requests, LaunchStep(r) PROVE AllFit' /\ OneActive'
  <2>1. LaunchThrows(r) \/ FinishLaunch(r) => Active(req[r]) /\ End(r)
    BY DEF LaunchThrows, FinishLaunch, Visit, Active
  <2>2. QED
    BY <1>4, <1>8, <1>9, <1>10, <1>11, <1>12, <1>13, <2>1 DEF LaunchStep
<1>14. ASSUME NEW r \in Requests, RequestStep(r) PROVE AllFit' /\ OneActive'
  <2>1. CommitRegenerate(r) \/ CommitApprove(r) \/ DatabaseThrows(r) => Active(req[r]) /\ End(r)
    BY DEF CommitRegenerate, CommitApprove, DatabaseThrows, Active
  <2>2. QED
    BY <1>4, <1>5, <1>6, <1>7, <1>13, <1>14, <2>1 DEF RequestStep
<1>15. ASSUME NEW r \in Requests, PipeStep(r) PROVE plan' = plan /\ row' = row /\ req' = req
  BY <1>15 DEF PipeStep, PipeCheck, PipeCreate, PipeFail
<1>16. QED
  BY <1>1, <1>2, <1>3, <1>14, <1>15 DEF Next, vars

-----------------------------------------------------------------------------
(* The theorems                                                            *)

LEMMA SerialInit == Init => ISerial
<1> SUFFICES ASSUME Init PROVE ISerial
  OBVIOUS
<1>1. \A r \in Requests : ~Active(req[r])
  BY BlankInactive DEF Init
<1>2. TypeOK /\ AllFit /\ OneActive
  BY <1>1, TypeInit, InactiveFits DEF AllFit, OneActive
<1>3. ApprovedMeansReviewed /\ NoRowsYet
  BY DEF Init, ApprovedMeansReviewed, NoRowsYet
<1>4. QED
  BY <1>2, <1>3 DEF ISerial

LEMMA SerialKept == ASSUME ~Concurrent PROVE ISerial /\ [Next]_vars => ISerial' /\ Documented
<1> SUFFICES ASSUME ISerial, [Next]_vars PROVE ISerial' /\ Documented
  OBVIOUS
<1>1. TypeOK'
  BY TypeStep DEF ISerial
<1>2. Documented
  BY StepsDocumented
<1>3. AllFit' /\ OneActive'
  BY SerialStep
<1>4. QED
  BY <1>1, <1>2, <1>3 DEF ISerial, Documented

\* An approved plan is one a user could approve: no blockers, warnings
\* acknowledged.
THEOREM ApprovedIsReviewed == ASSUME ~Concurrent PROVE Spec => []ApprovedMeansReviewed
<1>1. ISerial => ApprovedMeansReviewed
  BY DEF ISerial
<1>2. QED
  BY <1>1, SerialInit, SerialKept, PTL DEF Spec

\* The status column takes the documented road: PlanLaunch implements
\* PlanLifecycle when requests do not overlap.
THEOREM LifecycleCorrect == ASSUME ~Concurrent PROVE Spec => LifecycleRefined
<1>1. Init => Lifecycle!Init
  BY DEF Init, Lifecycle!Init
<1>2. Documented => [Lifecycle!Next]_(plan.status)
  BY DEF Documented
<1>3. QED
  BY <1>1, <1>2, SerialInit, SerialKept, PTL DEF Spec, LifecycleRefined, Lifecycle!Spec

\* LAUNCHED and FAILED are final.
THEOREM TerminalCorrect == ASSUME ~Concurrent PROVE Spec => TerminalStatuses
<1>1. Documented => [plan.status \in {"LAUNCHED", "FAILED"} => plan'.status = plan.status]_plan
  BY DEF Documented, Lifecycle!Next, Lifecycle!Create, Lifecycle!Approve, Lifecycle!Begin,
     Lifecycle!End, Lifecycle!Move
<1>2. QED
  BY <1>1, SerialInit, SerialKept, PTL DEF Spec, TerminalStatuses

\* The items of a plan are replaced only while it is DRAFT.
THEOREM RegenerateCorrect == ASSUME ~Concurrent PROVE Spec => RegenerateOnlyDraft
<1>1. Documented => [plan'.gen # plan.gen => plan.status \in {"ABSENT", "DRAFT"}]_plan
  BY DEF Documented
<1>2. QED
  BY <1>1, SerialInit, SerialKept, PTL DEF Spec, RegenerateOnlyDraft

\* A created item is never worked on again.
THEOREM CreatedItemsAreLeftAlone == ASSUME ~Concurrent PROVE Spec => CreatedItemsAreSkipped
<1>1. Documented =>
        [plan'.gen = plan.gen =>
           \A p \in Platforms : row[p].status = "CREATED" => row'[p] = row[p]]_<<plan, row>>
  BY DEF Documented
<1>2. QED
  BY <1>1, SerialInit, SerialKept, PTL DEF Spec, CreatedItemsAreSkipped
=============================================================================
