----------------------------- MODULE MCProgress ------------------------------
(***************************************************************************)
(* Instances for TLC of what must go on by itself: the launch of a plan    *)
(* and the schedule of the metrics.  They share no state: a behaviour is   *)
(* one of the part it starts with, and the variables of the other rest.    *)
(***************************************************************************)
EXTENDS MCPlanLaunch, MetricsSchedule

VARIABLE part
progressVars == <<part, vars, scheduleVars>>

OrgOfEach == "c1" :> "o1" @@ "c2" :> "o2"

\* At rest, nothing is tracked.
ScheduleRests ==
  /\ tracked = {} /\ setting = [enabled |-> {}, interval |-> {}] /\ hour = 0 /\ age = 0
  /\ snap = {} /\ cron = FALSE /\ sweep = [s \in Sweeps |-> Idle]
ProgressInit ==
  /\ part \in {"launch", "metrics"} /\ Init
  /\ IF part = "metrics" THEN ScheduleInit ELSE ScheduleRests
ProgressNext ==
  /\ UNCHANGED part
  /\ \/ part = "launch" /\ Next /\ UNCHANGED scheduleVars
     \/ part = "metrics" /\ ScheduleNext /\ UNCHANGED vars

\* Fairness and ScheduleFair, each of the part it is about.
ProgressFair ==
  /\ \A r \in Requests : /\ WF_vars(part = "launch" /\ LaunchStep(r))
                         /\ WF_vars(part = "launch" /\ PipeStep(r))
  /\ WF_scheduleVars(part = "metrics" /\ Strike) /\ WF_scheduleVars(part = "metrics" /\ HandleCron)
  /\ \A s \in Sweeps : WF_scheduleVars(part = "metrics" /\ SweepStep(s))

ProgressSpec == ProgressInit /\ [][ProgressNext]_progressVars /\ ProgressFair
=============================================================================
