-------------------------- MODULE MetricsSchedule --------------------------
(***************************************************************************)
(* Metrics ingestion: the hourly cron that decides from global settings    *)
(* and the last audit row whether a sweep is due, manual sweeps of all     *)
(* organizations or of one, dry or not, and the sweep itself, which walks  *)
(* the tracked campaigns and stores one snapshot per window and day        *)
(* (metrics/, admin/admin-settings.service.ts).                            *)
(*                                                                         *)
(* The schedule has no memory but the audit rows, and a sweep writes its   *)
(* row when it ends.  A sweep may outlive the hour, and midnight.          *)
(***************************************************************************)
EXTENDS Naturals, FiniteSets

CONSTANTS
  Campaigns, OrgOf,  \* the campaigns, and the organization of each
  Windows,           \* the hours a snapshot looks back: 24, 48 and 72
  MaxEntities,       \* MAX_ENTITIES_IN_RESPONSE
  Intervals,         \* values an administrator may give ingestion_interval_hours
  DefaultInterval,   \* DEFAULT_INTERVAL_HOURS
  DayHours,          \* hours in a day
  Sweeps             \* sweeps that may be in progress at once (bound)

ASSUME ScheduleAssumption ==
  /\ MaxEntities \in Nat \ {0} /\ DayHours \in Nat \ {0}
  /\ Intervals \cup {DefaultInterval} \subseteq Nat \ {0}
  /\ IsFiniteSet(Intervals) /\ Windows \subseteq Nat /\ IsFiniteSet(Windows)
  /\ OrgOf \in [Campaigns -> STRING]

VARIABLES
  tracked,   \* campaigns that are not deleted and whose ad account is tracked
  setting,   \* the two global admin_settings rows, each a set of at most one value
  hour,      \* the hour of the day
  age,       \* hours struck since the last metrics.ingest.run audit row, up to Oldest
  snap,      \* today's metric_snapshots: pairs of a campaign and a window
  cron,      \* has the timer of this hour fired and not been handled?
  sweep      \* the sweeps in progress

scheduleVars == <<tracked, setting, hour, age, snap, cron, sweep>>

AllOrgs == {OrgOf[c] : c \in Campaigns}
Longest == CHOOSE m \in Intervals \cup {DefaultInterval} :
             \A i \in Intervals \cup {DefaultInterval} : i <= m
Oldest  == Longest + 1   \* as good as no row at all

\* A sweep: its options; the organizations and campaigns still ahead; the campaign
\* it is at, the windows left of it, and whether its date is still today's; the
\* entities it reports.  For the properties: what was tracked all along, and the
\* windows of this campaign whose fetch failed.
Idle == [pc |-> "idle", by |-> "SCHEDULER", dry |-> FALSE, orgs |-> {}, todo |-> {},
         at |-> {}, left |-> {}, today |-> TRUE, seen |-> {}, steady |-> {}, missed |-> {}]
SweepRows == [pc : {"idle", "org", "visit", "find", "fetch", "audit"},
              by : {"SCHEDULER", "MANUAL"}, dry : BOOLEAN,
              orgs : SUBSET AllOrgs, todo : SUBSET Campaigns,
              at : SUBSET Campaigns, left : SUBSET Windows, today : BOOLEAN,
              seen : SUBSET Campaigns, steady : SUBSET Campaigns, missed : SUBSET Windows]

ScheduleTypeOK ==
  /\ tracked \subseteq Campaigns
  /\ setting \in [enabled : SUBSET BOOLEAN, interval : SUBSET Intervals]
  /\ hour \in 0..DayHours - 1
  /\ age \in 0..Oldest
  /\ snap \subseteq Campaigns \X Windows
  /\ cron \in BOOLEAN
  /\ sweep \in [Sweeps -> SweepRows]

ScheduleInit ==
  /\ tracked = Campaigns
  /\ setting = [enabled |-> {}, interval |-> {}]
  /\ hour = 0 /\ age = Oldest /\ snap = {} /\ cron = FALSE
  /\ sweep = [s \in Sweeps |-> Idle]

-----------------------------------------------------------------------------
(* Settings.                                                               *)

\* AdminSettingsService.get without an organization: the global row, then the default.
Setting(row, default) == IF row = {} THEN default ELSE CHOOSE value \in row : TRUE
Enabled  == Setting(setting.enabled, TRUE)
Interval == Setting(setting.interval, DefaultInterval)

UpsertSetting ==
  /\ \/ \E b \in BOOLEAN : setting' = [setting EXCEPT !.enabled = {b}]
     \/ \E i \in Intervals : setting' = [setting EXCEPT !.interval = {i}]
  /\ UNCHANGED <<tracked, hour, age, snap, cron, sweep>>

DeleteSetting ==
  /\ \E key \in {"enabled", "interval"} : /\ setting[key] # {}
                                          /\ setting' = [setting EXCEPT ![key] = {}]
  /\ UNCHANGED <<tracked, hour, age, snap, cron, sweep>>

\* A user tracks an account or gives it up; no sweep counts on that campaign then.
Track(c) ==
  /\ tracked' = IF c \in tracked THEN tracked \ {c} ELSE tracked \cup {c}
  /\ sweep' = [s \in Sweeps |-> [sweep[s] EXCEPT !.steady = @ \ {c}]]
  /\ UNCHANGED <<setting, hour, age, snap, cron>>

-----------------------------------------------------------------------------
(* The clock and the cron.                                                 *)

\* The next hour strikes and the timer fires.  At midnight today's snapshots are
\* yesterday's, and so is the date of a visit under way.
Strike ==
  /\ ~cron /\ cron' = TRUE
  /\ hour' = (hour + 1) % DayHours
  /\ age' = IF age < Oldest THEN age + 1 ELSE age
  /\ IF hour' = 0 THEN /\ snap' = {}
                       /\ sweep' = [s \in Sweeps |-> [sweep[s] EXCEPT !.today = sweep[s].at = {}]]
                  ELSE UNCHANGED <<snap, sweep>>
  /\ UNCHANGED <<tracked, setting>>

Start(s, by, dry, scope) ==
  /\ sweep[s].pc = "idle"
  /\ sweep' = [sweep EXCEPT ![s] =
       [Idle EXCEPT !.pc = "org", !.by = by, !.dry = dry, !.orgs = scope,
                    !.steady = {c \in tracked : OrgOf[c] \in scope}]]

\* computeNextDueAt goes by the milliseconds.  The row was written some time after
\* its hour struck, and the tick is handled some time after its own: at the very
\* hour the interval ends, either answer is possible.
RunIsDue(due) == (age < Interval => ~due) /\ (age > Interval => due)

HandleCron ==
  /\ cron /\ cron' = FALSE
  /\ \E due \in BOOLEAN :
       /\ RunIsDue(due)
       /\ IF Enabled /\ due THEN \E s \in Sweeps : Start(s, "SCHEDULER", FALSE, AllOrgs)
                            ELSE UNCHANGED sweep
  /\ UNCHANGED <<tracked, setting, hour, age, snap>>

\* POST admin/metrics/ingest/run: every organization, or the one that is named.
ManualAdmin(s) ==
  /\ \E dry \in BOOLEAN, scope \in {AllOrgs} \cup {{o} : o \in AllOrgs} : Start(s, "MANUAL", dry, scope)
  /\ UNCHANGED <<tracked, setting, hour, age, snap, cron>>

\* POST orgs/:orgId/metrics/ingest/run: the administrator's own organization.
ManualOrg(s) ==
  /\ \E dry \in BOOLEAN, o \in AllOrgs : Start(s, "MANUAL", dry, {o})
  /\ UNCHANGED <<tracked, setting, hour, age, snap, cron>>

-----------------------------------------------------------------------------
(* One sweep.                                                              *)

Capped(s) == Cardinality(sweep[s].seen) >= MaxEntities

\* The campaigns of the next organization; after the last one, the report.
LoadOrg(s) ==
  /\ sweep[s].pc = "org"
  /\ IF sweep[s].orgs = {}
     THEN sweep' = [sweep EXCEPT ![s].pc = "audit"]
     ELSE \E o \in sweep[s].orgs :
            sweep' = [sweep EXCEPT ![s] = [sweep[s] EXCEPT !.pc = "visit", !.orgs = @ \ {o},
                                                           !.todo = {c \in tracked : OrgOf[c] = o}]]
  /\ UNCHANGED <<tracked, setting, hour, age, snap, cron>>

\* The organization's campaigns are through, or the cap of the response is reached.
LeaveOrg(s) ==
  /\ sweep[s].pc = "visit" /\ (sweep[s].todo = {} \/ Capped(s))
  /\ sweep' = [sweep EXCEPT ![s] = [sweep[s] EXCEPT !.pc = "org", !.todo = {}]]
  /\ UNCHANGED <<tracked, setting, hour, age, snap, cron>>

\* The next campaign, in whatever order the query returned them.
VisitEntity(s, c) ==
  /\ sweep[s].pc = "visit" /\ c \in sweep[s].todo /\ ~Capped(s)
  /\ LET walk == [sweep[s] EXCEPT !.todo = @ \ {c}] IN
     sweep' = [sweep EXCEPT ![s] =
       IF walk.dry THEN [walk EXCEPT !.seen = @ \cup {c}]
       ELSE [walk EXCEPT !.pc = "find", !.at = {c}, !.left = Windows, !.today = TRUE]]
  /\ UNCHANGED <<tracked, setting, hour, age, snap, cron>>

EntityDone(s) ==
  sweep' = [sweep EXCEPT ![s] = [sweep[s] EXCEPT !.pc = "visit", !.at = {}, !.left = {}, !.today = TRUE,
                                                 !.seen = @ \cup sweep[s].at, !.missed = {}]]

\* The account or a snapshot cannot be read: the entity is reported as failed.
VisitThrows(s) ==
  /\ sweep[s].pc = "find" /\ sweep[s].left # {}
  /\ EntityDone(s)
  /\ UNCHANGED <<tracked, setting, hour, age, snap, cron>>

NextWindow(s) == CHOOSE w \in sweep[s].left : \A v \in sweep[s].left : w <= v

FindBreaks(s) ==  \* mutant: break for continue
  /\ sweep[s].pc = "find"
  /\ IF sweep[s].left = {} THEN EntityDone(s)
     ELSE \E exists \in BOOLEAN :
       /\ sweep[s].today => (exists <=> \E c \in sweep[s].at : <<c, NextWindow(s)>> \in snap)
       /\ sweep' = [sweep EXCEPT ![s] = IF exists THEN [sweep[s] EXCEPT !.left = {}]
                                                  ELSE [sweep[s] EXCEPT !.pc = "fetch"]]
  /\ UNCHANGED <<tracked, setting, hour, age, snap, cron>>

\* One window after the other: one that has its snapshot is skipped.  The rows of
\* a day gone by are not followed; there either answer is possible.
Find(s) ==
  /\ sweep[s].pc = "find"
  /\ IF sweep[s].left = {} THEN EntityDone(s)
     ELSE \E exists \in BOOLEAN :
       /\ sweep[s].today => (exists <=> \E c \in sweep[s].at : <<c, NextWindow(s)>> \in snap)
       /\ sweep' = [sweep EXCEPT ![s] = IF exists THEN [sweep[s] EXCEPT !.left = @ \ {NextWindow(s)}]
                                                  ELSE [sweep[s] EXCEPT !.pc = "fetch"]]
  /\ UNCHANGED <<tracked, setting, hour, age, snap, cron>>

\* The provider answers and the row is upserted under the date of the visit; or one
\* of the two throws, which is logged and forgotten.
FetchWindow(s) ==
  /\ sweep[s].pc = "fetch"
  /\ \E stored \in BOOLEAN :
       /\ snap' = IF stored /\ sweep[s].today THEN snap \cup (sweep[s].at \X {NextWindow(s)}) ELSE snap
       /\ sweep' = [sweep EXCEPT ![s] = [sweep[s] EXCEPT !.pc = "find", !.left = @ \ {NextWindow(s)},
                                                         !.missed = IF stored THEN @ ELSE @ \cup {NextWindow(s)}]]
  /\ UNCHANGED <<tracked, setting, hour, age, cron>>

\* The audit row, which is also the schedule's memory; for any sweep that gets here.
WriteAudit(s) ==
  /\ sweep[s].pc = "audit"
  /\ age' = 0
  /\ sweep' = [sweep EXCEPT ![s] = Idle]
  /\ UNCHANGED <<tracked, setting, hour, snap, cron>>

\* A query of the sweep itself throws, or the process dies: no audit row.
SweepDies(s) ==
  /\ sweep[s].pc # "idle"
  /\ sweep' = [sweep EXCEPT ![s] = Idle]
  /\ UNCHANGED <<tracked, setting, hour, age, snap, cron>>

SweepStep(s) ==
  \/ LoadOrg(s) \/ LeaveOrg(s) \/ Find(s) \/ FetchWindow(s) \/ VisitThrows(s) \/ WriteAudit(s)
  \/ \E c \in Campaigns : VisitEntity(s, c)

ScheduleNext ==
  \/ UpsertSetting \/ DeleteSetting \/ Strike \/ HandleCron
  \/ \E c \in Campaigns : Track(c)
  \/ \E s \in Sweeps : \/ ManualAdmin(s) \/ ManualOrg(s) \/ SweepStep(s) \/ SweepDies(s)

\* The timer fires every hour, and a sweep that does not die goes on.
ScheduleFair ==
  /\ WF_scheduleVars(Strike) /\ WF_scheduleVars(HandleCron)
  /\ \A s \in Sweeps : WF_scheduleVars(SweepStep(s))

ScheduleSpec == ScheduleInit /\ [][ScheduleNext]_scheduleVars /\ ScheduleFair

-----------------------------------------------------------------------------
(* Properties.                                                             *)

\* A campaign that a sweep reports as a success has, at that moment, its snapshots of
\* the day, but for windows whose fetch failed (which is logged and not reported).
SuccessIsStored(s) ==
  sweep[s].today /\ sweep[s].left = {} =>
    \A c \in sweep[s].at \cap sweep'[s].seen, w \in Windows \ sweep[s].missed : <<c, w>> \in snap

\* A sweep that gets to its report has passed nobody by: all campaigns that were
\* tracked from its start are in it, unless the cap of the response ended it.
ReportIsWhole(s) ==
  sweep'[s].pc = "audit" => Capped(s) \/ sweep[s].steady \subseteq sweep[s].seen

\* The reports of the ingestion runner say what is in the database, whoever else
\* sweeps, tracks or gives up accounts, and whenever midnight falls
\* (metrics-ingestion-runner.service.ts, metrics-ingestion.service.ts).
IngestionReportIsTrue ==
  [][\A s \in Sweeps : SuccessIsStored(s) /\ ReportIsWhole(s)]_scheduleVars

\* While ingestion stays on, nobody sweeps by hand (any manual sweep, dry or of one
\* organization, moves the schedule) and the campaigns fit under the cap, a tracked
\* campaign is visited again and again: the schedule goes on after sweeps that died,
\* overlapped or failed, once no more die (metrics-ingestion.scheduler.ts).
LeftToTheCron(c) ==
  /\ c \in tracked /\ Enabled /\ Cardinality(tracked) <= MaxEntities
  /\ \A s \in Sweeps : sweep[s].by = "SCHEDULER"
TrackedIsVisited ==
  <>[][\A s \in Sweeps : ~SweepDies(s)]_scheduleVars =>
    \A c \in Campaigns : <>[]LeftToTheCron(c) => []<>(\E s \in Sweeps : sweep[s].at = {c})

\* Both.
IngestionHolds == IngestionReportIsTrue /\ TrackedIsVisited
=============================================================================
