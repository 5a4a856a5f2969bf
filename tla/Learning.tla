------------------------------ MODULE Learning ------------------------------
(***************************************************************************)
(* The pipeline of historical learning for one organization and one bucket *)
(* of one feature: finished campaigns are sealed into outcomes, outcomes   *)
(* within the window are rolled up into the feature's row, and old rows    *)
(* are marked stale.  The nightly job and an administrator's compute-now   *)
(* may run at once, either may die, and days may end under way             *)
(* (historical-learning/features, scheduler, admin).                       *)
(***************************************************************************)
EXTENDS Naturals, Sequences

CONSTANTS
  Finishers,     \* campaigns made from a plan
  Pipelines,     \* runs that may be under way at once
  WindowDays,    \* the rolling window of the feature: 30 or 90
  FreshDays,     \* FRESHNESS_THRESHOLD_HOURS in days: 30
  StaleDays,     \* staleAfterDays: 35
  MaxOutcomes    \* outcomes of one campaign (bound)

ASSUME LearningAssumption ==
  /\ WindowDays \in Nat /\ FreshDays \in Nat /\ StaleDays \in Nat /\ MaxOutcomes \in Nat
  /\ FreshDays <= StaleDays

Ancient == WindowDays + StaleDays + 2  \* ages are followed up to here
Older(age) == IF age < Ancient THEN age + 1 ELSE age

VARIABLES finisher,  \* a campaign: its status, days since it last changed and since its last snapshot
          sealed,    \* campaign_outcomes: per campaign, the days since each one's endedAt
          featureRow,\* org_features: a set of at most one row
          pipeline,  \* the runs under way
          overlapped \* have two runs ever sealed at the same time?

learningVars == <<finisher, sealed, featureRow, pipeline, overlapped>>

Resting == [pc |-> "idle", by |-> "nightly", todo |-> {}, at |-> {}, basis |-> 0]
LearningTypeOK ==
  /\ finisher \in [Finishers -> [status : {"ACTIVE", "PAUSED", "ARCHIVED"}, quiet : 0..1, last : 0..Ancient + 1]]
  /\ \A c \in Finishers : sealed[c] \in Seq(0..Ancient) /\ Len(sealed[c]) <= MaxOutcomes
  /\ featureRow \subseteq [age : 0..Ancient, basis : 0..Ancient, isStale : BOOLEAN]
  /\ pipeline \in [Pipelines -> [pc : {"idle", "seal", "create", "compute", "write", "late", "stale"},
                                 by : {"nightly", "admin"}, todo : SUBSET Finishers,
                                 at : SUBSET Finishers, basis : 0..Ancient]]
  /\ overlapped \in BOOLEAN

NoSnapshot == Ancient + 1
LearningInit ==
  /\ finisher = [c \in Finishers |-> [status |-> "ACTIVE", quiet |-> 0, last |-> NoSnapshot]]
  /\ sealed = [c \in Finishers |-> <<>>] /\ featureRow = {}
  /\ pipeline = [w \in Pipelines |-> Resting] /\ overlapped = FALSE

-----------------------------------------------------------------------------
\* A campaign is changed, which its row's updatedAt shows, or has a snapshot of today.
CampaignMoves(c) ==
  /\ \/ \E s \in {"ACTIVE", "PAUSED", "ARCHIVED"} \ {finisher[c].status} :
          finisher' = [finisher EXCEPT ![c] = [status |-> s, quiet |-> 0, last |-> finisher[c].last]]
     \/ /\ finisher[c].status = "ACTIVE"
        /\ finisher' = [finisher EXCEPT ![c] = [status |-> "ACTIVE", quiet |-> finisher[c].quiet, last |-> 0]]
  /\ UNCHANGED <<sealed, featureRow, pipeline, overlapped>>

\* A day ends.  Between reading the outcomes and writing the row at most one does (bound).
DayPasses ==
  /\ \A w \in Pipelines : pipeline[w].pc # "late"
  /\ finisher' = [c \in Finishers |-> [status |-> finisher[c].status, quiet |-> 1,
                    last |-> IF finisher[c].last = NoSnapshot THEN NoSnapshot ELSE Older(finisher[c].last)]]
  /\ sealed' = [c \in Finishers |-> [i \in 1..Len(sealed[c]) |-> Older(sealed[c][i])]]
  /\ featureRow' = {[age |-> Older(r.age), basis |-> Older(r.basis), isStale |-> r.isStale] : r \in featureRow}
  /\ pipeline' = [w \in Pipelines |-> IF pipeline[w].pc = "write"
                                      THEN [pc |-> "late", by |-> pipeline[w].by, todo |-> {}, at |-> {},
                                            basis |-> Older(pipeline[w].basis)] ELSE pipeline[w]]
  /\ UNCHANGED overlapped

-----------------------------------------------------------------------------
(* One run.                                                                *)

\* A paused campaign counts as finished after COMPLETION_GRACE_HOURS without a change;
\* one past its end date by as much is to this job what an archived one is.
Completed(c) == finisher[c].status = "ARCHIVED" \/ (finisher[c].status = "PAUSED" /\ finisher[c].quiet = 1)

\* A run goes on.
Continues(w, pc, todo, at, basis) ==
  pipeline' = [pipeline EXCEPT ![w] = [pc |-> pc, by |-> pipeline[w].by, todo |-> todo, at |-> at, basis |-> basis]]

\* handleCron, when the flag is on, or compute-now: first the candidates.
StartRun(w, by) ==
  /\ pipeline[w].pc = "idle"
  /\ pipeline' = [pipeline EXCEPT ![w] = [pc |-> "seal", by |-> by, todo |-> {c \in Finishers : Completed(c)},
                                           at |-> {}, basis |-> 0]]
  /\ overlapped' = (overlapped \/ \E v \in Pipelines : pipeline[v].pc \in {"seal", "create"})
  /\ UNCHANGED <<finisher, sealed, featureRow>>

CheckNothing(w, c) ==  \* mutant: nobody asks whether there is an outcome already
  /\ pipeline[w].pc = "seal" /\ c \in pipeline[w].todo
  /\ Continues(w, "create", pipeline[w].todo \ {c}, {c}, 0)
  /\ UNCHANGED <<finisher, sealed, featureRow, overlapped>>

\* The next candidate is skipped if it has an outcome.
SealCheck(w, c) ==
  /\ pipeline[w].pc = "seal" /\ c \in pipeline[w].todo
  /\ \/ sealed[c] # <<>> /\ Continues(w, "seal", pipeline[w].todo \ {c}, {}, 0)
     \/ sealed[c] = <<>> /\ Continues(w, "create", pipeline[w].todo \ {c}, {c}, 0)
  /\ UNCHANGED <<finisher, sealed, featureRow, overlapped>>

\* The outcome ends with the last snapshot there is; without any there is none, and an
\* error is logged and forgotten.
SealCreate(w) ==
  /\ pipeline[w].pc = "create"
  /\ \E c \in pipeline[w].at, works \in BOOLEAN :
       sealed' = IF works /\ finisher[c].last # NoSnapshot /\ Len(sealed[c]) < MaxOutcomes
                 THEN [sealed EXCEPT ![c] = Append(sealed[c], finisher[c].last)] ELSE sealed
  /\ Continues(w, "seal", pipeline[w].todo, {}, 0)
  /\ UNCHANGED <<finisher, featureRow, overlapped>>

\* All candidates are through, or loading them threw, which the nightly job catches.
SealDone(w) ==
  /\ pipeline[w].pc = "seal" /\ pipeline[w].todo = {}
  /\ Continues(w, "compute", {}, {}, 0)
  /\ UNCHANGED <<finisher, sealed, featureRow, overlapped>>

SealFails(w) ==
  /\ pipeline[w].pc = "seal" /\ pipeline[w].todo # {} /\ pipeline[w].by = "nightly"
  /\ Continues(w, "compute", {}, {}, 0)
  /\ UNCHANGED <<finisher, sealed, featureRow, overlapped>>

NextStage(w) == IF pipeline[w].by = "nightly" THEN "stale" ELSE "idle"

\* The outcomes of the window; without any the row stays as it is, and so it does when
\* their value is out of range or the query throws.
ReadOutcomes(w) ==
  /\ pipeline[w].pc = "compute"
  /\ LET ages == UNION {{sealed[c][i] : i \in 1..Len(sealed[c])} : c \in Finishers}
         seen == {a \in ages : a <= WindowDays}
     IN \/ \E a \in seen :
             /\ \A b \in seen : b <= a
             /\ Continues(w, "write", {}, {}, a)
        \/ Continues(w, NextStage(w), {}, {}, 0)
  /\ UNCHANGED <<finisher, sealed, featureRow, overlapped>>

\* Found and updated, or created; or it throws, and the run is marked PARTIAL.
WriteFeature(w) ==
  /\ pipeline[w].pc \in {"write", "late"}
  /\ featureRow' \in {{[age |-> 0, basis |-> pipeline[w].basis, isStale |-> FALSE]}, featureRow}
  /\ Continues(w, NextStage(w), {}, {}, 0)
  /\ UNCHANGED <<finisher, sealed, overlapped>>

MarkStale(w) ==
  /\ pipeline[w].pc = "stale"
  /\ featureRow' \in {{[age |-> r.age, basis |-> r.basis, isStale |-> r.isStale \/ r.age > StaleDays] : r \in featureRow}, featureRow}
  /\ pipeline' = [pipeline EXCEPT ![w] = Resting]
  /\ UNCHANGED <<finisher, sealed, overlapped>>

RunDies(w) ==
  /\ pipeline[w].pc # "idle"
  /\ pipeline' = [pipeline EXCEPT ![w] = Resting]
  /\ UNCHANGED <<finisher, sealed, featureRow, overlapped>>

LearningNext ==
  \/ DayPasses \/ \E c \in Finishers : CampaignMoves(c)
  \/ \E w \in Pipelines :
       \/ StartRun(w, "nightly") \/ StartRun(w, "admin") \/ SealCreate(w) \/ SealDone(w) \/ SealFails(w)
       \/ ReadOutcomes(w) \/ WriteFeature(w) \/ MarkStale(w) \/ RunDies(w)
       \/ \E c \in Finishers : SealCheck(w, c)

LearningSpec == LearningInit /\ [][LearningNext]_learningVars

-----------------------------------------------------------------------------
(* Properties.                                                             *)

\* A campaign is learned from once, unless two runs sealed at the same time
\* (outcome.service.ts 24-25: "Idempotent").
SealedOnce == ~overlapped => \A c \in Finishers : Len(sealed[c]) <= 1

\* Whatever run died or was skipped and whichever of two wrote last, a row that the
\* multiplier accepts (neither marked nor older than its threshold) rests on outcomes of
\* the window before its computation, give or take the day that ended meanwhile.
UsableIsRecent ==
  \A r \in featureRow : ~r.isStale /\ r.age <= FreshDays => r.basis <= WindowDays + FreshDays + 1

\* Both (outcome.service.ts, feature-compute.service.ts, multiplier.service.ts 159-191).
LearningHolds == SealedOnce /\ UsableIsRecent
=============================================================================
