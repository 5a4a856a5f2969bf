--------------------------- MODULE RulePerformance ---------------------------
(***************************************************************************)
(* What the users' verdicts say of the optimizer's rules, and what the     *)
(* auto-tuner makes of it (insights/learning): the health of each rule,    *)
(* the simulation of a change on the rule's past actions, the changes a    *)
(* run decides on, the settings a run resolves and the ones the admin's    *)
(* view shows, and the ledger of runs rebuilt from the log rows.           *)
(*                                                                         *)
(* Each behaviour is one question and its answer.  How runs, rollbacks and *)
(* edits interleave is in RuleTuner.  Rates and thresholds are counted in  *)
(* ten-thousandths, as the code rounds them.                               *)
(***************************************************************************)
EXTENDS Integers, Sequences, FiniteSets, FiniteSetsExt, Functions, Arranging, Absent

CONSTANTS TunerQuestions, \* what is asked, and what is stored when it is
          RowsPerRun,     \* log rows read for each run listed (20)
          RowsRead,       \* log rows read for the overview (500)
          Malformed       \* what a settings row that does not parse holds

\* What the tables hold: a list for every rule of its votes, its definition unless it is
\* gone, and its past actions; and log rows that were written by now.
IsList(s) == s \in Seq(Range(s))
VoteTypes == [rows : Nat, useful : Nat, notUseful : Nat, wrong : Nat, needsContext : Nat]
DefTypes == [comparator : {"GT", "GTE", "LT", "LTE", "EQ"}, threshold : Int]
ReplayOk(replay) ==
  /\ replay.unknown \in Nat
  /\ IsFiniteSet(DOMAIN replay.seen) /\ DOMAIN replay.seen \subseteq Int
  /\ \A kpi \in DOMAIN replay.seen : replay.seen[kpi] \in Nat
FeedbackOk(q) ==
  /\ q.votes \in Seq(VoteTypes)
  /\ \A i \in DOMAIN q.votes : q.defs[i] \in DefTypes \cup {None} /\ ReplayOk(q.replays[i])
LogOk(rows) ==
  IsFiniteSet(rows) /\ \A l \in rows : l.run \in Nat /\ l.at \in Int /\ l.status \in {"APPLIED", "ROLLED_BACK"}
LedgerOk(q) == LogOk(q.rows) /\ q.cooldown \in Nat /\ q.now \in Int /\ \A l \in q.rows : l.at <= q.now
QuestionOk(q) ==
  /\ q.kind = "run" => FeedbackOk(q) /\ q.settings.maxChanges \in Nat /\ q.settings.maxRatio \in Nat
  /\ q.kind = "list" => LogOk(q.rows) /\ q.limit \in Int
  /\ q.kind = "overview" => LedgerOk(q)

ASSUME RulePerformanceAssumption ==
  /\ RowsPerRun \in Nat \ {0} /\ RowsRead \in Nat \ {0} /\ None \notin Int
  /\ \A q \in TunerQuestions : QuestionOk(q)

VARIABLES question, \* [kind, ...]
          answer    \* None, or what came back
performanceVars == <<question, answer>>

Larger(a, b) == IF a > b THEN a ELSE b
Smaller(a, b) == IF a < b THEN a ELSE b

-----------------------------------------------------------------------------
(* Health: rule-performance.service.ts.  `votes` counts the interactions   *)
(* with a rule's insights: rows, and those of each verdict.                *)

MinForClassification == 10
HighConfidence == 100
MediumConfidence == 30

RateOver(n, rated) == IF rated = 0 THEN 0 ELSE (20000 * n + rated) \div (2 * rated)
Rated(v) == v.useful + v.notUseful + v.wrong + v.needsContext
ComputeBreakdown(v) ==
  [interactions |-> v.rows, rated |-> Rated(v),
   useful |-> RateOver(v.useful, Rated(v)), notUseful |-> RateOver(v.notUseful, Rated(v)),
   wrong |-> RateOver(v.wrong, Rated(v)), needsContext |-> RateOver(v.needsContext, Rated(v))]

\* Half for useful, 30 for not wrong, 10 for clear, 10 for the sample; without a verdict
\* only the sample counts.
ComputeRuleScore(b) ==
  LET sample == Smaller(HighConfidence, b.interactions)
  IN IF b.rated = 0 THEN (sample * 10 + 50) \div 100
     ELSE (50 * b.useful + 30 * (10000 - b.wrong) + 10 * (10000 - b.needsContext) + 1000 * sample + 5000) \div 10000

ComputeConfidence(n) ==
  IF n >= HighConfidence THEN "HIGH" ELSE IF n >= MediumConfidence THEN "MEDIUM" ELSE "LOW"

ClassifyHealth(b) ==
  IF b.interactions < MinForClassification \/ b.rated = 0 THEN "LOW_SIGNAL"
  ELSE IF b.wrong >= 3000 THEN "NEEDS_TUNING"
  ELSE IF b.useful >= 2500 /\ b.wrong >= 2500 THEN "UNSTABLE"
  ELSE IF b.useful >= 6500 /\ b.wrong <= 1500 THEN "HEALTHY"
  ELSE "UNSTABLE"

\* What might be done about a rule: disable, tighten by a tenth, raise its insights' floor.
ShouldDisable(health, b) == health = "NEEDS_TUNING" /\ b.wrong >= 5000
BuildHooks(health, b, score) ==
  [disable |-> ShouldDisable(health, b),
   tighten |-> health = "NEEDS_TUNING",
   floor   |-> IF health = "HEALTHY" /\ score >= 75 THEN score ELSE None]

ClassifyRule(id, v) ==
  LET b == ComputeBreakdown(v)
      health == ClassifyHealth(b)
  IN [rule |-> id, breakdown |-> b, score |-> ComputeRuleScore(b), confidence |-> ComputeConfidence(b.interactions),
      health |-> health, hooks |-> BuildHooks(health, b, ComputeRuleScore(b))]

HealthRank(h) == CASE h = "NEEDS_TUNING" -> 0 [] h = "UNSTABLE" -> 1 [] h = "HEALTHY" -> 2 [] h = "LOW_SIGNAL" -> 3

\* The loudest first, and the worst of a band before the others.
ClassifyRules(votes) ==
  LET entries == [i \in DOMAIN votes |-> ClassifyRule(i, votes[i])]
      byScore == Sorted(entries, [i \in DOMAIN entries |-> entries[i].score])
  IN Sorted(byScore, [i \in DOMAIN byScore |-> HealthRank(byScore[i].health)])

SummarizeHealth(entries) ==
  LET judged == {i \in DOMAIN entries : entries[i].health # "LOW_SIGNAL"}
      n == Cardinality(judged)
  IN [total |-> Len(entries),
      average |-> IF n = 0 THEN 0 ELSE (2 * SumFunction([i \in judged |-> entries[i].score]) + n) \div (2 * n)]

-----------------------------------------------------------------------------
(* Simulation: rule-tuner-simulation.service.ts.  A rule's past actions are *)
(* `replay`: how many there are for each value of the KPI their stored     *)
(* context holds, and how many whose context holds none.                   *)

TighterThreshold(def) ==
  CASE def.comparator \in {"GT", "GTE"} -> (def.threshold * 11 + 5) \div 10
    [] def.comparator \in {"LT", "LTE"} -> (def.threshold * 9 + 5) \div 10
    [] def.comparator = "EQ"            -> def.threshold
DecideAction(entry, def) ==
  [type |-> IF entry.hooks.disable THEN "DISABLE_RULE"
            ELSE IF entry.hooks.tighten THEN "TIGHTEN_THRESHOLD"
            ELSE IF entry.hooks.floor # None THEN "RAISE_SCORE_FLOOR" ELSE "NO_CHANGE",
   threshold |-> IF entry.hooks.tighten /\ ~entry.hooks.disable /\ def # None THEN TighterThreshold(def) ELSE None]

\* compare, with the new threshold before it is rounded.
StillFires(kpi, def) ==
  CASE def.comparator = "GT"  -> 10 * kpi >  11 * def.threshold
    [] def.comparator = "GTE" -> 10 * kpi >= 11 * def.threshold
    [] def.comparator = "LT"  -> 10 * kpi <  9 * def.threshold
    [] def.comparator = "LTE" -> 10 * kpi <= 9 * def.threshold
    [] def.comparator = "EQ"  -> kpi = def.threshold

Past(replay) == replay.unknown + SumFunction(replay.seen)

PickConfidenceOfCount(count, unknown) ==  \* mutant: what is not known is not counted
  IF count >= 30 THEN "HIGH" ELSE IF count >= 10 THEN "MEDIUM" ELSE "LOW"
PickConfidence(count, unknown) ==
  IF count >= 30 /\ 10 * unknown < count THEN "HIGH" ELSE IF count >= 10 THEN "MEDIUM" ELSE "LOW"

Suppressed(def, replay) == SumFunctionOnSet(replay.seen, {kpi \in DOMAIN replay.seen : ~StillFires(kpi, def)})
Impact(count, lost, unknown, confidence) ==
  [count |-> count, lost |-> lost, unknown |-> unknown, confidence |-> confidence]
ProjectImpact(def, replay, action) ==
  LET count == Past(replay)
  IN IF action.type = "DISABLE_RULE" THEN Impact(count, count, 0, PickConfidence(count, 0))
     ELSE IF action.type # "TIGHTEN_THRESHOLD" THEN Impact(count, 0, 0, PickConfidence(count, 0))
     ELSE IF def = None THEN Impact(count, 0, count, "LOW")
     ELSE Impact(count, Suppressed(def, replay), replay.unknown, PickConfidence(count, replay.unknown))

SimulateRule(entry, def, replay) ==
  LET action == DecideAction(entry, def)
  IN [rule |-> entry.rule, health |-> entry.health, action |-> action, impact |-> ProjectImpact(def, replay, action)]

SummarizeSimulation(entries) ==
  [total   |-> Len(entries),
   actions |-> SumFunction([i \in DOMAIN entries |-> entries[i].impact.count]),
   lost    |-> SumFunction([i \in DOMAIN entries |-> entries[i].impact.lost]),
   certain |-> Cardinality({i \in DOMAIN entries : entries[i].impact.confidence = "HIGH"})]

\* getForOrg, getForAllOrgs
SimulateRules(q) ==
  LET health == ClassifyRules(q.votes)
  IN [i \in DOMAIN health |-> SimulateRule(health[i], q.defs[health[i].rule], q.replays[health[i].rule])]

-----------------------------------------------------------------------------
(* Decisions of a run: rule-tuner.service.ts.                              *)

BlockedBy(entry, settings) ==
  \/ entry.impact.confidence # "HIGH"
  \/ entry.health \notin {"NEEDS_TUNING", "HEALTHY"}
  \/ entry.impact.count = 0
  \/ 100 * entry.impact.lost > settings.maxRatio * entry.impact.count

Candidate(entry, settings) ==
  [rule |-> entry.rule, type |-> entry.action.type, after |-> entry.action.threshold, lost |-> entry.impact.lost,
   status |-> IF BlockedBy(entry, settings) THEN "BLOCKED" ELSE "APPLIED"]
CanBeApplied(entry) == \/ entry.action.type = "DISABLE_RULE"
                       \/ entry.action.type = "TIGHTEN_THRESHOLD" /\ entry.action.threshold # None

\* Those not blocked first, the ones that cost most before the others, as many as the cap lets.
RankCandidates(simulation, settings) ==
  LET eligible == Kept(simulation, {i \in DOMAIN simulation : CanBeApplied(simulation[i])})
      candidates == [i \in DOMAIN eligible |-> Candidate(eligible[i], settings)]
      byLoss == Sorted(candidates, [i \in DOMAIN candidates |-> -candidates[i].lost])
  IN Sorted(byLoss, [i \in DOMAIN byLoss |-> IF byLoss[i].status = "APPLIED" THEN 0 ELSE 1])
CapChange(c, i, settings) ==
  [c EXCEPT !.status = IF c.status = "APPLIED" /\ i > settings.maxChanges THEN "CAPPED" ELSE c.status]
CapChanges(ranked, settings) == [i \in DOMAIN ranked |-> CapChange(ranked[i], i, settings)]

\* The changes in their order: a rule that is gone by now is blocked, a dry run writes nothing.
Outcome(c, q) ==
  IF c.status # "APPLIED" THEN c.status
  ELSE IF q.dry THEN "SKIPPED_DRY_RUN"
  ELSE IF q.defs[c.rule] = None THEN "BLOCKED" ELSE "APPLIED"
RunChanges(decided, q) == [i \in DOMAIN decided |-> [decided[i] EXCEPT !.status = Outcome(decided[i], q)]]

WithStatus(changes, s) == {i \in DOMAIN changes : changes[i].status = s}
Made(changes) == {i \in DOMAIN changes : changes[i].status \in {"APPLIED", "SKIPPED_DRY_RUN"}}
RunTotals(changes) ==
  [candidates |-> Len(changes),
   applied |-> Cardinality(WithStatus(changes, "APPLIED")),
   skipped |-> Cardinality(WithStatus(changes, "SKIPPED_DRY_RUN")),
   blocked |-> Cardinality(WithStatus(changes, "BLOCKED")),
   capped  |-> Cardinality(WithStatus(changes, "CAPPED")),
   lost    |-> SumFunction([i \in Made(changes) |-> changes[i].lost])]

ChangesOf(simulation, q) ==
  RunChanges(CapChanges(RankCandidates(simulation, q.settings), q.settings), q)

RunResult(q) ==
  LET health == ClassifyRules(q.votes)
      simulation == SimulateRules(q)
      changes == ChangesOf(simulation, q)
  IN [health |-> health, simulation |-> simulation, healthSummary |-> SummarizeHealth(health),
      summary |-> SummarizeSimulation(simulation), changes |-> changes, totals |-> RunTotals(changes)]
RunTuner ==
  /\ question.kind = "run" /\ answer = None
  /\ answer' = RunResult(question)
  /\ UNCHANGED question

-----------------------------------------------------------------------------
(* Settings: a row is None, Malformed or a value.                          *)

SettingDefault == 30
ReadRow(rows) == IF rows.org # None THEN rows.org ELSE rows.global
UsedByRun(rows) == IF ReadRow(rows) \in {None, Malformed} THEN SettingDefault ELSE ReadRow(rows)

\* resolveSettingTyped goes on to the next layer.
ShownToAdmin(rows) ==
  IF rows.org \notin {None, Malformed} THEN [value |-> rows.org, source |-> "org"]
  ELSE IF rows.global \notin {None, Malformed} THEN [value |-> rows.global, source |-> "global"]
  ELSE [value |-> SettingDefault, source |-> "default"]

AskSettings ==
  /\ question.kind = "settings" /\ answer = None
  /\ answer' = [used |-> UsedByRun(question.rows), shown |-> ShownToAdmin(question.rows)]
  /\ UNCHANGED question

-----------------------------------------------------------------------------
(* The ledger: log rows [run, rule, at, status], newest first.             *)

LogOf(u, rows) == {l \in rows : l.run = u}
StartOf(u, rows) == Min({l.at : l \in LogOf(u, rows)})
EndOf(u, rows) == Max({l.at : l \in LogOf(u, rows)})
SummarizeRun(u, rows) ==
  [run |-> u, startedAt |-> StartOf(u, rows), finishedAt |-> EndOf(u, rows),
   total |-> Cardinality(LogOf(u, rows)),
   applied |-> Cardinality({l \in LogOf(u, rows) : l.status = "APPLIED"}),
   rolledBack |-> Cardinality({l \in LogOf(u, rows) : l.status = "ROLLED_BACK"})]
\* `rows` are those of the scope asked for: an organization's, or all.
Newest(rows, n) == {s \in kSubset(Smaller(n, Cardinality(rows)), rows) :
                      \A l \in s, m \in rows \ s : l.at >= m.at}
\* The runs as the newest row of each has them in the list, sorted by their start.
GroupLogsIntoRuns(rows) ==
  LET summaries == [u \in {l.run : l \in rows} |-> SummarizeRun(u, rows)]
      asRead == Sorted(summaries, [u \in DOMAIN summaries |-> -summaries[u].finishedAt])
  IN Sorted(asRead, [k \in DOMAIN asRead |-> -asRead[k].startedAt])

First(s, n) == SubSeq(s, 1, Smaller(n, Len(s)))
CappedLimit(q) == Smaller(Larger(q.limit, 1), 200)
ListRuns ==
  /\ question.kind = "list" /\ answer = None
  /\ \E taken \in Newest(question.rows, CappedLimit(question) * RowsPerRun) :
       answer' = [runs |-> First(GroupLogsIntoRuns(taken), CappedLimit(question))]
  /\ UNCHANGED question

\* The cooldown is that of all applied rows, also of those not read.
AppliedOf(rows) == {l \in rows : l.status = "APPLIED"}
Observed(q, taken) ==
  LET runs == GroupLogsIntoRuns(taken)
      applied == AppliedOf(q.rows)
      expires == Max({l.at : l \in applied}) + q.cooldown
  IN [runs |-> Len(runs), latest |-> IF runs = <<>> THEN None ELSE runs[1].run,
      applied |-> Cardinality(AppliedOf(taken)),
      rolledBack |-> Cardinality({l \in taken : l.status = "ROLLED_BACK"}),
      remaining |-> IF applied = {} \/ expires <= q.now THEN None ELSE expires - q.now]
GetObservability ==
  /\ question.kind = "overview" /\ answer = None
  /\ \E taken \in Newest(question.rows, RowsRead) : answer' = Observed(question, taken)
  /\ UNCHANGED question

PerformanceInit == question \in TunerQuestions /\ answer = None
PerformanceNext == RunTuner \/ AskSettings \/ ListRuns \/ GetObservability

-----------------------------------------------------------------------------
(* Properties.                                                             *)

Answered(kind) == question # None /\ question.kind = kind /\ answer # None

\* What is lost for good: one step of the rounded threshold may still fire.
FiringAfter(c, def, replay) ==
  {kpi \in DOMAIN replay.seen : \/ kpi \in (c.after - 1)..(c.after + 1)
                                \/ def.comparator \in {"GT", "GTE"} /\ kpi > c.after
                                \/ def.comparator \in {"LT", "LTE"} /\ kpi < c.after}
IsJustified(c, v, def, replay, settings) ==
  LET known == SumFunction(replay.seen)
      fired == known + replay.unknown
  IN /\ v.rows >= 10 /\ 20000 * v.wrong >= 5999 * Rated(v) /\ v.wrong > 0
     /\ fired >= 30
     /\ c.type = "DISABLE_RULE" => settings.maxRatio >= 100 /\ 20000 * v.wrong >= 9999 * Rated(v)
     /\ c.type = "TIGHTEN_THRESHOLD" =>
          /\ def # None /\ 10 * replay.unknown < fired
          /\ def.threshold >= 0 /\ def.comparator \in {"GT", "GTE"} => c.after >= def.threshold
          /\ def.threshold >= 0 /\ def.comparator \in {"LT", "LTE"} => c.after <= def.threshold
          /\ 100 * (known - SumFunctionOnSet(replay.seen, FiringAfter(c, def, replay))) <= settings.maxRatio * fired

\* A change that is made, or would be, is of a rule users found wrong three times in
\* ten (as the rate is rounded), that acted thirty times; it makes the rule fire less if
\* its threshold is not negative, and of its past actions no larger part is lost than the setting grants.
ChangesAreJustified ==
  Answered("run") =>
    \A i \in Made(answer.changes) :
      LET c == answer.changes[i]
      IN IsJustified(c, question.votes[c.rule], question.defs[c.rule], question.replays[c.rule], question.settings)

\* A context as the executor stores it holds no KPI: on those a run changes no threshold.
NothingIsTightenedBlindly ==
  Answered("run") =>
    \A i \in DOMAIN answer.changes :
      LET c == answer.changes[i]
      IN c.type = "TIGHTEN_THRESHOLD" /\ (\A kpi \in DOMAIN question.replays[c.rule].seen : question.replays[c.rule].seen[kpi] = 0)
           => c.status \in {"BLOCKED", "CAPPED"}

\* The cap holds, keeps the changes that count most, and the totals are those of the list.
CapKeepsTheLargest ==
  Answered("run") =>
    LET made == Made(answer.changes)
        t == answer.totals
    IN /\ Cardinality(made) <= question.settings.maxChanges
       /\ \A i \in made, j \in DOMAIN answer.changes : answer.changes[j].status = "CAPPED" => answer.changes[i].lost >= answer.changes[j].lost
       /\ t.applied + t.skipped + t.blocked + t.capped = t.candidates
       /\ t.lost <= answer.summary.lost /\ answer.summary.lost <= answer.summary.actions

\* A rule users judge better in every respect is neither scored nor ranked below.
BetterIsNotWorse ==
  Answered("run") =>
    \A i, j \in DOMAIN answer.health :
      LET v == question.votes[answer.health[i].rule]
          w == question.votes[answer.health[j].rule]
      IN v.rows = w.rows /\ Rated(v) = Rated(w) /\ v.useful >= w.useful /\ v.wrong <= w.wrong /\ v.needsContext <= w.needsContext
           => /\ answer.health[i].score >= answer.health[j].score
              /\ HealthRank(answer.health[i].health) >= HealthRank(answer.health[j].health)

\* The admin sees the value a run uses, unless the organization's row is malformed.
ViewIsWhatRunsUse ==
  Answered("settings") => (question.rows.org # Malformed => answer.used = answer.shown.value)

\* A list of runs leaves out no run that is newer than one it holds, and all but its
\* oldest are whole; of the overview, whatever is read is counted once.
LedgerIsWhole ==
  /\ Answered("list") =>
       LET listed == {answer.runs[k].run : k \in DOMAIN answer.runs}
           rows == question.rows
       IN /\ \A u \in listed, w \in {l.run : l \in rows} \ listed : StartOf(w, rows) <= EndOf(u, rows)
          /\ \A k \in DOMAIN answer.runs :
               k < Len(answer.runs) /\ EndOf(answer.runs[k + 1].run, rows) < StartOf(answer.runs[k].run, rows)
               => answer.runs[k].total = Cardinality(LogOf(answer.runs[k].run, rows))
  /\ Answered("overview") =>
       /\ answer.applied + answer.rolledBack = Smaller(RowsRead, Cardinality(question.rows))
       /\ answer.remaining # None => answer.remaining <= question.cooldown

\* What the tuner says and does rests on what users and past actions say
\* (rule-performance.service.ts, rule-tuner-simulation.service.ts, decideChanges and
\* the read-only views of rule-tuner.service.ts).
TuningIsJustified ==
  ChangesAreJustified /\ NothingIsTightenedBlindly /\ CapKeepsTheLargest /\ BetterIsNotWorse
  /\ ViewIsWhatRunsUse /\ LedgerIsWhole
==============================================================================
