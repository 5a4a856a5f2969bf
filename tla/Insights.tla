------------------------------ MODULE Insights ------------------------------
(***************************************************************************)
(* The diagnostic insights of an organization: computed on each request    *)
(* from the rules' evaluation and the trend of the day's three windows,    *)
(* scored and ranked, with each user's marks and feedback laid over them   *)
(* by the insight's id, and the analytics of these (insights/: service,    *)
(* scorer, trend analyzer, interactions, analytics).                       *)
(*                                                                         *)
(* Factors are counted in thousandths, contributions in tenths of a point, *)
(* changes of performance in tenths of a percent.                          *)
(***************************************************************************)
EXTENDS RuleEvaluation, Functions

CONSTANTS
  Worlds,     \* what a request finds: [campaign, adSet (or None), snaps, rules]
  InsightUsers, \* members of the organization
  LogImpact,  \* log10(1 + v) / log10(10001) in thousandths, of the budgets of Worlds
  NameOrder,  \* localeCompare of the ad set's name with the campaign's: -1, 0 or 1
  MaxMarks    \* interactions the users store (bound)

\* Metrics are not negative, a snapshot has all of them, a rule's id is the key of its row.
KPIs == {"roas", "ctr", "cpa", "cpc", "spendPacing"}
SnapsOk(snaps) ==
  /\ DOMAIN snaps = Hours
  /\ \A h \in Hours : snaps[h] # None =>
       snaps[h].impressions \in Nat /\ DOMAIN snaps[h].kpi = KPIs /\ \A m \in KPIs : snaps[h].kpi[m] \in Nat
RulesOk(rules) ==
  /\ DOMAIN rules \subseteq Nat /\ IsFiniteSet(DOMAIN rules)
  /\ \A i \in DOMAIN rules : /\ rules[i].comparator \in {"GT", "LT", "GTE", "LTE", "EQ"}
                             /\ rules[i].threshold \in Int /\ rules[i].priority \in Int
                             /\ rules[i].delta # None => rules[i].delta \in Int
  /\ \A i, j \in DOMAIN rules : rules[i].id = rules[j].id => i = j
ASSUME InsightsAssumption ==
  /\ None \notin Int /\ NameOrder \in {-1, 0, 1} /\ \A v \in DOMAIN LogImpact : LogImpact[v] \in Nat
  /\ \A w \in Worlds : /\ SnapsOk(w.snaps) /\ (w.adSet # None => SnapsOk(w.adSet)) /\ RulesOk(w.rules)
                       /\ w.campaign.budget # None => w.campaign.budget \in DOMAIN LogImpact

VARIABLES world, listed, interactions

insightVars == <<world, listed, interactions>>

Magnitude(v) == IF v < 0 THEN -v ELSE v
OrElse(v, other) == IF v = None THEN other ELSE v

-----------------------------------------------------------------------------
(* Trends: trend-analyzer.service.ts.                                      *)

HIGHER_IS_BETTER == {"roas", "ctr"}
ANALYZED_METRICS == <<"roas", "ctr", "cpa", "cpc">>
MIN_IMPRESSIONS_24H == 1000

\* (a - b) / b beyond, or within, a threshold given in percent.
Beyond(a, b, pct) == Magnitude(a - b) * 100 > pct * b
Within(a, b, pct) == Magnitude(a - b) * 100 < pct * b

\* direction, confidence and the change of performance, rounded as round1 does.
ClassifyAnyway(m, v24, v48, v72) ==  \* mutant: steps that oppose each other count as a trend
  [metric |-> m, confidence |-> IF Beyond(v24, v72, 15) THEN "HIGH" ELSE "LOW", change |-> ((v24 - v72) * 1000) \div v72,
   direction |-> IF (v24 >= v72) = (m \in HIGHER_IS_BETTER) THEN "UP" ELSE "DOWN"]

Signal(m, dir, conf, change) == [metric |-> m, direction |-> dir, confidence |-> conf, change |-> change]
Opposed(v24, v48, v72) == (v24 - v48) * (v48 - v72) < 0
PerformanceChange(m, v24, v72) == (IF m \in HIGHER_IS_BETTER THEN 1 ELSE -1) * (v24 - v72)
TrendConfidence(v24, v48, v72) ==
  IF Opposed(v24, v48, v72) THEN "LOW"
  ELSE IF Beyond(v24, v72, 15) THEN "HIGH" ELSE IF Beyond(v24, v72, 5) THEN "MEDIUM" ELSE "LOW"
Classify(m, v24, v48, v72) ==
  IF Within(v24, v48, 3) /\ Within(v48, v72, 3) THEN Signal(m, "FLAT", "MEDIUM", None)
  ELSE IF Opposed(v24, v48, v72) /\ Beyond(v24, v48, 5) /\ Beyond(v48, v72, 5)
  THEN Signal(m, "VOLATILE", IF Beyond(v24, v48, 15) \/ Beyond(v48, v72, 15) THEN "HIGH" ELSE "MEDIUM", None)
  ELSE IF Within(v24, v72, 3) THEN Signal(m, "FLAT", "LOW", None)
  ELSE Signal(m, IF PerformanceChange(m, v24, v72) >= 0 THEN "UP" ELSE "DOWN", TrendConfidence(v24, v48, v72),
              (2000 * PerformanceChange(m, v24, v72) + v72) \div (2 * v72))

\* All three windows, enough impressions, and no baseline of zero.
CanAnalyze(snaps) == (\A h \in Hours : snaps[h] # None) /\ snaps[24].impressions >= MIN_IMPRESSIONS_24H
MetricsWithBaseline(snaps) ==
  Kept(ANALYZED_METRICS, {i \in DOMAIN ANALYZED_METRICS : \A h \in {48, 72} : snaps[h].kpi[ANALYZED_METRICS[i]] # 0})
SignalOf(m, snaps) == Classify(m, snaps[24].kpi[m], snaps[48].kpi[m], snaps[72].kpi[m])
Analyze(snaps) ==
  LET seen == MetricsWithBaseline(snaps)
  IN IF CanAnalyze(snaps) THEN [i \in DOMAIN seen |-> SignalOf(seen[i], snaps)] ELSE <<>>

-----------------------------------------------------------------------------
(* The insights of one entity: insights.service.ts.                        *)

RISK_ACTIONS == {"DECREASE_BUDGET", "ADJUST_BID_CEILING"}

\* IdFor: the hash of the entity and a source; value, delta and change feed the score.
Insight(ent, source, type, severity) ==
  [id |-> <<ent, source>>, type |-> type, severity |-> severity,
   confidence |-> "MEDIUM", value |-> None, swing |-> None, rule |-> None]

BuildLearningPhaseInsight(ent) == Insight(ent, <<"learning">>, "LEARNING_PHASE", "INFO")
BuildNoMetricsInsight(ent) == Insight(ent, <<"no-metrics">>, "INSUFFICIENT_DATA", "LOW")

BuildProposedInsight(ent, p) ==
  LET risk == p.rule.action \in RISK_ACTIONS IN
  [Insight(ent, <<"proposed", p.rule.id, p.rule.action>>,
           IF risk THEN "PERFORMANCE_RISK" ELSE "OPTIMIZATION_OPPORTUNITY", IF risk THEN "HIGH" ELSE "MEDIUM")
     EXCEPT !.value = OrElse(p.current, p.value), !.rule = p.rule.id,
            !.swing = IF p.rule.delta = None THEN None ELSE 10 * p.rule.delta]

BuildReadyForActionInsight(ent, proposed) ==
  Insight(ent, <<"ready-for-action">>, "READY_FOR_ACTION",
          IF \E i \in DOMAIN proposed : proposed[i].rule.action \in RISK_ACTIONS THEN "HIGH" ELSE "MEDIUM")

BuildSkipInsight(ent, code, rules) ==
  LET gap == code \in {"INSUFFICIENT_SAMPLE", "KPI_MISSING"} IN
  [Insight(ent, <<"skip", code>>, IF gap THEN "INSUFFICIENT_DATA" ELSE "RULE_NOT_TRIGGERED", IF gap THEN "LOW" ELSE "INFO")
     EXCEPT !.rule = IF Cardinality(rules) = 1 THEN CHOOSE id \in rules : TRUE ELSE None]

\* The codes in the order of their first skips, and the rules of one.
GroupSkipsByCode(skipped) ==
  Kept([i \in DOMAIN skipped |-> skipped[i].code],
       {i \in DOMAIN skipped : \A j \in DOMAIN skipped : j < i => skipped[j].code # skipped[i].code})
RulesSkippedFor(skipped, code) == {skipped[i].rule.id : i \in {j \in DOMAIN skipped : skipped[j].code = code}}

ProposedInsights(ent, proposed) == [i \in DOMAIN proposed |-> BuildProposedInsight(ent, proposed[i])]
SkipInsights(ent, skipped) ==
  LET codes == GroupSkipsByCode(skipped)
  IN [i \in DOMAIN codes |-> BuildSkipInsight(ent, codes[i], RulesSkippedFor(skipped, codes[i]))]
AppendFromEvaluation(ent, result, rules) ==
  IF result.proposed = <<>> /\ result.skipped = <<>>
  THEN IF rules # <<>> THEN <<BuildNoMetricsInsight(ent)>> ELSE <<>>
  ELSE ProposedInsights(ent, result.proposed)
       \o (IF result.proposed # <<>> THEN <<BuildReadyForActionInsight(ent, result.proposed)>> ELSE <<>>)
       \o SkipInsights(ent, result.skipped)

BuildTrendDirectionInsight(ent, s) ==
  LET up == s.direction = "UP" IN
  [Insight(ent, <<"trend", s.direction, s.metric>>, IF up THEN "TREND_UP" ELSE "TREND_DOWN",
           IF up THEN "INFO" ELSE s.confidence) EXCEPT !.confidence = s.confidence, !.swing = s.change]
BuildVolatilityInsight(ent, s) ==
  [Insight(ent, <<"trend", "VOLATILE", s.metric>>, "VOLATILITY_HIGH", IF s.confidence = "HIGH" THEN "MEDIUM" ELSE "LOW")
     EXCEPT !.confidence = s.confidence]
BuildStagnantInsight(ent) == Insight(ent, <<"trend", "STAGNANT">>, "PERFORMANCE_STAGNANT", "LOW")

MovingSignals(signals) == Kept(signals, {i \in DOMAIN signals : signals[i].direction # "FLAT"})
TrendInsights(ent, moving) ==
  [i \in DOMAIN moving |-> IF moving[i].direction = "VOLATILE" THEN BuildVolatilityInsight(ent, moving[i])
                           ELSE BuildTrendDirectionInsight(ent, moving[i])]
AppendTrendInsights(ent, snaps) ==
  LET signals == Analyze(snaps)
  IN TrendInsights(ent, MovingSignals(signals))
     \o (IF Cardinality({i \in DOMAIN signals : signals[i].direction = "FLAT"}) >= 2
         THEN <<BuildStagnantInsight(ent)>> ELSE <<>>)

-----------------------------------------------------------------------------
(* Scores: insight-scorer.service.ts.                                      *)

SEVERITY_FACTOR == [HIGH |-> 900, MEDIUM |-> 600, LOW |-> 350, INFO |-> 150]

ACTIONABILITY ==
  [PERFORMANCE_RISK |-> 1000, READY_FOR_ACTION |-> 1000, OPTIMIZATION_OPPORTUNITY |-> 900, TREND_DOWN |-> 700,
   VOLATILITY_HIGH |-> 600, PERFORMANCE_STAGNANT |-> 500, TREND_UP |-> 400, INSUFFICIENT_DATA |-> 300,
   LEARNING_PHASE |-> 200, RULE_NOT_TRIGGERED |-> 100]

ConfidenceFactor(i) == CASE i.confidence = "HIGH" -> 1000 [] i.confidence = "MEDIUM" -> 700 [] OTHER -> 400
ImpactFactor(i) == IF i.value = None \/ i.value = 0 THEN 500 ELSE LogImpact[i.value]
MagnitudeFactor(i) == IF i.swing = None THEN 300 ELSE IF Magnitude(i.swing) >= 500 THEN 1000 ELSE 2 * Magnitude(i.swing)

\* The contribution of a factor, to a tenth; weight in percent.
Factor(value, weight) == (value * weight + 50) \div 100
Score(i) ==
  (Factor(SEVERITY_FACTOR[i.severity], 30) + Factor(ConfidenceFactor(i), 15) + Factor(ImpactFactor(i), 20)
   + Factor(MagnitudeFactor(i), 15) + Factor(ACTIONABILITY[i.type], 15) + Factor(1000, 5) + 5) \div 10
PriorityForScore(score) ==
  IF score >= 80 THEN "CRITICAL" ELSE IF score >= 60 THEN "HIGH" ELSE IF score >= 40 THEN "MEDIUM" ELSE "LOW"

SeverityRank(s) == CASE s = "HIGH" -> 4 [] s = "MEDIUM" -> 3 [] s = "LOW" -> 2 [] s = "INFO" -> 1

-----------------------------------------------------------------------------
(* Requests.                                                               *)

Pair(u, i) == {r \in interactions : r.user = u /\ r.id = i.id}
OverlayFor(u, i) == IF Pair(u, i) = {} THEN [status |-> None, feedback |-> None, note |-> None]
                    ELSE LET r == CHOOSE x \in Pair(u, i) : TRUE
                         IN [status |-> r.status, feedback |-> r.feedback, note |-> r.note]

\* The campaign is read if it is ACTIVE and not OFF; its ad sets whatever it is, as long as
\* its optimizerEnabled is on, and are silent while it is LEARNING.
InsightsOf(ent, result, w, snaps) == AppendFromEvaluation(ent, result, w.rules) \o AppendTrendInsights(ent, snaps)
CampaignInsights(w) ==
  IF ~w.campaign.watched THEN <<>>
  ELSE IF w.campaign.phase = "LEARNING" THEN <<BuildLearningPhaseInsight("CAMPAIGN")>>
  ELSE InsightsOf("CAMPAIGN", EvaluateCampaign(w.campaign, w.rules, w.snaps), w, w.snaps)
AdSetInsights(w) ==
  IF w.adSet = None \/ w.campaign.phase = "LEARNING" THEN <<>>
  ELSE InsightsOf("AD_SET", EvaluateAdSet(w.campaign, w.rules, w.adSet), w, w.adSet)
Unscored(w) == CampaignInsights(w) \o AdSetInsights(w)

\* The higher score first, then the higher severity, then the name of the entity.
NameKey(i) == IF i.id[1] = "AD_SET" THEN NameOrder ELSE 0
RankKey(i) == NameKey(i) - 10 * (10 * Score(i) + SeverityRank(i.severity))
ScoredFor(u, i) ==
  LET score == Score(i)
  IN [about |-> i, score |-> score, priority |-> PriorityForScore(score), mine |-> OverlayFor(u, i)]
Ranked(all, u) ==
  Arranged([k \in DOMAIN all |-> ScoredFor(u, all[k])], DOMAIN all, [k \in DOMAIN all |-> RankKey(all[k])])
Compute(w, u) == Ranked(Unscored(w), u)

ApplyFilters(insights, severity) ==
  Kept(insights, {k \in DOMAIN insights : severity \in {None, insights[k].about.severity}})

InsightInit == world \in Worlds /\ listed = [user |-> None, insights |-> <<>>] /\ interactions = {}

ListForOrg(u, severity) ==
  /\ listed' = [user |-> u, insights |-> ApplyFilters(Compute(world, u), severity)]
  /\ UNCHANGED <<world, interactions>>

\* The upserts by (insight, user): the context of the insight is refreshed on each.
Stored(u, i) ==
  IF Pair(u, i) = {} THEN [user |-> u, id |-> i.id, status |-> None, feedback |-> None, note |-> None,
                           type |-> None, priority |-> None, rule |-> None]
  ELSE CHOOSE r \in Pair(u, i) : TRUE
Upsert(i, marked) ==
  LET new    == [marked EXCEPT !.type = i.about.type, !.priority = i.priority, !.rule = i.about.rule]
      stored == (interactions \ {Stored(listed.user, i.about)}) \cup {new}
  IN /\ Cardinality(stored) <= MaxMarks
     /\ interactions' = stored
     /\ UNCHANGED <<world, listed>>

\* markSeen, dismiss, save.
SetStatus(i, status) == Upsert(i, [Stored(listed.user, i.about) EXCEPT !.status = status])
\* A feedback without a note leaves the note there is.
SetFeedback(i, feedback, note) ==
  Upsert(i, [Stored(listed.user, i.about) EXCEPT !.feedback = feedback, !.note = OrElse(note, @)])

Listed == {listed.insights[k] : k \in DOMAIN listed.insights}
InsightNext ==
  \/ \E u \in InsightUsers, severity \in {None, "HIGH"} : ListForOrg(u, severity)
  \/ \E i \in {x \in Listed : SeverityRank(x.about.severity) > 2} :
        \/ \E status \in {"SEEN", "DISMISSED"} : SetStatus(i, status)
        \/ \E note \in {None, "n"} : SetFeedback(i, "WRONG", note)

InsightSpec == InsightInit /\ [][InsightNext]_insightVars

-----------------------------------------------------------------------------
(* Analytics: insight-analytics.service.ts.                                *)

Aggregate(rows) ==
  [interactionCount |-> Cardinality(rows),
   statusCounts   |-> [s \in {"SEEN", "DISMISSED", "SAVED"} |-> Cardinality({r \in rows : r.status = s})],
   feedbackCounts |-> [f \in {"USEFUL", "NOT_USEFUL", "WRONG", "NEEDS_MORE_CONTEXT"} |-> Cardinality({r \in rows : r.feedback = f})]]
BucketsBy(rows, field) ==
  {[key |-> k, counts |-> Aggregate({r \in rows : r[field] = k})] : k \in {r[field] : r \in rows}}
GetForOrg == [totals |-> Aggregate(interactions), byInsightType |-> BucketsBy(interactions, "type"),
              byPriority |-> BucketsBy(interactions, "priority"), byUser |-> BucketsBy(interactions, "user")]

\* Interactions with insights of one rule; the others are counted as uncategorized.
GetForRules == [rules |-> {b \in BucketsBy(interactions, "rule") : b.key # None},
                uncategorizedCount |-> Cardinality({r \in interactions : r.rule = None})]

-----------------------------------------------------------------------------
(* Properties.                                                             *)

\* No two insights of a response share an id: a mark on one is a mark on no other.
IdsAreUnique == \A j, k \in DOMAIN listed.insights : j # k => listed.insights[j].about.id # listed.insights[k].about.id

\* Whatever its score is made of, nothing that is only information is ranked above a risk.
RisksComeFirst ==
  \A j, k \in DOMAIN listed.insights :
    listed.insights[j].about.severity = "INFO" /\ listed.insights[k].about.type = "PERFORMANCE_RISK" => j > k

\* A trend that claims confidence is one: neither of its two steps goes the other way.
IsMonotonic(s, v24, v48, v72) ==
  s.direction \in {"UP", "DOWN"} /\ s.confidence # "LOW" =>
    IF (s.direction = "UP") = (s.metric \in HIGHER_IS_BETTER) THEN v72 <= v48 /\ v48 <= v24 ELSE v72 >= v48 /\ v48 >= v24
SignalsAreMonotonic(signals, snaps) ==
  \A i \in DOMAIN signals :
    LET m == signals[i].metric IN IsMonotonic(signals[i], snaps[24].kpi[m], snaps[48].kpi[m], snaps[72].kpi[m])
TrendsAreMonotonic ==
  /\ SignalsAreMonotonic(Analyze(world.snaps), world.snaps)
  /\ world.adSet # None => SignalsAreMonotonic(Analyze(world.adSet), world.adSet)

\* The breakdowns of the analytics are of the same interactions as the totals.
TotalIn(buckets) == SumFunction([b \in buckets |-> b.counts.interactionCount])
CountedOnce ==
  /\ \A buckets \in {GetForOrg.byInsightType, GetForOrg.byPriority, GetForOrg.byUser} :
       TotalIn(buckets) = GetForOrg.totals.interactionCount
  /\ TotalIn(GetForRules.rules) + GetForRules.uncategorizedCount = Cardinality(interactions)

\* What a user is told holds of the metrics and can be told apart (insights.service.ts 59-64,
\* 153-166, trend-analyzer.service.ts 85-110, insight-scorer.service.ts 48-55).
InsightsAreSound ==
  /\ IdsAreUnique /\ RisksComeFirst /\ CountedOnce
  /\ listed.insights # <<>> => TrendsAreMonotonic

\* A rule whose condition is an inequality fires on an entity only if some window by itself
\* meets it: weighting smooths, and makes up no value that no window came near
\* (recency-weight.util.ts 11-24, evaluator.service.ts 106-172; see LostWindow).
RulesFireOnEvidence ==
  listed.insights # <<>> =>
    /\ FiresWithAWitness(EvaluateCampaign(world.campaign, world.rules, world.snaps), world.snaps)
    /\ world.adSet # None =>
         FiresWithAWitness(EvaluateAdSet(world.campaign, world.rules, world.adSet), world.adSet)
=============================================================================
