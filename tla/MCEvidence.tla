----------------------------- MODULE MCEvidence ------------------------------
(***************************************************************************)
(* Instances for TLC of what the system makes of its evidence: the rules'  *)
(* evaluation and the insights, the outcomes and features of past          *)
(* campaigns and what they do to a draft, the auto-tuner of the rules, and *)
(* the pages that show it all.                                             *)
(* The parts share no state: a behaviour is one of the part it starts      *)
(* with, and the variables of the others rest.                             *)
(***************************************************************************)
EXTENDS RuleTuner, Insights, Outcomes, HistoryScore, ProviderMetrics,
        Overview, ActionLog, TLC

VARIABLE part
evidenceVars == <<part, vars, insightVars, outcomeVars, scoreVars, metricsVars, performanceVars, overviewVars,
                  actionLogVars>>

-----------------------------------------------------------------------------
(* RuleTuner *)
CONSTANTS gt, lt, org, r1, r2, r3

TwoRules      == {gt, lt}
Compared      == [x \in {gt, lt} |-> IF x = gt THEN "GT" ELSE "LT"]
OneOrg        == {org}
ThreeRequests == {r1, r2, r3}

Symmetry == Permutations(Requests)

-----------------------------------------------------------------------------
(* Insights: values in the units of their metric, percent for roas. *)
Measured(roas, cpa, impressions) ==
  [impressions |-> impressions,
   kpi |-> [roas |-> roas, ctr |-> 100, cpa |-> cpa, cpc |-> 100, spendPacing |-> 1]]
Windowed == [a : {None, Measured(98, 100, 1000), Measured(80, 130, 500), Measured(120, 100, 2000)},
             b : {None, Measured(90, 120, 1000), Measured(106, 100, 1000)},
             c : {None, Measured(100, 100, 1000), Measured(0, 110, 1000)}]
SnapsOf(w) == [h \in {24, 48, 72} |-> IF h = 24 THEN w.a ELSE IF h = 48 THEN w.b ELSE w.c]
SetsOwn == SnapsOf([a |-> Measured(98, 100, 1000), b |-> Measured(100, 120, 1000), c |-> Measured(0, 110, 1000)])

RuleRow(id, action, kpi, comparator, threshold, delta, priority, phase) ==
  [id |-> id, action |-> action, kpi |-> kpi, comparator |-> comparator, threshold |-> threshold,
   minSample |-> 600, delta |-> delta, priority |-> priority, platform |-> "ALL", phase |-> phase]
RuleLists ==
  {<<>>,
   <<RuleRow("a", "INCREASE_BUDGET", "roas", "GTE", 102, 15, 10, "STABLE"),
     RuleRow("b", "DECREASE_BUDGET", "roas", "LT", 100, -40, 5, "ALL"),
     RuleRow("c", "SWITCH_BIDDING_STRATEGY", "cpa", "GT", 110, None, 20, "ALL"),
     RuleRow("d", "ADJUST_BID_CEILING", "frequency", "GT", 1, 5, 1, "ALL")>>,
   <<RuleRow("e", "DECREASE_BUDGET", "cpa", "GTE", 100, -1, 5, "ALL"),
     RuleRow("f", "ADJUST_BID_CEILING", "roas", "LTE", 101, None, 5, "ALL"),
     RuleRow("g", "DECREASE_BUDGET", "roas", "GT", 0, None, 5, "ALL")>>}
SmallWorlds ==
  {[campaign |-> [watched |-> TRUE, phase |-> phase, platform |-> "META", isCbo |-> FALSE, budget |-> budget],
    adSet |-> adSet, snaps |-> SnapsOf(w), rules |-> ruleList] :
   phase \in {"LEARNING", "STABLE"}, budget \in {None, 10}, adSet \in {None, SetsOwn},
   w \in Windowed, ruleList \in RuleLists}
AdSetFirst == -1
TwoImpacts == [v \in {10, 1000} |-> IF v = 10 THEN 260 ELSE 750]

-----------------------------------------------------------------------------
(* Outcomes and HistoryScore *)
PlanShape(platform, goal, tags, format, languages, countries, vertical) ==
  [platform |-> platform, goal |-> goal, tags |-> tags, format |-> format, languages |-> languages,
   countries |-> countries, vertical |-> vertical]
ThreeShapes == {PlanShape("META", "SALES", "some", "video", {"ar", "en"}, {"SA"}, "FASHION"),
                PlanShape("META", "SALES", "none", "image", {"en"}, {"SA", "AE"}, "_"),
                PlanShape("GOOGLE_ADS", "AWARENESS", "no hints", "image", {}, {"SA"}, "FASHION")}
Totals(spend, impressions, clicks, conversions, revenue) ==
  [spend |-> spend, impressions |-> impressions, clicks |-> clicks, conversions |-> conversions, revenue |-> revenue]
FourTotals == {Totals(40, 500, 9, 0, 0), Totals(10, 100, 0, 0, 900), Totals(0, 0, 0, 0, 0), Totals(7, 30, 5, 3, 21)}
Outcomes0 == [value |-> 0, size |-> 0, prior |-> 3]
OutcomesOf(values, sizes, priors) == {Outcomes0} \cup [value : values, size : sizes, prior : priors]
History(roas, cpa, ctr, rate) ==
  [f \in SCORING_FEATURES |-> CASE f = "platform_roas" -> roas [] f = "platform_cpa" -> cpa
                                [] f = "platform_ctr" -> ctr [] f = "platform_conversion_rate" -> rate]
\* The rows of META but ctr's are never found, whatever they are.
FewHistories ==
  {[p \in Platforms |-> IF p = "META" THEN History(Outcomes0, Outcomes0, c, Outcomes0) ELSE History(r, a, g, v)] :
   c \in OutcomesOf({1}, {2, 12}, {None, 3}), r \in OutcomesOf({300}, {2, 12}, {None, 3}),
   a \in OutcomesOf({2000, 20000}, {12}, {3}), g \in OutcomesOf({1, 300}, {12}, {3}), v \in OutcomesOf({3}, {5}, {None})}

-----------------------------------------------------------------------------
(* ProviderMetrics *)
Activity(spend, impressions, clicks, purchases, leads, installs, value, reach) ==
  [spend |-> spend, impressions |-> impressions, clicks |-> clicks, purchases |-> purchases, leads |-> leads,
   installs |-> installs, value |-> value, reach |-> reach]
FewDays == {Activity(0, 0, 0, 0, 0, 0, 0, 0), Activity(1234, 700, 13, 2, 3, 1, 9000, 500), Activity(33, 41, 0, 0, 0, 0, 0, 40)}
Raw(state, daily, lifetime, adSetDaily) ==
  [state |-> state, daily |-> daily, lifetime |-> lifetime, adSetDaily |-> adSetDaily, cap |-> None, operation |-> "ENABLE"]
FewWorlds == [days : [1..3 -> FewDays], objective : Objectives \cup {None}, hours : {24, 48}, now : {83, 95},
              names : {"one", "several"},
              campaign : {Raw("on", None, None, 7), Raw("on", 5, None, None), Raw("off", None, 9, None),
                          Raw("archived", None, None, 7), Raw("removed", 5, None, None)}]

-----------------------------------------------------------------------------
(* RulePerformance *)
Votes(marks, useful, notUseful, wrong, needsContext) ==
  [rows |-> marks, useful |-> useful, notUseful |-> notUseful, wrong |-> wrong, needsContext |-> needsContext]
FewVotes == {Votes(20, u, 20 - u - w - c, w, c) : u \in {5, 10}, w \in {2, 5, 6, 10}, c \in {0}}
            \cup {Votes(20, 13, 2, 3, 2), Votes(20, 14, 3, 3, 0), Votes(120, 100, 0, 0, 0),
                  Votes(9, 0, 0, 9, 0), Votes(40, 0, 0, 0, 0), Votes(12, 1, 0, 2, 0)}
Def(comparator) == [comparator |-> comparator, threshold |-> 105]
Negative(comparator) == [comparator |-> comparator, threshold |-> -105]
Replay(unknown, a, b, c, d) == [unknown |-> unknown, seen |-> [kpi \in {90, 100, 115, 116} |->
   CASE kpi = 90 -> a [] kpi = 100 -> b [] kpi = 115 -> c [] OTHER -> d]]
FewRuns ==
  [kind : {"run"}, votes : FewVotes \X FewVotes,
   defs : {<<Def("GT"), Def("LT")>>, <<Def("LTE"), Def("GTE")>>, <<Def("EQ"), None>>,
           <<Negative("GT"), Negative("LT")>>},
   replays : {<<Replay(0, 10, 10, 5, 10), Replay(4, 16, 0, 10, 10)>>, <<Replay(3, 20, 6, 6, 20), Replay(0, 6, 1, 1, 30)>>,
              <<Replay(40, 0, 0, 0, 0), Replay(12, 0, 0, 0, 0)>>, <<Replay(0, 0, 0, 0, 0), Replay(0, 31, 0, 0, 4)>>},
   settings : [maxChanges : {1, 2}, maxRatio : {30, 100}], dry : BOOLEAN]
FewSettingRows == [kind : {"settings"}, rows : [org : {None, Malformed} \cup {10, 100}, global : {None, Malformed} \cup {10, 100}]]
LogRow(u, x, at, status) == [run |-> u, rule |-> x, at |-> at, status |-> status]
Places == {<<1, "a">>, <<1, "b">>, <<2, "a">>, <<2, "b">>, <<3, "a">>}
Ledgers == {{LogRow(p[1], p[2], at[p], IF p[1] \in undone /\ (p[2] = "b" \/ at[p] > 0) THEN "ROLLED_BACK" ELSE "APPLIED") :
               p \in {q \in Places : at[q] # None}} : at \in [Places -> (0..2) \cup {None}], undone \in {{}, {1}, {1, 2}}}
FewQuestions == FewRuns \cup FewSettingRows \cup [kind : {"list"}, rows : Ledgers, limit : {0, 1, 2}]
                \cup [kind : {"overview"}, rows : Ledgers, cooldown : {1}, now : {2}]

-----------------------------------------------------------------------------
(* Overview *)
Snapshot(entity, day, spend, roas) == [entity |-> entity, day |-> day, spend |-> spend, roas |-> roas]
FewSnapshots ==
  {{Snapshot("c1", d[1], 10, 2), Snapshot("c1", d[2], s, 0), Snapshot("c2", d[3], 7, 5), Snapshot("c2", d[4], 7, 1),
    Snapshot("c3", d[5], 3, 4)} :
   d \in {<<9, 8, 9, 7, 9>>, <<9, 6, 7, 6, 5>>, <<8, 5, 9, 8, 6>>, <<7, 6, 5, 4, 9>>}, s \in {0, 10, 12}}
Ad(id, status) == [id |-> id, status |-> status]
Done(entity, type, status, today) == [entity |-> entity, type |-> type, status |-> status, today |-> today]
Summaries ==
  [kind : {"summary"}, snapshots : FewSnapshots \cup {{}}, day : {9},
   campaigns : {<<Ad("c3", "ACTIVE"), Ad("c2", "PAUSED"), Ad("c1", a)>> : a \in {"ACTIVE", "PAUSED"}} \cup {<<>>},
   actions : {<<>>, <<Done("c1", "CAMPAIGN", "APPLIED", TRUE), Done("s1", "AD_SET", "FAILED", TRUE), Done("c2", "CAMPAIGN", "PENDING", FALSE)>>},
   alerts : {{}, {[type |-> "CAMPAIGN", entity |-> "c1"], [type |-> "AD_ACCOUNT", entity |-> "a1"]}}]
Seen(type, severity, score) == [type |-> type, severity |-> severity, score |-> score]
Strips ==
  [kind : {"intelligence"},
   insights : {<<>>, <<Seen("TREND_DOWN", "HIGH", 90), Seen("BUDGET", "LOW", 80), Seen("TREND_UP", "INFO", 80), Seen("TREND_UP", "INFO", 20)>>},
   feedback : {q \in FewRuns : q.dry /\ q.settings = [maxChanges |-> 1, maxRatio |-> 30] /\ q.defs[1] = Def("GT")
                               /\ q.replays[1].unknown = 0 /\ q.votes[1].wrong = 6},
   ledger : [rows : {l \in Ledgers : \/ l = {}
                                  \/ /\ Cardinality(l) \in 3..4 /\ \E x \in l : x.run = 2 /\ x.at = 2
                                     /\ \A y \in l : y.run # 2 => y.at = 0}, cooldown : {1}, now : {2}]]
Managed(id, status, phase, mode, deleted) ==
  [id |-> id, status |-> status, phase |-> phase, mode |-> mode, deleted |-> deleted]
FewManaged == {{}} \cup {{Managed("c1", a, p, m, d), Managed("c2", "PAUSED", "STABLE", "SUGGEST_ONLY", FALSE)} :
                        a \in {"ACTIVE", "PAUSED"}, p \in {"LEARNING", "STABLE"}, m \in {"AUTO_APPLY", "OFF"}, d \in BOOLEAN}
FewProviders == {{}} \cup {{[platform |-> "META", configured |-> c, enabled |-> e]} : c, e \in BOOLEAN}
Account(id, platform, status, syncedAt, tracked) ==
  [id |-> id, platform |-> platform, status |-> status, syncedAt |-> syncedAt, tracked |-> tracked]
FewAccounts == {{}} \cup {{Account("a1", "META", s, t, TRUE), Account("a2", "TIKTOK", "ERROR", 3, k)} :
                         s \in {"ACTIVE", "DISCONNECTED"}, t \in {None, 5}, k \in BOOLEAN}
Reports ==
  [kind : {"readiness"}, providers : FewProviders, accounts : FewAccounts, campaigns : FewManaged, now : {8},
   lastIngestion : {None, 7}, ingestion : {None, FALSE, TRUE}, autoTune : {None, FALSE, TRUE}]
Labs ==
  [kind : {"activation"}, providers : FewProviders, accounts : FewAccounts, campaigns : FewManaged, now : {30},
   snapshots : {{}, {5}, {6}}, runs : {<<>>, <<[at |-> 6, failed |-> 1]>>}, rules : {{}, {"disabled"}}]
Ran(created, started, orgs, readable) == [created |-> created, started |-> started, orgs |-> orgs, readable |-> readable]
Ingestions ==
  [kind : {"ingestion"}, org : {None, "o1", "o2"},
   runs : {<<>>} \cup {<<Ran(9, 3, a, r), Ran(6, 5, {"o1"}, TRUE), Ran(2, 1, b, TRUE)>> :
                       a, b \in {{"o1"}, {"o2"}, {"o1", "o2"}}, r \in BOOLEAN},
   accounts : {<<[id |-> "a2", org |-> "o2"], [id |-> "a1", org |-> "o1"]>>},
   campaigns : SUBSET {[id |-> "c1", account |-> "a1"], [id |-> "c2", account |-> "a1"], [id |-> "c3", account |-> "a2"]},
   snapshots : SUBSET {[entity |-> "c1", created |-> 3], [entity |-> "c1", created |-> 8],
                       [entity |-> "c2", created |-> 5], [entity |-> "c3", created |-> 6]}]
FewTables == Summaries \cup Strips \cup Reports \cup Labs \cup Ingestions

-----------------------------------------------------------------------------
(* ActionLog *)
OneOfEachType ==
  {[type |-> "BUDGET", current |-> 100, proposed |-> 120, target |-> None],
   [type |-> "STRATEGY", current |-> None, proposed |-> None, target |-> "TARGET_CPA"],
   [type |-> "CEILING", current |-> None, proposed |-> None, target |-> None]}

-----------------------------------------------------------------------------
\* A part that rests is in its initial state, or has no input.
EvidenceInit ==
  /\ part \in {"tuner", "insights", "outcomes", "score", "metrics", "rules", "overview", "log"}
  /\ Init /\ ActionLogInit
  /\ IF part = "insights" THEN InsightInit
     ELSE world = None /\ listed = [user |-> None, insights |-> <<>>] /\ interactions = {}
  /\ IF part = "outcomes" THEN OutcomesInit ELSE history = None /\ outcomes = {} /\ rows = {}
  /\ IF part = "score" THEN ScoreInit
     ELSE draft = None /\ learned = None /\ flag = None /\ org_feature = NoFeatures /\ adjusted = None
  /\ IF part = "metrics" THEN MetricsInit ELSE adWorld = None /\ adReports = None
  /\ IF part = "rules" THEN PerformanceInit ELSE question = None /\ answer = None
  /\ IF part = "overview" THEN OverviewInit ELSE tables = None /\ shown = None

Rest(p, v) == IF part = p THEN TRUE ELSE UNCHANGED v
EvidenceNext ==
  /\ UNCHANGED part
  /\ Rest("tuner", vars) /\ Rest("insights", insightVars)
  /\ Rest("outcomes", outcomeVars) /\ Rest("score", scoreVars) /\ Rest("metrics", metricsVars)
  /\ Rest("rules", performanceVars) /\ Rest("overview", overviewVars) /\ Rest("log", actionLogVars)
  /\ \/ part = "tuner" /\ Next
     \/ part = "insights" /\ InsightNext
     \/ part = "outcomes" /\ OutcomesNext
     \/ part = "score" /\ ScoreNext
     \/ part = "metrics" /\ MetricsNext
     \/ part = "rules" /\ PerformanceNext
     \/ part = "overview" /\ OverviewNext
     \/ part = "log" /\ ActionLogNext
EvidenceSpec == EvidenceInit /\ [][EvidenceNext]_evidenceVars

=============================================================================
