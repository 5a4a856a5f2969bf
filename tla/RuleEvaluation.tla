--------------------------- MODULE RuleEvaluation ---------------------------
(***************************************************************************)
(* What the optimizer's rules say of one campaign or ad set: the metrics   *)
(* of today's three windows, weighted by recency, the rules that apply,    *)
(* and for each of them a proposal or the reason why there is none         *)
(* (optimizer/evaluator.service.ts, optimizer/rules, recency-weight.util). *)
(*                                                                         *)
(* Values of a KPI are integers; a weighted value is a fraction [n, d].    *)
(***************************************************************************)
EXTENDS Integers, Sequences, FiniteSets, Arranging, Absent

Hours == {24, 48, 72}  \* windowHours; the snapshot of a window may be missing
BudgetActions == {"INCREASE_BUDGET", "DECREASE_BUDGET"}

KeepWeights(w24, w48, w72) ==  \* mutant: the weights of missing windows are lost
  [n |-> 6 * w24 + (IF w48 = None THEN 0 ELSE 3 * w48) + (IF w72 = None THEN 0 ELSE w72), d |-> 10]

\* Weights 0.6, 0.3 and 0.1.  Those of 72h and of both older windows are redistributed
\* when these are missing; that of 48h alone is not: null * 0.3 is 0.
ApplyRecencyWeight(w24, w48, w72) ==
  CASE w48 = None /\ w72 = None -> [n |-> w24, d |-> 1]
    [] w48 # None /\ w72 = None -> [n |-> 6 * w24 + 3 * w48, d |-> 9]
    [] w48 = None /\ w72 # None -> [n |-> 6 * w24 + w72, d |-> 10]
    [] OTHER                    -> [n |-> 6 * w24 + 3 * w48 + w72, d |-> 10]

\* One KPI in one window's snapshot, None where there is no snapshot.
InWindow(snaps, hours, kpi) == IF snaps[hours] = None THEN None ELSE snaps[hours].kpi[kpi]

\* The value a rule looks at; None for a KPI that the weighted metrics do not have.
LoadWeightedMetric(snaps, kpi) ==
  IF kpi \notin DOMAIN snaps[24].kpi THEN None
  ELSE ApplyRecencyWeight(InWindow(snaps, 24, kpi), InWindow(snaps, 48, kpi), InWindow(snaps, 72, kpi))

Compare(value, comparator, threshold) ==
  LET bar == threshold * value.d IN
  CASE comparator = "GT"  -> value.n > bar
    [] comparator = "LT"  -> value.n < bar
    [] comparator = "GTE" -> value.n >= bar
    [] comparator = "LTE" -> value.n <= bar
    [] comparator = "EQ"  -> value.n = bar

-----------------------------------------------------------------------------
\* A rule that is applied to an entity ends as one of these.
Skip(rule, code) == [kind |-> "skipped", rule |-> rule, code |-> code]
Propose(rule, current, proposed) ==
  [kind |-> "proposed", rule |-> rule, current |-> current, value |-> proposed]

\* applyDelta: whole units stand for the currency's smallest one.
WithDelta(base, pct) == (base * (100 + pct) + 50) \div 100

\* The three handlers: budgets need a delta and a baseline, the others neither.
ApplyTriggered(rule, baseline) ==
  IF rule.action \notin BudgetActions THEN Propose(rule, None, None)
  ELSE IF rule.delta = None \/ baseline = None THEN Skip(rule, "MISSING_BASELINE")
  ELSE Propose(rule, baseline, WithDelta(baseline, rule.delta))

\* BaseRuleHandler.evaluate: the checks every handler runs first, in their order.
EvaluateRule(rule, snaps, baseline) ==
  LET value == LoadWeightedMetric(snaps, rule.kpi) IN
  IF value = None THEN Skip(rule, "KPI_MISSING")
  ELSE IF snaps[24].impressions < rule.minSample THEN Skip(rule, "INSUFFICIENT_SAMPLE")
  ELSE IF ~Compare(value, rule.comparator, rule.threshold) THEN Skip(rule, "THRESHOLD_NOT_MET")
  ELSE ApplyTriggered(rule, baseline)

InScope(rule, campaign) ==
  rule.platform \in {"ALL", campaign.platform} /\ rule.phase \in {"ALL", campaign.phase}

\* dispatch: the proposals by the priority of their rules, and what was skipped.
PlacesOf(results, kind) == {i \in DOMAIN results : results[i].kind = kind}
Dispatch(rules, snaps, baseline) ==
  LET results == [i \in DOMAIN rules |-> EvaluateRule(rules[i], snaps, baseline)] IN
  [proposed |-> Arranged(results, PlacesOf(results, "proposed"), [i \in DOMAIN rules |-> rules[i].priority]),
   skipped  |-> Kept(results, PlacesOf(results, "skipped"))]
EMPTY == [proposed |-> <<>>, skipped |-> <<>>]

EvaluateCampaign(campaign, rules, snaps) ==
  IF campaign.phase = "LEARNING" \/ snaps[24] = None THEN EMPTY
  ELSE Dispatch(Kept(rules, {i \in DOMAIN rules : InScope(rules[i], campaign)}), snaps, campaign.budget)

\* Of an ad set the budget is not loaded; under CBO its budget rules do not apply.
EvaluateAdSet(campaign, rules, snaps) ==
  IF campaign.phase = "LEARNING" \/ snaps[24] = None THEN EMPTY
  ELSE Dispatch(Kept(rules, {i \in DOMAIN rules : /\ InScope(rules[i], campaign)
                                                  /\ ~(rules[i].action \in BudgetActions /\ campaign.isCbo)}),
                snaps, None)

-----------------------------------------------------------------------------
\* The hole in the weights: only the middle window is missing.
LostWindow(snaps) == snaps[48] = None /\ snaps[72] # None

\* Of the proposals of an entity: each rule's condition is met by some window alone.
MetAlone(r, snaps) ==
  \E h \in Hours : snaps[h] # None /\ Compare([n |-> snaps[h].kpi[r.kpi], d |-> 1], r.comparator, r.threshold)
FiresWithAWitness(result, snaps) ==
  \A i \in DOMAIN result.proposed :
    result.proposed[i].rule.comparator # "EQ" /\ ~LostWindow(snaps) => MetAlone(result.proposed[i].rule, snaps)
=============================================================================
