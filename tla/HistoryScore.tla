---------------------------- MODULE HistoryScore ----------------------------
(***************************************************************************)
(* From feature rows to a plan's budgets: the nightly computation of a row *)
(* with its band, confidence and blend with the global prior, the ageing   *)
(* of rows, the multiplier of a platform with its safety checks, the flag  *)
(* with its canary, and the adjuster that re-weights the daily budgets of  *)
(* a draft (historical-learning/scoring, feature-flag.service.ts).         *)
(*                                                                         *)
(* Values and multipliers are counted in Unit-ths of one, budgets in cents.*)
(***************************************************************************)
EXTENDS Integers, FiniteSets, Functions, Absent

CONSTANTS
  Unit,         \* grains of one: round4 works with 10000
  Histories,    \* per platform and feature, a bucket: the value and the number of the outcomes
                \* (0 for none), and the global prior (or None)
  Releases,     \* features whose version is bumped between the computation and the plan
  Budgets,      \* daily budgets of the draft's items
  Goals,        \* goals of the draft
  Ages          \* days that may pass between the computation and the plan

Platforms == {"META", "GOOGLE_ADS"}
SCORING_FEATURES == {"platform_roas", "platform_cpa", "platform_ctr", "platform_conversion_rate"}

\* Outcomes have a value and a number of campaigns, and money is not negative.
ASSUME HistoryScoreAssumption ==
  /\ Unit \in Nat \ {0}
  /\ Histories \subseteq [Platforms -> [SCORING_FEATURES -> [value : Nat, size : Nat, prior : Nat \cup {None}]]]
  /\ Budgets \subseteq Nat /\ Ages \subseteq Nat

VARIABLES draft,    \* goal and the budget of each platform's item
          learned,  \* per platform and feature: the organization's outcomes, the prior
          flag,     \* the global switch and the canary percentage
          org_feature, \* the rows, each a set of at most one
          adjusted  \* the budgets and multipliers of the adjusted draft

scoreVars == <<draft, learned, flag, org_feature, adjusted>>

RoundDiv(num, den) == (2 * num + den) \div (2 * den)
Clip(n, lo, hi) == IF n < lo THEN lo ELSE IF n > hi THEN hi ELSE n

-----------------------------------------------------------------------------
(* Rows: feature-compute.service.ts, types.ts.                             *)

WARM_START_CEIL == 10
BandForSampleSize(n) ==
  IF n >= 30 THEN "HIGH" ELSE IF n >= 10 THEN "MEDIUM" ELSE IF n >= 3 THEN "LOW" ELSE "INSUFFICIENT"
ConfidenceForBand(band, isWarmStart) == IF isWarmStart THEN "WARM_START" ELSE band

\* Linear shrinkage towards the prior; without one the value stands, marked as warm start.
BlendWithGlobalPrior(value, size, prior) ==
  IF size >= WARM_START_CEIL \/ prior = None THEN value
  ELSE RoundDiv(size * value + (WARM_START_CEIL - size) * prior, WARM_START_CEIL)

FeatureRow(bucket) ==
  LET warm == bucket.size < WARM_START_CEIL IN
  [value      |-> BlendWithGlobalPrior(bucket.value, bucket.size, bucket.prior),
   sampleSize |-> bucket.size, isWarmStart |-> warm, isStale |-> FALSE, age |-> 0, isCurrent |-> TRUE,
   confidence |-> ConfidenceForBand(BandForSampleSize(bucket.size), warm)]

-----------------------------------------------------------------------------
(* One platform: multiplier.service.ts.                                    *)

MinSampleForLow == 3
Freshness == 30  \* FRESHNESS_THRESHOLD_HOURS, in days
StaleAfterDays == 35
MaxValue(f) ==
  Unit * (CASE f = "platform_roas" -> 50 [] f = "platform_cpa" -> 100000
            [] f \in {"platform_ctr", "platform_conversion_rate"} -> 1)

CONFIDENCE_WEIGHTS(confidence) ==  \* in tenths
  CASE confidence = "HIGH" -> 10 [] confidence = "MEDIUM" -> 5 [] confidence = "LOW" -> 2
    [] confidence = "WARM_START" -> 1 [] confidence = "INSUFFICIENT" -> 0

\* isCurrent: the version of the row is the registry's.
CheckRowSafety(f, row) ==
  /\ row.isCurrent
  /\ row.value <= MaxValue(f)
  /\ ~row.isStale /\ row.age <= Freshness
  /\ row.sampleSize >= MinSampleForLow \/ row.isWarmStart
  /\ row.confidence # "INSUFFICIENT"

\* Fitness: the value over 2.0 for roas, 0.01 for ctr and 0.02 for the conversion rate,
\* and 50 over the value for cpa, within [0.5, 2].
Fitness(f, value) ==
  CASE f = "platform_roas" -> RoundDiv(value, 2)
    [] f = "platform_cpa" -> RoundDiv(50 * Unit * Unit, value)
    [] f = "platform_ctr" -> 100 * value
    [] f = "platform_conversion_rate" -> 50 * value
NormalizeFeatureValue(f, value) == IF value = 0 THEN Unit ELSE Clip(Fitness(f, value), Unit \div 2, 2 * Unit)

\* All rows but those of ctr are kept by goal and by the goal's funnel stage, and looked up
\* by goal and the platform's stage: only where the two agree is there a row.
PLATFORM_FUNNEL(p) == IF p = "GOOGLE_ADS" THEN "BOF" ELSE "TOF"
OutcomeFunnel(goal) == IF goal = "SALES" THEN "BOF" ELSE IF goal = "AWARENESS" THEN "TOF" ELSE "MOF"
LoadFeatureRows(p, goal) ==
  {f \in SCORING_FEATURES : /\ org_feature[p][f] # {}
                            /\ f # "platform_ctr" => PLATFORM_FUNNEL(p) = OutcomeFunnel(goal)}

RowOfFeature(p, f) == CHOOSE row \in org_feature[p][f] : TRUE
UsableRows(p, goal) == {f \in LoadFeatureRows(p, goal) : CheckRowSafety(f, RowOfFeature(p, f))}

\* The weighted mean of the safe rows, clamped and rounded; None if there is none.
WeightOf(row) == CONFIDENCE_WEIGHTS(row.confidence)
WeightedMean(p, safe) ==
  RoundDiv(SumFunction([f \in safe |-> LET row == RowOfFeature(p, f)
                                       IN WeightOf(row) * NormalizeFeatureValue(f, row.value)]),
           SumFunction([f \in safe |-> WeightOf(RowOfFeature(p, f))]))
ComputeMultiplier(p, goal) ==
  LET safe == UsableRows(p, goal)
  IN IF safe = {} THEN None ELSE Clip(WeightedMean(p, safe), Unit \div 2, 2 * Unit)

-----------------------------------------------------------------------------
(* The draft: scoring.service.ts, plan-adjuster.service.ts.                *)

\* bucket is the organization's hash modulo 100, here any number that tells the cases apart.
InCanary == flag.enabled /\ (flag.pct >= 100 \/ (flag.pct > 0 /\ flag.bucket < flag.pct))

ScorePlatform(p, goal) ==
  IF InCanary /\ ComputeMultiplier(p, goal) # None THEN ComputeMultiplier(p, goal) ELSE Unit

NotRenormalized(budget, m) ==  \* mutant: the weighted budgets are kept as they are
  [p \in Platforms |-> RoundDiv(budget[p] * m[p], Unit)]

\* Each item's budget times its multiplier, scaled so that the sum is the old one.
Renormalize(budget, m) ==
  LET total    == SumFunction(budget)
      weighted == SumFunction([p \in Platforms |-> budget[p] * m[p]])
  IN IF weighted = 0 THEN budget
     ELSE [p \in Platforms |-> RoundDiv(budget[p] * m[p] * total, weighted)]

-----------------------------------------------------------------------------
NoFeatures == [p \in Platforms |-> [f \in SCORING_FEATURES |-> {}]]

ScoreInit ==
  /\ draft \in [goal : Goals, budget : [Platforms -> Budgets]]
  /\ learned \in Histories
  /\ flag \in {[enabled |-> TRUE, pct |-> 10, bucket |-> b] : b \in {9, 10}}
              \cup {[enabled |-> e, pct |-> 100, bucket |-> 10] : e \in BOOLEAN}
  /\ org_feature = NoFeatures
  /\ adjusted = None

\* The nightly computation writes the rows that outcomes make up; then days go by, a release
\* may bump versions, and the sweep for stale rows comes or does not.
RowsAfter(days, swept, bumped) ==
  [p \in Platforms |-> [f \in SCORING_FEATURES |->
     IF learned[p][f].size = 0 \/ learned[p][f].value > MaxValue(f) THEN {}
     ELSE {[FeatureRow(learned[p][f]) EXCEPT !.age = days, !.isStale = swept /\ days > StaleAfterDays,
                                             !.isCurrent = f \notin bumped]}]]
Rollup ==
  /\ org_feature = NoFeatures /\ adjusted = None
  /\ \E days \in Ages, swept \in BOOLEAN, bumped \in Releases : org_feature' = RowsAfter(days, swept, bumped)
  /\ UNCHANGED <<draft, learned, flag, adjusted>>

\* A platform whose rows cannot be read keeps the base fitness.
MultipliersBut(threw) == [p \in Platforms |-> IF p \in threw THEN Unit ELSE ScorePlatform(p, draft.goal)]
Adjust ==
  /\ adjusted = None
  /\ \E threw \in SUBSET Platforms :
       LET m == MultipliersBut(threw) IN adjusted' = [budget |-> Renormalize(draft.budget, m), multiplier |-> m]
  /\ UNCHANGED <<draft, learned, flag, org_feature>>

ScoreNext == Rollup \/ Adjust
ScoreSpec == ScoreInit /\ [][ScoreNext]_scoreVars

-----------------------------------------------------------------------------
(* Properties.                                                             *)

TotalBudget(b) == SumFunction(b)

\* History moves budget between platforms and neither makes nor loses any (but for the
\* rounding to cents), and moves it towards the better platform: with equal budgets, the
\* one that the rows favour never gets less than the other.
BudgetIsShifted ==
  /\ TotalBudget(adjusted.budget) - TotalBudget(draft.budget) \in -1..1
  /\ \A p, q \in Platforms : draft.budget[p] = draft.budget[q]
        /\ adjusted.multiplier[p] > adjusted.multiplier[q] => adjusted.budget[p] >= adjusted.budget[q]

\* Without the flag, outside of the canary, or with nothing but rows that are old or of
\* another version of their feature, the draft is what it was.
IsOutdated(row) == row.age > Freshness \/ ~row.isCurrent
NoHistoryNoChange ==
  ~InCanary \/ (\A p \in Platforms, f \in SCORING_FEATURES : \A r \in org_feature[p][f] : IsOutdated(r))
    => adjusted.budget = draft.budget

\* A handful of campaigns weighs less than the prior of everybody: as long as a row has
\* fewer than 10, its value is between the organization's and the prior's.
BlendIsBetween ==
  \A p \in Platforms, f \in SCORING_FEATURES : \A r \in org_feature[p][f] :
    LET mine == learned[p][f].value
        base == IF learned[p][f].prior = None THEN mine ELSE learned[p][f].prior
    IN r.value >= (IF mine < base THEN mine ELSE base) /\ r.value <= (IF mine < base THEN base ELSE mine)

\* The adjuster keeps the promises of its comments (plan-adjuster.service.ts 26-29,
\* multiplier.service.ts 65-68, feature-compute.service.ts 232-234).
HistoryIsModest == BlendIsBetween /\ (adjusted # None => BudgetIsShifted /\ NoHistoryNoChange)
=============================================================================
