------------------------------ MODULE Outcomes ------------------------------
(***************************************************************************)
(* What historical learning makes of finished campaigns: the snapshots of  *)
(* a campaign are cleaned, totalled and classified into an outcome, and    *)
(* the outcomes of an organization are bucketed and aggregated into        *)
(* feature rows, one per feature, window and bucket                        *)
(* (historical-learning/features, registry, dimensions).                   *)
(*                                                                         *)
(* Amounts are integers; a ratio is a pair of a numerator and a positive   *)
(* denominator, NoRatio where the code has null.                           *)
(***************************************************************************)
EXTENDS Naturals, Sequences, FiniteSets, Functions

CONSTANTS
  PlanShapes,   \* what a plan says: platform, goal, tags, format, languages, countries, vertical
  DaySpends,    \* what one day of the first campaign may have spent
  MaxSnapshots, \* days it ran at most
  OtherTotals   \* what the second campaign adds up to

Metrics == {"spend", "impressions", "clicks", "conversions", "revenue"}
\* Snapshots count, and money is not negative.
ASSUME OutcomesAssumption == DaySpends \subseteq Nat /\ MaxSnapshots \in Nat /\ OtherTotals \subseteq [Metrics -> Nat]

VARIABLES history,  \* two finished campaigns: their plans, the days of the first, the totals of the second
          outcomes, \* campaign_outcomes
          rows      \* org_features

outcomeVars == <<history, outcomes, rows>>

NoRatio == <<0, 0>>
OUTLIER_SPEND_FACTOR == 25
TotalOf(days, m) == SumFunction([i \in DOMAIN days |-> days[i][m]])

-----------------------------------------------------------------------------
(* One campaign: outcome.service.ts.                                       *)

\* What stands in the middle when the days are sorted by spend.
MedianSpend(days) ==
  CHOOSE m \in {days[i].spend : i \in DOMAIN days} :
    /\ Cardinality({i \in DOMAIN days : days[i].spend < m}) <= Len(days) \div 2
    /\ Cardinality({i \in DOMAIN days : days[i].spend <= m}) > Len(days) \div 2

KeepAll(days) == days  \* mutant: no day is an outlier

FilterOutliers(days) ==
  IF Len(days) < 4 \/ MedianSpend(days) = 0 THEN days
  ELSE Restrict(days, {i \in DOMAIN days : days[i].spend <= MedianSpend(days) * OUTLIER_SPEND_FACTOR})

TotalsOf(days) == [m \in Metrics |-> TotalOf(days, m)]

ClassifyAudience(plan) ==
  CASE plan.tags = "no hints" -> "UNKNOWN" [] plan.tags = "none" -> "COLD_BROAD"
    [] OTHER -> "COLD_INTEREST"

\* The first format, by the first test that takes it.
ClassifyCreative(plan) ==
  CASE plan.format \in {"vertical_video", "reel", "tiktok_video"} -> "VERTICAL_VIDEO"
    [] plan.format = "square_video" -> "SQUARE_VIDEO"
    [] plan.format \in {"horizontal_video", "youtube_video"} -> "HORIZONTAL_VIDEO"
    [] plan.format \in {"static", "image"} -> "STATIC_IMAGE"
    [] plan.format = "carousel" -> "CAROUSEL" [] plan.format = "collection" -> "COLLECTION"
    [] plan.format = "dpa" -> "DPA" [] plan.format \in {"ar_lens", "lens"} -> "AR_LENS"
    [] plan.format = "story" -> "STORY" [] OTHER -> "UNKNOWN"

ClassifyLanguage(plan) ==
  CASE {"ar", "en"} \subseteq plan.languages -> "AR_EN_MIXED" [] "ar" \in plan.languages -> "AR"
    [] "en" \in plan.languages -> "EN" [] OTHER -> "UNKNOWN"

ClassifyFunnel(goal) ==
  CASE goal \in {"AWARENESS", "TRAFFIC"} -> "TOF"
    [] goal \in {"ENGAGEMENT", "LEADS", "APP_INSTALLS"} -> "MOF" [] goal = "SALES" -> "BOF"

ReadGeoCountry(plan) ==
  IF Cardinality(plan.countries) = 1 THEN CHOOSE c \in plan.countries : TRUE ELSE "_"

ClassifyOutcome(plan) ==
  [platform |-> plan.platform, goal |-> plan.goal, funnel_stage |-> ClassifyFunnel(plan.goal),
   audience_type |-> ClassifyAudience(plan), creative_type |-> ClassifyCreative(plan),
   language |-> ClassifyLanguage(plan), vertical |-> plan.vertical, geo_country |-> ReadGeoCountry(plan)]

\* No snapshot, or nothing shown and nothing spent: no outcome.
SealedOutcome(c, plan, totals, quality) ==
  IF totals.impressions = 0 /\ totals.spend = 0 THEN {}
  ELSE {[campaign |-> c, dims |-> ClassifyOutcome(plan), totals |-> totals, dataQuality |-> quality]}

-----------------------------------------------------------------------------
(* All of them: feature-compute.service.ts over the registry.              *)

Feature(dims, windows, max) == [dimensions |-> dims, windowDays |-> windows, max |-> max]
HLL_FEATURE_REGISTRY ==
  [platform_roas            |-> Feature({"platform", "goal", "funnel_stage"}, {30, 90}, 50),
   platform_cpa             |-> Feature({"platform", "goal", "funnel_stage"}, {30, 90}, 100000),
   platform_ctr             |-> Feature({"platform", "goal"}, {30, 90}, 1),
   platform_cpm             |-> Feature({"platform", "goal"}, {30, 90}, 1000),
   platform_conversion_rate |-> Feature({"platform", "goal", "funnel_stage"}, {30, 90}, 1),
   audience_type_roas       |-> Feature({"platform", "goal", "audience_type"}, {30, 90}, 50),
   creative_type_ctr        |-> Feature({"platform", "creative_type"}, {30, 90}, 1),
   language_engagement      |-> Feature({"platform", "language"}, {30, 90}, 1),
   vertical_platform_fit    |-> Feature({"vertical", "platform"}, {90}, 50),
   geo_efficiency           |-> Feature({"geo_country", "platform"}, {90}, 100000)]
FeatureNames == DOMAIN HLL_FEATURE_REGISTRY

\* The canonical key: the feature's own dimensions, an absent one as "_".
CanonicalizeDimensions(dims, spec) == [k \in spec.dimensions |-> dims[k]]

\* What a feature is the ratio of.
NumeratorOf(f) ==
  CASE f \in {"platform_roas", "audience_type_roas", "vertical_platform_fit"} -> "revenue"
    [] f \in {"platform_cpa", "geo_efficiency", "platform_cpm"} -> "spend"
    [] f \in {"platform_ctr", "creative_type_ctr", "language_engagement"} -> "clicks"
    [] f = "platform_conversion_rate" -> "conversions"
DenominatorOf(f) ==
  CASE f \in {"platform_roas", "audience_type_roas", "vertical_platform_fit"} -> "spend"
    [] f \in {"platform_cpa", "geo_efficiency"} -> "conversions"
    [] f \in {"platform_ctr", "creative_type_ctr", "language_engagement", "platform_cpm"} -> "impressions"
    [] f = "platform_conversion_rate" -> "clicks"

SumOver(bucket, m) == SumFunction([o \in bucket |-> o.totals[m]])
ComputeAggregate(f, bucket) ==
  IF SumOver(bucket, DenominatorOf(f)) = 0 THEN NoRatio
  ELSE <<(IF f = "platform_cpm" THEN 1000 ELSE 1) * SumOver(bucket, NumeratorOf(f)), SumOver(bucket, DenominatorOf(f))>>

InRange(f, r) == r # NoRatio /\ r[1] <= HLL_FEATURE_REGISTRY[f].max * r[2]

\* One row per bucket whose value exists and is sane; both windows see these outcomes.
KeyOf(f, o) == CanonicalizeDimensions(o.dims, HLL_FEATURE_REGISTRY[f])
BucketOf(f, all, key) == {o \in all : KeyOf(f, o) = key}
ComputeFeature(f, window, all) ==
  {[feature |-> f, windowDays |-> window, dimensionsKey |-> key,
    value |-> ComputeAggregate(f, BucketOf(f, all, key)), sampleSize |-> Cardinality(BucketOf(f, all, key))]
     : key \in {k \in {KeyOf(f, o) : o \in all} : InRange(f, ComputeAggregate(f, BucketOf(f, all, k)))}}

-----------------------------------------------------------------------------
DayOf(spend) == [spend |-> spend, impressions |-> 10 * spend, clicks |-> spend, conversions |-> 1, revenue |-> 3]
Runs == UNION {[1..n -> {DayOf(s) : s \in DaySpends}] : n \in 0..MaxSnapshots}

OutcomesInit ==
  /\ history \in [plan : PlanShapes, days : Runs, otherPlan : PlanShapes, other : OtherTotals]
  /\ outcomes = {} /\ rows = {}

SealedFrom(h) ==
  LET clean == FilterOutliers(h.days) IN
  SealedOutcome(1, h.plan, TotalsOf(clean), IF DOMAIN clean # DOMAIN h.days THEN "OUTLIER_FILTERED" ELSE "CLEAN")
  \cup SealedOutcome(2, h.otherPlan, h.other, "CLEAN")
SealCampaigns ==
  /\ outcomes = {} /\ rows = {}
  /\ outcomes' = SealedFrom(history)
  /\ UNCHANGED <<history, rows>>

RowsFrom(all) ==
  UNION {UNION {ComputeFeature(f, w, all) : w \in HLL_FEATURE_REGISTRY[f].windowDays} : f \in FeatureNames}
ComputeFeatures ==
  /\ outcomes # {} /\ rows = {}
  /\ rows' = RowsFrom(outcomes)
  /\ UNCHANGED <<history, outcomes>>

OutcomesNext == SealCampaigns \/ ComputeFeatures
OutcomesSpec == OutcomesInit /\ [][OutcomesNext]_outcomeVars

-----------------------------------------------------------------------------
(* Properties.                                                             *)

AtMost(r, s) == r[1] * s[2] <= s[1] * r[2]

\* A wild day does not make the campaign: from four days on, what an outcome spent is at
\* most 25 times its median day for each day, and half of the days or more are in it.
OutcomeIsTypical ==
  \A o \in outcomes : o.campaign = 1 /\ Len(history.days) >= 4 /\ MedianSpend(history.days) > 0 =>
    /\ o.totals.spend <= OUTLIER_SPEND_FACTOR * MedianSpend(history.days) * Len(history.days)
    /\ 2 * o.totals.conversions >= Len(history.days)

\* A row is about the outcomes that agree with its key and no others, counts each of
\* them once, and its value lies between the values they have one by one.
RowIsBetween(r) ==
  LET mine  == {o \in outcomes : \A k \in DOMAIN r.dimensionsKey : o.dims[k] = r.dimensionsKey[k]}
      alone == {ComputeAggregate(r.feature, {o}) : o \in mine}
  IN /\ r.sampleSize = Cardinality(mine)
     /\ NoRatio \notin alone => /\ \E a \in alone : AtMost(a, r.value)
                                /\ \E a \in alone : AtMost(r.value, a)

\* No bucket has two rows: the multiplier would count its campaigns twice.
OneRowPerBucket ==
  \A r, s \in rows : r.feature = s.feature /\ r.windowDays = s.windowDays
                     /\ r.dimensionsKey = s.dimensionsKey => r = s

\* What is learned from campaigns is what they did (outcome.service.ts 80-183,
\* feature-compute.service.ts 127-205, 291-335).
LearnedFromCampaigns == OutcomeIsTypical /\ OneRowPerBucket /\ \A r \in rows : RowIsBetween(r)
=============================================================================
