--------------------------- MODULE Evidence_proofs ---------------------------
(***************************************************************************)
(* What the system makes of its evidence, for every input: budgets from    *)
(* the rows of history (HistoryScore), a draft with its findings, score    *)
(* and hand-over (PlanDraft), what the adapters read (ProviderMetrics) and *)
(* the sweeps store (MetricsSchedule), outcomes and features (Outcomes),   *)
(* rules and insights (Insights), and the optimizer page (ActionLog).      *)
(* Rounding is reasoned about without division, totals by the facts of     *)
(* CollectionTheorems.                                                     *)
(***************************************************************************)
EXTENDS MetricsSchedule, Outcomes, HistoryScore, PlanDraft, ProviderMetrics, Insights, ActionLog,
        CollectionTheorems

\* What rounding up to a multiple means, without the division.
LEMMA Divided ==
  ASSUME NEW a \in Nat, NEW b \in Nat, b > 0
  PROVE  /\ a \div b \in Nat
         /\ b * (a \div b) <= a
         /\ a < b * (a \div b) + b
  OBVIOUS

LEMMA Rounded ==
  ASSUME NEW num \in Nat, NEW den \in Nat, den > 0
  PROVE  /\ RoundDiv(num, den) \in Nat
         /\ 2 * (den * RoundDiv(num, den)) <= 2 * num + den
         /\ 2 * num + den < 2 * (den * RoundDiv(num, den)) + 2 * den
<1>1. PICK a \in Nat, b \in Nat : a = 2 * num + den /\ b = 2 * den
  OBVIOUS
<1>2. b > 0
  BY <1>1
<1>3. PICK x : x = a \div b
  OBVIOUS
<1>4. x \in Nat /\ b * x <= a /\ a < b * x + b
  BY <1>2, <1>3, Divided
<1>5. RoundDiv(num, den) = x
  BY <1>1, <1>3 DEF RoundDiv
<1>6. b * x = 2 * (den * x)
  BY <1>1, <1>4
<1> QED
  BY <1>1, <1>4, <1>5, <1>6
-----------------------------------------------------------------------------
(* HistoryScore                                                            *)

BucketTypes == [value : Nat, size : Nat, prior : Nat \cup {None}]
LearnedOk == learned \in [Platforms -> [SCORING_FEATURES -> BucketTypes]]
DraftTyped == draft.budget \in [Platforms -> Nat]

\* The rows are those of one nightly computation, days ago, or none yet.
RowsOk == \/ org_feature = NoFeatures
          \/ \E days \in Ages, swept \in BOOLEAN, bumped \in Releases : org_feature = RowsAfter(days, swept, bumped)

AdjustedOk == adjusted # None =>
                \E threw \in SUBSET Platforms :
                  /\ adjusted.multiplier = MultipliersBut(threw)
                  /\ adjusted.budget = Renormalize(draft.budget, MultipliersBut(threw))

ScoreInv == LearnedOk /\ DraftTyped /\ RowsOk /\ AdjustedOk

LEMMA ScoreInvInit == ScoreInit => ScoreInv
<1> SUFFICES ASSUME ScoreInit PROVE ScoreInv
  OBVIOUS
<1>1. LearnedOk
  BY HistoryScoreAssumption DEF ScoreInit, LearnedOk, BucketTypes
<1>2. DraftTyped
  BY HistoryScoreAssumption DEF ScoreInit, DraftTyped
<1>3. RowsOk
  BY DEF ScoreInit, RowsOk
<1>4. AdjustedOk
  BY DEF ScoreInit, AdjustedOk
<1> QED
  BY <1>1, <1>2, <1>3, <1>4 DEF ScoreInv

\* The multipliers change with the draft, the flag or the rows only.
LEMMA MultipliersRest ==
  ASSUME UNCHANGED <<draft, flag, org_feature>>, NEW threw
  PROVE  MultipliersBut(threw)' = MultipliersBut(threw)
<1>1. \A p, f : RowOfFeature(p, f)' = RowOfFeature(p, f)
  BY DEF RowOfFeature
<1>2. \A p, g : UsableRows(p, g)' = UsableRows(p, g)
  BY <1>1 DEF UsableRows, LoadFeatureRows
<1>3. \A p, safe : WeightedMean(p, safe)' = WeightedMean(p, safe)
  BY <1>1 DEF WeightedMean
<1>4. \A p, g : ComputeMultiplier(p, g)' = ComputeMultiplier(p, g)
  BY <1>2, <1>3 DEF ComputeMultiplier
<1>5. \A p, g : ScorePlatform(p, g)' = ScorePlatform(p, g)
  BY <1>4 DEF ScorePlatform, InCanary
<1> QED
  BY <1>5 DEF MultipliersBut

\* The rows stay those of their computation.
LEMMA RowsRest == RowsOk /\ UNCHANGED <<learned, org_feature>> => RowsOk'
<1> SUFFICES ASSUME RowsOk, UNCHANGED <<learned, org_feature>> PROVE RowsOk'
  OBVIOUS
<1>1. \A d, s, b : RowsAfter(d, s, b)' = RowsAfter(d, s, b)
  BY DEF RowsAfter
<1>2. CASE org_feature = NoFeatures
  BY <1>2 DEF RowsOk, NoFeatures
<1>3. ASSUME NEW days \in Ages, NEW swept \in BOOLEAN, NEW bumped \in Releases,
             org_feature = RowsAfter(days, swept, bumped)
      PROVE  RowsOk'
  <2>1. org_feature' = RowsAfter(days, swept, bumped)'
    BY <1>1, <1>3
  <2> QED
    BY <2>1 DEF RowsOk
<1> QED
  BY <1>2, <1>3 DEF RowsOk

LEMMA ScoreInvStep == ScoreInv /\ [ScoreNext]_scoreVars => ScoreInv'
<1> SUFFICES ASSUME ScoreInv, [ScoreNext]_scoreVars PROVE ScoreInv'
  OBVIOUS
<1>1. CASE Rollup
  <2>1. LearnedOk' /\ DraftTyped'
    BY <1>1 DEF Rollup, ScoreInv, LearnedOk, DraftTyped
  <2>2. PICK days \in Ages, swept \in BOOLEAN, bumped \in Releases : org_feature' = RowsAfter(days, swept, bumped)
    BY <1>1 DEF Rollup
  <2>3. RowsAfter(days, swept, bumped)' = RowsAfter(days, swept, bumped)
    BY <1>1 DEF Rollup, RowsAfter
  <2>4. RowsOk'
    BY <2>2, <2>3 DEF RowsOk
  <2>5. AdjustedOk'
    BY <1>1 DEF Rollup, AdjustedOk
  <2> QED
    BY <2>1, <2>4, <2>5 DEF ScoreInv
<1>2. CASE Adjust
  <2>1. LearnedOk' /\ DraftTyped'
    BY <1>2 DEF Adjust, ScoreInv, LearnedOk, DraftTyped
  <2>2. RowsOk'
    BY <1>2, RowsRest DEF Adjust, ScoreInv
  <2>3. \A threw : MultipliersBut(threw)' = MultipliersBut(threw)
    BY <1>2, MultipliersRest DEF Adjust
  <2>4. PICK threw \in SUBSET Platforms :
          adjusted' = [budget |-> Renormalize(draft.budget, MultipliersBut(threw)), multiplier |-> MultipliersBut(threw)]
    BY <1>2 DEF Adjust
  <2>5. draft' = draft
    BY <1>2 DEF Adjust
  <2>6. AdjustedOk'
    BY <2>3, <2>4, <2>5 DEF AdjustedOk
  <2> QED
    BY <2>1, <2>2, <2>6 DEF ScoreInv
<1>3. CASE UNCHANGED scoreVars
  <2>1. LearnedOk' /\ DraftTyped'
    BY <1>3 DEF scoreVars, ScoreInv, LearnedOk, DraftTyped
  <2>2. RowsOk'
    BY <1>3, RowsRest DEF scoreVars, ScoreInv
  <2>3. \A threw : MultipliersBut(threw)' = MultipliersBut(threw)
    BY <1>3, MultipliersRest DEF scoreVars
  <2>4. AdjustedOk'
    BY <1>3, <2>3 DEF scoreVars, ScoreInv, AdjustedOk
  <2> QED
    BY <2>1, <2>2, <2>4 DEF ScoreInv
<1> QED
  BY <1>1, <1>2, <1>3 DEF ScoreNext


\* A blend of a value with a prior is between the two.
LEMMA BlendBetween ==
  ASSUME NEW v \in Nat, NEW n \in Nat, NEW q \in Nat
  PROVE  /\ BlendWithGlobalPrior(v, n, q) \in Nat
         /\ v <= q => v <= BlendWithGlobalPrior(v, n, q) /\ BlendWithGlobalPrior(v, n, q) <= q
         /\ q <= v => q <= BlendWithGlobalPrior(v, n, q) /\ BlendWithGlobalPrior(v, n, q) <= v
<1>1. CASE n >= WARM_START_CEIL \/ q = None
  BY <1>1 DEF BlendWithGlobalPrior
<1>2. CASE ~(n >= WARM_START_CEIL \/ q = None)
  <2>1. n \in 0..9
    BY <1>2 DEF WARM_START_CEIL
  <2>2. PICK num : num = n * v + (10 - n) * q
    OBVIOUS
  <2>3. /\ v <= q => 10 * v <= num /\ num <= 10 * q
        /\ q <= v => 10 * q <= num /\ num <= 10 * v
        /\ num \in Nat
    <3>1. ASSUME NEW k \in 0..9, n = k PROVE
             /\ v <= q => 10 * v <= num /\ num <= 10 * q
             /\ q <= v => 10 * q <= num /\ num <= 10 * v
             /\ num \in Nat
      <4>1. \/ num = 10 * q \/ num = v + 9 * q \/ num = 2 * v + 8 * q \/ num = 3 * v + 7 * q \/ num = 4 * v + 6 * q
            \/ num = 5 * v + 5 * q \/ num = 6 * v + 4 * q \/ num = 7 * v + 3 * q \/ num = 8 * v + 2 * q
            \/ num = 9 * v + q
        BY <2>2, <3>1
      <4> QED
        BY <4>1
    <3> QED
      BY <2>1, <3>1
  <2>4. BlendWithGlobalPrior(v, n, q) = RoundDiv(num, 10)
    BY <1>2, <2>2 DEF BlendWithGlobalPrior, WARM_START_CEIL
  <2>5. PICK x : x = RoundDiv(num, 10)
    OBVIOUS
  <2>6. x \in Nat /\ 2 * (10 * x) <= 2 * num + 10 /\ 2 * num + 10 < 2 * (10 * x) + 20
    BY <2>3, <2>5, Rounded
  <2> QED
    BY <2>3, <2>4, <2>5, <2>6
<1> QED
  BY <1>1, <1>2

\* A row is the only one of its place, and was computed from the outcomes of its bucket.
RowIsOf(r, bucket) ==
  /\ r.value = BlendWithGlobalPrior(bucket.value, bucket.size, bucket.prior)
  /\ r.confidence \in {"HIGH", "MEDIUM", "LOW", "INSUFFICIENT", "WARM_START"}

LEMMA RowIsComputed ==
  ASSUME ScoreInv, NEW p \in Platforms, NEW f \in SCORING_FEATURES, NEW r \in org_feature[p][f]
  PROVE  org_feature[p][f] = {r} /\ RowIsOf(r, learned[p][f])
<1>1. PICK days \in Ages, swept \in BOOLEAN, bumped \in Releases : org_feature = RowsAfter(days, swept, bumped)
  BY DEF ScoreInv, RowsOk, NoFeatures
<1>2. PICK x : x = [FeatureRow(learned[p][f]) EXCEPT !.age = days, !.isStale = swept /\ days > StaleAfterDays,
                                                 !.isCurrent = f \notin bumped]
  OBVIOUS
<1>3. org_feature[p][f] = IF learned[p][f].size = 0 \/ learned[p][f].value > MaxValue(f) THEN {} ELSE {x}
  BY <1>1, <1>2 DEF RowsAfter
<1>4. org_feature[p][f] = {r} /\ r = x
  BY <1>3
<1>5. PICK b : b = learned[p][f]
  OBVIOUS
<1>6. x.value = FeatureRow(b).value /\ x.confidence = FeatureRow(b).confidence
  BY <1>2, <1>5 DEF FeatureRow
<1>7. FeatureRow(b).value = BlendWithGlobalPrior(b.value, b.size, b.prior)
  BY DEF FeatureRow
<1>8. FeatureRow(b).confidence \in {"HIGH", "MEDIUM", "LOW", "INSUFFICIENT", "WARM_START"}
  <2>1. FeatureRow(b).confidence = ConfidenceForBand(BandForSampleSize(b.size), b.size < WARM_START_CEIL)
    BY DEF FeatureRow
  <2> QED
    BY <2>1 DEF ConfidenceForBand, BandForSampleSize
<1> QED
  BY <1>4, <1>5, <1>6, <1>7, <1>8 DEF RowIsOf

LEMMA RowIsBlend ==
  ASSUME ScoreInv, NEW p \in Platforms, NEW f \in SCORING_FEATURES, NEW r \in org_feature[p][f]
  PROVE  /\ r.value \in Nat
         /\ LET mine == learned[p][f].value
                base == IF learned[p][f].prior = None THEN mine ELSE learned[p][f].prior
            IN r.value >= (IF mine < base THEN mine ELSE base) /\ r.value <= (IF mine < base THEN base ELSE mine)
<1>1. PICK v \in Nat, n \in Nat, q \in Nat \cup {None} :
        v = learned[p][f].value /\ n = learned[p][f].size /\ q = learned[p][f].prior
  BY DEF ScoreInv, LearnedOk, BucketTypes
<1>2. r.value = BlendWithGlobalPrior(v, n, q)
  BY <1>1, RowIsComputed DEF RowIsOf
<1>3. CASE q = None
  <2>1. r.value = v
    BY <1>2, <1>3 DEF BlendWithGlobalPrior
  <2> QED
    BY <1>1, <1>3, <2>1
<1>4. CASE q # None
  <2>1. PICK x : x = BlendWithGlobalPrior(v, n, q)
    OBVIOUS
  <2>2. q \in Nat
    BY <1>1, <1>4
  <2>3. x \in Nat /\ (v <= q => v <= x /\ x <= q) /\ (q <= v => q <= x /\ x <= v)
    BY <2>1, <2>2, BlendBetween
  <2>4. x >= (IF v < q THEN v ELSE q) /\ x <= (IF v < q THEN q ELSE v)
    BY <2>2, <2>3
  <2> QED
    BY <1>1, <1>2, <1>4, <2>1, <2>3, <2>4
<1> QED
  BY <1>3, <1>4

LEMMA BlendHolds == ScoreInv => BlendIsBetween
<1> SUFFICES ASSUME ScoreInv PROVE BlendIsBetween
  OBVIOUS
<1> QED
  BY RowIsBlend DEF BlendIsBetween


\* Multipliers: naturals, whatever the rows say.
LEMMA ClipTyped == ASSUME NEW n \in Nat, NEW lo \in Nat, NEW hi \in Nat PROVE Clip(n, lo, hi) \in Nat
  BY DEF Clip

LEMMA GrainTyped == Unit \in Nat /\ Unit > 0 /\ Unit \div 2 \in Nat /\ 2 * Unit \in Nat
  BY HistoryScoreAssumption

LEMMA NormalizedTyped ==
  ASSUME NEW f \in SCORING_FEATURES, NEW v \in Nat
  PROVE  NormalizeFeatureValue(f, v) \in Nat
<1>1. CASE v = 0
  BY <1>1, GrainTyped DEF NormalizeFeatureValue
<1>2. CASE v # 0
  <2>1. PICK u \in Nat : u = 50 * Unit * Unit
    BY GrainTyped
  <2>2. RoundDiv(v, 2) \in Nat /\ RoundDiv(u, v) \in Nat /\ 100 * v \in Nat /\ 50 * v \in Nat
    BY <1>2, Rounded
  <2>3. PICK x \in Nat : x = Fitness(f, v)
    BY <2>1, <2>2 DEF Fitness, SCORING_FEATURES
  <2>4. Clip(x, Unit \div 2, 2 * Unit) \in Nat
    BY GrainTyped, ClipTyped
  <2> QED
    BY <1>2, <2>3, <2>4 DEF NormalizeFeatureValue
<1> QED
  BY <1>1, <1>2

\* What the weighted mean adds up for a row that passed the checks.
LEMMA UsableRow ==
  ASSUME ScoreInv, NEW p \in Platforms, NEW goal, NEW f \in UsableRows(p, goal)
  PROVE  /\ f \in SCORING_FEATURES
         /\ WeightOf(RowOfFeature(p, f)) \in Nat /\ WeightOf(RowOfFeature(p, f)) > 0
         /\ WeightOf(RowOfFeature(p, f)) * NormalizeFeatureValue(f, RowOfFeature(p, f).value) \in Nat
<1>1. f \in SCORING_FEATURES /\ org_feature[p][f] # {} /\ CheckRowSafety(f, RowOfFeature(p, f))
  BY DEF UsableRows, LoadFeatureRows
<1>2. PICK r : r = RowOfFeature(p, f)
  OBVIOUS
<1>3. r \in org_feature[p][f]
  BY <1>1, <1>2 DEF RowOfFeature
<1>4. r.value \in Nat /\ r.confidence \in {"HIGH", "MEDIUM", "LOW", "INSUFFICIENT", "WARM_START"}
  BY <1>1, <1>3, RowIsBlend, RowIsComputed DEF RowIsOf
<1>5. r.confidence # "INSUFFICIENT"
  BY <1>1, <1>2 DEF CheckRowSafety
<1>6. WeightOf(r) \in Nat /\ WeightOf(r) > 0
  BY <1>4, <1>5 DEF WeightOf, CONFIDENCE_WEIGHTS
<1>7. NormalizeFeatureValue(f, r.value) \in Nat
  BY <1>1, <1>4, NormalizedTyped
<1>8. PICK w \in Nat, x \in Nat : w = WeightOf(r) /\ x = NormalizeFeatureValue(f, r.value)
  BY <1>6, <1>7
<1>9. w * x \in Nat
  OBVIOUS
<1> QED
  BY <1>1, <1>2, <1>6, <1>8, <1>9

LEMMA FewFeatures == ASSUME NEW S, S \subseteq SCORING_FEATURES PROVE IsFiniteSet(S)
<1>1. IsFiniteSet(SCORING_FEATURES)
  <2>1. IsFiniteSet(({"platform_roas"} \cup {"platform_cpa"}) \cup ({"platform_ctr"} \cup {"platform_conversion_rate"}))
    BY FS_Singleton, FS_Union
  <2>2. SCORING_FEATURES =
          ({"platform_roas"} \cup {"platform_cpa"}) \cup ({"platform_ctr"} \cup {"platform_conversion_rate"})
    BY DEF SCORING_FEATURES
  <2> QED
    BY <2>1, <2>2
<1> QED
  BY <1>1, FS_Subset

LEMMA MeanTyped ==
  ASSUME ScoreInv, NEW p \in Platforms, NEW goal, UsableRows(p, goal) # {}
  PROVE  WeightedMean(p, UsableRows(p, goal)) \in Nat
<1>1. PICK S : S = UsableRows(p, goal)
  OBVIOUS
<1>2. PICK g : g = [f \in S |-> WeightOf(RowOfFeature(p, f)) * NormalizeFeatureValue(f, RowOfFeature(p, f).value)]
  OBVIOUS
<1>3. PICK h : h = [f \in S |-> WeightOf(RowOfFeature(p, f))]
  OBVIOUS
<1>4. ASSUME NEW f \in S PROVE f \in SCORING_FEATURES /\ g[f] \in Nat /\ h[f] \in Nat /\ h[f] > 0
  BY <1>1, <1>2, <1>3, UsableRow
<1>5. IsFiniteSet(S)
  <2>1. S \subseteq SCORING_FEATURES
    BY <1>4
  <2> QED
    BY <2>1, FewFeatures
<1>6. Sum(g, S) \in Nat /\ Sum(h, S) \in Nat
  <2>1. \A x \in S : g[x] \in Nat
    BY <1>4
  <2>2. \A x \in S : h[x] \in Nat
    BY <1>4
  <2>3. S \in SUBSET S
    OBVIOUS
  <2>4. Sum(g, S) \in Nat
    BY <1>5, <2>1, <2>3, SumPart
  <2>5. Sum(h, S) \in Nat
    BY <1>5, <2>2, <2>3, SumPart
  <2> QED
    BY <2>4, <2>5
<1>7. Sum(h, S) > 0
  <2>1. PICK a : a \in S
    BY <1>1
  <2>2. \A x \in S : h[x] \in Nat
    BY <1>4
  <2>3. {a} \in SUBSET S /\ h[a] \in Int
    BY <2>1, <1>4
  <2>4. Sum(h, {a}) <= Sum(h, S)
    BY <1>5, <2>2, <2>3, SumPart
  <2>5. Sum(h, {a}) = h[a]
    BY <2>3, SumOne
  <2> QED
    BY <1>4, <1>6, <2>1, <2>4, <2>5
<1>8. WeightedMean(p, S) = RoundDiv(Sum(g, S), Sum(h, S))
  <2>1. DOMAIN g = S /\ DOMAIN h = S
    BY <1>2, <1>3
  <2>2. WeightedMean(p, S) = RoundDiv(SumFunction(g), SumFunction(h))
    BY <1>2, <1>3 DEF WeightedMean
  <2> QED
    BY <2>1, <2>2 DEF SumFunction, Sum
<1> QED
  BY <1>1, <1>6, <1>7, <1>8, Rounded

LEMMA MultipliersTyped == ASSUME ScoreInv, NEW threw, NEW p \in Platforms PROVE MultipliersBut(threw)[p] \in Nat
<1>1. MultipliersBut(threw)[p] = IF p \in threw THEN Unit ELSE ScorePlatform(p, draft.goal)
  BY DEF MultipliersBut
<1>2. PICK S : S = UsableRows(p, draft.goal)
  OBVIOUS
<1>3. S # {} => ComputeMultiplier(p, draft.goal) = Clip(WeightedMean(p, S), Unit \div 2, 2 * Unit)
  BY <1>2 DEF ComputeMultiplier
<1>4. S # {} => ComputeMultiplier(p, draft.goal) \in Nat
  <2>1. SUFFICES ASSUME S # {} PROVE ComputeMultiplier(p, draft.goal) \in Nat
    OBVIOUS
  <2>2. PICK goal : goal = draft.goal
    OBVIOUS
  <2>3. WeightedMean(p, UsableRows(p, goal)) \in Nat
    BY <1>2, <2>1, <2>2, MeanTyped
  <2>4. PICK x \in Nat : x = WeightedMean(p, S)
    BY <1>2, <2>2, <2>3
  <2>5. Clip(x, Unit \div 2, 2 * Unit) \in Nat
    BY GrainTyped, ClipTyped
  <2> QED
    BY <1>3, <2>1, <2>4, <2>5
<1>5. S = {} => ComputeMultiplier(p, draft.goal) = None
  BY <1>2 DEF ComputeMultiplier
<1> QED
  BY <1>1, <1>4, <1>5, GrainTyped DEF ScorePlatform


\* The adjusted budgets.  Arithmetic: two shares of a total, each rounded to a cent.
SharesFit(a, b, t, x, y) == x + y - t \in -1..1 /\ (a >= b => x >= y) /\ (b >= a => y >= x)

LEMMA SharesAddUp ==
  ASSUME NEW a \in Nat, NEW b \in Nat, NEW t \in Nat, a + b > 0,
         NEW w \in Nat, w = a + b, NEW k \in Nat, k = a * t, NEW l \in Nat, l = b * t,
         NEW x \in Nat, x = RoundDiv(k, w), NEW y \in Nat, y = RoundDiv(l, w)
  PROVE  SharesFit(a, b, t, x, y)
<1>1. w = a + b /\ k = a * t /\ l = b * t
  OBVIOUS
<1>2. w > 0 /\ k + l = w * t
  OBVIOUS
<1>3. 2 * (w * x) <= 2 * k + w /\ 2 * k + w < 2 * (w * x) + 2 * w
  BY <1>1, <1>2, Rounded
<1>4. 2 * (w * y) <= 2 * l + w /\ 2 * l + w < 2 * (w * y) + 2 * w
  BY <1>1, <1>2, Rounded
<1>5. PICK s \in Nat : s = x + y
  OBVIOUS
<1>6. w * s = w * x + w * y
  BY <1>5
<1>7. 2 * (w * s) <= 2 * (w * t) + 2 * w /\ 2 * (w * t) < 2 * (w * s) + 2 * w
  BY <1>2, <1>3, <1>4, <1>6
<1>8. w * s <= w * t + w /\ w * t < w * s + w
  BY <1>7
<1>9. s <= t + 1
  <2>1. SUFFICES ASSUME s >= t + 2 PROVE FALSE
    OBVIOUS
  <2>2. w * s >= w * (t + 2) /\ w * (t + 2) = w * t + 2 * w
    BY <1>2, <2>1
  <2> QED
    BY <1>2, <1>8, <2>2
<1>10. t <= s
  <2>1. SUFFICES ASSUME t >= s + 1 PROVE FALSE
    OBVIOUS
  <2>2. w * t >= w * (s + 1) /\ w * (s + 1) = w * s + w
    BY <1>2, <2>1
  <2> QED
    BY <1>2, <1>8, <2>2
<1>11. PICK i \in Nat, j \in Nat : i = w * x /\ j = w * y
  OBVIOUS
<1>12. a >= b => k >= l
  BY <1>1
<1>13. b >= a => l >= k
  BY <1>1
<1>14. y >= x + 1 => j >= i + w
  <2>1. SUFFICES ASSUME y >= x + 1 PROVE j >= i + w
    OBVIOUS
  <2>2. PICK v : v = w * (x + 1)
    OBVIOUS
  <2>3. j >= v
    BY <1>2, <1>11, <2>1, <2>2
  <2>4. v = i + w
    BY <1>11, <2>2
  <2> QED
    BY <2>3, <2>4
<1>15. x >= y + 1 => i >= j + w
  <2>1. SUFFICES ASSUME x >= y + 1 PROVE i >= j + w
    OBVIOUS
  <2>2. PICK v : v = w * (y + 1)
    OBVIOUS
  <2>3. i >= v
    BY <1>2, <1>11, <2>1, <2>2
  <2>4. v = j + w
    BY <1>11, <2>2
  <2> QED
    BY <2>3, <2>4
<1>16. 2 * i <= 2 * k + w /\ 2 * k + w < 2 * i + 2 * w /\ 2 * j <= 2 * l + w /\ 2 * l + w < 2 * j + 2 * w
  BY <1>3, <1>4, <1>11
<1>17. (a >= b => x >= y) /\ (b >= a => y >= x)
  BY <1>12, <1>13, <1>14, <1>15, <1>16
<1> QED
  BY <1>5, <1>9, <1>10, <1>17 DEF SharesFit

\* A share in the proportion that the budgets had is the budget.
LEMMA ShareKept ==
  ASSUME NEW b \in Nat, NEW t \in Nat, NEW u \in Nat, u > 0, t > 0
  PROVE  RoundDiv((b * u) * t, u * t) = b
<1>1. PICK w \in Nat : w = u * t
  OBVIOUS
<1>2. w > 0
  BY <1>1
<1>3. (b * u) * t = w * b
  BY <1>1
<1>4. PICK x \in Nat : x = RoundDiv(w * b, w)
  BY <1>2, Rounded
<1>5. 2 * (w * x) <= 2 * (w * b) + w /\ 2 * (w * b) + w < 2 * (w * x) + 2 * w
  BY <1>2, <1>4, Rounded
<1>6. x <= b
  <2>1. SUFFICES ASSUME x >= b + 1 PROVE FALSE
    OBVIOUS
  <2>2. w * x >= w * (b + 1) /\ w * (b + 1) = w * b + w
    BY <1>2, <2>1
  <2> QED
    BY <1>2, <1>5, <2>2
<1>7. b <= x
  <2>1. SUFFICES ASSUME b >= x + 1 PROVE FALSE
    OBVIOUS
  <2>2. w * b >= w * (x + 1) /\ w * (x + 1) = w * x + w
    BY <1>2, <2>1
  <2> QED
    BY <1>2, <1>5, <2>2
<1> QED
  BY <1>1, <1>3, <1>4, <1>6, <1>7

\* The sum over the two platforms.
LEMMA TwoPlatforms ==
  ASSUME NEW b, DOMAIN b = Platforms, \A p \in Platforms : b[p] \in Int
  PROVE  SumFunction(b) = b["META"] + b["GOOGLE_ADS"]
<1>1. Sum(b, {"META", "GOOGLE_ADS"}) = b["META"] + b["GOOGLE_ADS"]
  BY SumTwo DEF Platforms
<1> QED
  BY <1>1 DEF SumFunction, Sum, Platforms

LEMMA RenormalizeHolds ==
  ASSUME NEW budget \in [Platforms -> Nat], NEW m \in [Platforms -> Nat]
  PROVE  /\ Renormalize(budget, m) \in [Platforms -> Nat]
         /\ TotalBudget(Renormalize(budget, m)) - TotalBudget(budget) \in -1..1
         /\ \A p, q \in Platforms : budget[p] = budget[q] /\ m[p] > m[q] =>
               Renormalize(budget, m)[p] >= Renormalize(budget, m)[q]
<1> DEFINE P == "META"
           Q == "GOOGLE_ADS"
<1>1. Platforms = {P, Q} /\ P # Q
  BY DEF Platforms
<1>2. PICK n : n = Renormalize(budget, m)
  OBVIOUS
<1>3. PICK t \in Nat : t = TotalBudget(budget) /\ t = budget[P] + budget[Q]
  BY <1>1, TwoPlatforms DEF TotalBudget
<1>4. PICK a \in Nat, b \in Nat : a = budget[P] * m[P] /\ b = budget[Q] * m[Q]
  BY <1>1
<1>5. SumFunction([p \in Platforms |-> budget[p] * m[p]]) = a + b
  <2>1. PICK f : f = [p \in Platforms |-> budget[p] * m[p]]
    OBVIOUS
  <2>2. DOMAIN f = Platforms /\ f[P] = a /\ f[Q] = b
    BY <1>1, <1>4, <2>1
  <2>3. \A p \in Platforms : f[p] \in Int
    BY <1>1, <2>2
  <2>4. SumFunction(f) = f[P] + f[Q]
    BY <2>2, <2>3, TwoPlatforms
  <2> QED
    BY <2>1, <2>2, <2>4
<1>6. CASE a + b = 0
  <2>1. n = budget
    BY <1>2, <1>5, <1>6 DEF Renormalize
  <2>2. TotalBudget(n) = t /\ TotalBudget(budget) = t
    BY <1>3, <2>1
  <2>3. n \in [Platforms -> Nat] /\ \A p, q \in Platforms : budget[p] = budget[q] => n[p] >= n[q]
    BY <2>1
  <2>4. TotalBudget(n) - TotalBudget(budget) \in -1..1
    BY <2>2
  <2> QED
    BY <1>2, <2>3, <2>4
<1>7. CASE a + b > 0
  <2>1. n = [p \in Platforms |-> RoundDiv(budget[p] * m[p] * t, a + b)]
    BY <1>2, <1>3, <1>5, <1>7 DEF Renormalize, TotalBudget
  <2>2. PICK w \in Nat, k \in Nat, l \in Nat : w = a + b /\ k = a * t /\ l = b * t /\ w > 0
    BY <1>7
  <2>3. PICK x \in Nat, y \in Nat : x = RoundDiv(k, w) /\ y = RoundDiv(l, w)
    BY <2>2, Rounded
  <2>4. n[P] = x /\ n[Q] = y /\ DOMAIN n = Platforms
    BY <1>1, <1>4, <2>1, <2>2, <2>3
  <2>5. n \in [Platforms -> Nat]
    BY <1>1, <2>1, <2>4
  <2>6. TotalBudget(n) = x + y
    <3>1. \A p \in Platforms : n[p] \in Int
      BY <2>5
    <3>2. SumFunction(n) = n["META"] + n["GOOGLE_ADS"]
      BY <2>4, <3>1, TwoPlatforms
    <3> QED
      BY <2>4, <3>2 DEF TotalBudget
  <2>7. SharesFit(a, b, t, x, y)
    BY <1>7, <2>2, <2>3, SharesAddUp
  <2>8. x + y - t \in -1..1 /\ (a >= b => x >= y) /\ (b >= a => y >= x)
    BY <2>7 DEF SharesFit
  <2>9. ASSUME NEW p \in Platforms, NEW q \in Platforms, budget[p] = budget[q], m[p] > m[q] PROVE n[p] >= n[q]
    <3>1. (p = P /\ q = Q) \/ (p = Q /\ q = P)
      BY <1>1, <2>9
    <3>2. PICK c \in Nat, e \in Nat, h \in Nat : c = budget[p] /\ e = m[p] /\ h = m[q]
      OBVIOUS
    <3>3. c * e >= c * h
      BY <2>9, <3>2
    <3>4. CASE p = P /\ q = Q
      BY <1>4, <2>4, <2>8, <2>9, <3>2, <3>3, <3>4
    <3>5. CASE p = Q /\ q = P
      BY <1>4, <2>4, <2>8, <2>9, <3>2, <3>3, <3>5
    <3> QED
      BY <3>1, <3>4, <3>5
  <2> QED
    BY <1>2, <1>3, <2>5, <2>6, <2>8, <2>9
<1> QED
  BY <1>6, <1>7


\* With one multiplier for all, and that positive, nothing changes.
LEMMA SameWeightKeeps ==
  ASSUME NEW budget \in [Platforms -> Nat]
  PROVE  Renormalize(budget, [p \in Platforms |-> Unit]) = budget
<1>1. PICK m : m = [p \in Platforms |-> Unit]
  OBVIOUS
<1>2. PICK t \in Nat : t = TotalBudget(budget) /\ t = budget["META"] + budget["GOOGLE_ADS"]
  BY TwoPlatforms DEF TotalBudget, Platforms
<1>3. PICK f : f = [p \in Platforms |-> budget[p] * m[p]]
  OBVIOUS
<1>4. PICK u \in Nat : u = Unit /\ u > 0
  BY GrainTyped
<1>5. \A p \in Platforms : f[p] = budget[p] * u /\ f[p] \in Int
  BY <1>1, <1>3, <1>4
<1>6. SumFunction(f) = budget["META"] * u + budget["GOOGLE_ADS"] * u
  <2>1. SumFunction(f) = f["META"] + f["GOOGLE_ADS"]
    BY <1>3, <1>5, TwoPlatforms
  <2> QED
    BY <1>5, <2>1 DEF Platforms
<1>7. SumFunction(f) = u * t
  BY <1>2, <1>4, <1>6 DEF Platforms
<1>8. CASE SumFunction(f) = 0
  BY <1>1, <1>3, <1>8 DEF Renormalize
<1>9. CASE SumFunction(f) # 0
  <2>1. t > 0
    BY <1>4, <1>7, <1>9
  <2>2. ASSUME NEW p \in Platforms PROVE RoundDiv(budget[p] * m[p] * t, u * t) = budget[p]
    <3>1. PICK b \in Nat : b = budget[p]
      OBVIOUS
    <3>2. RoundDiv((b * u) * t, u * t) = b
      BY <1>4, <2>1, ShareKept
    <3> QED
      BY <1>1, <1>4, <3>1, <3>2
  <2>3. Renormalize(budget, m) = [p \in Platforms |-> RoundDiv(budget[p] * m[p] * t, u * t)]
    BY <1>2, <1>3, <1>7, <1>9 DEF Renormalize, TotalBudget
  <2>4. [p \in Platforms |-> RoundDiv(budget[p] * m[p] * t, u * t)] = budget
    BY <2>2
  <2> QED
    BY <1>1, <2>3, <2>4
<1> QED
  BY <1>8, <1>9

\* Rows that are all old or of other versions leave no multiplier.
LEMMA OldRowsCountNot ==
  ASSUME NEW p \in Platforms, NEW goal,
         \A f \in SCORING_FEATURES : \A r \in org_feature[p][f] : IsOutdated(r),
         \A f \in SCORING_FEATURES : \A r \in org_feature[p][f] : r.age \in Nat
  PROVE  ComputeMultiplier(p, goal) = None
<1>1. ASSUME NEW f \in UsableRows(p, goal) PROVE FALSE
  <2>1. f \in SCORING_FEATURES /\ org_feature[p][f] # {} /\ CheckRowSafety(f, RowOfFeature(p, f))
    BY DEF UsableRows, LoadFeatureRows
  <2>2. PICK r : r = RowOfFeature(p, f)
    OBVIOUS
  <2>3. r \in org_feature[p][f]
    BY <2>1, <2>2 DEF RowOfFeature
  <2>4. r.age <= Freshness /\ r.isCurrent
    BY <2>1, <2>2 DEF CheckRowSafety
  <2>5. IsOutdated(r) /\ r.age \in Nat
    BY <2>1, <2>3
  <2> QED
    BY <2>4, <2>5 DEF IsOutdated, Freshness
<1>2. UsableRows(p, goal) = {}
  BY <1>1
<1> QED
  BY <1>2 DEF ComputeMultiplier

LEMMA AgeTyped ==
  ASSUME ScoreInv, NEW p \in Platforms, NEW f \in SCORING_FEATURES, NEW r \in org_feature[p][f]
  PROVE  r.age \in Nat
<1>1. PICK days \in Ages, swept \in BOOLEAN, bumped \in Releases : org_feature = RowsAfter(days, swept, bumped)
  BY DEF ScoreInv, RowsOk, NoFeatures
<1>2. PICK x : x = [FeatureRow(learned[p][f]) EXCEPT !.age = days, !.isStale = swept /\ days > StaleAfterDays,
                                                 !.isCurrent = f \notin bumped]
  OBVIOUS
<1>3. org_feature[p][f] = IF learned[p][f].size = 0 \/ learned[p][f].value > MaxValue(f) THEN {} ELSE {x}
  BY <1>1, <1>2 DEF RowsAfter
<1>4. r = x
  BY <1>3
<1>5. x.age = days
  BY <1>2 DEF FeatureRow
<1> QED
  BY <1>4, <1>5, HistoryScoreAssumption

LEMMA NoHistoryHolds == ScoreInv /\ adjusted # None => NoHistoryNoChange
<1> SUFFICES ASSUME ScoreInv, adjusted # None,
                    ~InCanary \/ \A p \in Platforms, f \in SCORING_FEATURES :
                                   \A r \in org_feature[p][f] : IsOutdated(r)
             PROVE  adjusted.budget = draft.budget
  BY DEF NoHistoryNoChange
<1>1. ASSUME NEW p \in Platforms PROVE ScorePlatform(p, draft.goal) = Unit
  <2>1. CASE ~InCanary
    BY <2>1 DEF ScorePlatform
  <2>2. CASE \A q \in Platforms, f \in SCORING_FEATURES : \A r \in org_feature[q][f] : IsOutdated(r)
    <3>1. \A f \in SCORING_FEATURES : \A r \in org_feature[p][f] : IsOutdated(r)
      BY <2>2
    <3>2. \A f \in SCORING_FEATURES : \A r \in org_feature[p][f] : r.age \in Nat
      BY AgeTyped
    <3>3. PICK goal : goal = draft.goal
      OBVIOUS
    <3>4. ComputeMultiplier(p, goal) = None
      BY <3>1, <3>2, OldRowsCountNot
    <3> QED
      BY <3>3, <3>4 DEF ScorePlatform
  <2> QED
    BY <2>1, <2>2
<1>2. \A threw : MultipliersBut(threw) = [p \in Platforms |-> Unit]
  BY <1>1 DEF MultipliersBut
<1>3. adjusted.budget = Renormalize(draft.budget, [p \in Platforms |-> Unit])
  BY <1>2 DEF ScoreInv, AdjustedOk
<1> QED
  BY <1>3, SameWeightKeeps DEF ScoreInv, DraftTyped

LEMMA ShiftHolds == ScoreInv /\ adjusted # None => BudgetIsShifted
<1> SUFFICES ASSUME ScoreInv, adjusted # None PROVE BudgetIsShifted
  OBVIOUS
<1>1. PICK m : \E threw \in SUBSET Platforms :
        m = MultipliersBut(threw) /\ adjusted.multiplier = m /\ adjusted.budget = Renormalize(draft.budget, m)
  BY DEF ScoreInv, AdjustedOk
<1>2. m \in [Platforms -> Nat]
  <2>1. PICK threw : m = MultipliersBut(threw)
    BY <1>1
  <2>2. \A p \in Platforms : m[p] \in Nat
    BY <2>1, MultipliersTyped
  <2>3. m = [p \in Platforms |-> IF p \in threw THEN Unit ELSE ScorePlatform(p, draft.goal)]
    BY <2>1 DEF MultipliersBut
  <2> QED
    BY <2>2, <2>3
<1>3. PICK b : b = draft.budget
  OBVIOUS
<1>4. b \in [Platforms -> Nat] /\ adjusted.multiplier = m /\ adjusted.budget = Renormalize(b, m)
  BY <1>1, <1>3 DEF ScoreInv, DraftTyped
<1>5. TotalBudget(Renormalize(b, m)) - TotalBudget(b) \in -1..1
  BY <1>2, <1>4, RenormalizeHolds
<1>6. \A p, q \in Platforms : b[p] = b[q] /\ m[p] > m[q] => Renormalize(b, m)[p] >= Renormalize(b, m)[q]
  BY <1>2, <1>4, RenormalizeHolds
<1> QED
  BY <1>3, <1>4, <1>5, <1>6 DEF BudgetIsShifted

\* History shifts a draft's budgets towards what did better, loses and makes none, and
\* changes nothing where there is none to go by; a row of few campaigns is between what
\* they did and the prior (plan-adjuster.service.ts, multiplier.service.ts,
\* feature-compute.service.ts): for any grain, outcomes, priors, budgets and ages.
THEOREM HistoryCorrect == ScoreSpec => []HistoryIsModest
<1>1. ScoreInv => HistoryIsModest
  BY BlendHolds, ShiftHolds, NoHistoryHolds DEF HistoryIsModest
<1> QED
  BY <1>1, ScoreInvInit, ScoreInvStep, PTL DEF ScoreSpec


-----------------------------------------------------------------------------
(* PlanDraft                                                               *)

GoalNames == {"AWARENESS", "TRAFFIC", "ENGAGEMENT", "LEADS", "SALES", "APP_INSTALLS"}
InputOk(in) ==
  /\ WizardInputDto(in)
  /\ in.goal \in GoalNames
  /\ in.budgetType \in {"DAILY", "LIFETIME"} /\ in.pixelInstalled \in {"yes", "no", "unknown"}
  /\ in.total \in Nat /\ in.startDay \in Nat /\ in.endDay \in Nat \cup {None}

ItemsOf(in) == {BuildItem(in, p) : p \in Accepted(in)}
BuiltOk == built # None => /\ built.items = ItemsOf(input)
                           /\ built.findings = Evaluate(input, ItemsOf(input))
                           /\ built.confidence = Confidence(input, ItemsOf(input))
HandedOk == handed # None => /\ built # None /\ MayLaunch(built.findings)
                             /\ handed = {Drafts(input, i) : i \in built.items}
DraftInv == InputOk(input) /\ BuiltOk /\ HandedOk

LEMMA DraftInvInit == DraftInit => DraftInv
<1> SUFFICES ASSUME DraftInit PROVE DraftInv
  OBVIOUS
<1>1. input \in WizardInputs /\ WizardInputDto(input)
  BY DEF DraftInit
<1>2. InputOk(input)
  BY <1>1, PlanDraftAssumption DEF InputOk, GoalNames
<1> QED
  BY <1>2 DEF DraftInit, DraftInv, BuiltOk, HandedOk

LEMMA DraftInvStep == DraftInv /\ [DraftNext]_draftVars => DraftInv'
<1> SUFFICES ASSUME DraftInv, [DraftNext]_draftVars PROVE DraftInv'
  OBVIOUS
<1>1. CASE BuildDraft
  <2>1. input' = input /\ handed' = handed /\ built = None
    BY <1>1 DEF BuildDraft
  <2>2. built'.items = ItemsOf(input) /\ built'.findings = Evaluate(input, ItemsOf(input))
        /\ built'.confidence = Confidence(input, ItemsOf(input))
    BY <1>1 DEF BuildDraft, ItemsOf
  <2>3. BuiltOk'
    BY <2>1, <2>2 DEF BuiltOk
  <2>4. HandedOk'
    BY <2>1 DEF DraftInv, HandedOk
  <2> QED
    BY <2>1, <2>3, <2>4 DEF DraftInv
<1>2. CASE HandOver
  <2>1. /\ input' = input /\ built' = built /\ built # None /\ MayLaunch(built.findings)
        /\ handed' = {Drafts(input, i) : i \in built.items}
    BY <1>2 DEF HandOver
  <2>2. BuiltOk'
    BY <2>1 DEF DraftInv, BuiltOk
  <2>3. HandedOk'
    BY <2>1 DEF HandedOk
  <2> QED
    BY <2>1, <2>2, <2>3 DEF DraftInv
<1>3. CASE UNCHANGED draftVars
  BY <1>3 DEF draftVars, DraftInv, BuiltOk, HandedOk
<1> QED
  BY <1>1, <1>2, <1>3 DEF DraftNext

\* The platforms that a draft has items for, and its items.
LEMMA ItemsAre ==
  ASSUME NEW in
  PROVE  \/ Accepted(in) = {} /\ ItemsOf(in) = {}
         \/ \E p \in SUPPORTED_PLATFORMS : Accepted(in) = {p} /\ ItemsOf(in) = {BuildItem(in, p)}
         \/ /\ Accepted(in) = {"META", "GOOGLE_ADS"}
            /\ ItemsOf(in) = {BuildItem(in, "META"), BuildItem(in, "GOOGLE_ADS")}
<1>1. PICK A : A = Accepted(in)
  OBVIOUS
<1>2. A = {} \/ A = {"META"} \/ A = {"GOOGLE_ADS"} \/ A = {"META", "GOOGLE_ADS"}
  <2>1. A \subseteq {"META", "GOOGLE_ADS"}
    BY <1>1 DEF Accepted, SUPPORTED_PLATFORMS
  <2> QED
    BY <2>1
<1>3. ItemsOf(in) = {BuildItem(in, p) : p \in A}
  BY <1>1 DEF ItemsOf
<1> QED
  BY <1>1, <1>2, <1>3 DEF SUPPORTED_PLATFORMS

LEMMA ItemPlatform == \A in, p : BuildItem(in, p).platform = p /\ BuildItem(in, p).dailyBudget = AllocateBudget(in, p)
                                 /\ BuildItem(in, p).isCbo = (p = "META")
  BY DEF BuildItem


\* Shares of a total, rounded, over days: as far from the total as one unit a day.
LEMMA DaysFit ==
  ASSUME NEW c \in Nat, c > 0, NEW d \in Nat, d > 0, NEW t \in Nat, NEW s \in Nat, NEW w \in Nat, w = c * d,
         2 * (w * s) <= 2 * (c * t) + 2 * w, 2 * (c * t) < 2 * (w * s) + 2 * w
  PROVE  s * d - t \in -d..d
<1>1. PICK z \in Nat : z = s * d
  OBVIOUS
<1>2. w * s = c * z
  BY <1>1
<1>3. c * z <= c * t + c * d /\ c * t < c * z + c * d
  BY <1>2
<1>4. z <= t + d
  <2>1. SUFFICES ASSUME z >= t + d + 1 PROVE FALSE
    OBVIOUS
  <2>2. c * z >= c * (t + d + 1)
    BY <2>1
  <2>3. c * (t + d + 1) = c * t + c * d + c
    OBVIOUS
  <2> QED
    BY <1>3, <2>2, <2>3
<1>5. t <= z + d
  <2>1. SUFFICES ASSUME t >= z + d + 1 PROVE FALSE
    OBVIOUS
  <2>2. c * t >= c * (z + d + 1)
    BY <2>1
  <2>3. c * (z + d + 1) = c * z + c * d + c
    OBVIOUS
  <2> QED
    BY <1>3, <2>2, <2>3
<1> QED
  BY <1>1, <1>4, <1>5

LEMMA HalfUpIs == \A n, d : HalfUp(n, d) = RoundDiv(n, d)
  BY DEF HalfUp, RoundDiv

\* A day at least is what a budget is divided by.
LEMMA DaysTyped ==
  ASSUME NEW in, InputOk(in)
  PROVE  /\ EffectiveDays(in) \in Nat /\ EffectiveDays(in) > 0
         /\ ComputeDurationDays(in) # None => ComputeDurationDays(in) \in Nat /\ ComputeDurationDays(in) > 0
<1>1. ComputeDurationDays(in) # None => ComputeDurationDays(in) \in Nat /\ ComputeDurationDays(in) > 0
  BY PlanDraftAssumption DEF InputOk, ComputeDurationDays
<1> QED
  BY <1>1 DEF EffectiveDays

LEMMA SharesTyped ==
  ASSUME NEW in, InputOk(in)
  PROVE  /\ BUDGET_SHARES(in.goal, "META") \in 1..99 /\ BUDGET_SHARES(in.goal, "GOOGLE_ADS") \in 1..99
         /\ BUDGET_SHARES(in.goal, "META") + BUDGET_SHARES(in.goal, "GOOGLE_ADS") = 100
<1>1. PICK s : s = MetaShare[in.goal]
  OBVIOUS
<1>2. s \in {65, 45, 70, 60, 55, 50}
  BY <1>1 DEF InputOk, GoalNames, MetaShare
<1>3. BUDGET_SHARES(in.goal, "META") = s /\ BUDGET_SHARES(in.goal, "GOOGLE_ADS") = 100 - s
  BY <1>1 DEF BUDGET_SHARES
<1> QED
  BY <1>2, <1>3

\* One platform has the whole total.
LEMMA OneBudget ==
  ASSUME NEW in, InputOk(in), NEW p \in SUPPORTED_PLATFORMS, Accepted(in) = {p}
  PROVE  AllocateBudget(in, p) \in Nat
         /\ AllocateBudget(in, p) * EffectiveDays(in) - in.total \in -EffectiveDays(in)..EffectiveDays(in)
<1>1. PICK c : c = BUDGET_SHARES(in.goal, p)
  OBVIOUS
<1>2. c \in Nat /\ c > 0
  BY <1>1, SharesTyped DEF SUPPORTED_PLATFORMS
<1>3. PICK d \in Nat : d = EffectiveDays(in) /\ d > 0
  BY DaysTyped
<1>4. PICK t \in Nat : t = in.total
  BY DEF InputOk
<1>5. PICK f : f = [q \in {p} |-> BUDGET_SHARES(in.goal, q)]
  OBVIOUS
<1>6. SumFunction(f) = c
  <2>1. f[p] = c /\ DOMAIN f = {p}
    BY <1>1, <1>5
  <2>2. Sum(f, {p}) = f[p]
    BY <1>2, <2>1, SumOne
  <2> QED
    BY <2>1, <2>2 DEF SumFunction, Sum
<1>7. AllocateBudget(in, p) = HalfUp(t * c, c * d)
  BY <1>1, <1>3, <1>4, <1>5, <1>6 DEF AllocateBudget
<1>8. PICK w \in Nat, k \in Nat : w = c * d /\ k = c * t
  BY <1>2
<1>9. w > 0
  BY <1>2, <1>3, <1>8
<1>10. PICK x \in Nat : x = RoundDiv(k, w) /\ 2 * (w * x) <= 2 * k + w /\ 2 * k + w < 2 * (w * x) + 2 * w
  BY <1>9, Rounded
<1>11. t * c = k
  BY <1>2, <1>8
<1>12. AllocateBudget(in, p) = x
  BY <1>7, <1>8, <1>10, <1>11, HalfUpIs
<1>13. 2 * (w * x) <= 2 * (c * t) + 2 * w /\ 2 * (c * t) < 2 * (w * x) + 2 * w
  <2>1. PICK z \in Nat : z = w * x
    OBVIOUS
  <2>2. 2 * z <= 2 * k + 2 * w /\ 2 * k < 2 * z + 2 * w
    BY <1>9, <1>10, <2>1
  <2> QED
    BY <1>8, <2>1, <2>2
<1>14. x * d - t \in -d..d
  BY <1>2, <1>3, <1>8, <1>13, DaysFit
<1> QED
  BY <1>3, <1>4, <1>10, <1>12, <1>14

\* Two platforms share it.
LEMMA TwoBudgets ==
  ASSUME NEW in, InputOk(in), Accepted(in) = {"META", "GOOGLE_ADS"}
  PROVE  /\ AllocateBudget(in, "META") \in Nat /\ AllocateBudget(in, "GOOGLE_ADS") \in Nat
         /\ (AllocateBudget(in, "META") + AllocateBudget(in, "GOOGLE_ADS")) * EffectiveDays(in) - in.total
              \in -EffectiveDays(in)..EffectiveDays(in)
<1>1. PICK a, b : a = BUDGET_SHARES(in.goal, "META") /\ b = BUDGET_SHARES(in.goal, "GOOGLE_ADS")
  OBVIOUS
<1>2. a \in Nat /\ b \in Nat /\ a + b = 100
  BY <1>1, SharesTyped
<1>3. PICK d \in Nat : d = EffectiveDays(in) /\ d > 0
  BY DaysTyped
<1>4. PICK t \in Nat : t = in.total
  BY DEF InputOk
<1>5. PICK f : f = [q \in {"META", "GOOGLE_ADS"} |-> BUDGET_SHARES(in.goal, q)]
  OBVIOUS
<1>6. SumFunction(f) = 100
  <2>1. f["META"] = a /\ f["GOOGLE_ADS"] = b /\ DOMAIN f = {"META", "GOOGLE_ADS"}
    BY <1>1, <1>5
  <2>2. f["META"] \in Int /\ f["GOOGLE_ADS"] \in Int
    BY <1>2, <2>1
  <2>3. Sum(f, {"META", "GOOGLE_ADS"}) = f["META"] + f["GOOGLE_ADS"]
    BY <2>2, SumTwo
  <2> QED
    BY <1>2, <2>1, <2>3 DEF SumFunction, Sum
<1>7. AllocateBudget(in, "META") = HalfUp(t * a, 100 * d) /\ AllocateBudget(in, "GOOGLE_ADS") = HalfUp(t * b, 100 * d)
  BY <1>1, <1>3, <1>4, <1>5, <1>6 DEF AllocateBudget
<1>8. PICK w \in Nat, k \in Nat, l \in Nat : w = 100 * d /\ k = t * a /\ l = t * b
  BY <1>2
<1>9. w > 0 /\ k + l = 100 * t
  BY <1>2, <1>3, <1>8
<1>10. PICK x \in Nat : x = RoundDiv(k, w) /\ 2 * (w * x) <= 2 * k + w /\ 2 * k + w < 2 * (w * x) + 2 * w
  BY <1>9, Rounded
<1>11. PICK y \in Nat : y = RoundDiv(l, w) /\ 2 * (w * y) <= 2 * l + w /\ 2 * l + w < 2 * (w * y) + 2 * w
  BY <1>9, Rounded
<1>12. AllocateBudget(in, "META") = x /\ AllocateBudget(in, "GOOGLE_ADS") = y
  BY <1>7, <1>8, <1>10, <1>11, HalfUpIs
<1>13. PICK s \in Nat, c \in Nat : s = x + y /\ c = 100
  OBVIOUS
<1>14. 2 * (w * s) <= 2 * (c * t) + 2 * w /\ 2 * (c * t) < 2 * (w * s) + 2 * w
  <2>1. PICK i \in Nat, j \in Nat : i = w * x /\ j = w * y
    OBVIOUS
  <2>2. w * s = i + j
    BY <1>13, <2>1
  <2>3. 2 * (i + j) <= 2 * (100 * t) + 2 * w /\ 2 * (100 * t) < 2 * (i + j) + 2 * w
    BY <1>9, <1>10, <1>11, <2>1
  <2> QED
    BY <1>13, <2>2, <2>3
<1>15. c > 0 /\ w = c * d
  BY <1>8, <1>13
<1>16. s * d - t \in -d..d
  BY <1>3, <1>14, <1>15, DaysFit
<1> QED
  BY <1>3, <1>4, <1>12, <1>13, <1>16


\* Sums over a set of one or two.
LEMMA SumFunctionOne ==
  ASSUME NEW f, NEW a, DOMAIN f = {a}, f[a] \in Int
  PROVE  SumFunction(f) = f[a]
  BY SumOne DEF SumFunction, Sum

LEMMA SumFunctionTwo ==
  ASSUME NEW f, NEW a, NEW b, a # b, DOMAIN f = {a, b}, f[a] \in Int, f[b] \in Int
  PROVE  SumFunction(f) = f[a] + f[b]
  BY SumTwo DEF SumFunction, Sum

LEMMA PairCounted == ASSUME NEW a, NEW b, a # b PROVE Cardinality({a, b}) = 2
<1>1. IsFiniteSet({a}) /\ Cardinality({a}) = 1
  BY FS_Singleton
<1>2. {a} \cup {b} = {a, b} /\ b \notin {a}
  OBVIOUS
<1>3. Cardinality({a} \cup {b}) = Cardinality({a}) + 1
  BY <1>1, <1>2, FS_AddElement
<1> QED
  BY <1>1, <1>2, <1>3

LEMMA DaysAre ==
  ASSUME DraftInv, BudgetDays # None
  PROVE  EffectiveDays(input) = BudgetDays /\ BudgetDays \in Nat /\ BudgetDays > 0
<1>1. InputOk(input)
  BY DEF DraftInv
<1>2. input.budgetType \in {"DAILY", "LIFETIME"}
  BY <1>1 DEF InputOk
<1>3. EffectiveDays(input) = BudgetDays
  BY <1>2 DEF EffectiveDays, BudgetDays
<1> QED
  BY <1>1, <1>3, DaysTyped

LEMMA ItemsSpend ==
  ASSUME NEW in, InputOk(in), ItemsOf(in) # {}
  PROVE  SumFunction([i \in ItemsOf(in) |-> i.dailyBudget]) * EffectiveDays(in) - in.total
           \in -EffectiveDays(in)..EffectiveDays(in)
<1>1. PICK f : f = [i \in ItemsOf(in) |-> i.dailyBudget]
  OBVIOUS
<1>2. ASSUME NEW p \in SUPPORTED_PLATFORMS, Accepted(in) = {p}, ItemsOf(in) = {BuildItem(in, p)}
      PROVE  SumFunction(f) * EffectiveDays(in) - in.total \in -EffectiveDays(in)..EffectiveDays(in)
  <2>1. PICK m, x : m = BuildItem(in, p) /\ x = AllocateBudget(in, p)
    OBVIOUS
  <2>2. f[m] = x /\ DOMAIN f = {m}
    BY <1>1, <1>2, <2>1, ItemPlatform
  <2>3. x \in Nat /\ x * EffectiveDays(in) - in.total \in -EffectiveDays(in)..EffectiveDays(in)
    BY <1>2, <2>1, OneBudget
  <2>4. SumFunction(f) = x
    BY <2>2, <2>3, SumFunctionOne
  <2> QED
    BY <2>3, <2>4
<1>3. ASSUME Accepted(in) = {"META", "GOOGLE_ADS"},
             ItemsOf(in) = {BuildItem(in, "META"), BuildItem(in, "GOOGLE_ADS")}
      PROVE  SumFunction(f) * EffectiveDays(in) - in.total \in -EffectiveDays(in)..EffectiveDays(in)
  <2>1. PICK m, x : m = BuildItem(in, "META") /\ x = AllocateBudget(in, "META")
    OBVIOUS
  <2>2. PICK g, y : g = BuildItem(in, "GOOGLE_ADS") /\ y = AllocateBudget(in, "GOOGLE_ADS")
    OBVIOUS
  <2>3. m # g
    <3>1. m.platform = "META" /\ g.platform = "GOOGLE_ADS"
      BY <2>1, <2>2, ItemPlatform
    <3> QED
      BY <3>1
  <2>4. f[m] = x /\ f[g] = y /\ DOMAIN f = {m, g}
    BY <1>1, <1>3, <2>1, <2>2, ItemPlatform
  <2>5. x \in Nat /\ y \in Nat
        /\ (x + y) * EffectiveDays(in) - in.total \in -EffectiveDays(in)..EffectiveDays(in)
    BY <1>3, <2>1, <2>2, TwoBudgets
  <2>6. SumFunction(f) = x + y
    <3>1. f[m] \in Int /\ f[g] \in Int
      BY <2>4, <2>5
    <3>2. SumFunction(f) = f[m] + f[g]
      BY <2>3, <2>4, <3>1, SumFunctionTwo
    <3> QED
      BY <2>4, <3>2
  <2> QED
    BY <2>5, <2>6
<1> QED
  BY <1>1, <1>2, <1>3, ItemsAre

LEMMA SplitHolds == DraftInv /\ built # None => BudgetIsSplit
<1> SUFFICES ASSUME DraftInv, built # None, built.items # {}, BudgetDays # None
             PROVE  LET daily == SumFunction([i \in built.items |-> i.dailyBudget])
                    IN daily * BudgetDays - input.total \in -BudgetDays..BudgetDays
  BY DEF BudgetIsSplit
<1>1. built.items = ItemsOf(input) /\ InputOk(input)
  BY DEF DraftInv, BuiltOk
<1>2. PICK in : in = input
  OBVIOUS
<1>3. SumFunction([i \in ItemsOf(in) |-> i.dailyBudget]) * EffectiveDays(in) - in.total
        \in -EffectiveDays(in)..EffectiveDays(in)
  BY <1>1, <1>2, ItemsSpend
<1> QED
  BY <1>1, <1>2, <1>3, DaysAre

-----------------------------------------------------------------------------
(* What is found, and what nothing is found of.                            *)

LEMMA WhenIs == \A c, x : When(c, x) = IF c THEN {x} ELSE {}
  BY DEF When

\* The findings of a plan none of whose platforms is left out.
LEMMA FindingsAre ==
  ASSUME NEW in, NEW items, items # {}, in.platforms \subseteq SUPPORTED_PLATFORMS
  PROVE  Evaluate(in, items) = CheckBudgetFloors(items) \cup CheckAdAccounts(items)
           \cup CheckCurrencyAlignment(in, items) \cup CheckPlan(in, items) \cup CheckContent(in)
  BY DEF Evaluate

\* Without a blocker every budget is enough and every account works.
LEMMA NoBlockerMeans ==
  ASSUME NEW in, NEW items, items # {}, in.platforms \subseteq SUPPORTED_PLATFORMS,
         \A i \in items : i.dailyBudget \in Nat,
         \A f \in Evaluate(in, items) : f.severity # "BLOCKER", in.assetRefs \in 0..50
  PROVE  /\ in.assetRefs > 0
         /\ \A i \in items : i.adAccount.status \in {"ACTIVE", "MOCK"}
                             /\ i.dailyBudget >= PLATFORM_MIN_DAILY(i.platform)
<1>1. \A c, p : Blocker(c, p).severity = "BLOCKER"
  BY DEF Blocker
<1>2. \A c, p : Blocker(c, p) \notin Evaluate(in, items)
  BY <1>1
<1>3. in.assetRefs # 0
  <2>1. SUFFICES ASSUME in.assetRefs = 0 PROVE FALSE
    OBVIOUS
  <2>2. Blocker("MISSING_CREATIVE_ASSETS", "ALL") \in CheckContent(in)
    BY <2>1 DEF CheckContent, When
  <2> QED
    BY <1>2, <2>2, FindingsAre
<1>4. ASSUME NEW i \in items PROVE i.adAccount.status \in {"ACTIVE", "MOCK"}
  <2>1. SUFFICES ASSUME i.adAccount.status \notin {"ACTIVE", "MOCK"} PROVE FALSE
    OBVIOUS
  <2>2. \E c : Blocker(c, i.platform) \in CheckAdAccounts(items)
    BY <1>4, <2>1 DEF CheckAdAccounts
  <2> QED
    BY <1>2, <2>2, FindingsAre
<1>5. ASSUME NEW i \in items PROVE i.dailyBudget >= PLATFORM_MIN_DAILY(i.platform)
  <2>1. PLATFORM_MIN_DAILY(i.platform) \in Nat
    BY DEF PLATFORM_MIN_DAILY
  <2>2. SUFFICES ASSUME i.dailyBudget < PLATFORM_MIN_DAILY(i.platform) PROVE FALSE
    BY <1>5, <2>1
  <2>3. \E p : Blocker("BUDGET_BELOW_PLATFORM_MINIMUM", p) \in CheckBudgetFloors(items)
    BY <1>5, <2>2 DEF CheckBudgetFloors
  <2> QED
    BY <1>2, <2>3, FindingsAre
<1> QED
  BY <1>3, <1>4, <1>5

LEMMA BudgetsTyped == ASSUME NEW in, InputOk(in), NEW i \in ItemsOf(in) PROVE i.dailyBudget \in Nat
<1>1. CASE \E p \in SUPPORTED_PLATFORMS : Accepted(in) = {p} /\ ItemsOf(in) = {BuildItem(in, p)}
  BY <1>1, OneBudget, ItemPlatform
<1>2. CASE Accepted(in) = {"META", "GOOGLE_ADS"} /\ ItemsOf(in) = {BuildItem(in, "META"), BuildItem(in, "GOOGLE_ADS")}
  BY <1>2, TwoBudgets, ItemPlatform
<1> QED
  BY <1>1, <1>2, ItemsAre

LEMMA SupportedHaveItems ==
  ASSUME NEW in, InputOk(in), in.platforms \subseteq SUPPORTED_PLATFORMS
  PROVE  ItemsOf(in) # {}
<1>1. PICK p \in in.platforms : TRUE
  BY DEF InputOk, WizardInputDto
<1>2. BuildItem(in, p) \in ItemsOf(in)
  BY <1>1 DEF ItemsOf, Accepted
<1> QED
  BY <1>2

LEMMA LaunchableHolds == DraftInv /\ built # None => UnblockedIsLaunchable
<1> SUFFICES ASSUME DraftInv, built # None, Blockers = {}, input.platforms \subseteq SUPPORTED_PLATFORMS
             PROVE  /\ built.items # {} /\ input.assetRefs > 0
                    /\ \A i \in built.items : /\ i.adAccount.status \in {"ACTIVE", "MOCK"}
                                              /\ i.dailyBudget >= PLATFORM_MIN_DAILY(i.platform)
  BY DEF UnblockedIsLaunchable
<1>1. PICK in, items : in = input /\ items = ItemsOf(input)
  OBVIOUS
<1>2. built.items = items /\ built.findings = Evaluate(in, items) /\ InputOk(in)
  BY <1>1 DEF DraftInv, BuiltOk
<1>3. items # {} /\ \A i \in items : i.dailyBudget \in Nat
  BY <1>1, <1>2, SupportedHaveItems, BudgetsTyped
<1>4. \A f \in Evaluate(in, items) : f.severity # "BLOCKER"
  BY <1>2 DEF Blockers
<1>5. in.assetRefs \in 0..50
  BY <1>2 DEF InputOk, WizardInputDto
<1> QED
  BY <1>1, <1>2, <1>3, <1>4, <1>5, NoBlockerMeans


\* The mean score of the budgets is between the scores.
LEMMA BudgetScoreTyped == \A i : BudgetScore(i) \in {10, 60, 100}
  BY DEF BudgetScore

LEMMA SufficiencyBetween ==
  ASSUME NEW in, ItemsOf(in) # {}, NEW lo \in Nat, NEW hi \in Nat,
         \A i \in ItemsOf(in) : lo <= BudgetScore(i) /\ BudgetScore(i) <= hi
  PROVE  /\ BudgetSufficiency(ItemsOf(in)) \in Nat
         /\ lo <= BudgetSufficiency(ItemsOf(in)) /\ BudgetSufficiency(ItemsOf(in)) <= hi
<1>1. PICK items : items = ItemsOf(in)
  OBVIOUS
<1>2. PICK f : f = [i \in items |-> BudgetScore(i)]
  OBVIOUS
<1>3. BudgetSufficiency(items) = RoundDiv(SumFunction(f), Cardinality(items))
  BY <1>1, <1>2, HalfUpIs DEF BudgetSufficiency
<1>4. ASSUME NEW m, items = {m}
      PROVE  BudgetSufficiency(items) \in Nat /\ lo <= BudgetSufficiency(items) /\ BudgetSufficiency(items) <= hi
  <2>1. PICK x \in Nat : x = f[m] /\ lo <= x /\ x <= hi
    BY <1>1, <1>2, <1>4, BudgetScoreTyped
  <2>2. SumFunction(f) = x
    BY <1>2, <1>4, <2>1, SumFunctionOne
  <2>3. Cardinality(items) = 1
    BY <1>4, FS_Singleton
  <2>4. RoundDiv(x, 1) = x
    BY DEF RoundDiv
  <2> QED
    BY <1>3, <2>1, <2>2, <2>3, <2>4
<1>5. ASSUME NEW m, NEW g, m # g, items = {m, g}
      PROVE  BudgetSufficiency(items) \in Nat /\ lo <= BudgetSufficiency(items) /\ BudgetSufficiency(items) <= hi
  <2>1. PICK x \in Nat : x = f[m] /\ lo <= x /\ x <= hi
    BY <1>1, <1>2, <1>5, BudgetScoreTyped
  <2>2. PICK y \in Nat : y = f[g] /\ lo <= y /\ y <= hi
    BY <1>1, <1>2, <1>5, BudgetScoreTyped
  <2>3. DOMAIN f = {m, g} /\ f[m] \in Int /\ f[g] \in Int
    BY <1>2, <1>5, <2>1, <2>2
  <2>4. SumFunction(f) = x + y
    BY <1>5, <2>1, <2>2, <2>3, SumFunctionTwo
  <2>5. Cardinality(items) = 2
    BY <1>5, PairCounted
  <2>6. PICK s, z : s = x + y /\ z = RoundDiv(s, 2)
    OBVIOUS
  <2>7. s \in Nat
    BY <2>1, <2>2, <2>6
  <2>8. z \in Nat /\ 2 * (2 * z) <= 2 * s + 2 /\ 2 * s + 2 < 2 * (2 * z) + 4
    BY <2>6, <2>7, Rounded
  <2> QED
    BY <1>3, <2>1, <2>2, <2>4, <2>5, <2>6, <2>8
<1>6. ASSUME ItemsOf(in) = {BuildItem(in, "META"), BuildItem(in, "GOOGLE_ADS")}
      PROVE  \E m, g : m # g /\ items = {m, g}
  <2>1. PICK m, g : m = BuildItem(in, "META") /\ g = BuildItem(in, "GOOGLE_ADS")
    OBVIOUS
  <2>2. m.platform = "META" /\ g.platform = "GOOGLE_ADS"
    BY <2>1, ItemPlatform
  <2>3. m # g
    BY <2>2
  <2> QED
    BY <1>1, <1>6, <2>1, <2>3
<1> QED
  BY <1>1, <1>4, <1>5, <1>6, ItemsAre

LEMMA FactorsTyped ==
  ASSUME NEW in, InputOk(in)
  PROVE  PixelAvailability(in) \in {15, 40, 100} /\ AudienceClarity(in) \in 40..100
<1>1. PixelAvailability(in) \in {15, 40, 100}
  BY DEF InputOk, PixelAvailability, CONVERSION_GOALS
<1>2. AudienceClarity(in) \in 40..100
  <2>1. PICK a, b, c, d : /\ a = (IF in.interestTags >= 3 THEN 25 ELSE IF in.interestTags >= 1 THEN 12 ELSE 0)
                          /\ b = (IF in.ageSpan <= 15 THEN 20 ELSE IF in.ageSpan <= 25 THEN 10 ELSE 0)
                          /\ c = (IF in.languages THEN 8 ELSE 0) /\ d = (IF in.cities THEN 7 ELSE 0)
    OBVIOUS
  <2>2. a \in 0..25 /\ b \in 0..20 /\ c \in 0..8 /\ d \in 0..7
    BY <2>1
  <2>3. AudienceClarity(in) = 40 + a + b + c + d
    BY <2>1 DEF AudienceClarity
  <2> QED
    BY <2>2, <2>3
<1> QED
  BY <1>1, <1>2

\* A plan nothing is found of: its goal is measured and its budgets are no low ones.
LEMMA NothingFoundMeans ==
  ASSUME NEW in, InputOk(in), Evaluate(in, ItemsOf(in)) = {}
  PROVE  /\ ItemsOf(in) # {} /\ PixelAvailability(in) = 100
         /\ \A i \in ItemsOf(in) : BudgetScore(i) \in {60, 100}
<1>1. PICK items : items = ItemsOf(in)
  OBVIOUS
<1>2. items # {}
  BY <1>1 DEF Evaluate
<1>3. in.platforms \subseteq SUPPORTED_PLATFORMS
  BY <1>1, <1>2 DEF Evaluate
<1>4. CheckPlan(in, items) = {} /\ CheckBudgetFloors(items) = {}
  BY <1>1, <1>2, <1>3, FindingsAre
<1>5. PixelAvailability(in) = 100
  <2>1. ~(in.goal \in CONVERSION_GOALS /\ in.pixelInstalled # "yes")
    BY <1>4 DEF CheckPlan, When
  <2> QED
    BY <2>1 DEF PixelAvailability
<1>6. ASSUME NEW i \in items PROVE BudgetScore(i) \in {60, 100}
  <2>1. i.dailyBudget \in Nat /\ PLATFORM_MIN_DAILY(i.platform) \in Nat
    BY <1>1, <1>6, BudgetsTyped DEF PLATFORM_MIN_DAILY
  <2>2. ~(i.dailyBudget < PLATFORM_MIN_DAILY(i.platform))
    BY <1>4, <1>6 DEF CheckBudgetFloors
  <2> QED
    BY <2>1, <2>2 DEF BudgetScore
<1> QED
  BY <1>1, <1>2, <1>5, <1>6

LEMMA ScoreAgrees == DraftInv /\ built # None => ScoreAgreesWithRisks
<1> SUFFICES ASSUME DraftInv, built # None PROVE ScoreAgreesWithRisks
  OBVIOUS
<1>1. PICK in : in = input
  OBVIOUS
<1>2. built.items = ItemsOf(in) /\ built.findings = Evaluate(in, ItemsOf(in)) /\ InputOk(in)
      /\ built.confidence = Confidence(in, ItemsOf(in))
  BY <1>1 DEF DraftInv, BuiltOk
<1>3. PICK x, y, z : x = PixelAvailability(in) /\ y = AudienceClarity(in) /\ z = BudgetSufficiency(ItemsOf(in))
  OBVIOUS
<1>4. PICK s : s = HalfUp(30 * x + 30 * y + 40 * z, 100)
  OBVIOUS
<1>5. built.confidence.label = IF s >= 75 THEN "HIGH" ELSE IF s >= 50 THEN "MEDIUM" ELSE "LOW"
  BY <1>2, <1>3, <1>4 DEF Confidence
<1>6. x \in 0..100 /\ y \in 40..100
  BY <1>2, <1>3, FactorsTyped
<1>7. ASSUME built.findings = {} PROVE built.confidence.label # "LOW"
  <2>1. ItemsOf(in) # {} /\ x = 100 /\ \A i \in ItemsOf(in) : BudgetScore(i) \in {60, 100}
    <3>1. Evaluate(in, ItemsOf(in)) = {} /\ InputOk(in)
      BY <1>2, <1>7
    <3>2. ItemsOf(in) # {} /\ PixelAvailability(in) = 100 /\ \A i \in ItemsOf(in) : BudgetScore(i) \in {60, 100}
      BY <3>1, NothingFoundMeans
    <3> QED
      BY <1>3, <3>2
  <2>2. \A i \in ItemsOf(in) : 60 <= BudgetScore(i) /\ BudgetScore(i) <= 100
    BY <2>1
  <2>3. z \in Nat /\ 60 <= z /\ z <= 100
    BY <1>3, <2>1, <2>2, SufficiencyBetween
  <2>4. PICK n \in Nat : n = 30 * x + 30 * y + 40 * z /\ n >= 5000
    BY <1>6, <2>1, <2>3
  <2>5. s = RoundDiv(n, 100)
    BY <1>4, <2>4, HalfUpIs
  <2>6. s \in Nat /\ 2 * n + 100 < 2 * (100 * s) + 200
    BY <2>5, Rounded
  <2>7. s >= 50
    BY <2>4, <2>6
  <2> QED
    BY <1>5, <2>6, <2>7
<1>8. ASSUME \A i \in built.items : BudgetScore(i) = 10 PROVE built.confidence.label # "HIGH"
  <2>1. z = 10 \/ z = 0
    <3>1. CASE ItemsOf(in) = {}
      <4>1. BudgetSufficiency({}) = 0
        BY DEF BudgetSufficiency
      <4> QED
        BY <1>3, <3>1, <4>1
    <3>2. CASE ItemsOf(in) # {}
      <4>1. \A i \in ItemsOf(in) : 10 <= BudgetScore(i) /\ BudgetScore(i) <= 10
        BY <1>2, <1>8
      <4>2. z \in Nat /\ 10 <= z /\ z <= 10
        BY <1>3, <3>2, <4>1, SufficiencyBetween
      <4> QED
        BY <4>2
    <3> QED
      BY <3>1, <3>2
  <2>2. s \in Nat /\ s < 75
    <3>1. PICK n \in Nat : n = 30 * x + 30 * y + 40 * z /\ n <= 6400
      BY <1>6, <2>1
    <3>2. s = RoundDiv(n, 100)
      BY <1>4, <3>1, HalfUpIs
    <3>3. s \in Nat /\ 2 * (100 * s) <= 2 * n + 100
      BY <3>2, Rounded
    <3> QED
      BY <3>1, <3>3
  <2> QED
    BY <1>5, <2>2
<1> QED
  BY <1>7, <1>8 DEF ScoreAgreesWithRisks


-----------------------------------------------------------------------------
(* What a launch hands over.                                               *)

\* What is given to the adapter of one item's platform names one budget.
OneBudgetPlace(d, kind, amount) == BudgetsSet(d) = {<<kind, amount>>} /\ amount \in Nat

PlaceOf(in, p) == IF p # "META" THEN "adSet" ELSE IF in.budgetType = "DAILY" THEN "campaign" ELSE "lifetime"
AmountOf(in, p) == IF PlaceOf(in, p) = "lifetime" THEN in.total ELSE AllocateBudget(in, p)

LEMMA PlacesAre ==
  ASSUME NEW in, InputOk(in), NEW p \in SUPPORTED_PLATFORMS, AllocateBudget(in, p) \in Nat
  PROVE  OneBudgetPlace(Drafts(in, BuildItem(in, p)), PlaceOf(in, p), AmountOf(in, p))
<1>1. PICK i, x, t : i = BuildItem(in, p) /\ x = AllocateBudget(in, p) /\ t = in.total
  OBVIOUS
<1>2. i.dailyBudget = x /\ i.isCbo = (p = "META") /\ x \in Nat /\ t \in Nat
  BY <1>1, ItemPlatform DEF InputOk
<1>3. x # None /\ t # None
  BY <1>2, PlanDraftAssumption
<1>4. PICK d : d = Drafts(in, i)
  OBVIOUS
<1>5. /\ d.campaign.dailyBudget = IF i.isCbo /\ in.budgetType = "DAILY" THEN x ELSE None
      /\ d.campaign.lifetimeBudget = IF i.isCbo /\ in.budgetType = "LIFETIME" THEN t ELSE None
      /\ d.adSet.dailyBudget = IF i.isCbo THEN None ELSE x
  BY <1>1, <1>2, <1>4 DEF Drafts, BuildCampaignDraft, BuildAdSetDraft
<1>6. in.budgetType \in {"DAILY", "LIFETIME"} /\ p \in {"META", "GOOGLE_ADS"}
  BY DEF InputOk, SUPPORTED_PLATFORMS
<1>7. PICK a, b, c : a = d.campaign.dailyBudget /\ b = d.campaign.lifetimeBudget /\ c = d.adSet.dailyBudget
  OBVIOUS
<1>8. BudgetsSet(d) = {place \in {<<"campaign", a>>, <<"lifetime", b>>, <<"adSet", c>>} : place[2] # None}
  BY <1>7 DEF BudgetsSet, BudgetPlaces
<1>9. CASE p = "META" /\ in.budgetType = "DAILY"
  <2>1. a = x /\ b = None /\ c = None
    BY <1>2, <1>5, <1>7, <1>9
  <2>2. BudgetsSet(d) = {<<"campaign", x>>}
    BY <1>3, <1>8, <2>1
  <2>3. PlaceOf(in, p) = "campaign" /\ AmountOf(in, p) = x
    BY <1>1, <1>9 DEF PlaceOf, AmountOf
  <2> QED
    BY <1>1, <1>2, <1>4, <2>2, <2>3 DEF OneBudgetPlace
<1>10. CASE p = "META" /\ in.budgetType = "LIFETIME"
  <2>1. a = None /\ b = t /\ c = None
    BY <1>2, <1>5, <1>7, <1>10
  <2>2. BudgetsSet(d) = {<<"lifetime", t>>}
    BY <1>3, <1>8, <2>1
  <2>3. PlaceOf(in, p) = "lifetime" /\ AmountOf(in, p) = t
    BY <1>1, <1>10 DEF PlaceOf, AmountOf
  <2> QED
    BY <1>1, <1>2, <1>4, <2>2, <2>3 DEF OneBudgetPlace
<1>11. CASE p = "GOOGLE_ADS"
  <2>1. a = None /\ b = None /\ c = x
    BY <1>2, <1>5, <1>7, <1>11
  <2>2. BudgetsSet(d) = {<<"adSet", x>>}
    BY <1>3, <1>8, <2>1
  <2>3. PlaceOf(in, p) = "adSet" /\ AmountOf(in, p) = x
    BY <1>1, <1>11 DEF PlaceOf, AmountOf
  <2> QED
    BY <1>1, <1>2, <1>4, <2>2, <2>3 DEF OneBudgetPlace
<1> QED
  BY <1>6, <1>9, <1>10, <1>11

\* What that budget spends.
LEMMA PlaceSpends ==
  ASSUME NEW d, NEW kind, NEW amount, OneBudgetPlace(d, kind, amount), NEW days \in Nat
  PROVE  /\ Cardinality(BudgetsSet(d)) = 1
         /\ SpendsOf(d, days) = IF kind = "lifetime" THEN amount ELSE amount * days
<1>1. PICK e : e = <<kind, amount>>
  OBVIOUS
<1>2. BudgetsSet(d) = {e} /\ e[1] = kind /\ e[2] = amount /\ amount \in Nat
  BY <1>1 DEF OneBudgetPlace
<1>3. PICK f : f = [place \in BudgetsSet(d) |-> IF place[1] = "lifetime" THEN place[2] ELSE place[2] * days]
  OBVIOUS
<1>4. DOMAIN f = {e} /\ f[e] = IF kind = "lifetime" THEN amount ELSE amount * days
  BY <1>2, <1>3
<1>5. amount * days \in Nat
  BY <1>2
<1>6. f[e] \in Int
  BY <1>2, <1>4, <1>5
<1>7. SumFunction(f) = f[e]
  BY <1>4, <1>6, SumFunctionOne
<1> QED
  BY <1>2, <1>3, <1>4, <1>7, FS_Singleton DEF SpendsOf


LEMMA DraftPlatform == \A in, i : Drafts(in, i).platform = i.platform
                                  /\ Drafts(in, i).creative.assetRefs = IF in.assetRefs > 0 THEN in.assetRefs ELSE 1
  BY DEF Drafts, BuildCreativeDraft

\* What was handed over of a draft for one platform, and for two.
DraftsGiven(in) == {Drafts(in, i) : i \in ItemsOf(in)}
GivenOk(in, days) ==
  /\ Cardinality(DraftsGiven(in)) = Cardinality(ItemsOf(in))
  /\ \A d \in DraftsGiven(in) : Cardinality(BudgetsSet(d)) = 1
  /\ in.budgetType = "DAILY" \/ Cardinality(DraftsGiven(in)) = 1 =>
       SumFunction([d \in DraftsGiven(in) |-> SpendsOf(d, days)]) - in.total \in -days..days

LEMMA GivenOne ==
  ASSUME NEW in, InputOk(in), NEW p \in SUPPORTED_PLATFORMS, Accepted(in) = {p}, ItemsOf(in) = {BuildItem(in, p)},
         NEW days \in Nat, days > 0, days = EffectiveDays(in)
  PROVE  GivenOk(in, days)
<1>1. PICK i, d, x : i = BuildItem(in, p) /\ d = Drafts(in, i) /\ x = AllocateBudget(in, p)
  OBVIOUS
<1>2. DraftsGiven(in) = {d} /\ ItemsOf(in) = {i}
  BY <1>1 DEF DraftsGiven
<1>3. x \in Nat /\ x * days - in.total \in -days..days
  BY <1>1, OneBudget
<1>4. PICK kind, amount : kind = PlaceOf(in, p) /\ amount = AmountOf(in, p)
  OBVIOUS
<1>5. OneBudgetPlace(d, kind, amount)
  BY <1>1, <1>3, <1>4, PlacesAre
<1>6. Cardinality(BudgetsSet(d)) = 1 /\ SpendsOf(d, days) = IF kind = "lifetime" THEN amount ELSE amount * days
  BY <1>5, PlaceSpends
<1>7. in.total \in Nat
  BY DEF InputOk
<1>8. SpendsOf(d, days) \in Nat /\ SpendsOf(d, days) - in.total \in -days..days
  <2>1. CASE kind = "lifetime"
    <3>1. SpendsOf(d, days) = in.total
      BY <1>4, <1>6, <2>1 DEF AmountOf
    <3>2. PICK t \in Nat : t = in.total
      BY <1>7
    <3>3. t - t \in -days..days
      OBVIOUS
    <3> QED
      BY <3>1, <3>2, <3>3
  <2>2. CASE kind # "lifetime"
    <3>1. SpendsOf(d, days) = x * days
      BY <1>1, <1>4, <1>6, <2>2 DEF AmountOf
    <3>2. x * days \in Nat
      BY <1>3
    <3> QED
      BY <1>3, <3>1, <3>2
  <2> QED
    BY <2>1, <2>2
<1>9. SumFunction([e \in DraftsGiven(in) |-> SpendsOf(e, days)]) = SpendsOf(d, days)
  <2>1. PICK f : f = [e \in DraftsGiven(in) |-> SpendsOf(e, days)]
    OBVIOUS
  <2>2. DOMAIN f = {d} /\ f[d] = SpendsOf(d, days)
    BY <1>2, <2>1
  <2>3. SumFunction(f) = f[d]
    BY <1>8, <2>2, SumFunctionOne
  <2> QED
    BY <2>1, <2>2, <2>3
<1>10. Cardinality(DraftsGiven(in)) = 1 /\ Cardinality(ItemsOf(in)) = 1
  BY <1>2, FS_Singleton
<1> QED
  BY <1>2, <1>6, <1>8, <1>9, <1>10 DEF GivenOk

LEMMA GivenTwo ==
  ASSUME NEW in, InputOk(in), Accepted(in) = {"META", "GOOGLE_ADS"},
         ItemsOf(in) = {BuildItem(in, "META"), BuildItem(in, "GOOGLE_ADS")},
         NEW days \in Nat, days > 0, days = EffectiveDays(in)
  PROVE  GivenOk(in, days)
<1>1. PICK i, d, x : i = BuildItem(in, "META") /\ d = Drafts(in, i) /\ x = AllocateBudget(in, "META")
  OBVIOUS
<1>2. PICK j, e, y : j = BuildItem(in, "GOOGLE_ADS") /\ e = Drafts(in, j) /\ y = AllocateBudget(in, "GOOGLE_ADS")
  OBVIOUS
<1>3. i.platform = "META" /\ j.platform = "GOOGLE_ADS" /\ d.platform = "META" /\ e.platform = "GOOGLE_ADS"
  BY <1>1, <1>2, ItemPlatform, DraftPlatform
<1>4. i # j /\ d # e
  BY <1>3
<1>5. DraftsGiven(in) = {d, e} /\ ItemsOf(in) = {i, j}
  BY <1>1, <1>2 DEF DraftsGiven
<1>6. Cardinality(DraftsGiven(in)) = 2 /\ Cardinality(ItemsOf(in)) = 2
  <2>1. Cardinality({d, e}) = 2
    BY <1>4, PairCounted
  <2>2. Cardinality({i, j}) = 2
    BY <1>4, PairCounted
  <2> QED
    BY <1>5, <2>1, <2>2
<1>7. x \in Nat /\ y \in Nat /\ (x + y) * days - in.total \in -days..days
  BY <1>1, <1>2, TwoBudgets
<1>8. PICK kind, amount : kind = PlaceOf(in, "META") /\ amount = AmountOf(in, "META")
  OBVIOUS
<1>9. OneBudgetPlace(d, kind, amount)
  BY <1>1, <1>7, <1>8, PlacesAre DEF SUPPORTED_PLATFORMS
<1>10. Cardinality(BudgetsSet(d)) = 1 /\ SpendsOf(d, days) = IF kind = "lifetime" THEN amount ELSE amount * days
  BY <1>9, PlaceSpends
<1>11. PlaceOf(in, "GOOGLE_ADS") = "adSet" /\ AmountOf(in, "GOOGLE_ADS") = y
  BY <1>2 DEF PlaceOf, AmountOf
<1>12. OneBudgetPlace(e, "adSet", y)
  BY <1>2, <1>7, <1>11, PlacesAre DEF SUPPORTED_PLATFORMS
<1>13. Cardinality(BudgetsSet(e)) = 1 /\ SpendsOf(e, days) = y * days
  BY <1>12, PlaceSpends
<1>14. ASSUME in.budgetType = "DAILY"
       PROVE  SumFunction([c \in DraftsGiven(in) |-> SpendsOf(c, days)]) - in.total \in -days..days
  <2>1. kind = "campaign" /\ amount = x
    BY <1>1, <1>8, <1>14 DEF PlaceOf, AmountOf
  <2>2. SpendsOf(d, days) = x * days
    BY <1>10, <2>1
  <2>3. PICK f : f = [c \in DraftsGiven(in) |-> SpendsOf(c, days)]
    OBVIOUS
  <2>4. DOMAIN f = {d, e} /\ f[d] = x * days /\ f[e] = y * days
    BY <1>5, <1>13, <2>2, <2>3
  <2>5. f[d] \in Int /\ f[e] \in Int
    BY <1>7, <2>4
  <2>6. SumFunction(f) = x * days + y * days
    BY <1>4, <2>4, <2>5, SumFunctionTwo
  <2>7. x * days + y * days = (x + y) * days
    BY <1>7
  <2> QED
    BY <1>7, <2>3, <2>6, <2>7
<1> QED
  BY <1>5, <1>6, <1>10, <1>13, <1>14 DEF GivenOk

LEMMA HandedHolds == DraftInv /\ handed # None => BudgetIsHandedOn
<1> SUFFICES ASSUME DraftInv, handed # None PROVE BudgetIsHandedOn
  OBVIOUS
<1>1. PICK in : in = input
  OBVIOUS
<1>2. /\ InputOk(in) /\ built.items = ItemsOf(in) /\ handed = DraftsGiven(in)
      /\ built # None /\ \A f \in Evaluate(in, ItemsOf(in)) : f.severity # "BLOCKER"
  BY <1>1 DEF DraftInv, BuiltOk, HandedOk, DraftsGiven, MayLaunch
<1>3. BudgetDays # None => BudgetDays \in Nat /\ BudgetDays > 0 /\ BudgetDays = EffectiveDays(in)
  BY <1>1, DaysAre
<1>4. PICK days \in Nat : days = EffectiveDays(in) /\ days > 0
  BY <1>2, DaysTyped
<1>5. ItemsOf(in) = {} \/ GivenOk(in, days)
  <2>1. ASSUME NEW p \in SUPPORTED_PLATFORMS, Accepted(in) = {p}, ItemsOf(in) = {BuildItem(in, p)}
        PROVE  GivenOk(in, days)
    BY <1>2, <1>4, <2>1, GivenOne
  <2>2. ASSUME Accepted(in) = {"META", "GOOGLE_ADS"},
               ItemsOf(in) = {BuildItem(in, "META"), BuildItem(in, "GOOGLE_ADS")}
        PROVE  GivenOk(in, days)
    BY <1>2, <1>4, <2>2, GivenTwo
  <2> QED
    BY <2>1, <2>2, ItemsAre
<1>6. ItemsOf(in) = {} => DraftsGiven(in) = {}
  BY DEF DraftsGiven
<1>7. Cardinality(handed) = Cardinality(built.items)
  BY <1>2, <1>5, <1>6 DEF GivenOk
<1>8. \A d \in handed : Cardinality(BudgetsSet(d)) = 1
  BY <1>2, <1>5, <1>6 DEF GivenOk
<1>9. (input.budgetType = "DAILY" \/ Cardinality(handed) = 1) /\ BudgetDays # None /\ handed # {} =>
        SumFunction([d \in handed |-> SpendsOf(d, BudgetDays)]) - input.total \in -BudgetDays..BudgetDays
  BY <1>1, <1>2, <1>3, <1>4, <1>5, <1>6 DEF GivenOk
<1>10. ASSUME input.platforms \subseteq SUPPORTED_PLATFORMS, NEW d \in handed
       PROVE  d.creative.assetRefs = input.assetRefs
  <2>1. ItemsOf(in) # {} /\ \A i \in ItemsOf(in) : i.dailyBudget \in Nat
    BY <1>1, <1>2, <1>10, SupportedHaveItems, BudgetsTyped
  <2>2. in.assetRefs \in 0..50
    BY <1>2 DEF InputOk, WizardInputDto
  <2>3. PICK items : items = ItemsOf(in)
    OBVIOUS
  <2>4. in.assetRefs > 0
    BY <1>1, <1>2, <1>10, <2>1, <2>2, <2>3, NoBlockerMeans
  <2>5. PICK i : d = Drafts(in, i)
    BY <1>2, <1>10 DEF DraftsGiven
  <2> QED
    BY <1>1, <2>4, <2>5, DraftPlatform
<1> QED
  BY <1>7, <1>8, <1>9, <1>10 DEF BudgetIsHandedOn

\* What a wizard input makes of a draft: its budgets are the total, split over platforms
\* and days; nothing that blocks is left out of its findings and nothing that is found
\* contradicts its score; and a launch hands every budget over once, with the user's own
\* assets (decision-engine, risk-check, strategic-summary, launcher): for any wizard input
\* that the request's validation lets through.
THEOREM DraftCorrect == DraftSpec => []DraftIsSound
<1>1. DraftInv => DraftIsSound
  BY SplitHolds, LaunchableHolds, ScoreAgrees, HandedHolds DEF DraftIsSound
<1> QED
  BY <1>1, DraftInvInit, DraftInvStep, PTL DEF DraftSpec


-----------------------------------------------------------------------------
(* Four platforms, one activity: ProviderMetrics.                          *)

\* Totals of columns: the same numbers in another table, in another unit, of fewer days.
LEMMA ColumnSame ==
  ASSUME NEW D, IsFiniteSet(D), NEW s, NEW t, DOMAIN s = D, DOMAIN t = D, NEW k, NEW l,
         \A d \in D : s[d][k] \in Int /\ t[d][l] = s[d][k]
  PROVE  TotalColumn(t, l) = TotalColumn(s, k)
<1>1. PICK f, g : f = [d \in D |-> s[d][k]] /\ g = [d \in D |-> t[d][l]]
  OBVIOUS
<1>2. \A d \in D : f[d] \in Int /\ f[d] = g[d]
  BY <1>1
<1>3. Sum(f, D) = Sum(g, D)
  BY <1>2, SumSame
<1>4. DOMAIN f = D /\ DOMAIN g = D
  BY <1>1
<1>5. TotalColumn(s, k) = Sum(f, D)
  BY <1>1, <1>4 DEF TotalColumn, SumFunction, Sum
<1>6. TotalColumn(t, l) = Sum(g, D)
  BY <1>1, <1>4 DEF TotalColumn, SumFunction, Sum
<1> QED
  BY <1>3, <1>5, <1>6

LEMMA ColumnTyped ==
  ASSUME NEW D, IsFiniteSet(D), NEW s, DOMAIN s = D, NEW k, \A d \in D : s[d][k] \in Nat
  PROVE  TotalColumn(s, k) \in Nat
<1>1. PICK f : f = [d \in D |-> s[d][k]]
  OBVIOUS
<1>2. \A d \in D : f[d] \in Nat
  BY <1>1
<1>3. Sum(f, D) \in Nat
  <2>1. D \in SUBSET D
    OBVIOUS
  <2> QED
    BY <1>2, <2>1, SumPart
<1>4. DOMAIN f = D
  BY <1>1
<1> QED
  BY <1>1, <1>3, <1>4 DEF TotalColumn, SumFunction, Sum

LEMMA MicrosAgain == ASSUME NEW n \in Nat PROVE Cents(10000 * n) = n
  BY DEF Cents, NearestDiv

LEMMA TotalInMicros ==
  ASSUME NEW D, IsFiniteSet(D), NEW s, NEW g, DOMAIN s = D, DOMAIN g = D, NEW k,
         \A d \in D : s[d][k] \in Nat /\ g[d] = Micros(s[d][k])
  PROVE  Cents(SumFunction(g)) = TotalColumn(s, k)
<1>1. PICK f : f = [d \in D |-> s[d][k]]
  OBVIOUS
<1>2. \A d \in D : f[d] \in Int /\ g[d] = 10000 * f[d]
  BY <1>1 DEF Micros
<1>3. Sum(g, D) = 10000 * Sum(f, D)
  BY <1>2, SumScaled
<1>4. DOMAIN f = D
  BY <1>1
<1>5. TotalColumn(s, k) = Sum(f, D)
  BY <1>1, <1>4 DEF TotalColumn, SumFunction, Sum
<1>6. SumFunction(g) = Sum(g, D)
  BY DEF SumFunction, Sum
<1>7. PICK n \in Nat : n = TotalColumn(s, k)
  BY ColumnTyped
<1>8. SumFunction(g) = 10000 * n
  BY <1>3, <1>5, <1>6, <1>7
<1> QED
  BY <1>7, <1>8, MicrosAgain

LEMMA ColumnPart ==
  ASSUME NEW D, IsFiniteSet(D), NEW C \in SUBSET D, NEW s, NEW t, DOMAIN s = D, DOMAIN t = C, NEW k,
         \A d \in D : s[d][k] \in Nat, \A d \in C : t[d][k] = s[d][k]
  PROVE  TotalColumn(t, k) <= TotalColumn(s, k)
<1>1. PICK f, g : f = [d \in D |-> s[d][k]] /\ g = [d \in C |-> t[d][k]]
  OBVIOUS
<1>2. \A d \in D : f[d] \in Nat
  BY <1>1
<1>3. \A d \in C : g[d] \in Int /\ g[d] = f[d]
  BY <1>1
<1>4. Sum(f, C) <= Sum(f, D)
  BY <1>2, SumPart
<1>5. Sum(g, C) = Sum(f, C)
  <2>1. IsFiniteSet(C)
    BY FS_Subset
  <2> QED
    BY <1>3, <2>1, SumSame
<1>6. DOMAIN f = D /\ DOMAIN g = C
  BY <1>1
<1>7. TotalColumn(s, k) = Sum(f, D)
  BY <1>1, <1>6 DEF TotalColumn, SumFunction, Sum
<1>8. TotalColumn(t, k) = Sum(g, C)
  BY <1>1, <1>6 DEF TotalColumn, SumFunction, Sum
<1> QED
  BY <1>4, <1>5, <1>7, <1>8

\* Nothing adds up to nothing; of fields that only one has something in, that one counts.
LEMMA ZeroTotal ==
  ASSUME NEW D, IsFiniteSet(D), NEW f, \A d \in D : f[d] = 0
  PROVE  Sum(f, D) = 0
<1>1. \A d \in D : f[d] \in Int /\ f[d] = 0 * f[d]
  OBVIOUS
<1>2. Sum(f, D) = 0 * Sum(f, D)
  BY <1>1, SumScaled
<1>3. Sum(f, D) \in Int
  BY <1>1, SumInt
<1> QED
  BY <1>2, <1>3

LEMMA OneCounts ==
  ASSUME NEW D, IsFiniteSet(D), NEW f, NEW a \in D, f[a] \in Int, \A d \in D : d # a => f[d] = 0
  PROVE  Sum(f, D) = f[a]
<1>1. \A d \in D : f[d] \in Int
  OBVIOUS
<1>2. Sum(f, D) = f[a] + Sum(f, D \ {a})
  BY <1>1, SumLess
<1>3. IsFiniteSet(D \ {a}) /\ \A d \in D \ {a} : f[d] = 0
  BY FS_Subset
<1>4. Sum(f, D \ {a}) = 0
  BY <1>3, ZeroTotal
<1> QED
  BY <1>2, <1>4

LEMMA CountsOne ==
  ASSUME NEW row, NEW fields, IsFiniteSet(fields), NEW a \in fields, row[a] \in Int,
         \A k \in fields : k # a => row[k] = 0
  PROVE  Counted(row, fields) = row[a]
<1>1. PICK f : f = [k \in fields |-> row[k]]
  OBVIOUS
<1>2. f[a] = row[a] /\ f[a] \in Int /\ \A k \in fields : k # a => f[k] = 0
  BY <1>1
<1>3. Sum(f, fields) = f[a]
  BY <1>2, OneCounts
<1>4. DOMAIN f = fields
  BY <1>1
<1> QED
  BY <1>1, <1>2, <1>3, <1>4 DEF Counted, SumFunction, Sum

LEMMA CountsNone == ASSUME NEW row PROVE Counted(row, {}) = 0
<1>1. PICK f : f = [k \in {} |-> row[k]]
  OBVIOUS
<1>2. Sum(f, {}) = 0 /\ DOMAIN f = {}
  BY <1>1, SumEmpty
<1> QED
  BY <1>1, <1>2 DEF Counted, SumFunction, Sum

\* A world's window: its days are finitely many, and those by the clock are among those by date.
LEMMA WindowIs ==
  ASSUME NEW w \in AdWorlds
  PROVE  /\ IsFiniteSet(DatesAsked(w)) /\ ClockAsked(w) \in SUBSET DatesAsked(w)
         /\ \A d \in DatesAsked(w) : w.days[d] \in Activities
<1>1. w.days \in Seq(Activities) /\ w.now \in Nat /\ w.hours \in Nat
  BY ProviderMetricsAssumption
<1>2. PICK n \in Nat : DOMAIN w.days = 1..n
  BY <1>1
<1>3. DatesAsked(w) \in SUBSET (1..n) /\ ClockAsked(w) \in SUBSET (1..n)
  BY <1>2 DEF DatesAsked, ClockAsked
<1>4. IsFiniteSet(DatesAsked(w))
  <2>1. PICK a \in Int, b \in Int : a = 1 /\ b = n
    BY <1>2
  <2>2. IsFiniteSet(a..b)
    BY FS_Interval
  <2> QED
    BY <1>3, <2>1, <2>2, FS_Subset
<1>5. ASSUME NEW d \in ClockAsked(w) PROVE d \in DatesAsked(w)
  <2>1. d \in 1..n /\ w.now - w.hours <= NoonOf(d) /\ NoonOf(d) <= w.now
    BY <1>2, <1>5 DEF ClockAsked
  <2>2. w.now - w.hours <= 24 * d + 12
    BY <2>1 DEF NoonOf
  <2>3. (w.now - w.hours) \div 24 <= d
    BY <1>1, <2>1, <2>2
  <2> QED
    BY <1>2, <2>1, <2>3 DEF DatesAsked
<1>6. \A d \in DatesAsked(w) : w.days[d] \in Activities
  <2>1. \A d \in 1..n : w.days[d] \in Activities
    BY <1>1, <1>2
  <2> QED
    BY <1>3, <2>1
<1> QED
  BY <1>4, <1>5, <1>6

LEMMA DayTyped ==
  ASSUME NEW day \in Activities
  PROVE  /\ \A k \in {"spend", "impressions", "clicks", "purchases", "leads", "installs", "value", "reach"} : day[k] \in Nat
         /\ \A o : GoalOf(day, o) \in Nat
<1>1. /\ day.spend \in Nat /\ day.impressions \in Nat /\ day.clicks \in Nat /\ day.purchases \in Nat
      /\ day.leads \in Nat /\ day.installs \in Nat /\ day.value \in Nat /\ day.reach \in Nat
  BY DEF Activities
<1>2. ASSUME NEW o PROVE GoalOf(day, o) \in Nat
  BY <1>1 DEF GoalOf
<1> QED
  BY <1>1, <1>2

LEMMA DaysAskedAre ==
  ASSUME NEW w \in AdWorlds
  PROVE  /\ DOMAIN DaysAsked(w) = DatesAsked(w)
         /\ \A d \in DatesAsked(w) : DaysAsked(w)[d] \in Activities /\ DaysAsked(w)[d] = w.days[d]
  BY WindowIs DEF DaysAsked

\* What was spent, shown and clicked, and what the campaign was after.
Amount(w, k) == TotalColumn(DaysAsked(w), k)
GoalsOf(w) == SumFunction([d \in DatesAsked(w) |-> GoalOf(w.days[d], w.objective)])

LEMMA AmountTyped ==
  ASSUME NEW w \in AdWorlds, NEW k \in {"spend", "impressions", "clicks", "value", "reach"}
  PROVE  Amount(w, k) \in Nat
<1>1. PICK D, s : D = DatesAsked(w) /\ s = DaysAsked(w)
  OBVIOUS
<1>2. IsFiniteSet(D) /\ DOMAIN s = D
  BY <1>1, WindowIs, DaysAskedAre
<1>3. \A d \in D : s[d][k] \in Nat
  <2>1. ASSUME NEW d \in D PROVE s[d][k] \in Nat
    <3>1. PICK day \in Activities : day = s[d]
      BY <1>1, <2>1, DaysAskedAre
    <3> QED
      BY <3>1, DayTyped
  <2> QED
    BY <2>1
<1>4. TotalColumn(s, k) \in Nat
  BY <1>2, <1>3, ColumnTyped
<1> QED
  BY <1>1, <1>4 DEF Amount

\* The counts of each platform, in its own columns and unit.
LEMMA MetaAmounts ==
  ASSUME NEW w \in AdWorlds, NEW k \in {"spend", "impressions", "clicks"}
  PROVE  TotalColumn(MetaRows(w), k) = Amount(w, k)
<1>1. PICK D, s, t : D = DatesAsked(w) /\ s = DaysAsked(w) /\ t = MetaRows(w)
  OBVIOUS
<1>2. IsFiniteSet(D) /\ DOMAIN s = D
  BY <1>1, WindowIs, DaysAskedAre
<1>3. DOMAIN t = D
  BY <1>1 DEF MetaRows
<1>4. ASSUME NEW d \in D PROVE s[d][k] \in Int /\ t[d][k] = s[d][k]
  <2>1. PICK day \in Activities : day = s[d] /\ day = w.days[d]
    BY <1>1, <1>4, DaysAskedAre
  <2>2. day[k] \in Nat
    BY DayTyped
  <2>3. t[d].spend = day.spend /\ t[d].impressions = day.impressions /\ t[d].clicks = day.clicks
    BY <1>1, <1>4, <2>1 DEF MetaRows
  <2> QED
    BY <2>1, <2>2, <2>3
<1>5. TotalColumn(t, k) = TotalColumn(s, k)
  BY <1>2, <1>3, <1>4, ColumnSame
<1> QED
  BY <1>1, <1>5 DEF Amount

LEMMA GoogleAmounts ==
  ASSUME NEW w \in AdWorlds
  PROVE  /\ Cents(TotalColumn(GoogleRows(w), "costMicros")) = Amount(w, "spend")
         /\ \A k \in {"impressions", "clicks"} : TotalColumn(GoogleRows(w), k) = Amount(w, k)
         /\ TotalColumn(GoogleRows(w), "conversions") = GoalsOf(w)
         /\ TotalColumn(GoogleRows(w), "conversionsValue") = Amount(w, "value")
<1>1. PICK D, s, t : D = DatesAsked(w) /\ s = DaysAsked(w) /\ t = GoogleRows(w)
  OBVIOUS
<1>2. IsFiniteSet(D) /\ DOMAIN s = D
  BY <1>1, WindowIs, DaysAskedAre
<1>3. DOMAIN t = D
  BY <1>1 DEF GoogleRows
<1>4. ASSUME NEW d \in D
      PROVE  /\ s[d].spend \in Nat /\ s[d].impressions \in Nat /\ s[d].clicks \in Nat /\ s[d].value \in Nat
             /\ t[d].costMicros = Micros(s[d].spend) /\ t[d].impressions = s[d].impressions
             /\ t[d].clicks = s[d].clicks /\ t[d].conversionsValue = s[d].value
             /\ t[d].conversions = GoalOf(w.days[d], w.objective) /\ GoalOf(w.days[d], w.objective) \in Nat
  <2>1. PICK day \in Activities : day = s[d] /\ day = w.days[d]
    BY <1>1, <1>4, DaysAskedAre
  <2>2. day.spend \in Nat /\ day.impressions \in Nat /\ day.clicks \in Nat /\ day.value \in Nat
    BY DEF Activities
  <2>3. GoalOf(day, w.objective) \in Nat
    BY DayTyped
  <2>4. t[d] = [costMicros |-> Micros(day.spend), impressions |-> day.impressions, clicks |-> day.clicks,
                conversions |-> GoalOf(day, w.objective), conversionsValue |-> day.value]
    BY <1>1, <1>4, <2>1 DEF GoogleRows
  <2> QED
    BY <2>1, <2>2, <2>3, <2>4
<1>5. Cents(TotalColumn(t, "costMicros")) = TotalColumn(s, "spend")
  <2>1. PICK g : g = [d \in D |-> t[d].costMicros]
    OBVIOUS
  <2>2. DOMAIN g = D /\ \A d \in D : s[d]["spend"] \in Nat /\ g[d] = Micros(s[d]["spend"])
    BY <1>4, <2>1
  <2>3. Cents(SumFunction(g)) = TotalColumn(s, "spend")
    BY <1>2, <2>2, TotalInMicros
  <2> QED
    BY <1>3, <2>1, <2>3 DEF TotalColumn
<1>6. ASSUME NEW k \in {"impressions", "clicks"} PROVE TotalColumn(t, k) = TotalColumn(s, k)
  <2>1. \A d \in D : s[d][k] \in Int /\ t[d][k] = s[d][k]
    BY <1>4
  <2> QED
    BY <1>2, <1>3, <2>1, ColumnSame
<1>7. TotalColumn(t, "conversionsValue") = TotalColumn(s, "value")
  <2>1. \A d \in D : s[d]["value"] \in Int /\ t[d]["conversionsValue"] = s[d]["value"]
    BY <1>4
  <2> QED
    BY <1>2, <1>3, <2>1, ColumnSame
<1>8. TotalColumn(t, "conversions") = GoalsOf(w)
  <2>1. PICK f, g : f = [d \in D |-> GoalOf(w.days[d], w.objective)] /\ g = [d \in D |-> t[d]["conversions"]]
    OBVIOUS
  <2>2. DOMAIN f = D /\ DOMAIN g = D /\ \A d \in D : f[d] \in Int /\ f[d] = g[d]
    BY <1>4, <2>1
  <2>3. Sum(f, D) = Sum(g, D)
    BY <1>2, <2>2, SumSame
  <2>4. GoalsOf(w) = Sum(f, D)
    BY <1>1, <2>1, <2>2 DEF GoalsOf, SumFunction, Sum
  <2>5. TotalColumn(t, "conversions") = Sum(g, D)
    BY <1>3, <2>1, <2>2 DEF TotalColumn, SumFunction, Sum
  <2> QED
    BY <2>3, <2>4, <2>5
<1> QED
  BY <1>1, <1>5, <1>6, <1>7, <1>8 DEF Amount

LEMMA TikTokAmounts ==
  ASSUME NEW w \in AdWorlds
  PROVE  /\ TikTokRow(w).spend = Amount(w, "spend") /\ TikTokRow(w).impressions = Amount(w, "impressions")
         /\ TikTokRow(w).clicks = Amount(w, "clicks") /\ TikTokRow(w).conversions = GoalsOf(w)
         /\ TikTokRow(w).total_purchase_value = Amount(w, "value")
         /\ TikTokRow(w).app_event_purchase = (IF w.names = "several" THEN GoalsOf(w) ELSE 0)
  BY DEF TikTokRow, Amount, GoalsOf

LEMMA SnapRowIs ==
  ASSUME NEW w \in AdWorlds, NEW d \in ClockAsked(w)
  PROVE  /\ DaysAsked(w)[d] = w.days[d] /\ w.days[d] \in Activities
         /\ SnapRows(w)[d] =
              [spend |-> Micros(w.days[d].spend), impressions |-> w.days[d].impressions, swipes |-> w.days[d].clicks,
               uniques |-> w.days[d].reach, conversion_purchases |-> w.days[d].purchases,
               conversion_sign_ups |-> w.days[d].leads,
               conversions |-> IF w.names = "several" \/ w.objective = "APP_INSTALLS"
                                 THEN GoalOf(w.days[d], w.objective) ELSE 0,
               conversion_purchase_value_micro |-> Micros(w.days[d].value),
               conversion_purchases_value |-> IF w.names = "several" THEN w.days[d].value ELSE 0]
<1>1. d \in DatesAsked(w)
  BY WindowIs
<1> QED
  BY <1>1, DaysAskedAre DEF SnapRows

\* Snapchat spent no more than the others, and the same where the clock cuts no day.
LEMMA SnapAmounts ==
  ASSUME NEW w \in AdWorlds
  PROVE  /\ Cents(TotalColumn(SnapRows(w), "spend")) <= Amount(w, "spend")
         /\ CleanEdge(w) => /\ Cents(TotalColumn(SnapRows(w), "spend")) = Amount(w, "spend")
                            /\ TotalColumn(SnapRows(w), "impressions") = Amount(w, "impressions")
                            /\ TotalColumn(SnapRows(w), "swipes") = Amount(w, "clicks")
<1>1. PICK D, C, s, t, r : /\ D = DatesAsked(w) /\ C = ClockAsked(w) /\ s = DaysAsked(w) /\ t = SnapRows(w)
                           /\ r = [d \in C |-> w.days[d]]
  OBVIOUS
<1>2. IsFiniteSet(D) /\ DOMAIN s = D /\ C \in SUBSET D /\ IsFiniteSet(C) /\ DOMAIN r = C
  <2>1. IsFiniteSet(D) /\ DOMAIN s = D /\ C \in SUBSET D
    BY <1>1, WindowIs, DaysAskedAre
  <2> QED
    BY <1>1, <2>1, FS_Subset
<1>3. DOMAIN t = C
  BY <1>1 DEF SnapRows
<1>4. ASSUME NEW d \in C
      PROVE  /\ r[d] = s[d] /\ s[d].impressions \in Nat /\ s[d].clicks \in Nat /\ s[d].spend \in Nat
             /\ t[d].spend = Micros(s[d].spend) /\ t[d].impressions = s[d].impressions /\ t[d].swipes = s[d].clicks
  <2>1. PICK day \in Activities : day = s[d] /\ day = w.days[d]
    BY <1>1, <1>4, SnapRowIs
  <2>2. day.spend \in Nat /\ day.impressions \in Nat /\ day.clicks \in Nat
    BY DEF Activities
  <2>3. t[d].spend = Micros(day.spend) /\ t[d].impressions = day.impressions /\ t[d].swipes = day.clicks
    <3>1. t[d].spend = Micros(w.days[d].spend)
      BY <1>1, <1>4 DEF SnapRows
    <3>2. t[d].impressions = w.days[d].impressions /\ t[d].swipes = w.days[d].clicks
      BY <1>1, <1>4 DEF SnapRows
    <3> QED
      BY <2>1, <3>1, <3>2
  <2>4. r[d] = day
    BY <1>1, <1>4, <2>1
  <2> QED
    BY <2>1, <2>2, <2>3, <2>4
<1>5. Cents(TotalColumn(t, "spend")) = TotalColumn(r, "spend")
  <2>1. PICK g : g = [d \in C |-> t[d].spend]
    OBVIOUS
  <2>2. DOMAIN g = C /\ \A d \in C : r[d]["spend"] \in Nat /\ g[d] = Micros(r[d]["spend"])
    BY <1>4, <2>1
  <2>3. Cents(SumFunction(g)) = TotalColumn(r, "spend")
    BY <1>2, <2>2, TotalInMicros
  <2> QED
    BY <1>3, <2>1, <2>3 DEF TotalColumn
<1>6. TotalColumn(r, "spend") <= TotalColumn(s, "spend")
  <2>1. \A d \in D : s[d]["spend"] \in Nat
    <3>1. ASSUME NEW d \in D PROVE s[d]["spend"] \in Nat
      <4>1. PICK day \in Activities : day = s[d]
        BY <1>1, <3>1, DaysAskedAre
      <4> QED
        BY <4>1, DayTyped
    <3> QED
      BY <3>1
  <2>2. \A d \in C : r[d]["spend"] = s[d]["spend"]
    BY <1>4
  <2> QED
    BY <1>2, <2>1, <2>2, ColumnPart
<1>7. ASSUME C = D
      PROVE  /\ TotalColumn(r, "spend") = TotalColumn(s, "spend")
             /\ TotalColumn(t, "impressions") = TotalColumn(s, "impressions")
             /\ TotalColumn(t, "swipes") = TotalColumn(s, "clicks")
  <2>1. DOMAIN r = D /\ DOMAIN t = D
    BY <1>2, <1>3, <1>7
  <2>2. \A d \in D : s[d]["spend"] \in Int /\ r[d]["spend"] = s[d]["spend"]
    BY <1>4, <1>7
  <2>3. TotalColumn(r, "spend") = TotalColumn(s, "spend")
    BY <1>2, <2>1, <2>2, ColumnSame
  <2>4. \A d \in D : s[d]["impressions"] \in Int /\ t[d]["impressions"] = s[d]["impressions"]
    BY <1>4, <1>7
  <2>5. TotalColumn(t, "impressions") = TotalColumn(s, "impressions")
    BY <1>2, <2>1, <2>4, ColumnSame
  <2>6. \A d \in D : s[d]["clicks"] \in Int /\ t[d]["swipes"] = s[d]["clicks"]
    BY <1>4, <1>7
  <2>7. TotalColumn(t, "swipes") = TotalColumn(s, "clicks")
    BY <1>2, <2>1, <2>6, ColumnSame
  <2> QED
    BY <2>3, <2>5, <2>7
<1> QED
  BY <1>1, <1>5, <1>6, <1>7 DEF Amount, CleanEdge

\* What a campaign of the objective earned.
RevenueOf(w) == IF w.objective = "CONVERSIONS" THEN Amount(w, "value") ELSE 0

LEMMA AddsGoals ==
  ASSUME NEW w \in AdWorlds, NEW f, DOMAIN f = DatesAsked(w),
         \A d \in DatesAsked(w) : f[d] = GoalOf(w.days[d], w.objective)
  PROVE  SumFunction(f) = GoalsOf(w)
<1>1. PICK D, g : D = DatesAsked(w) /\ g = [d \in D |-> GoalOf(w.days[d], w.objective)]
  OBVIOUS
<1>2. DOMAIN g = D /\ \A d \in D : g[d] \in Int /\ g[d] = f[d]
  <2>1. \A d \in D : w.days[d] \in Activities
    BY <1>1, WindowIs
  <2>2. \A d \in D : GoalOf(w.days[d], w.objective) \in Int
    BY <2>1, DayTyped
  <2> QED
    BY <1>1, <2>2
<1>3. Sum(g, D) = Sum(f, D)
  BY <1>1, <1>2, SumSame, WindowIs
<1> QED
  BY <1>1, <1>2, <1>3 DEF GoalsOf, SumFunction, Sum

LEMMA AddsRevenue ==
  ASSUME NEW w \in AdWorlds, NEW f, DOMAIN f = DatesAsked(w),
         \A d \in DatesAsked(w) : f[d] = IF w.objective = "CONVERSIONS" THEN w.days[d].value ELSE 0
  PROVE  SumFunction(f) = RevenueOf(w)
<1>1. PICK D, s : D = DatesAsked(w) /\ s = DaysAsked(w)
  OBVIOUS
<1>2. IsFiniteSet(D) /\ DOMAIN s = D
  BY <1>1, WindowIs, DaysAskedAre
<1>3. CASE w.objective = "CONVERSIONS"
  <2>1. PICK g : g = [d \in D |-> s[d]["value"]]
    OBVIOUS
  <2>2. DOMAIN g = D /\ \A d \in D : g[d] \in Int /\ g[d] = f[d]
    <3>1. ASSUME NEW d \in D PROVE s[d]["value"] \in Int /\ s[d]["value"] = f[d]
      <4>1. PICK day \in Activities : day = s[d] /\ day = w.days[d]
        BY <1>1, <3>1, DaysAskedAre
      <4>2. day["value"] \in Nat
        BY DayTyped
      <4> QED
        BY <1>1, <1>3, <3>1, <4>1, <4>2
    <3> QED
      BY <2>1, <3>1
  <2>3. Sum(g, D) = Sum(f, D)
    BY <1>2, <2>2, SumSame
  <2> QED
    BY <1>1, <1>2, <1>3, <2>1, <2>2, <2>3 DEF RevenueOf, Amount, TotalColumn, SumFunction, Sum
<1>4. CASE w.objective # "CONVERSIONS"
  <2>1. \A d \in D : f[d] = 0
    BY <1>1, <1>4
  <2>2. Sum(f, D) = 0
    BY <1>2, <2>1, ZeroTotal
  <2> QED
    BY <1>1, <1>4, <2>2 DEF RevenueOf, SumFunction, Sum
<1> QED
  BY <1>3, <1>4

LEMMA FewFinite == ASSUME NEW a, NEW b, NEW c PROVE IsFiniteSet({a}) /\ IsFiniteSet({a, b}) /\ IsFiniteSet({a, b, c})
<1>1. IsFiniteSet({a})
  BY FS_Singleton
<1>2. IsFiniteSet({a} \cup {b})
  BY <1>1, FS_AddElement
<1>3. {a} \cup {b} = {a, b} /\ {a, b} \cup {c} = {a, b, c}
  OBVIOUS
<1>4. IsFiniteSet({a, b} \cup {c})
  BY <1>2, <1>3, FS_AddElement
<1> QED
  BY <1>1, <1>2, <1>3, <1>4

\* Where each event has one name, a day's row counts it once, on Meta and on Snapchat.
LEMMA MetaCounts ==
  ASSUME NEW w \in AdWorlds, w.names = "one", NEW d \in DatesAsked(w),
         w.objective \in {"CONVERSIONS", "LEADS", "APP_INSTALLS", "AWARENESS"}
  PROVE  Counted(MetaRows(w)[d].actions, MetaTypes(w.objective).conversion) = GoalOf(w.days[d], w.objective)
<1>1. PICK day \in Activities : day = w.days[d]
  BY WindowIs
<1>2. PICK a : a = MetaRows(w)[d].actions
  OBVIOUS
<1>3. day.purchases \in Int /\ day.leads \in Int /\ day.installs \in Int
  BY DEF Activities
<1>4. /\ a["purchase"] = day.purchases /\ a["lead"] = day.leads /\ a["mobile_app_install"] = day.installs
      /\ a["pixel_purchase"] = 0 /\ a["omni_purchase"] = 0 /\ a["pixel_lead"] = 0
      /\ a["complete_registration"] = 0 /\ a["app_install"] = 0
  BY <1>1, <1>2 DEF MetaRows, ActionTypes
<1>5. CASE w.objective = "CONVERSIONS"
  <2>1. PICK S : S = {"purchase", "pixel_purchase", "omni_purchase"}
    OBVIOUS
  <2>2. IsFiniteSet(S)
    BY <2>1, FewFinite
  <2>3. "purchase" \in S /\ \A k \in S : k # "purchase" => a[k] = 0
    BY <1>4, <2>1
  <2>4. Counted(a, S) = a["purchase"]
    BY <1>3, <1>4, <2>2, <2>3, CountsOne
  <2>5. MetaTypes(w.objective).conversion = S
    BY <1>5, <2>1 DEF MetaTypes
  <2>6. GoalOf(day, w.objective) = day.purchases
    BY <1>5 DEF GoalOf
  <2> QED
    BY <1>1, <1>2, <1>4, <2>4, <2>5, <2>6
<1>6. CASE w.objective = "LEADS"
  <2>1. PICK S : S = {"lead", "pixel_lead", "complete_registration"}
    OBVIOUS
  <2>2. IsFiniteSet(S)
    BY <2>1, FewFinite
  <2>3. "lead" \in S /\ \A k \in S : k # "lead" => a[k] = 0
    BY <1>4, <2>1
  <2>4. Counted(a, S) = a["lead"]
    BY <1>3, <1>4, <2>2, <2>3, CountsOne
  <2>5. MetaTypes(w.objective).conversion = S
    BY <1>6, <2>1 DEF MetaTypes
  <2>6. GoalOf(day, w.objective) = day.leads
    BY <1>6 DEF GoalOf
  <2> QED
    BY <1>1, <1>2, <1>4, <2>4, <2>5, <2>6
<1>7. CASE w.objective = "APP_INSTALLS"
  <2>1. PICK S : S = {"mobile_app_install", "app_install"}
    OBVIOUS
  <2>2. IsFiniteSet(S)
    BY <2>1, FewFinite
  <2>3. "mobile_app_install" \in S /\ \A k \in S : k # "mobile_app_install" => a[k] = 0
    BY <1>4, <2>1
  <2>4. Counted(a, S) = a["mobile_app_install"]
    BY <1>3, <1>4, <2>2, <2>3, CountsOne
  <2>5. MetaTypes(w.objective).conversion = S
    BY <1>7, <2>1 DEF MetaTypes
  <2>6. GoalOf(day, w.objective) = day.installs
    BY <1>7 DEF GoalOf
  <2> QED
    BY <1>1, <1>2, <1>4, <2>4, <2>5, <2>6
<1>8. CASE w.objective = "AWARENESS"
  <2>1. MetaTypes(w.objective).conversion = {} /\ GoalOf(day, w.objective) = 0
    BY <1>8 DEF MetaTypes, GoalOf
  <2> QED
    BY <1>1, <1>2, <2>1, CountsNone
<1> QED
  BY <1>5, <1>6, <1>7, <1>8

LEMMA MetaEarns ==
  ASSUME NEW w \in AdWorlds, w.names = "one", NEW d \in DatesAsked(w),
         w.objective \in {"CONVERSIONS", "LEADS", "AWARENESS"}
  PROVE  Counted(MetaRows(w)[d].values, MetaTypes(w.objective).revenue) =
           IF w.objective = "CONVERSIONS" THEN w.days[d].value ELSE 0
<1>1. PICK day \in Activities : day = w.days[d]
  BY WindowIs
<1>2. PICK a : a = MetaRows(w)[d].values
  OBVIOUS
<1>3. day.value \in Int
  BY DEF Activities
<1>4. a["purchase"] = day.value /\ a["pixel_purchase"] = 0 /\ a["omni_purchase"] = 0
  BY <1>1, <1>2 DEF MetaRows, ActionTypes
<1>5. CASE w.objective = "CONVERSIONS"
  <2>1. PICK S : S = {"purchase", "pixel_purchase", "omni_purchase"}
    OBVIOUS
  <2>2. IsFiniteSet(S)
    BY <2>1, FewFinite
  <2>3. "purchase" \in S /\ \A k \in S : k # "purchase" => a[k] = 0
    BY <1>4, <2>1
  <2>4. Counted(a, S) = a["purchase"]
    BY <1>3, <1>4, <2>2, <2>3, CountsOne
  <2>5. MetaTypes(w.objective).revenue = S
    BY <1>5, <2>1 DEF MetaTypes
  <2> QED
    BY <1>1, <1>2, <1>4, <1>5, <2>4, <2>5
<1>6. CASE w.objective # "CONVERSIONS"
  <2>1. MetaTypes(w.objective).revenue = {}
    BY <1>6 DEF MetaTypes
  <2> QED
    BY <1>2, <1>6, <2>1, CountsNone
<1> QED
  BY <1>5, <1>6

LEMMA SnapCounts ==
  ASSUME NEW w \in AdWorlds, w.names = "one", NEW d \in ClockAsked(w),
         w.objective \in {"CONVERSIONS", "LEADS", "APP_INSTALLS", "AWARENESS"}
  PROVE  Counted(SnapRows(w)[d], SnapFields(w.objective).conversion) = GoalOf(w.days[d], w.objective)
<1>1. PICK day \in Activities : day = w.days[d]
  BY SnapRowIs
<1>2. PICK a : a = SnapRows(w)[d]
  OBVIOUS
<1>3. day.purchases \in Int /\ day.leads \in Int /\ day.installs \in Int
  BY DEF Activities
<1>4. /\ a["conversion_purchases"] = day.purchases /\ a["conversion_sign_ups"] = day.leads
      /\ a["conversions"] = IF w.objective = "APP_INSTALLS" THEN day.installs ELSE 0
  BY <1>1, <1>2 DEF SnapRows, GoalOf
<1>5. CASE w.objective = "CONVERSIONS"
  <2>1. PICK S : S = {"conversion_purchases", "conversions"}
    OBVIOUS
  <2>2. IsFiniteSet(S)
    BY <2>1, FewFinite
  <2>3. "conversion_purchases" \in S /\ \A k \in S : k # "conversion_purchases" => a[k] = 0
    BY <1>4, <1>5, <2>1
  <2>4. Counted(a, S) = a["conversion_purchases"]
    BY <1>3, <1>4, <2>2, <2>3, CountsOne
  <2>5. SnapFields(w.objective).conversion = S
    BY <1>5, <2>1 DEF SnapFields
  <2>6. GoalOf(day, w.objective) = day.purchases
    BY <1>5 DEF GoalOf
  <2> QED
    BY <1>1, <1>2, <1>4, <2>4, <2>5, <2>6
<1>6. CASE w.objective = "LEADS"
  <2>1. PICK S : S = {"conversion_sign_ups", "conversions"}
    OBVIOUS
  <2>2. IsFiniteSet(S)
    BY <2>1, FewFinite
  <2>3. "conversion_sign_ups" \in S /\ \A k \in S : k # "conversion_sign_ups" => a[k] = 0
    BY <1>4, <1>6, <2>1
  <2>4. Counted(a, S) = a["conversion_sign_ups"]
    BY <1>3, <1>4, <2>2, <2>3, CountsOne
  <2>5. SnapFields(w.objective).conversion = S
    BY <1>6, <2>1 DEF SnapFields
  <2>6. GoalOf(day, w.objective) = day.leads
    BY <1>6 DEF GoalOf
  <2> QED
    BY <1>1, <1>2, <1>4, <2>4, <2>5, <2>6
<1>7. CASE w.objective = "APP_INSTALLS"
  <2>1. PICK S : S = {"conversions"}
    OBVIOUS
  <2>2. IsFiniteSet(S)
    BY <2>1, FewFinite
  <2>3. "conversions" \in S /\ a["conversions"] = day.installs /\ \A k \in S : k # "conversions" => a[k] = 0
    BY <1>4, <1>7, <2>1
  <2>4. Counted(a, S) = a["conversions"]
    BY <1>3, <2>2, <2>3, CountsOne
  <2>5. SnapFields(w.objective).conversion = S
    BY <1>7, <2>1 DEF SnapFields
  <2>6. GoalOf(day, w.objective) = day.installs
    BY <1>7 DEF GoalOf
  <2> QED
    BY <1>1, <1>2, <2>3, <2>4, <2>5, <2>6
<1>8. CASE w.objective = "AWARENESS"
  <2>1. SnapFields(w.objective).conversion = {} /\ GoalOf(day, w.objective) = 0
    BY <1>8 DEF SnapFields, GoalOf
  <2> QED
    BY <1>1, <1>2, <2>1, CountsNone
<1> QED
  BY <1>5, <1>6, <1>7, <1>8

\* Snapchat's revenue of a day, in micros.
LEMMA SnapEarns ==
  ASSUME NEW w \in AdWorlds, w.names = "one", NEW d \in ClockAsked(w),
         w.objective \in {"CONVERSIONS", "LEADS", "AWARENESS"}
  PROVE  SnapRowRevenue(SnapRows(w)[d], SnapFields(w.objective).revenue) =
           Micros(IF w.objective = "CONVERSIONS" THEN w.days[d].value ELSE 0)
<1>1. PICK day \in Activities : day = w.days[d]
  BY SnapRowIs
<1>2. PICK a : a = SnapRows(w)[d]
  OBVIOUS
<1>3. day.value \in Int /\ Micros(day.value) \in Int /\ Micros(0) = 0
  BY DEF Activities, Micros
<1>4. a["conversion_purchase_value_micro"] = Micros(day.value) /\ a["conversion_purchases_value"] = 0
  BY <1>1, <1>2 DEF SnapRows
<1>5. CASE w.objective = "CONVERSIONS"
  <2>1. PICK S, f : /\ S = {"conversion_purchase_value_micro", "conversion_purchases_value"}
                    /\ f = [k \in S |-> SnapRevenue(k, a[k])]
    OBVIOUS
  <2>2. IsFiniteSet(S)
    BY <2>1, FewFinite
  <2>3. /\ "conversion_purchase_value_micro" \in S /\ f["conversion_purchase_value_micro"] = Micros(day.value)
        /\ \A k \in S : k # "conversion_purchase_value_micro" => f[k] = 0
    BY <1>3, <1>4, <2>1 DEF SnapRevenue
  <2>4. Sum(f, S) = Micros(day.value)
    BY <1>3, <2>2, <2>3, OneCounts
  <2>5. SnapFields(w.objective).revenue = S
    BY <1>5, <2>1 DEF SnapFields
  <2>6. DOMAIN f = S
    BY <2>1
  <2>7. SnapRowRevenue(a, S) = Sum(f, S)
    BY <2>1, <2>6 DEF SnapRowRevenue, SumFunction, Sum
  <2> QED
    BY <1>1, <1>2, <1>5, <2>4, <2>5, <2>7
<1>6. CASE w.objective # "CONVERSIONS"
  <2>1. SnapFields(w.objective).revenue = {}
    BY <1>6 DEF SnapFields
  <2>2. PICK f : f = [k \in {} |-> SnapRevenue(k, a[k])]
    OBVIOUS
  <2>3. DOMAIN f = {} /\ Sum(f, {}) = 0
    BY <2>2, SumEmpty
  <2>4. SnapRowRevenue(a, {}) = 0
    BY <2>2, <2>3 DEF SnapRowRevenue, SumFunction, Sum
  <2> QED
    BY <1>2, <1>3, <1>6, <2>1, <2>4
<1> QED
  BY <1>5, <1>6

\* What the reports have in common: the ratios are those of the amounts.
Says(m, spent, seen, clicked) ==
  /\ m.spend = spent /\ m.impressions = seen /\ m.clicks = clicked
  /\ m.ctr = Ratio(clicked, 1000000, seen) /\ m.cpc = Ratio(spent, 1, clicked)
  /\ m.cpa = Ratio(spent, 1, m.conversions) /\ m.roas = Ratio(m.revenue, 10000, spent)

LEMMA MetricsSay ==
  ASSUME NEW s, NEW i, NEW c, NEW v, NEW r, NEW h, NEW f
  PROVE  /\ Says(NormalizedMetrics(s, i, c, v, r, h, f), s, i, c)
         /\ NormalizedMetrics(s, i, c, v, r, h, f).conversions = v
         /\ NormalizedMetrics(s, i, c, v, r, h, f).revenue = r
  BY DEF Says, NormalizedMetrics

SnapSpend(w) == Cents(TotalColumn(SnapRows(w), "spend"))

LEMMA AmountsSaid ==
  ASSUME NEW w \in AdWorlds
  PROVE  /\ \A p \in Networks : p # "SNAPCHAT" =>
              Says(MetricsOf(p, w), Amount(w, "spend"), Amount(w, "impressions"), Amount(w, "clicks"))
         /\ Says(MetricsOf("SNAPCHAT", w), SnapSpend(w), TotalColumn(SnapRows(w), "impressions"),
                 TotalColumn(SnapRows(w), "swipes"))
<1>1. Says(MetricsOf("META", w), Amount(w, "spend"), Amount(w, "impressions"), Amount(w, "clicks"))
  <2>1. Says(MetaMetrics(MetaRows(w), w.objective), TotalColumn(MetaRows(w), "spend"),
             TotalColumn(MetaRows(w), "impressions"), TotalColumn(MetaRows(w), "clicks"))
    BY MetricsSay DEF MetaMetrics
  <2> QED
    BY <2>1, MetaAmounts DEF MetricsOf
<1>2. Says(MetricsOf("GOOGLE_ADS", w), Amount(w, "spend"), Amount(w, "impressions"), Amount(w, "clicks"))
  <2>1. Says(GoogleMetrics(GoogleRows(w), w.objective), Cents(TotalColumn(GoogleRows(w), "costMicros")),
             TotalColumn(GoogleRows(w), "impressions"), TotalColumn(GoogleRows(w), "clicks"))
    BY MetricsSay DEF GoogleMetrics
  <2> QED
    BY <2>1, GoogleAmounts DEF MetricsOf
<1>3. Says(MetricsOf("TIKTOK", w), Amount(w, "spend"), Amount(w, "impressions"), Amount(w, "clicks"))
  <2>1. Says(TikTokMetrics(TikTokRow(w), w.objective), TikTokRow(w).spend, TikTokRow(w).impressions, TikTokRow(w).clicks)
    BY MetricsSay DEF TikTokMetrics
  <2> QED
    BY <2>1, TikTokAmounts DEF MetricsOf
<1>4. Says(MetricsOf("SNAPCHAT", w), SnapSpend(w), TotalColumn(SnapRows(w), "impressions"), TotalColumn(SnapRows(w), "swipes"))
  <2>1. Says(SnapMetrics(SnapRows(w), w.objective), Cents(TotalColumn(SnapRows(w), "spend")),
             TotalColumn(SnapRows(w), "impressions"), TotalColumn(SnapRows(w), "swipes"))
    BY MetricsSay DEF SnapMetrics
  <2> QED
    BY <2>1 DEF MetricsOf, SnapSpend
<1> QED
  BY <1>1, <1>2, <1>3, <1>4 DEF Networks

LEMMA ConversionsFit ==
  ASSUME NEW w \in AdWorlds, CleanEdge(w), w.names = "one",
         w.objective \in {"CONVERSIONS", "LEADS", "APP_INSTALLS", "AWARENESS"}
  PROVE  \A p \in Networks : MetricsOf(p, w).conversions = GoalsOf(w)
<1>1. PICK D, o : D = DatesAsked(w) /\ o = w.objective
  OBVIOUS
<1>2. ClockAsked(w) = D
  BY <1>1 DEF CleanEdge
<1>3. MetricsOf("META", w).conversions = GoalsOf(w)
  <2>1. PICK f : f = [d \in D |-> Counted(MetaRows(w)[d].actions, MetaTypes(o).conversion)]
    OBVIOUS
  <2>2. DOMAIN f = DatesAsked(w) /\ \A d \in DatesAsked(w) : f[d] = GoalOf(w.days[d], w.objective)
    BY <1>1, <2>1, MetaCounts
  <2>3. SumFunction(f) = GoalsOf(w)
    BY <2>2, AddsGoals
  <2>4. DOMAIN MetaRows(w) = D
    BY <1>1 DEF MetaRows
  <2>5. MetaMetrics(MetaRows(w), o).conversions = SumFunction(f)
    BY <2>1, <2>4, MetricsSay DEF MetaMetrics
  <2> QED
    BY <1>1, <2>3, <2>5 DEF MetricsOf
<1>4. MetricsOf("SNAPCHAT", w).conversions = GoalsOf(w)
  <2>1. PICK f : f = [d \in D |-> Counted(SnapRows(w)[d], SnapFields(o).conversion)]
    OBVIOUS
  <2>2. DOMAIN f = DatesAsked(w) /\ \A d \in DatesAsked(w) : f[d] = GoalOf(w.days[d], w.objective)
    BY <1>1, <1>2, <2>1, SnapCounts
  <2>3. SumFunction(f) = GoalsOf(w)
    BY <2>2, AddsGoals
  <2>4. DOMAIN SnapRows(w) = D
    BY <1>2 DEF SnapRows
  <2>5. SnapMetrics(SnapRows(w), o).conversions = SumFunction(f)
    BY <2>1, <2>4, MetricsSay DEF SnapMetrics
  <2> QED
    BY <1>1, <2>3, <2>5 DEF MetricsOf
<1>5. GoalsOf(w) \in Int /\ (o = "AWARENESS" => GoalsOf(w) = 0)
  <2>1. PICK f : f = [d \in D |-> GoalOf(w.days[d], w.objective)]
    OBVIOUS
  <2>2. DOMAIN f = D /\ IsFiniteSet(D) /\ \A d \in D : f[d] \in Int
    <3>1. \A d \in D : w.days[d] \in Activities
      BY <1>1, WindowIs
    <3>2. \A d \in D : GoalOf(w.days[d], w.objective) \in Int
      BY <3>1, DayTyped
    <3> QED
      BY <1>1, <2>1, <3>2, WindowIs
  <2>3. GoalsOf(w) = Sum(f, D)
    BY <1>1, <2>1, <2>2 DEF GoalsOf, SumFunction, Sum
  <2>4. ASSUME o = "AWARENESS" PROVE Sum(f, D) = 0
    <3>1. \A d \in D : f[d] = 0
      BY <1>1, <2>1, <2>4 DEF GoalOf
    <3> QED
      BY <2>2, <3>1, ZeroTotal
  <2> QED
    BY <2>2, <2>3, <2>4, SumInt
<1>6. MetricsOf("GOOGLE_ADS", w).conversions = GoalsOf(w)
  <2>1. GoogleMetrics(GoogleRows(w), o).conversions = IF GoogleUses(o).conversions THEN GoalsOf(w) ELSE 0
    BY GoogleAmounts, MetricsSay DEF GoogleMetrics
  <2>2. GoogleUses(o).conversions = (o # "AWARENESS")
    BY <1>1 DEF GoogleUses
  <2> QED
    BY <1>1, <1>5, <2>1, <2>2 DEF MetricsOf
<1>7. MetricsOf("TIKTOK", w).conversions = GoalsOf(w)
  <2>1. PICK row, S : row = TikTokRow(w) /\ S = TikTokFields(o).conversion
    OBVIOUS
  <2>2. TikTokMetrics(row, o).conversions = Counted(row, S)
    BY <2>1, MetricsSay DEF TikTokMetrics
  <2>3. row["conversions"] = GoalsOf(w) /\ row["app_event_purchase"] = 0
    BY <2>1, TikTokAmounts
  <2>4. CASE o = "AWARENESS"
    <3>1. S = {}
      BY <2>1, <2>4 DEF TikTokFields
    <3>2. Counted(row, S) = 0
      BY <3>1, CountsNone
    <3> QED
      BY <1>1, <1>5, <2>1, <2>2, <2>4, <3>2 DEF MetricsOf
  <2>5. CASE o # "AWARENESS"
    <3>1. S = {"conversions"} \/ S = {"app_event_purchase", "conversions"}
      BY <1>1, <2>1, <2>5 DEF TikTokFields
    <3>2. IsFiniteSet(S)
      BY <3>1, FewFinite
    <3>3. "conversions" \in S /\ \A k \in S : k # "conversions" => row[k] = 0
      BY <2>3, <3>1
    <3>4. Counted(row, S) = row["conversions"]
      BY <1>5, <2>3, <3>2, <3>3, CountsOne
    <3> QED
      BY <1>1, <2>1, <2>2, <2>3, <3>4 DEF MetricsOf
  <2> QED
    BY <2>4, <2>5
<1> QED
  BY <1>3, <1>4, <1>6, <1>7 DEF Networks

LEMMA RevenueFits ==
  ASSUME NEW w \in AdWorlds, CleanEdge(w), w.names = "one", w.objective \in {"CONVERSIONS", "LEADS", "AWARENESS"}
  PROVE  \A p \in Networks : MetricsOf(p, w).revenue = RevenueOf(w)
<1>1. PICK D, o : D = DatesAsked(w) /\ o = w.objective
  OBVIOUS
<1>2. ClockAsked(w) = D
  BY <1>1 DEF CleanEdge
<1>3. MetricsOf("META", w).revenue = RevenueOf(w)
  <2>1. PICK f : f = [d \in D |-> Counted(MetaRows(w)[d].values, MetaTypes(o).revenue)]
    OBVIOUS
  <2>2. /\ DOMAIN f = DatesAsked(w)
        /\ \A d \in DatesAsked(w) : f[d] = IF w.objective = "CONVERSIONS" THEN w.days[d].value ELSE 0
    BY <1>1, <2>1, MetaEarns
  <2>3. SumFunction(f) = RevenueOf(w)
    BY <2>2, AddsRevenue
  <2>4. DOMAIN MetaRows(w) = D
    BY <1>1 DEF MetaRows
  <2>5. MetaMetrics(MetaRows(w), o).revenue = SumFunction(f)
    BY <2>1, <2>4, MetricsSay DEF MetaMetrics
  <2> QED
    BY <1>1, <2>3, <2>5 DEF MetricsOf
<1>4. MetricsOf("SNAPCHAT", w).revenue = RevenueOf(w)
  <2>1. PICK f, g : /\ f = [d \in D |-> SnapRowRevenue(SnapRows(w)[d], SnapFields(o).revenue)]
                    /\ g = [d \in D |-> IF o = "CONVERSIONS" THEN w.days[d].value ELSE 0]
    OBVIOUS
  <2>2. DOMAIN f = D /\ DOMAIN g = D
    BY <2>1
  <2>3. \A d \in D : f[d] = Micros(g[d])
    BY <1>1, <1>2, <2>1, SnapEarns
  <2>4. SumFunction(g) = RevenueOf(w)
    <3>1. \A d \in DatesAsked(w) : g[d] = IF w.objective = "CONVERSIONS" THEN w.days[d].value ELSE 0
      BY <1>1, <2>1
    <3> QED
      BY <1>1, <2>2, <3>1, AddsRevenue
  <2>5. \A d \in D : g[d] \in Nat
    <3>1. ASSUME NEW d \in D PROVE g[d] \in Nat
      <4>1. PICK day \in Activities : day = w.days[d]
        BY <1>1, <3>1, WindowIs
      <4>2. day.value \in Nat
        BY DEF Activities
      <4> QED
        BY <2>1, <3>1, <4>1, <4>2
    <3> QED
      BY <3>1
  <2>6. PICK s : s = [d \in D |-> [value |-> g[d]]]
    OBVIOUS
  <2>7. DOMAIN s = D /\ \A d \in D : s[d]["value"] \in Nat /\ f[d] = Micros(s[d]["value"])
    BY <2>3, <2>5, <2>6
  <2>8. Cents(SumFunction(f)) = TotalColumn(s, "value")
    BY <1>1, <2>2, <2>7, TotalInMicros, WindowIs
  <2>9. TotalColumn(s, "value") = SumFunction(g)
    <3>1. PICK h : h = [d \in D |-> s[d]["value"]]
      OBVIOUS
    <3>2. h = g
      BY <2>1, <2>6, <3>1
    <3> QED
      BY <2>7, <3>1, <3>2 DEF TotalColumn
  <2>10. DOMAIN SnapRows(w) = D
    BY <1>2 DEF SnapRows
  <2>11. SnapMetrics(SnapRows(w), o).revenue = Cents(SumFunction(f))
    BY <2>1, <2>10, MetricsSay DEF SnapMetrics
  <2> QED
    BY <1>1, <2>4, <2>8, <2>9, <2>11 DEF MetricsOf
<1>5. Amount(w, "value") \in Nat
  BY AmountTyped
<1>6. MetricsOf("GOOGLE_ADS", w).revenue = RevenueOf(w)
  <2>1. GoogleMetrics(GoogleRows(w), o).revenue = IF GoogleUses(o).value THEN Amount(w, "value") ELSE 0
    BY GoogleAmounts, MetricsSay DEF GoogleMetrics
  <2>2. GoogleUses(o).value = (o = "CONVERSIONS")
    BY <1>1 DEF GoogleUses
  <2> QED
    BY <1>1, <2>1, <2>2 DEF MetricsOf, RevenueOf
<1>7. MetricsOf("TIKTOK", w).revenue = RevenueOf(w)
  <2>1. PICK row, S : row = TikTokRow(w) /\ S = TikTokFields(o).revenue
    OBVIOUS
  <2>2. TikTokMetrics(row, o).revenue = Counted(row, S)
    BY <2>1, MetricsSay DEF TikTokMetrics
  <2>3. row["total_purchase_value"] = Amount(w, "value")
    BY <2>1, TikTokAmounts
  <2>4. CASE o # "CONVERSIONS"
    <3>1. S = {}
      BY <1>1, <2>1, <2>4 DEF TikTokFields
    <3>2. Counted(row, S) = 0
      BY <3>1, CountsNone
    <3> QED
      BY <1>1, <2>1, <2>2, <2>4, <3>2 DEF MetricsOf, RevenueOf
  <2>5. CASE o = "CONVERSIONS"
    <3>1. S = {"total_purchase_value"}
      BY <2>1, <2>5 DEF TikTokFields
    <3>2. IsFiniteSet(S)
      BY <3>1, FewFinite
    <3>3. "total_purchase_value" \in S /\ \A k \in S : k # "total_purchase_value" => row[k] = 0
      BY <3>1
    <3>4. row["total_purchase_value"] \in Int
      BY <1>5, <2>3
    <3>5. Counted(row, S) = row["total_purchase_value"]
      BY <3>2, <3>3, <3>4, CountsOne
    <3> QED
      BY <1>1, <2>1, <2>2, <2>3, <2>5, <3>5 DEF MetricsOf, RevenueOf
  <2> QED
    BY <2>4, <2>5
<1> QED
  BY <1>3, <1>4, <1>6, <1>7 DEF Networks

\* What a listing says of a campaign and its ad set.
ListFits(p, raw) ==
  LET c == ListOf(p, raw).campaign
  IN c # None =>
       /\ raw.state = "on" => c.status = "ACTIVE"
       /\ c.status = "ACTIVE" => raw.state = "on" \/ p = "TIKTOK"
       /\ raw.adSetDaily # None \/ raw.daily # None \/ raw.lifetime # None
            => c.isCbo # (ListOf(p, raw).adSet.daily # None)

LEMMA ListsFit ==
  ASSUME NEW w \in AdWorlds, NEW p \in Networks
  PROVE  ListFits(p, w.campaign)
<1>1. PICK raw \in RawCampaigns : raw = w.campaign
  BY ProviderMetricsAssumption
<1>2. raw.adSetDaily = None \/ (raw.daily = None /\ raw.lifetime = None)
  BY <1>1, ProviderMetricsAssumption
<1>3. raw.state \in {"on", "off", "archived", "removed"}
  BY DEF RawCampaigns
<1>4. CASE p = "META"
  <2>1. ListOf(p, raw) = MetaLists(raw)
    BY <1>4 DEF ListOf
  <2>2. PICK c, s : c = MetaCampaign(raw) /\ s = MetaAdSet(raw)
    OBVIOUS
  <2>3. (raw.state = "on") <=> (c.status = "ACTIVE")
    BY <1>3, <2>2 DEF MetaCampaign, MetaStatus, CampaignOf, Word
  <2>4. c.isCbo = (raw.daily # None \/ raw.lifetime # None)
    BY <2>2 DEF MetaCampaign, CampaignOf
  <2>5. s.daily = raw.adSetDaily
    BY <2>2 DEF MetaAdSet, AdSetOf
  <2>6. ListOf(p, raw).campaign = c /\ ListOf(p, raw).adSet = s
    BY <2>1, <2>2 DEF MetaLists, Listing
  <2> QED
    BY <1>1, <1>2, <1>4, <2>3, <2>4, <2>5, <2>6 DEF ListFits
<1>5. CASE p = "GOOGLE_ADS"
  <2>1. ListOf(p, raw) = GoogleLists(raw)
    BY <1>5 DEF ListOf
  <2>2. PICK c, s : c = GoogleCampaign(raw) /\ s = GoogleAdSet(raw)
    OBVIOUS
  <2>3. raw.state # "removed" => ((raw.state = "on") <=> (c.status = "ACTIVE"))
    BY <1>3, <2>2 DEF GoogleCampaign, GoogleStatus, CampaignOf, Word
  <2>4. c.isCbo = TRUE /\ s.daily = None
    BY <2>2 DEF GoogleCampaign, CampaignOf, GoogleAdSet, AdSetOf
  <2>5. CASE raw.state = "removed"
    <3>1. ListOf(p, raw).campaign = None
      BY <2>1, <2>5 DEF GoogleLists, Listing
    <3> QED
      BY <1>1, <3>1 DEF ListFits
  <2>6. CASE raw.state # "removed"
    <3>1. ListOf(p, raw).campaign = c /\ ListOf(p, raw).adSet = s
      BY <2>1, <2>2, <2>6 DEF GoogleLists, Listing
    <3> QED
      BY <1>1, <1>5, <2>3, <2>4, <2>6, <3>1 DEF ListFits
  <2> QED
    BY <2>5, <2>6
<1>6. CASE p = "SNAPCHAT"
  <2>1. ListOf(p, raw) = SnapLists(raw)
    BY <1>6 DEF ListOf
  <2> QED
    BY <1>1, <1>2, <1>3, <1>6, <2>1
    DEF ListFits, SnapLists, Listing, SnapCampaign, SnapAdSet, CampaignOf, AdSetOf, SnapStatus, MetaStatus, Word
<1>7. CASE p = "TIKTOK"
  <2>1. ListOf(p, raw) = TikTokLists(raw)
    BY <1>7 DEF ListOf
  <2>2. PICK c, s : c = TikTokCampaign(raw) /\ s = TikTokAdSet(raw)
    OBVIOUS
  <2>3. raw.state = "on" => c.status = "ACTIVE"
    BY <2>2 DEF TikTokCampaign, TikTokStatus, CampaignOf, Word
  <2>4. c.isCbo = (raw.lifetime # None \/ raw.daily # None)
    BY <2>2 DEF TikTokCampaign, CampaignOf
  <2>5. s.daily = raw.adSetDaily
    BY <2>2 DEF TikTokAdSet, AdSetOf
  <2>6. ListOf(p, raw).campaign = c /\ ListOf(p, raw).adSet = s
    BY <2>1, <2>2 DEF TikTokLists, Listing
  <2> QED
    BY <1>1, <1>2, <1>7, <2>3, <2>4, <2>5, <2>6 DEF ListFits
<1> QED
  BY <1>4, <1>5, <1>6, <1>7 DEF Networks

\* What the adapters have reported is what they make of the world.
ReportsOf(w) == [p \in Networks |-> [metrics |-> MetricsOf(p, w), list |-> ListOf(p, w.campaign)]]
MetricsInv == adWorld \in AdWorlds /\ adReports \in {None, ReportsOf(adWorld)}

LEMMA ReportsAgree == MetricsInv => PlatformsAgree
<1> SUFFICES ASSUME MetricsInv, adReports # None PROVE PlatformsAgree
  BY DEF PlatformsAgree
<1>1. PICK w \in AdWorlds : w = adWorld
  BY DEF MetricsInv
<1>2. PICK r : r = adReports
  OBVIOUS
<1>3. \A p \in Networks : r[p].metrics = MetricsOf(p, w) /\ r[p].list = ListOf(p, w.campaign)
  BY <1>1, <1>2 DEF MetricsInv, ReportsOf
<1>4. ASSUME NEW p \in Networks, NEW f PROVE Report(p, f) = MetricsOf(p, w)[f]
  BY <1>2, <1>3, <1>4 DEF Report
<1>5. "META" \in Networks /\ "SNAPCHAT" \in Networks
  BY DEF Networks
<1>6. PICK s, i, c : s = Amount(w, "spend") /\ i = Amount(w, "impressions") /\ c = Amount(w, "clicks")
  OBVIOUS
<1>7. ASSUME NEW p \in Networks, p # "SNAPCHAT" \/ CleanEdge(w) PROVE Says(MetricsOf(p, w), s, i, c)
  <2>1. CASE p # "SNAPCHAT"
    BY <1>6, <2>1, AmountsSaid
  <2>2. CASE p = "SNAPCHAT" /\ CleanEdge(w)
    <3>1. SnapSpend(w) = s /\ TotalColumn(SnapRows(w), "impressions") = i /\ TotalColumn(SnapRows(w), "swipes") = c
      BY <1>6, <2>2, SnapAmounts DEF SnapSpend
    <3> QED
      BY <2>2, <3>1, AmountsSaid
  <2> QED
    BY <1>7, <2>1, <2>2
<1>8. ASSUME NEW p \in Networks, p # "SNAPCHAT" \/ CleanEdge(w), NEW f \in {"spend", "impressions", "clicks", "ctr", "cpc"}
      PROVE  Report(p, f) = Report("META", f)
  <2>1. Says(MetricsOf(p, w), s, i, c) /\ Says(MetricsOf("META", w), s, i, c)
    BY <1>5, <1>7, <1>8
  <2>2. MetricsOf(p, w)[f] = MetricsOf("META", w)[f]
    BY <2>1 DEF Says
  <2> QED
    BY <1>4, <1>5, <2>2
<1>9. ASSUME NEW p \in Networks
      PROVE  /\ Report(p, "spend") >= Report("SNAPCHAT", "spend")
             /\ (Report(p, "conversions") = 0 => Report(p, "cpa") = 0)
             /\ (Report(p, "spend") = 0 => Report(p, "roas") = 0)
  <2>1. s \in Nat
    BY <1>6, AmountTyped
  <2>2. SnapSpend(w) <= s
    BY <1>6, SnapAmounts DEF SnapSpend
  <2>3. SnapSpend(w) \in Int
    <3>1. PICK D, t : D = ClockAsked(w) /\ t = SnapRows(w)
      OBVIOUS
    <3>2. PICK u : u = [d \in D |-> [spend |-> w.days[d].spend]]
      OBVIOUS
    <3>3. PICK g : g = [d \in D |-> t[d].spend]
      OBVIOUS
    <3>4. IsFiniteSet(D)
      BY <3>1, FS_Subset, WindowIs
    <3>5. \A d \in D : u[d]["spend"] \in Nat /\ g[d] = Micros(u[d]["spend"])
      <4>1. ASSUME NEW d \in D PROVE u[d]["spend"] \in Nat /\ g[d] = Micros(u[d]["spend"])
        <5>1. PICK day \in Activities : day = w.days[d]
          BY <3>1, <4>1, SnapRowIs
        <5>2. day.spend \in Nat
          BY DEF Activities
        <5>3. t[d].spend = Micros(w.days[d].spend)
          BY <3>1, <4>1 DEF SnapRows
        <5> QED
          BY <3>2, <3>3, <4>1, <5>1, <5>2, <5>3
      <4> QED
        BY <4>1
    <3>6. DOMAIN u = D /\ DOMAIN g = D /\ DOMAIN t = D
      BY <3>1, <3>2, <3>3 DEF SnapRows
    <3>7. Cents(SumFunction(g)) = TotalColumn(u, "spend")
      BY <3>4, <3>5, <3>6, TotalInMicros
    <3>8. TotalColumn(u, "spend") \in Nat
      BY <3>4, <3>5, <3>6, ColumnTyped
    <3> QED
      BY <3>1, <3>3, <3>6, <3>7, <3>8 DEF SnapSpend, TotalColumn
  <2>4. PICK x, y, z : Says(MetricsOf(p, w), x, y, z) /\ (x = s \/ x = SnapSpend(w))
    BY <1>6, AmountsSaid
  <2>5. Report(p, "spend") = x /\ Report("SNAPCHAT", "spend") = SnapSpend(w)
    BY <1>4, <1>5, <2>4, AmountsSaid DEF Says
  <2>6. Report(p, "cpa") = Ratio(x, 1, Report(p, "conversions")) /\ Report(p, "roas") = Ratio(Report(p, "revenue"), 10000, x)
    BY <1>4, <2>4 DEF Says
  <2> QED
    BY <2>1, <2>2, <2>3, <2>4, <2>5, <2>6 DEF Ratio
<1>10. ASSUME CleanEdge(w), w.names = "one", NEW p \in Networks
       PROVE  /\ w.objective \in {"CONVERSIONS", "LEADS", "APP_INSTALLS", "AWARENESS"} =>
                   \A f \in {"conversions", "cpa"} : Report(p, f) = Report("META", f)
              /\ w.objective \in {"CONVERSIONS", "LEADS", "AWARENESS"} =>
                   \A f \in {"revenue", "roas"} : Report(p, f) = Report("META", f)
  <2>1. Says(MetricsOf(p, w), s, i, c) /\ Says(MetricsOf("META", w), s, i, c)
    BY <1>5, <1>7, <1>10
  <2>2. ASSUME w.objective \in {"CONVERSIONS", "LEADS", "APP_INSTALLS", "AWARENESS"}, NEW f \in {"conversions", "cpa"}
        PROVE  Report(p, f) = Report("META", f)
    <3>1. MetricsOf(p, w).conversions = MetricsOf("META", w).conversions
      BY <1>5, <1>10, <2>2, ConversionsFit
    <3>2. MetricsOf(p, w)[f] = MetricsOf("META", w)[f]
      BY <2>1, <3>1 DEF Says
    <3> QED
      BY <1>4, <1>5, <3>2
  <2>3. ASSUME w.objective \in {"CONVERSIONS", "LEADS", "AWARENESS"}, NEW f \in {"revenue", "roas"}
        PROVE  Report(p, f) = Report("META", f)
    <3>1. MetricsOf(p, w).revenue = MetricsOf("META", w).revenue
      BY <1>5, <1>10, <2>3, RevenueFits
    <3>2. MetricsOf(p, w)[f] = MetricsOf("META", w)[f]
      BY <2>1, <3>1 DEF Says
    <3> QED
      BY <1>4, <1>5, <3>2
  <2> QED
    BY <2>2, <2>3
<1>11. ASSUME NEW p \in Networks
       PROVE  LET k   == adReports[p].list.campaign
                  set == adReports[p].list.adSet
                  raw == adWorld.campaign
              IN k # None =>
                   /\ raw.state = "on" => k.status = "ACTIVE"
                   /\ k.status = "ACTIVE" => raw.state = "on" \/ p = "TIKTOK"
                   /\ raw.adSetDaily # None \/ raw.daily # None \/ raw.lifetime # None => k.isCbo # (set.daily # None)
  BY <1>1, <1>2, <1>3, ListsFit DEF ListFits
<1> QED
  BY <1>1, <1>8, <1>9, <1>10, <1>11 DEF PlatformsAgree

\* The four adapters make the same of the same activity (the mappers and their conversion
\* configurations): for any number of days with any counts, objective and window, and any
\* campaign whose budget is its own or its ad sets'.
THEOREM AdaptersCorrect == MetricsSpec => []PlatformsAgree
<1>1. MetricsInit => MetricsInv
  BY DEF MetricsInit, MetricsInv
<1>2. MetricsInv /\ [MetricsNext]_metricsVars => MetricsInv'
  <2> SUFFICES ASSUME MetricsInv, [MetricsNext]_metricsVars PROVE MetricsInv'
    OBVIOUS
  <2>1. CASE FetchAll
    <3>1. adWorld' = adWorld /\ adReports' = ReportsOf(adWorld)
      BY <2>1 DEF FetchAll, ReportsOf
    <3>2. ReportsOf(adWorld)' = ReportsOf(adWorld)
      BY <3>1
    <3> QED
      BY <3>1, <3>2 DEF MetricsInv
  <2>2. CASE UNCHANGED metricsVars
    <3>1. adWorld' = adWorld /\ adReports' = adReports
      BY <2>2 DEF metricsVars
    <3>2. ReportsOf(adWorld)' = ReportsOf(adWorld)
      BY <3>1
    <3> QED
      BY <3>1, <3>2 DEF MetricsInv
  <2> QED
    BY <2>1, <2>2 DEF MetricsNext
<1> QED
  BY <1>1, <1>2, ReportsAgree, PTL DEF MetricsSpec

-----------------------------------------------------------------------------
(* What is learned from campaigns: Outcomes.                               *)

\* In a run of days there is a median, and it has half of the days on either side.
SpentUpTo(days, m) == {i \in DOMAIN days : days[i].spend <= m}
SpentBelow(days, m) == {i \in DOMAIN days : days[i].spend < m}
DaysTypedAs(days, n) == DOMAIN days = 1..n /\ Len(days) = n /\ \A i \in 1..n : days[i].spend \in Nat

LEMMA MedianIs ==
  ASSUME NEW n \in Nat \ {0}, NEW days, DaysTypedAs(days, n)
  PROVE  /\ MedianSpend(days) \in Nat
         /\ Cardinality(SpentUpTo(days, MedianSpend(days))) > n \div 2
<1>1. PICK I, g : I = 1..n /\ g = [i \in I |-> days[i].spend]
  OBVIOUS
<1>2. IsFiniteSet(I) /\ Cardinality(I) = n /\ I # {}
  <2>1. PICK a \in Int, b \in Int : a = 1 /\ b = n
    OBVIOUS
  <2>2. IsFiniteSet(a..b) /\ Cardinality(a..b) = b
    BY <2>1, FS_Interval
  <2>3. 1 \in I
    BY <1>1
  <2> QED
    BY <1>1, <2>1, <2>2, <2>3
<1>3. \A i \in I : g[i] = days[i].spend /\ g[i] \in Nat
  BY <1>1 DEF DaysTypedAs
<1>4. DOMAIN days = I /\ Len(days) = n
  BY <1>1 DEF DaysTypedAs
<1>5. PICK h \in Nat : h = n \div 2 /\ h < n
  OBVIOUS
<1>6. PICK Good : Good = {i \in I : Cardinality(SpentUpTo(days, g[i])) > h}
  OBVIOUS
<1>7. Good # {}
  <2>1. \A i \in I : g[i] \in Int
    BY <1>3
  <2>2. PICK m \in I : \A i \in I : g[i] <= g[m]
    BY <1>2, <2>1, LargestOf
  <2>3. SpentUpTo(days, g[m]) = I
    BY <1>3, <1>4, <2>2 DEF SpentUpTo
  <2> QED
    BY <1>2, <1>5, <1>6, <2>2, <2>3
<1>8. PICK k \in Good : \A i \in Good : g[k] <= g[i]
  <2>1. Good \in SUBSET I
    BY <1>6
  <2>2. IsFiniteSet(Good) /\ \A i \in Good : g[i] \in Int
    BY <1>2, <1>3, <2>1, FS_Subset
  <2> QED
    BY <1>7, <2>2, LeastOf
<1>9. k \in I /\ Cardinality(SpentUpTo(days, g[k])) > h
  BY <1>6, <1>8
<1>10. PICK B : B = SpentBelow(days, g[k])
  OBVIOUS
<1>11. B \in SUBSET I /\ IsFiniteSet(B)
  <2>1. B \in SUBSET I
    BY <1>4, <1>10 DEF SpentBelow
  <2> QED
    BY <1>2, <2>1, FS_Subset
<1>12. Cardinality(B) <= h
  <2>1. CASE B = {}
    BY <1>5, <2>1, FS_EmptySet
  <2>2. CASE B # {}
    <3>1. \A i \in B : g[i] \in Int
      BY <1>3, <1>11
    <3>2. PICK u \in B : \A i \in B : g[i] <= g[u]
      BY <1>11, <2>2, <3>1, LargestOf
    <3>3. u \in I /\ g[u] < g[k]
      BY <1>3, <1>4, <1>10, <3>2 DEF SpentBelow
    <3>4. SpentUpTo(days, g[u]) = B
      <4>1. ASSUME NEW i \in I, days[i].spend <= g[u] PROVE i \in B
        <5>1. days[i].spend < g[k]
          BY <1>3, <1>9, <3>3, <4>1
        <5> QED
          BY <1>4, <1>10, <5>1 DEF SpentBelow
      <4>2. ASSUME NEW i \in B PROVE i \in I /\ days[i].spend <= g[u]
        BY <1>3, <1>11, <3>2
      <4> QED
        BY <1>4, <4>1, <4>2 DEF SpentUpTo
    <3>5. u \notin Good
      BY <1>3, <1>8, <1>9, <3>3
    <3>6. ~(Cardinality(B) > h)
      BY <1>6, <3>3, <3>4, <3>5
    <3>7. Cardinality(B) \in Nat
      BY <1>11, FS_CardinalityType
    <3> QED
      BY <1>5, <3>6, <3>7
  <2> QED
    BY <2>1, <2>2
<1>13. PICK V : V = {days[i].spend : i \in DOMAIN days}
  OBVIOUS
<1>14. g[k] \in V /\ V \subseteq Nat
  BY <1>3, <1>4, <1>9, <1>13
<1>15. \E m \in V : Cardinality(SpentBelow(days, m)) <= h /\ Cardinality(SpentUpTo(days, m)) > h
  BY <1>9, <1>10, <1>12, <1>14
<1>16. MedianSpend(days) = CHOOSE m \in V : Cardinality(SpentBelow(days, m)) <= h /\ Cardinality(SpentUpTo(days, m)) > h
  BY <1>4, <1>5, <1>13 DEF MedianSpend, SpentBelow, SpentUpTo
<1> QED
  BY <1>5, <1>14, <1>15, <1>16

HistoryOk == history \in [plan : PlanShapes, days : Runs, otherPlan : PlanShapes, other : OtherTotals]
OutcomesInv ==
  /\ HistoryOk
  /\ outcomes \in {{}, SealedFrom(history)}
  /\ rows \in {{}, RowsFrom(outcomes)}

LEMMA OutcomesInvInit == OutcomesInit => OutcomesInv
  BY DEF OutcomesInit, OutcomesInv, HistoryOk

LEMMA OutcomesInvStep == OutcomesInv /\ [OutcomesNext]_outcomeVars => OutcomesInv'
<1> SUFFICES ASSUME OutcomesInv, [OutcomesNext]_outcomeVars PROVE OutcomesInv'
  OBVIOUS
<1>1. history' = history
  BY DEF OutcomesNext, SealCampaigns, ComputeFeatures, outcomeVars
<1>2. HistoryOk' /\ SealedFrom(history)' = SealedFrom(history)
  BY <1>1 DEF OutcomesInv, HistoryOk
<1>3. CASE SealCampaigns
  <2>1. outcomes' = SealedFrom(history) /\ rows' = {}
    BY <1>3 DEF SealCampaigns
  <2> QED
    BY <1>1, <1>2, <2>1 DEF OutcomesInv
<1>4. CASE ComputeFeatures
  <2>1. outcomes' = outcomes /\ rows' = RowsFrom(outcomes)
    BY <1>4 DEF ComputeFeatures
  <2>2. RowsFrom(outcomes)' = RowsFrom(outcomes)
    BY <2>1
  <2> QED
    BY <1>1, <1>2, <2>1, <2>2 DEF OutcomesInv
<1>5. CASE UNCHANGED outcomeVars
  <2>1. outcomes' = outcomes /\ rows' = rows
    BY <1>5 DEF outcomeVars
  <2>2. RowsFrom(outcomes)' = RowsFrom(outcomes)
    BY <2>1
  <2> QED
    BY <1>1, <1>2, <2>1, <2>2 DEF OutcomesInv
<1> QED
  BY <1>3, <1>4, <1>5 DEF OutcomesNext

\* The days of the first campaign, and those that are kept.
LEMMA DayIs ==
  ASSUME NEW s \in Nat
  PROVE  /\ \A m \in Metrics : DayOf(s)[m] \in Nat
         /\ DayOf(s).spend = s /\ DayOf(s).conversions = 1
<1>1. DayOf(s).spend = s /\ DayOf(s).impressions = 10 * s /\ DayOf(s).clicks = s /\ DayOf(s).conversions = 1 /\ DayOf(s).revenue = 3
  BY DEF DayOf
<1> QED
  BY <1>1 DEF Metrics

LEMMA RunIs ==
  ASSUME NEW days \in Runs
  PROVE  \E n \in Nat : DaysTypedAs(days, n) /\ \A i \in 1..n : \E s \in Nat : days[i] = DayOf(s)
<1>1. PICK n \in 0..MaxSnapshots : days \in [1..n -> {DayOf(s) : s \in DaySpends}]
  BY DEF Runs
<1>2. n \in Nat /\ DOMAIN days = 1..n
  BY <1>1, OutcomesAssumption
<1>3. Len(days) = n
  BY <1>1, <1>2
<1>4. ASSUME NEW i \in 1..n PROVE \E s \in Nat : days[i] = DayOf(s)
  BY <1>1, <1>4, OutcomesAssumption
<1>5. ASSUME NEW i \in 1..n PROVE days[i].spend \in Nat
  <2>1. PICK s \in Nat : days[i] = DayOf(s)
    BY <1>4
  <2> QED
    BY <2>1, DayIs
<1> QED
  BY <1>2, <1>3, <1>4, <1>5 DEF DaysTypedAs

KeptDays(n, days) == {i \in 1..n : days[i].spend <= MedianSpend(days) * OUTLIER_SPEND_FACTOR}

LEMMA CleanIs ==
  ASSUME NEW n \in Nat, NEW days, DaysTypedAs(days, n)
  PROVE  /\ DOMAIN FilterOutliers(days) \in SUBSET (1..n)
         /\ \A i \in DOMAIN FilterOutliers(days) : FilterOutliers(days)[i] = days[i]
         /\ n >= 4 /\ MedianSpend(days) > 0 => DOMAIN FilterOutliers(days) = KeptDays(n, days)
<1>1. DOMAIN days = 1..n /\ Len(days) = n
  BY DEF DaysTypedAs
<1>2. PICK clean : clean = FilterOutliers(days)
  OBVIOUS
<1>3. CASE n < 4 \/ MedianSpend(days) = 0
  <2>1. clean = days
    BY <1>1, <1>2, <1>3 DEF FilterOutliers
  <2>2. ~(n >= 4 /\ MedianSpend(days) > 0)
    BY <1>3
  <2>3. DOMAIN clean = 1..n /\ \A i \in DOMAIN clean : clean[i] = days[i]
    BY <1>1, <2>1
  <2> QED
    BY <1>2, <2>2, <2>3
<1>4. CASE ~(n < 4 \/ MedianSpend(days) = 0)
  <2>1. clean = Restrict(days, KeptDays(n, days))
    BY <1>1, <1>2, <1>4 DEF FilterOutliers, KeptDays
  <2>2. DOMAIN clean = KeptDays(n, days) /\ \A i \in KeptDays(n, days) : clean[i] = days[i]
    BY <2>1 DEF Restrict
  <2>3. KeptDays(n, days) \in SUBSET (1..n)
    BY DEF KeptDays
  <2> QED
    BY <1>2, <2>2, <2>3
<1> QED
  BY <1>3, <1>4

LEMMA TotalsTyped ==
  ASSUME NEW days \in Runs
  PROVE  TotalsOf(FilterOutliers(days)) \in [Metrics -> Nat]
<1>1. PICK n \in Nat : DaysTypedAs(days, n) /\ \A i \in 1..n : \E s \in Nat : days[i] = DayOf(s)
  BY RunIs
<1>2. PICK clean : clean = FilterOutliers(days)
  OBVIOUS
<1>3. DOMAIN clean \in SUBSET (1..n) /\ \A i \in DOMAIN clean : clean[i] = days[i]
  BY <1>1, <1>2, CleanIs
<1>4. PICK K : K = DOMAIN clean
  OBVIOUS
<1>5. IsFiniteSet(K)
  BY <1>3, <1>4, IntervalIs, FS_Subset
<1>6. ASSUME NEW m \in Metrics PROVE TotalOf(clean, m) \in Nat
  <2>1. ASSUME NEW i \in K PROVE clean[i][m] \in Nat
    <3>1. PICK s \in Nat : clean[i] = DayOf(s)
      BY <1>1, <1>3, <1>4, <2>1
    <3> QED
      BY <3>1, DayIs
  <2>2. TotalColumn(clean, m) \in Nat
    BY <1>4, <1>5, <2>1, ColumnTyped
  <2> QED
    BY <2>2 DEF TotalColumn, TotalOf
<1> QED
  BY <1>2, <1>6 DEF TotalsOf

\* A wild day does not make the campaign.
LEMMA TypicalHolds == OutcomesInv => OutcomeIsTypical
<1> SUFFICES ASSUME OutcomesInv, NEW o \in outcomes, o.campaign = 1, Len(history.days) >= 4, MedianSpend(history.days) > 0
             PROVE  /\ o.totals.spend <= OUTLIER_SPEND_FACTOR * MedianSpend(history.days) * Len(history.days)
                    /\ 2 * o.totals.conversions >= Len(history.days)
  BY DEF OutcomeIsTypical
<1>1. PICK days \in Runs : days = history.days
  BY DEF OutcomesInv, HistoryOk
<1>2. PICK n \in Nat : DaysTypedAs(days, n) /\ \A i \in 1..n : \E s \in Nat : days[i] = DayOf(s)
  BY RunIs
<1>3. Len(days) = n /\ n >= 4 /\ DOMAIN days = 1..n
  BY <1>1, <1>2 DEF DaysTypedAs
<1>4. PICK m \in Nat : m = MedianSpend(days) /\ m > 0 /\ Cardinality(SpentUpTo(days, m)) > n \div 2
  <2>1. n \in Nat \ {0}
    BY <1>3
  <2> QED
    BY <1>1, <1>2, <2>1, MedianIs
<1>5. PICK clean, K : clean = FilterOutliers(days) /\ K = DOMAIN clean
  OBVIOUS
<1>6. K \in SUBSET (1..n) /\ (\A i \in K : clean[i] = days[i]) /\ K = {i \in 1..n : days[i].spend <= m * 25}
  <2>1. K \in SUBSET (1..n) /\ (\A i \in K : clean[i] = days[i]) /\ K = KeptDays(n, days)
    <3>1. MedianSpend(days) > 0
      BY <1>4
    <3> QED
      BY <1>2, <1>3, <1>5, <3>1, CleanIs
  <2> QED
    BY <1>4, <2>1 DEF KeptDays, OUTLIER_SPEND_FACTOR
<1>7. o.totals = TotalsOf(clean)
  <2>1. o \in SealedFrom(history)
    BY DEF OutcomesInv
  <2>2. PICK q : \/ o \in SealedOutcome(1, history.plan, TotalsOf(clean), q)
                 \/ o \in SealedOutcome(2, history.otherPlan, history.other, "CLEAN")
    BY <1>1, <1>5, <2>1 DEF SealedFrom
  <2> QED
    BY <2>2 DEF SealedOutcome
<1>8. IsFiniteSet(K) /\ Cardinality(K) <= n /\ Cardinality(K) \in Nat
  BY <1>6, IntervalIs, FS_Subset, FS_CardinalityType
<1>9. ASSUME NEW i \in K PROVE clean[i]["spend"] \in Nat /\ clean[i]["spend"] <= 25 * m /\ clean[i]["conversions"] = 1
  <2>1. PICK s \in Nat : clean[i] = DayOf(s) /\ days[i] = DayOf(s)
    BY <1>2, <1>6, <1>9
  <2>2. days[i].spend <= 25 * m
    BY <1>4, <1>6, <1>9
  <2>3. clean[i].spend = s /\ clean[i].conversions = 1 /\ days[i].spend = s
    BY <2>1, DayIs
  <2> QED
    BY <2>2, <2>3
<1>10. o.totals.conversions = Cardinality(K)
  <2>1. PICK f : f = [i \in K |-> clean[i]["conversions"]]
    OBVIOUS
  <2>2. DOMAIN f = K /\ \A i \in K : f[i] = 1
    BY <1>9, <2>1
  <2>3. Sum(f, K) = Cardinality(K)
    BY <1>8, <2>2, SumOnes
  <2>4. TotalOf(clean, "conversions") = Sum(f, K)
    BY <1>5, <2>1, <2>2 DEF TotalOf, SumFunction, Sum
  <2> QED
    BY <1>7, <2>3, <2>4 DEF TotalsOf, Metrics
<1>11. o.totals.spend <= (25 * m) * Cardinality(K)
  <2>1. PICK f, c, u : f = [i \in K |-> clean[i]["spend"]] /\ c = [i \in K |-> 25 * m] /\ u = [i \in K |-> 1]
    OBVIOUS
  <2>2. DOMAIN f = K /\ \A i \in K : f[i] \in Int /\ c[i] \in Int /\ f[i] <= c[i]
    BY <1>9, <2>1
  <2>3. Sum(f, K) <= Sum(c, K)
    BY <1>8, <2>2, SumAtMost
  <2>4. PICK x \in Int : x = 25 * m
    OBVIOUS
  <2>5. \A i \in K : u[i] \in Int /\ u[i] = 1 /\ c[i] = x * u[i]
    BY <2>1, <2>4
  <2>6. Sum(c, K) = x * Sum(u, K)
    BY <1>8, <2>5, SumScaled
  <2>7. Sum(u, K) = Cardinality(K)
    BY <1>8, <2>5, SumOnes
  <2>8. TotalOf(clean, "spend") = Sum(f, K)
    BY <1>5, <2>1, <2>2 DEF TotalOf, SumFunction, Sum
  <2>9. o.totals.spend = Sum(f, K)
    BY <1>7, <2>8 DEF TotalsOf, Metrics
  <2> QED
    BY <2>3, <2>4, <2>6, <2>7, <2>9
<1>12. 2 * o.totals.conversions >= n
  <2>1. SpentUpTo(days, m) \in SUBSET K
    <3>1. ASSUME NEW i \in SpentUpTo(days, m) PROVE i \in K
      <4>1. i \in 1..n /\ days[i].spend <= m /\ days[i].spend \in Nat
        BY <1>2, <1>3, <3>1 DEF SpentUpTo, DaysTypedAs
      <4>2. days[i].spend <= m * 25
        BY <4>1
      <4> QED
        BY <1>6, <4>1, <4>2
    <3> QED
      BY <3>1
  <2>2. Cardinality(SpentUpTo(days, m)) <= Cardinality(K) /\ Cardinality(SpentUpTo(days, m)) \in Nat
    BY <1>8, <2>1, FS_Subset, FS_CardinalityType
  <2> QED
    BY <1>4, <1>8, <1>10, <2>2
<1>13. (25 * m) * Cardinality(K) <= (25 * m) * n
  <2>0. 25 * m \in Nat
    OBVIOUS
  <2>1. PICK x \in Nat, y \in Nat : x = 25 * m /\ y = Cardinality(K) /\ y <= n
    BY <1>8, <2>0
  <2>2. x * y <= x * n
    BY <2>1
  <2> QED
    BY <2>1, <2>2
<1>14. o.totals.spend <= (25 * m) * n
  <2>1. PICK x \in Int, y \in Int : x = (25 * m) * Cardinality(K) /\ y = (25 * m) * n
    BY <1>8
  <2>2. o.totals.spend \in Int
    <3>1. o.totals.spend \in Nat
      BY <1>1, <1>5, <1>7, TotalsTyped DEF Metrics
    <3> QED
      BY <3>1
  <2> QED
    BY <1>11, <1>13, <2>1, <2>2
<1> QED
  BY <1>1, <1>3, <1>4, <1>12, <1>14 DEF OUTLIER_SPEND_FACTOR

\* A ratio of sums is between the ratios of the summands.
LEMMA MediantIs ==
  ASSUME NEW S, IsFiniteSet(S), S # {}, NEW x, NEW y, \A o \in S : x[o] \in Nat /\ y[o] \in Nat,
         NEW a \in Nat, NEW b \in Nat, a = Sum(x, S), b = Sum(y, S)
  PROVE  (\E o \in S : x[o] * b <= a * y[o]) /\ (\E o \in S : a * y[o] <= x[o] * b)
<1>1. PICK u, v : u = [o \in S |-> b * x[o]] /\ v = [o \in S |-> a * y[o]]
  OBVIOUS
<1>2. \A o \in S : x[o] \in Int /\ y[o] \in Int /\ u[o] = b * x[o] /\ v[o] = a * y[o]
  BY <1>1
<1>3. Sum(u, S) = b * a
  <2>1. Sum(u, S) = b * Sum(x, S)
    BY <1>2, SumScaled
  <2> QED
    BY <2>1
<1>4. Sum(v, S) = a * b
  <2>1. Sum(v, S) = a * Sum(y, S)
    BY <1>2, SumScaled
  <2> QED
    BY <2>1
<1>5. b * a = a * b /\ a * b \in Int
  OBVIOUS
<1>6. \A o \in S : u[o] \in Int /\ v[o] \in Int /\ u[o] = x[o] * b
  BY <1>2
<1>7. ASSUME \A o \in S : u[o] > v[o] PROVE FALSE
  <2>1. \A o \in S : v[o] \in Int /\ u[o] \in Int /\ v[o] < u[o]
    BY <1>6, <1>7
  <2>2. Sum(v, S) < Sum(u, S)
    BY <2>1, SumBelow
  <2> QED
    BY <1>3, <1>4, <1>5, <2>2
<1>8. ASSUME \A o \in S : u[o] < v[o] PROVE FALSE
  <2>1. Sum(u, S) < Sum(v, S)
    BY <1>6, <1>8, SumBelow
  <2> QED
    BY <1>3, <1>4, <1>5, <2>1
<1>9. \E o \in S : x[o] * b <= a * y[o]
  <2>1. PICK o \in S : ~(u[o] > v[o])
    BY <1>7
  <2>2. u[o] <= v[o]
    BY <1>6, <2>1
  <2> QED
    BY <1>2, <1>6, <2>2
<1>10. \E o \in S : a * y[o] <= x[o] * b
  <2>1. PICK o \in S : ~(u[o] < v[o])
    BY <1>8
  <2>2. v[o] <= u[o]
    BY <1>6, <2>1
  <2> QED
    BY <1>2, <1>6, <2>2
<1> QED
  BY <1>9, <1>10

\* A row is that of its feature, its window and its bucket.
RowOf(f, w, all, key) ==
  [feature |-> f, windowDays |-> w, dimensionsKey |-> key,
   value |-> ComputeAggregate(f, BucketOf(f, all, key)), sampleSize |-> Cardinality(BucketOf(f, all, key))]

LEMMA RowIs ==
  ASSUME NEW all, NEW r \in RowsFrom(all)
  PROVE  \E f \in FeatureNames, o0 \in all : \E w :
           /\ r = RowOf(f, w, all, KeyOf(f, o0)) /\ InRange(f, ComputeAggregate(f, BucketOf(f, all, KeyOf(f, o0))))
<1>1. PICK f \in FeatureNames : r \in UNION {ComputeFeature(f, w, all) : w \in HLL_FEATURE_REGISTRY[f].windowDays}
  BY DEF RowsFrom
<1>2. PICK w \in HLL_FEATURE_REGISTRY[f].windowDays : r \in ComputeFeature(f, w, all)
  BY <1>1
<1>3. PICK key \in {KeyOf(f, o) : o \in all} : r = RowOf(f, w, all, key) /\ InRange(f, ComputeAggregate(f, BucketOf(f, all, key)))
  BY <1>2 DEF ComputeFeature, RowOf
<1>4. PICK o0 \in all : key = KeyOf(f, o0)
  BY <1>3
<1> QED
  BY <1>3, <1>4

LEMMA OneRowHolds == OutcomesInv => OneRowPerBucket
<1> SUFFICES ASSUME OutcomesInv, NEW r \in rows, NEW s \in rows, r.feature = s.feature, r.windowDays = s.windowDays,
                    r.dimensionsKey = s.dimensionsKey
             PROVE  r = s
  BY DEF OneRowPerBucket
<1>1. r \in RowsFrom(outcomes) /\ s \in RowsFrom(outcomes)
  BY DEF OutcomesInv
<1>2. PICK f, w, key : r = RowOf(f, w, outcomes, key)
  BY <1>1, RowIs
<1>3. PICK g, v, k : s = RowOf(g, v, outcomes, k)
  BY <1>1, RowIs
<1>4. f = g /\ w = v /\ key = k
  BY <1>2, <1>3 DEF RowOf
<1> QED
  BY <1>2, <1>3, <1>4

LEMMA OutcomesAre ==
  OutcomesInv => IsFiniteSet(outcomes) /\ \A o \in outcomes : o.totals \in [Metrics -> Nat]
<1> SUFFICES ASSUME OutcomesInv PROVE IsFiniteSet(outcomes) /\ \A o \in outcomes : o.totals \in [Metrics -> Nat]
  OBVIOUS
<1>1. CASE outcomes = {}
  BY <1>1, FS_EmptySet
<1>2. CASE outcomes = SealedFrom(history)
  <2>1. PICK t, q : /\ t = TotalsOf(FilterOutliers(history.days))
                    /\ outcomes = SealedOutcome(1, history.plan, t, q) \cup SealedOutcome(2, history.otherPlan, history.other, "CLEAN")
    BY <1>2 DEF SealedFrom
  <2>2. t \in [Metrics -> Nat] /\ history.other \in [Metrics -> Nat]
    <3>1. history.days \in Runs /\ history.other \in OtherTotals
      BY DEF OutcomesInv, HistoryOk
    <3> QED
      BY <2>1, <3>1, TotalsTyped, OutcomesAssumption
  <2>3. PICK x, y : /\ x = [campaign |-> 1, dims |-> ClassifyOutcome(history.plan), totals |-> t, dataQuality |-> q]
                    /\ y = [campaign |-> 2, dims |-> ClassifyOutcome(history.otherPlan), totals |-> history.other, dataQuality |-> "CLEAN"]
    OBVIOUS
  <2>4. outcomes \in SUBSET {x, y}
    BY <2>1, <2>3 DEF SealedOutcome
  <2>5. IsFiniteSet({x, y})
    BY FewFinite
  <2>6. x.totals \in [Metrics -> Nat] /\ y.totals \in [Metrics -> Nat]
    BY <2>2, <2>3
  <2> QED
    BY <2>4, <2>5, <2>6, FS_Subset
<1> QED
  BY <1>1, <1>2 DEF OutcomesInv

LEMMA RatioFields == \A f \in FeatureNames : NumeratorOf(f) \in Metrics /\ DenominatorOf(f) \in Metrics
  BY DEF FeatureNames, HLL_FEATURE_REGISTRY, NumeratorOf, DenominatorOf, Metrics

LEMMA SumOverIs ==
  ASSUME NEW b, IsFiniteSet(b), NEW m \in Metrics, \A o \in b : o.totals \in [Metrics -> Nat]
  PROVE  /\ SumOver(b, m) \in Nat
         /\ \E x : (\A o \in b : x[o] = o.totals[m]) /\ SumOver(b, m) = Sum(x, b)
         /\ \A o \in b : SumOver({o}, m) = o.totals[m]
<1>1. PICK x : x = [o \in b |-> o.totals[m]]
  OBVIOUS
<1>2. DOMAIN x = b /\ \A o \in b : x[o] = o.totals[m] /\ x[o] \in Nat
  BY <1>1
<1>3. SumOver(b, m) = Sum(x, b)
  BY <1>1, <1>2 DEF SumOver, SumFunction, Sum
<1>4. Sum(x, b) \in Nat
  <2>1. b \in SUBSET b
    OBVIOUS
  <2> QED
    BY <1>2, <2>1, SumPart
<1>5. ASSUME NEW o \in b PROVE SumOver({o}, m) = o.totals[m]
  <2>1. PICK y : y = [p \in {o} |-> p.totals[m]]
    OBVIOUS
  <2>2. DOMAIN y = {o} /\ y[o] = o.totals[m] /\ y[o] \in Int
    BY <1>2, <1>5, <2>1
  <2>3. Sum(y, {o}) = y[o]
    BY <2>2, SumOne
  <2> QED
    BY <2>1, <2>2, <2>3 DEF SumOver, SumFunction, Sum
<1> QED
  BY <1>2, <1>3, <1>4, <1>5

\* What the rows' property calls a row's own outcomes is the bucket it was made of.
LEMMA MineIs ==
  ASSUME NEW all, NEW f \in FeatureNames, NEW o0 \in all
  PROVE  {o \in all : \A k \in DOMAIN KeyOf(f, o0) : o.dims[k] = KeyOf(f, o0)[k]} = BucketOf(f, all, KeyOf(f, o0))
<1>1. PICK D : D = HLL_FEATURE_REGISTRY[f].dimensions
  OBVIOUS
<1>2. \A o : KeyOf(f, o) = [k \in D |-> o.dims[k]]
  BY <1>1 DEF KeyOf, CanonicalizeDimensions
<1>3. PICK key : key = KeyOf(f, o0)
  OBVIOUS
<1>4. DOMAIN key = D /\ key = [k \in D |-> key[k]]
  BY <1>2, <1>3
<1>5. ASSUME NEW o \in all PROVE (\A k \in DOMAIN key : o.dims[k] = key[k]) <=> KeyOf(f, o) = key
  <2>1. PICK y : y = KeyOf(f, o)
    OBVIOUS
  <2>2. y = [k \in D |-> y[k]] /\ \A k \in D : y[k] = o.dims[k]
    BY <1>2, <2>1
  <2>3. ASSUME \A k \in D : o.dims[k] = key[k] PROVE y = key
    <3>1. \A k \in D : y[k] = key[k]
      BY <2>2, <2>3
    <3> QED
      BY <1>4, <2>2, <3>1
  <2> QED
    BY <1>4, <2>1, <2>2, <2>3
<1>6. {o \in all : \A k \in DOMAIN key : o.dims[k] = key[k]} = {o \in all : KeyOf(f, o) = key}
  BY <1>5
<1> QED
  BY <1>3, <1>6 DEF BucketOf

\* A row's value is between the values of its outcomes taken one by one.
LEMMA BetweenHolds == OutcomesInv => \A r \in rows : RowIsBetween(r)
<1> SUFFICES ASSUME OutcomesInv, NEW r \in rows PROVE RowIsBetween(r)
  OBVIOUS
<1>1. r \in RowsFrom(outcomes)
  BY DEF OutcomesInv
<1>2. PICK f \in FeatureNames, o0 \in outcomes :
        \E w : /\ r = RowOf(f, w, outcomes, KeyOf(f, o0))
               /\ InRange(f, ComputeAggregate(f, BucketOf(f, outcomes, KeyOf(f, o0))))
  BY <1>1, RowIs
<1>3. PICK key, b : key = KeyOf(f, o0) /\ b = BucketOf(f, outcomes, key)
  OBVIOUS
<1>4. PICK v : v = ComputeAggregate(f, b)
  OBVIOUS
<1>5. r.feature = f /\ r.dimensionsKey = key /\ r.value = v /\ r.sampleSize = Cardinality(b) /\ v # NoRatio
  BY <1>2, <1>3, <1>4 DEF RowOf, InRange
<1>6. {o \in outcomes : \A k \in DOMAIN r.dimensionsKey : o.dims[k] = r.dimensionsKey[k]} = b
  BY <1>3, <1>5, MineIs
<1>7. IsFiniteSet(b) /\ b # {} /\ \A o \in b : o.totals \in [Metrics -> Nat]
  <2>1. b \in SUBSET outcomes /\ o0 \in b
    BY <1>3 DEF BucketOf
  <2> QED
    BY <2>1, OutcomesAre, FS_Subset
<1>8. PICK m, d : m = NumeratorOf(f) /\ d = DenominatorOf(f)
  OBVIOUS
<1>9. m \in Metrics /\ d \in Metrics
  BY <1>8, RatioFields
<1>10. PICK x : (\A o \in b : x[o] = o.totals[m]) /\ SumOver(b, m) = Sum(x, b)
  BY <1>7, <1>9, SumOverIs
<1>11. PICK y : (\A o \in b : y[o] = o.totals[d]) /\ SumOver(b, d) = Sum(y, b)
  BY <1>7, <1>9, SumOverIs
<1>12. PICK M \in Nat, D \in Nat : M = SumOver(b, m) /\ D = SumOver(b, d)
  BY <1>7, <1>9, SumOverIs
<1>13. \A o \in b : x[o] \in Nat /\ y[o] \in Nat /\ SumOver({o}, m) = x[o] /\ SumOver({o}, d) = y[o]
  <2>1. \A o \in b : SumOver({o}, m) = o.totals[m] /\ SumOver({o}, d) = o.totals[d]
    BY <1>7, <1>9, SumOverIs
  <2> QED
    BY <1>7, <1>9, <1>10, <1>11, <2>1
<1>14. PICK c \in Nat : c = (IF f = "platform_cpm" THEN 1000 ELSE 1) /\ c \in {1, 1000}
  OBVIOUS
<1>15. v = <<c * M, D>>
  BY <1>4, <1>5, <1>8, <1>12, <1>14 DEF ComputeAggregate
<1>16. \A o \in b : ComputeAggregate(f, {o}) = IF y[o] = 0 THEN NoRatio ELSE <<c * x[o], y[o]>>
  <2>1. TAKE o \in b
  <2>2. PICK one : one = {o}
    OBVIOUS
  <2>3. SumOver(one, m) = x[o] /\ SumOver(one, d) = y[o]
    BY <1>13, <2>2
  <2>4. ComputeAggregate(f, one) = IF y[o] = 0 THEN NoRatio ELSE <<c * x[o], y[o]>>
    BY <1>8, <1>14, <2>3 DEF ComputeAggregate
  <2> QED
    BY <2>2, <2>4
<1>17. PICK alone : alone = {ComputeAggregate(f, {o}) : o \in b}
  OBVIOUS
<1>18. ASSUME NoRatio \notin alone PROVE (\E a \in alone : AtMost(a, v)) /\ (\E a \in alone : AtMost(v, a))
  <2>1. \A o \in b : ComputeAggregate(f, {o}) = <<c * x[o], y[o]>> /\ <<c * x[o], y[o]>> \in alone
    <3>1. ASSUME NEW o \in b PROVE ComputeAggregate(f, {o}) = <<c * x[o], y[o]>>
      <4>1. ComputeAggregate(f, {o}) \in alone
        BY <1>17
      <4>2. ComputeAggregate(f, {o}) # NoRatio
        BY <1>18, <4>1
      <4> QED
        BY <1>16, <4>2
    <3> QED
      BY <1>17, <3>1
  <2>2. (\E o \in b : x[o] * D <= M * y[o]) /\ (\E o \in b : M * y[o] <= x[o] * D)
    <3>1. IsFiniteSet(b) /\ b # {} /\ (\A o \in b : x[o] \in Nat /\ y[o] \in Nat) /\ M = Sum(x, b) /\ D = Sum(y, b)
      BY <1>7, <1>10, <1>11, <1>12, <1>13
    <3> QED
      BY <3>1, MediantIs
  <2>3. ASSUME NEW o \in b, x[o] * D <= M * y[o] PROVE AtMost(<<c * x[o], y[o]>>, v)
    <3>1. PICK p \in Nat, q \in Nat : p = x[o] /\ q = y[o]
      BY <1>13
    <3>2. p * D <= M * q
      BY <2>3, <3>1
    <3>3. (c * p) * D <= (c * M) * q
      <4>1. CASE c = 1
        BY <3>2, <4>1
      <4>2. CASE c = 1000
        <5>1. PICK u \in Nat, w \in Nat : u = p * D /\ w = M * q
          OBVIOUS
        <5>2. (1000 * p) * D = 1000 * u /\ (1000 * M) * q = 1000 * w
          BY <5>1
        <5> QED
          BY <3>2, <4>2, <5>1, <5>2
      <4> QED
        BY <1>14, <4>1, <4>2
    <3> QED
      BY <1>15, <3>1, <3>3 DEF AtMost
  <2>4. ASSUME NEW o \in b, M * y[o] <= x[o] * D PROVE AtMost(v, <<c * x[o], y[o]>>)
    <3>1. PICK p \in Nat, q \in Nat : p = x[o] /\ q = y[o]
      BY <1>13
    <3>2. M * q <= p * D
      BY <2>4, <3>1
    <3>3. (c * M) * q <= (c * p) * D
      <4>1. CASE c = 1
        BY <3>2, <4>1
      <4>2. CASE c = 1000
        <5>1. PICK u \in Nat, w \in Nat : u = p * D /\ w = M * q
          OBVIOUS
        <5>2. (1000 * p) * D = 1000 * u /\ (1000 * M) * q = 1000 * w
          BY <5>1
        <5> QED
          BY <3>2, <4>2, <5>1, <5>2
      <4> QED
        BY <1>14, <4>1, <4>2
    <3> QED
      BY <1>15, <3>1, <3>3 DEF AtMost
  <2> QED
    BY <2>1, <2>2, <2>3, <2>4
<1>19. {ComputeAggregate(r.feature, {o}) : o \in b} = alone
  BY <1>5, <1>17
<1> QED
  BY <1>5, <1>6, <1>18, <1>19 DEF RowIsBetween

\* What is learned from campaigns is what they did (outcome.service.ts 80-183,
\* feature-compute.service.ts 127-205, 291-335), for every list of days, every second
\* campaign and every plan: a wild day does not make an outcome, no bucket has two rows,
\* and a row's value is between the values of its outcomes taken one by one.
THEOREM LearnedCorrect == OutcomesSpec => []LearnedFromCampaigns
<1>1. OutcomesInv => LearnedFromCampaigns
  BY TypicalHolds, OneRowHolds, BetweenHolds DEF LearnedFromCampaigns
<1> QED
  BY <1>1, OutcomesInvInit, OutcomesInvStep, PTL DEF OutcomesSpec


-----------------------------------------------------------------------------
(* The rules' evaluation and the insights: RuleEvaluation and Insights.    *)

\* Weighting makes up no value: what the mean of the windows meets, one of them meets.
At(snaps, h, m) == snaps[h].kpi[m]
Alone(v) == [n |-> v, d |-> 1]

LEMMA OneOfTwo ==
  ASSUME NEW a \in Int, NEW b \in Int, NEW t \in Int, NEW c \in {"GT", "LT", "GTE", "LTE"},
         Compare([n |-> 6 * a + 3 * b, d |-> 9], c, t)
  PROVE  Compare(Alone(a), c, t) \/ Compare(Alone(b), c, t)
<1>1. CASE c = "GT"
  BY <1>1 DEF Compare, Alone
<1>2. CASE c = "LT"
  BY <1>2 DEF Compare, Alone
<1>3. CASE c = "GTE"
  BY <1>3 DEF Compare, Alone
<1>4. CASE c = "LTE"
  BY <1>4 DEF Compare, Alone
<1> QED
  BY <1>1, <1>2, <1>3, <1>4

LEMMA OneOfThree ==
  ASSUME NEW a \in Int, NEW b \in Int, NEW e \in Int, NEW t \in Int, NEW c \in {"GT", "LT", "GTE", "LTE"},
         Compare([n |-> 6 * a + 3 * b + e, d |-> 10], c, t)
  PROVE  Compare(Alone(a), c, t) \/ Compare(Alone(b), c, t) \/ Compare(Alone(e), c, t)
<1>1. CASE c = "GT"
  BY <1>1 DEF Compare, Alone
<1>2. CASE c = "LT"
  BY <1>2 DEF Compare, Alone
<1>3. CASE c = "GTE"
  BY <1>3 DEF Compare, Alone
<1>4. CASE c = "LTE"
  BY <1>4 DEF Compare, Alone
<1> QED
  BY <1>1, <1>2, <1>3, <1>4

LEMMA WindowMeets ==
  ASSUME NEW snaps, SnapsOk(snaps), snaps[24] # None, ~LostWindow(snaps), None \notin Int,
         NEW r, r.threshold \in Int, r.comparator \in {"GT", "LT", "GTE", "LTE"}, r.kpi \in KPIs,
         Compare(LoadWeightedMetric(snaps, r.kpi), r.comparator, r.threshold)
  PROVE  MetAlone(r, snaps)
<1>1. PICK m \in KPIs, t \in Int, c \in {"GT", "LT", "GTE", "LTE"} : m = r.kpi /\ t = r.threshold /\ c = r.comparator
  OBVIOUS
<1>2. DOMAIN snaps[24].kpi = KPIs /\ \A h \in Hours : snaps[h] # None => At(snaps, h, m) \in Nat
  BY <1>1 DEF SnapsOk, Hours, At
<1>3. Compare(ApplyRecencyWeight(InWindow(snaps, 24, m), InWindow(snaps, 48, m), InWindow(snaps, 72, m)), c, t)
  BY <1>1, <1>2 DEF LoadWeightedMetric
<1>4. 24 \in Hours /\ 48 \in Hours /\ 72 \in Hours
  BY DEF Hours
<1>5. SUFFICES \E h \in Hours : snaps[h] # None /\ Compare(Alone(At(snaps, h, m)), c, t)
  BY <1>1 DEF MetAlone, Alone, At
<1>6. PICK a \in Nat : a = At(snaps, 24, m) /\ a = InWindow(snaps, 24, m)
  BY <1>2, <1>4 DEF InWindow, At
<1>7. CASE snaps[48] = None /\ snaps[72] = None
  <2>1. InWindow(snaps, 48, m) = None /\ InWindow(snaps, 72, m) = None
    BY <1>7 DEF InWindow
  <2>2. ApplyRecencyWeight(a, None, None) = Alone(a)
    BY DEF ApplyRecencyWeight, Alone
  <2> QED
    BY <1>3, <1>4, <1>6, <2>1, <2>2
<1>8. CASE snaps[48] # None /\ snaps[72] = None
  <2>1. PICK b \in Nat : b = At(snaps, 48, m) /\ b = InWindow(snaps, 48, m)
    BY <1>2, <1>4, <1>8 DEF InWindow, At
  <2>2. InWindow(snaps, 72, m) = None
    BY <1>8 DEF InWindow
  <2>3. ApplyRecencyWeight(a, b, None) = [n |-> 6 * a + 3 * b, d |-> 9]
    BY DEF ApplyRecencyWeight
  <2>4. Compare([n |-> 6 * a + 3 * b, d |-> 9], c, t)
    BY <1>3, <1>6, <2>1, <2>2, <2>3
  <2>5. a \in Int /\ b \in Int
    OBVIOUS
  <2>6. Compare(Alone(a), c, t) \/ Compare(Alone(b), c, t)
    BY <2>4, <2>5, OneOfTwo
  <2> QED
    BY <1>4, <1>6, <1>8, <2>1, <2>6
<1>9. CASE snaps[48] # None /\ snaps[72] # None
  <2>1. PICK b \in Nat : b = At(snaps, 48, m) /\ b = InWindow(snaps, 48, m)
    BY <1>2, <1>4, <1>9 DEF InWindow, At
  <2>2. PICK e \in Nat : e = At(snaps, 72, m) /\ e = InWindow(snaps, 72, m)
    BY <1>2, <1>4, <1>9 DEF InWindow, At
  <2>3. ApplyRecencyWeight(a, b, e) = [n |-> 6 * a + 3 * b + e, d |-> 10]
    BY DEF ApplyRecencyWeight
  <2>4. Compare([n |-> 6 * a + 3 * b + e, d |-> 10], c, t)
    BY <1>3, <1>6, <2>1, <2>2, <2>3
  <2>5. a \in Int /\ b \in Int /\ e \in Int
    OBVIOUS
  <2>6. Compare(Alone(a), c, t) \/ Compare(Alone(b), c, t) \/ Compare(Alone(e), c, t)
    BY <2>4, <2>5, OneOfThree
  <2> QED
    BY <1>4, <1>6, <1>9, <2>1, <2>2, <2>6
<1> QED
  BY <1>7, <1>8, <1>9 DEF LostWindow

\* What a proposal says of its rule, the metrics and the baseline.
RuleOk(r) == /\ r.comparator \in {"GT", "LT", "GTE", "LTE", "EQ"} /\ r.threshold \in Int /\ r.priority \in Int
             /\ r.delta # None => r.delta \in Int

LEMMA RuleGives ==
  ASSUME NEW r, NEW snaps, NEW baseline, NEW e, e = EvaluateRule(r, snaps, baseline)
  PROVE  /\ e.rule = r /\ e.kind \in {"proposed", "skipped"}
         /\ e.kind = "proposed" => /\ LoadWeightedMetric(snaps, r.kpi) # None
                                   /\ Compare(LoadWeightedMetric(snaps, r.kpi), r.comparator, r.threshold)
                                   /\ \/ e.current = None /\ e.value = None
                                      \/ e.current = baseline /\ baseline # None /\ r.delta # None
<1>1. CASE e = ApplyTriggered(r, baseline)
           /\ LoadWeightedMetric(snaps, r.kpi) # None
           /\ Compare(LoadWeightedMetric(snaps, r.kpi), r.comparator, r.threshold)
  <2>1. CASE r.action \notin BudgetActions
    <3>1. e = Propose(r, None, None)
      BY <1>1, <2>1 DEF ApplyTriggered
    <3> QED
      BY <1>1, <3>1 DEF Propose
  <2>2. CASE r.action \in BudgetActions /\ (r.delta = None \/ baseline = None)
    <3>1. e = Skip(r, "MISSING_BASELINE")
      BY <1>1, <2>2 DEF ApplyTriggered
    <3> QED
      BY <3>1 DEF Skip
  <2>3. CASE r.action \in BudgetActions /\ ~(r.delta = None \/ baseline = None)
    <3>1. e = Propose(r, baseline, WithDelta(baseline, r.delta))
      BY <1>1, <2>3 DEF ApplyTriggered
    <3> QED
      BY <1>1, <2>3, <3>1 DEF Propose
  <2> QED
    BY <2>1, <2>2, <2>3
<1>2. CASE \E code : e = Skip(r, code)
  BY <1>2 DEF Skip
<1> QED
  BY <1>1, <1>2 DEF EvaluateRule


\* A list that holds elements of another one, none of them from the same place twice.
Picks(list, s) ==
  \E n \in Nat : \E p \in [1..n -> DOMAIN s] :
    list = [k \in 1..n |-> s[p[k]]] /\ \A j, k \in 1..n : p[j] = p[k] => j = k

LEMMA SortPicks ==
  ASSUME NEW s, NEW at, IsFiniteSet(at), at \subseteq Nat, at \subseteq DOMAIN s, NEW key, \A i \in at : key[i] \in Int
  PROVE  Picks(Arranged(s, at, key), s)
<1>1. Sorts(Arranged(s, at, key), s, at, key)
  BY ArrangedIs
<1>2. PICK n \in Nat : \E q \in [1..n -> at] :
        /\ Arranged(s, at, key) = [k \in 1..n |-> s[q[k]]]
        /\ \A j, k \in 1..n : j < k => key[q[j]] < key[q[k]] \/ (key[q[j]] = key[q[k]] /\ q[j] < q[k])
  BY <1>1 DEF Sorts
<1>3. PICK p \in [1..n -> at] :
        /\ Arranged(s, at, key) = [k \in 1..n |-> s[p[k]]]
        /\ \A j, k \in 1..n : j < k => key[p[j]] < key[p[k]] \/ (key[p[j]] = key[p[k]] /\ p[j] < p[k])
  BY <1>2
<1>4. p \in [1..n -> DOMAIN s]
  OBVIOUS
<1>5. ASSUME NEW j \in 1..n, NEW k \in 1..n, p[j] = p[k] PROVE j = k
  <2>1. p[j] \in Nat /\ p[k] \in Nat /\ key[p[j]] \in Int /\ key[p[k]] \in Int
    OBVIOUS
  <2>2. ~(j < k) /\ ~(k < j)
    BY <1>3, <1>5, <2>1
  <2> QED
    BY <2>2
<1> QED
  BY <1>3, <1>4, <1>5 DEF Picks

LEMMA FilterPicks ==
  ASSUME NEW s, NEW at, IsFiniteSet(at), at \subseteq Nat, at \subseteq DOMAIN s
  PROVE  Picks(Kept(s, at), s)
<1>1. PICK key : key = [i \in at |-> 0]
  OBVIOUS
<1>2. \A i \in at : key[i] \in Int
  BY <1>1
<1>3. Picks(Arranged(s, at, key), s)
  BY <1>2, SortPicks
<1> QED
  BY <1>1, <1>3 DEF Kept

LEMMA PicksAre ==
  ASSUME NEW s, NEW list, Picks(list, s)
  PROVE  /\ \A k \in DOMAIN list : \E i \in DOMAIN s : list[k] = s[i]
         /\ DOMAIN list \subseteq Nat /\ IsFiniteSet(DOMAIN list)
         /\ \E n \in Nat : DOMAIN list = 1..n /\ list = [k \in 1..n |-> list[k]]
<1>1. PICK n \in Nat : \E q \in [1..n -> DOMAIN s] :
        list = [k \in 1..n |-> s[q[k]]] /\ \A j, k \in 1..n : q[j] = q[k] => j = k
  BY DEF Picks
<1>2. PICK p \in [1..n -> DOMAIN s] : list = [k \in 1..n |-> s[p[k]]]
  BY <1>1
<1>3. DOMAIN list = 1..n /\ \A k \in 1..n : list[k] = s[p[k]] /\ p[k] \in DOMAIN s
  BY <1>2
<1>4. list = [k \in 1..n |-> list[k]]
  BY <1>2
<1>5. IsFiniteSet(1..n)
  BY IntervalIs
<1> QED
  BY <1>3, <1>4, <1>5

\* The rules that apply are rules as they are stored.
LEMMA RulesStayOk ==
  ASSUME NEW rules, RulesOk(rules), NEW at \in SUBSET DOMAIN rules
  PROVE  RulesOk(Kept(rules, at))
<1>1. DOMAIN rules \subseteq Nat /\ IsFiniteSet(DOMAIN rules)
      /\ (\A i \in DOMAIN rules : RuleOk(rules[i])) /\ \A i, j \in DOMAIN rules : rules[i].id = rules[j].id => i = j
  BY DEF RulesOk, RuleOk
<1>2. IsFiniteSet(at) /\ at \subseteq Nat /\ at \subseteq DOMAIN rules
  BY <1>1, FS_Subset
<1>3. PICK list : list = Kept(rules, at)
  OBVIOUS
<1>4. Picks(list, rules)
  BY <1>2, <1>3, FilterPicks
<1>5. PICK n \in Nat : \E q \in [1..n -> DOMAIN rules] :
        list = [k \in 1..n |-> rules[q[k]]] /\ \A j, k \in 1..n : q[j] = q[k] => j = k
  BY <1>4 DEF Picks
<1>6. PICK p \in [1..n -> DOMAIN rules] :
        list = [k \in 1..n |-> rules[p[k]]] /\ \A j, k \in 1..n : p[j] = p[k] => j = k
  BY <1>5
<1>7. DOMAIN list = 1..n /\ \A k \in 1..n : list[k] = rules[p[k]] /\ p[k] \in DOMAIN rules
  BY <1>6
<1>8. \A k \in DOMAIN list : RuleOk(list[k])
  BY <1>1, <1>7
<1>9. \A j, k \in DOMAIN list : list[j].id = list[k].id => j = k
  BY <1>1, <1>6, <1>7
<1>10. DOMAIN list \subseteq Nat /\ IsFiniteSet(DOMAIN list)
  BY <1>4, PicksAre
<1> QED
  BY <1>3, <1>8, <1>9, <1>10 DEF RulesOk, RuleOk

\* An evaluation is empty, or a dispatch of rules that are fine over metrics that are there.
IsResult(result, snaps, budget) ==
  \/ result = EMPTY
  \/ \E rules : RulesOk(rules) /\ snaps[24] # None /\ \E b \in {None, budget} : result = Dispatch(rules, snaps, b)

LEMMA ResultsAre ==
  ASSUME NEW w \in Worlds
  PROVE  /\ SnapsOk(w.snaps) /\ IsResult(EvaluateCampaign(w.campaign, w.rules, w.snaps), w.snaps, w.campaign.budget)
         /\ w.adSet # None =>
              SnapsOk(w.adSet) /\ IsResult(EvaluateAdSet(w.campaign, w.rules, w.adSet), w.adSet, None)
<1>1. SnapsOk(w.snaps) /\ (w.adSet # None => SnapsOk(w.adSet)) /\ RulesOk(w.rules)
  BY InsightsAssumption
<1>2. PICK c, rules : c = w.campaign /\ rules = w.rules
  OBVIOUS
<1>3. PICK K1, K2 : /\ K1 = {i \in DOMAIN rules : InScope(rules[i], c)}
                    /\ K2 = {i \in DOMAIN rules : InScope(rules[i], c) /\ ~(rules[i].action \in BudgetActions /\ c.isCbo)}
  OBVIOUS
<1>4. K1 \in SUBSET DOMAIN rules /\ K2 \in SUBSET DOMAIN rules
  BY <1>3
<1>5. RulesOk(Kept(rules, K1)) /\ RulesOk(Kept(rules, K2))
  BY <1>1, <1>2, <1>4, RulesStayOk
<1>6. IsResult(EvaluateCampaign(c, rules, w.snaps), w.snaps, c.budget)
  <2>1. PICK e : e = EvaluateCampaign(c, rules, w.snaps)
    OBVIOUS
  <2>2. e = EMPTY \/ (w.snaps[24] # None /\ e = Dispatch(Kept(rules, K1), w.snaps, c.budget))
    BY <1>3, <2>1 DEF EvaluateCampaign
  <2> QED
    BY <1>5, <2>1, <2>2 DEF IsResult
<1>7. IsResult(EvaluateAdSet(c, rules, w.adSet), w.adSet, None)
  <2>1. PICK e : e = EvaluateAdSet(c, rules, w.adSet)
    OBVIOUS
  <2>2. e = EMPTY \/ (w.adSet[24] # None /\ e = Dispatch(Kept(rules, K2), w.adSet, None))
    BY <1>3, <2>1 DEF EvaluateAdSet
  <2> QED
    BY <1>5, <2>1, <2>2 DEF IsResult
<1> QED
  BY <1>1, <1>2, <1>6, <1>7

\* What a dispatch proposes and skips is what its rules give.
LEMMA DispatchIs ==
  ASSUME NEW rules, RulesOk(rules), NEW snaps, NEW b, NEW results,
         results = [i \in DOMAIN rules |-> EvaluateRule(rules[i], snaps, b)]
  PROVE  /\ Picks(Dispatch(rules, snaps, b).proposed, results)
         /\ Picks(Dispatch(rules, snaps, b).skipped, results)
         /\ \A k \in DOMAIN Dispatch(rules, snaps, b).proposed : Dispatch(rules, snaps, b).proposed[k].kind = "proposed"
<1>1. PICK P, S, key : /\ P = PlacesOf(results, "proposed") /\ S = PlacesOf(results, "skipped")
                       /\ key = [i \in DOMAIN rules |-> rules[i].priority]
  OBVIOUS
<1>2. PICK list, skips : list = Arranged(results, P, key) /\ skips = Kept(results, S)
  OBVIOUS
<1>3. Dispatch(rules, snaps, b).proposed = list /\ Dispatch(rules, snaps, b).skipped = skips
  BY <1>1, <1>2 DEF Dispatch
<1>4. P \in SUBSET DOMAIN rules /\ S \in SUBSET DOMAIN rules /\ DOMAIN results = DOMAIN rules
  BY <1>1 DEF PlacesOf
<1>5. DOMAIN rules \subseteq Nat /\ IsFiniteSet(DOMAIN rules) /\ \A i \in DOMAIN rules : rules[i].priority \in Int
  BY DEF RulesOk
<1>6. IsFiniteSet(P) /\ IsFiniteSet(S) /\ P \subseteq Nat /\ S \subseteq Nat
  BY <1>4, <1>5, FS_Subset
<1>7. \A i \in P : key[i] \in Int
  BY <1>1, <1>4, <1>5
<1>8. Picks(list, results) /\ Picks(skips, results)
  BY <1>2, <1>4, <1>6, <1>7, SortPicks, FilterPicks
<1>9. \A k \in DOMAIN list : list[k].kind = "proposed"
  <2>1. Sorts(list, results, P, key)
    BY <1>2, <1>6, <1>7, ArrangedIs
  <2>2. PICK n \in Nat : \E q \in [1..n -> P] : list = [k \in 1..n |-> results[q[k]]]
    BY <2>1 DEF Sorts
  <2>3. PICK p \in [1..n -> P] : list = [k \in 1..n |-> results[p[k]]]
    BY <2>2
  <2>4. TAKE k \in DOMAIN list
  <2>5. k \in 1..n /\ list[k] = results[p[k]] /\ p[k] \in P
    BY <2>3
  <2> QED
    BY <1>1, <2>5 DEF PlacesOf
<1> QED
  BY <1>3, <1>8, <1>9


LEMMA ResultFires ==
  ASSUME NEW snaps, SnapsOk(snaps), None \notin Int, NEW budget, NEW result, IsResult(result, snaps, budget)
  PROVE  FiresWithAWitness(result, snaps)
<1>1. CASE result = EMPTY
  BY <1>1 DEF EMPTY, FiresWithAWitness
<1>2. CASE result # EMPTY
  <2>1. PICK rules : RulesOk(rules) /\ snaps[24] # None /\ \E c \in {None, budget} : result = Dispatch(rules, snaps, c)
    BY <1>2 DEF IsResult
  <2>2. PICK b \in {None, budget} : result = Dispatch(rules, snaps, b)
    BY <2>1
  <2>3. PICK results : results = [i \in DOMAIN rules |-> EvaluateRule(rules[i], snaps, b)]
    OBVIOUS
  <2>4. Picks(result.proposed, results) /\ \A k \in DOMAIN result.proposed : result.proposed[k].kind = "proposed"
    BY <2>1, <2>2, <2>3, DispatchIs
  <2>5. SUFFICES ASSUME NEW k \in DOMAIN result.proposed, result.proposed[k].rule.comparator # "EQ", ~LostWindow(snaps)
                 PROVE  MetAlone(result.proposed[k].rule, snaps)
    BY DEF FiresWithAWitness
  <2>6. PICK i \in DOMAIN rules : result.proposed[k] = results[i]
    BY <2>3, <2>4, PicksAre
  <2>7. PICK r, e : r = rules[i] /\ e = EvaluateRule(r, snaps, b)
    OBVIOUS
  <2>8. result.proposed[k] = e /\ e.kind = "proposed"
    BY <2>3, <2>4, <2>6, <2>7
  <2>9. e.rule = r /\ LoadWeightedMetric(snaps, r.kpi) # None
        /\ Compare(LoadWeightedMetric(snaps, r.kpi), r.comparator, r.threshold)
    BY <2>7, <2>8, RuleGives
  <2>10. r.threshold \in Int /\ r.comparator \in {"GT", "LT", "GTE", "LTE"}
    BY <2>1, <2>5, <2>7, <2>8, <2>9 DEF RulesOk
  <2>11. r.kpi \in KPIs
    <3>1. r.kpi \in DOMAIN snaps[24].kpi
      BY <2>9 DEF LoadWeightedMetric
    <3>2. DOMAIN snaps[24].kpi = KPIs
      BY <2>1 DEF SnapsOk, Hours
    <3> QED
      BY <3>1, <3>2
  <2>12. MetAlone(r, snaps)
    BY <2>1, <2>5, <2>9, <2>10, <2>11, WindowMeets
  <2> QED
    BY <2>8, <2>9, <2>12
<1> QED
  BY <1>1, <1>2

LEMMA FiringHolds == world \in Worlds => RulesFireOnEvidence
<1> SUFFICES ASSUME world \in Worlds PROVE RulesFireOnEvidence
  OBVIOUS
<1>1. FiresWithAWitness(EvaluateCampaign(world.campaign, world.rules, world.snaps), world.snaps)
  BY ResultsAre, ResultFires, InsightsAssumption
<1>2. ASSUME world.adSet # None
      PROVE  FiresWithAWitness(EvaluateAdSet(world.campaign, world.rules, world.adSet), world.adSet)
  BY <1>2, ResultsAre, ResultFires, InsightsAssumption
<1> QED
  BY <1>1, <1>2 DEF RulesFireOnEvidence

\* A rule whose condition is an inequality fires only if some window by itself meets it
\* (recency-weight.util.ts 11-24, evaluator.service.ts 106-172), for any rules, any
\* metrics and any windows that are missing, but for the one hole in the weights.
THEOREM RulesCorrect == InsightSpec => []RulesFireOnEvidence
<1>1. InsightInit => world \in Worlds
  BY DEF InsightInit
<1>2. world \in Worlds /\ [InsightNext]_insightVars => (world \in Worlds)'
  BY DEF InsightNext, insightVars, ListForOrg, SetStatus, SetFeedback, Upsert
<1> QED
  BY <1>1, <1>2, FiringHolds, PTL DEF InsightSpec

-----------------------------------------------------------------------------
\* The bucket of each value that the field has in R, of the rows of S.
BucketFor(S, field, k) == [key |-> k, counts |-> Aggregate({r \in S : r[field] = k})]
BucketsIn(S, R, field) == {BucketFor(S, field, r[field]) : r \in R}

LEMMA BucketIs ==
  ASSUME NEW S, NEW field, NEW k
  PROVE  /\ BucketFor(S, field, k).key = k
         /\ BucketFor(S, field, k).counts.interactionCount = Cardinality({r \in S : r[field] = k})
  BY DEF BucketFor, Aggregate

LEMMA BucketKey == ASSUME NEW S, NEW field, NEW k PROVE BucketFor(S, field, k).key = k
  BY DEF BucketFor

LEMMA BucketsAre ==
  ASSUME NEW S, NEW field
  PROVE  BucketsBy(S, field) = BucketsIn(S, S, field)
  BY DEF BucketsBy, BucketsIn, BucketFor

\* A breakdown of interactions counts each of them in one bucket.
LEMMA BucketsCount ==
  ASSUME NEW S, IsFiniteSet(S), NEW field, NEW R \in SUBSET S,
         \A r \in S, q \in R : r[field] = q[field] => r \in R
  PROVE  TotalIn(BucketsIn(S, R, field)) = Cardinality(R)
<1>1. PICK f : f = [r \in R |-> BucketFor(S, field, r[field])]
  OBVIOUS
<1>2. \A r \in R : /\ f[r] = BucketFor(S, field, r[field]) /\ f[r].key = r[field]
                   /\ f[r].counts.interactionCount = Cardinality({q \in S : q[field] = r[field]})
  BY <1>1, BucketIs
<1>3. PICK K : K = BucketsIn(S, R, field)
  OBVIOUS
<1>4. (\A r \in R : f[r] \in K) /\ (\A b \in K : \E r \in R : b = f[r])
  BY <1>1, <1>3 DEF BucketsIn
<1>5. \A r, q \in R : f[r] = f[q] <=> r[field] = q[field]
  BY <1>2
<1>6. PICK g : g = [b \in K |-> b.counts.interactionCount]
  OBVIOUS
<1>7. \A b \in K : g[b] = Cardinality(Having(R, f, {b}))
  <2>1. TAKE b \in K
  <2>2. PICK q \in R : b = f[q]
    BY <1>4
  <2>3. {r \in S : r[field] = q[field]} = Having(R, f, {b})
    <3>1. ASSUME NEW r \in S, r[field] = q[field] PROVE r \in Having(R, f, {b})
      <4>1. r \in R
        BY <3>1
      <4> QED
        BY <1>5, <2>2, <3>1, <4>1 DEF Having
    <3>2. ASSUME NEW r \in Having(R, f, {b}) PROVE r \in S /\ r[field] = q[field]
      BY <1>5, <2>2 DEF Having
    <3> QED
      BY <3>1, <3>2
  <2>4. g[b] = Cardinality({r \in S : r[field] = q[field]})
    BY <1>2, <1>6, <2>2
  <2> QED
    BY <2>3, <2>4
<1>8. IsFiniteSet(R)
  BY FS_Subset
<1>9. Sum(g, K) = Cardinality(R)
  <2>1. (\A r \in R : f[r] \in K) /\ \A b \in K : \E r \in R : b = f[r]
    BY <1>4
  <2>2. (\A r \in R : f[r] \in K) /\ (\A b \in K : \E r \in R : b = f[r])
    BY <2>1, Zenon
  <2>3. Counts(g, K, f, R)
    BY <1>7, <2>2, Zenon DEF Counts, Tallies
  <2> QED
    BY <1>8, <2>3, CountedByKey
<1>10. TotalIn(K) = Sum(g, K)
  BY <1>6 DEF TotalIn, SumFunction, Sum
<1> QED
  BY <1>3, <1>9, <1>10

LEMMA CountsHold == IsFiniteSet(interactions) => CountedOnce
<1> SUFFICES ASSUME IsFiniteSet(interactions) PROVE CountedOnce
  OBVIOUS
<1>1. PICK S : S = interactions
  OBVIOUS
<1>2. \A field : TotalIn(BucketsBy(S, field)) = Cardinality(S)
  <2>1. TAKE field
  <2>2. S \in SUBSET S
    OBVIOUS
  <2>3. TotalIn(BucketsIn(S, S, field)) = Cardinality(S)
    BY <1>1, <2>2, BucketsCount
  <2> QED
    BY <2>3, BucketsAre
<1>3. GetForOrg.totals.interactionCount = Cardinality(S)
  BY <1>1 DEF GetForOrg, Aggregate
<1>4. GetForOrg.byInsightType = BucketsBy(S, "type") /\ GetForOrg.byPriority = BucketsBy(S, "priority")
      /\ GetForOrg.byUser = BucketsBy(S, "user")
  BY <1>1 DEF GetForOrg
<1>5. TotalIn(GetForRules.rules) + GetForRules.uncategorizedCount = Cardinality(S)
  <2>1. PICK R, N : R = {r \in S : r.rule # None} /\ N = {r \in S : r.rule = None}
    OBVIOUS
  <2>2. R \in SUBSET S /\ N \in SUBSET S /\ R \cup N = S /\ R \cap N = {}
    BY <2>1
  <2>3. GetForRules.rules = BucketsIn(S, R, "rule")
    <3>1. GetForRules.rules = {b \in BucketsIn(S, S, "rule") : b.key # None}
      BY <1>1, BucketsAre DEF GetForRules
    <3>2. ASSUME NEW b \in BucketsIn(S, S, "rule"), b.key # None PROVE b \in BucketsIn(S, R, "rule")
      <4>1. PICK r \in S : b = BucketFor(S, "rule", r["rule"])
        BY DEF BucketsIn
      <4>2. r["rule"] # None
        <5>1. PICK k : k = r["rule"]
          OBVIOUS
        <5>2. b = BucketFor(S, "rule", k)
          BY <4>1, <5>1
        <5>3. b.key = k
          BY <5>2, BucketKey, Zenon
        <5> QED
          BY <3>2, <5>1, <5>3
      <4>3. r \in R
        BY <2>1, <4>2
      <4> QED
        BY <4>1, <4>3 DEF BucketsIn
    <3>3. ASSUME NEW b \in BucketsIn(S, R, "rule") PROVE b \in BucketsIn(S, S, "rule") /\ b.key # None
      <4>1. PICK r \in R : b = BucketFor(S, "rule", r["rule"])
        BY DEF BucketsIn
      <4>2. b.key # None /\ r \in S
        <5>1. PICK k : k = r["rule"] /\ k # None
          BY <2>1
        <5>2. b = BucketFor(S, "rule", k)
          BY <4>1, <5>1
        <5>3. b.key = k
          BY <5>2, BucketKey, Zenon
        <5> QED
          BY <2>2, <5>1, <5>3
      <4> QED
        BY <4>1, <4>2 DEF BucketsIn
    <3> QED
      BY <3>1, <3>2, <3>3
  <2>4. \A r \in S, q \in R : r["rule"] = q["rule"] => r \in R
    BY <2>1
  <2>5. TotalIn(GetForRules.rules) = Cardinality(R)
    BY <1>1, <2>2, <2>3, <2>4, BucketsCount
  <2>6. GetForRules.uncategorizedCount = Cardinality(N)
    BY <1>1, <2>1 DEF GetForRules
  <2>7. IsFiniteSet(R) /\ IsFiniteSet(N)
    BY <1>1, <2>2, FS_Subset
  <2>8. Cardinality(S) = Cardinality(R) + Cardinality(N)
    BY <2>2, <2>7, CardApart
  <2> QED
    BY <2>5, <2>6, <2>8
<1> QED
  BY <1>1, <1>2, <1>3, <1>4, <1>5 DEF CountedOnce


-----------------------------------------------------------------------------
\* A trend whose two steps do not oppose each other goes one way.
LEMMA ProductSign ==
  ASSUME NEW a \in Int, NEW b \in Int, a > 0, b < 0
  PROVE  a * b < 0 /\ b * a < 0
<1>1. PICK p \in Nat, q \in Nat : p = a - 1 /\ q = -b - 1
  BY SMT
<1>2. PICK r \in Nat : r = p * q
  BY SMT
<1>3. a = p + 1 /\ b = -(q + 1)
  BY <1>1
<1>4. a * b = -(r + p + q + 1) /\ b * a = a * b
  BY <1>2, <1>3
<1> QED
  BY <1>2, <1>4

LEMMA SameWay ==
  ASSUME NEW v24 \in Int, NEW v48 \in Int, NEW v72 \in Int, ~Opposed(v24, v48, v72)
  PROVE  (v72 <= v48 /\ v48 <= v24) \/ (v72 >= v48 /\ v48 >= v24)
<1>1. PICK a \in Int, b \in Int : a = v24 - v48 /\ b = v48 - v72
  OBVIOUS
<1>2. ~(a * b < 0)
  BY <1>1 DEF Opposed
<1>3. ~(a > 0 /\ b < 0) /\ ~(b > 0 /\ a < 0)
  BY <1>2, ProductSign
<1> QED
  BY <1>1, <1>3

LEMMA TrendIsMonotonic ==
  ASSUME NEW m, NEW v24 \in Int, NEW v48 \in Int, NEW v72 \in Int, NEW s, s = Classify(m, v24, v48, v72)
  PROVE  s.metric = m /\ IsMonotonic(s, v24, v48, v72)
<1>1. s.metric = m
  BY DEF Classify, Signal
<1>2. SUFFICES ASSUME s.direction \in {"UP", "DOWN"}, s.confidence # "LOW"
      PROVE  IF (s.direction = "UP") = (m \in HIGHER_IS_BETTER) THEN v72 <= v48 /\ v48 <= v24 ELSE v72 >= v48 /\ v48 >= v24
  BY <1>1 DEF IsMonotonic
<1>3. /\ s.direction = (IF PerformanceChange(m, v24, v72) >= 0 THEN "UP" ELSE "DOWN")
      /\ s.confidence = TrendConfidence(v24, v48, v72)
  BY <1>2 DEF Classify, Signal
<1>4. ~Opposed(v24, v48, v72)
  BY <1>2, <1>3 DEF TrendConfidence
<1>5. (v72 <= v48 /\ v48 <= v24) \/ (v72 >= v48 /\ v48 >= v24)
  BY <1>4, SameWay
<1>6. CASE m \in HIGHER_IS_BETTER
  <2>1. PerformanceChange(m, v24, v72) >= 0 <=> v24 >= v72
    BY <1>6 DEF PerformanceChange
  <2>2. CASE v24 >= v72
    <3>1. s.direction = "UP"
      BY <1>3, <2>1, <2>2
    <3> QED
      BY <1>5, <1>6, <2>2, <3>1
  <2>3. CASE ~(v24 >= v72)
    <3>1. s.direction = "DOWN"
      BY <1>3, <2>1, <2>3
    <3> QED
      BY <1>5, <1>6, <2>3, <3>1
  <2> QED
    BY <2>2, <2>3
<1>7. CASE m \notin HIGHER_IS_BETTER
  <2>1. PerformanceChange(m, v24, v72) >= 0 <=> v24 <= v72
    BY <1>7 DEF PerformanceChange
  <2>2. CASE v24 <= v72
    <3>1. s.direction = "UP"
      BY <1>3, <2>1, <2>2
    <3> QED
      BY <1>5, <1>7, <2>2, <3>1
  <2>3. CASE ~(v24 <= v72)
    <3>1. s.direction = "DOWN"
      BY <1>3, <2>1, <2>3
    <3> QED
      BY <1>5, <1>7, <2>3, <3>1
  <2> QED
    BY <2>2, <2>3
<1> QED
  BY <1>6, <1>7

\* Every metric that is analyzed has a place of its own.
LEMMA AnalyzedAre ==
  /\ DOMAIN ANALYZED_METRICS = 1..4 /\ IsFiniteSet(DOMAIN ANALYZED_METRICS)
  /\ \A i \in 1..4 : ANALYZED_METRICS[i] \in KPIs
  /\ \A i, j \in 1..4 : ANALYZED_METRICS[i] = ANALYZED_METRICS[j] => i = j
<1>1. DOMAIN ANALYZED_METRICS = 1..4
  BY DEF ANALYZED_METRICS
<1>2. ANALYZED_METRICS[1] = "roas" /\ ANALYZED_METRICS[2] = "ctr" /\ ANALYZED_METRICS[3] = "cpa" /\ ANALYZED_METRICS[4] = "cpc"
  BY DEF ANALYZED_METRICS
<1>3. \A i \in 1..4 : i = 1 \/ i = 2 \/ i = 3 \/ i = 4
  OBVIOUS
<1>4. \A i \in 1..4 : ANALYZED_METRICS[i] \in KPIs
  BY <1>2, <1>3 DEF KPIs
<1>5. \A i, j \in 1..4 : ANALYZED_METRICS[i] = ANALYZED_METRICS[j] => i = j
  BY <1>2, <1>3
<1> QED
  BY <1>1, <1>4, <1>5, IntervalIs

\* The signals are of metrics that differ, and of values that the windows have.
LEMMA SignalsAre ==
  ASSUME NEW snaps, SnapsOk(snaps), None \notin Int, NEW signals, signals = Analyze(snaps)
  PROVE  /\ \E n \in Nat : DOMAIN signals = 1..n
         /\ \A i \in DOMAIN signals : \E m \in KPIs : 
              /\ signals[i] = SignalOf(m, snaps)
              /\ snaps[24].kpi[m] \in Nat /\ snaps[48].kpi[m] \in Nat /\ snaps[72].kpi[m] \in Nat
              /\ snaps[72].kpi[m] # 0
         /\ \A i, j \in DOMAIN signals : signals[i].metric = signals[j].metric => i = j
<1>1. CASE ~CanAnalyze(snaps)
  <2>1. signals = <<>>
    BY <1>1 DEF Analyze
  <2>2. DOMAIN signals = {} /\ 1..0 = {} /\ 0 \in Nat
    BY <2>1
  <2> QED
    BY <2>2
<1>2. CASE CanAnalyze(snaps)
  <2>1. PICK at : at = {i \in DOMAIN ANALYZED_METRICS : \A h \in {48, 72} : snaps[h].kpi[ANALYZED_METRICS[i]] # 0}
    OBVIOUS
  <2>2. PICK seen : seen = Kept(ANALYZED_METRICS, at)
    OBVIOUS
  <2>3. seen = MetricsWithBaseline(snaps)
    BY <2>1, <2>2 DEF MetricsWithBaseline
  <2>4. at \in SUBSET DOMAIN ANALYZED_METRICS
    BY <2>1
  <2>5. IsFiniteSet(at) /\ at \subseteq Nat /\ at \subseteq DOMAIN ANALYZED_METRICS
    BY <2>4, AnalyzedAre, FS_Subset
  <2>6. Filters(seen, ANALYZED_METRICS, at)
    BY <2>2, <2>5, KeptIs
  <2>7. PICK n \in Nat : \E q \in [1..n -> at] :
          seen = [k \in 1..n |-> ANALYZED_METRICS[q[k]]] /\ \A j, k \in 1..n : j < k => q[j] < q[k]
    BY <2>6 DEF Filters
  <2>8. PICK p \in [1..n -> at] :
          seen = [k \in 1..n |-> ANALYZED_METRICS[p[k]]] /\ \A j, k \in 1..n : j < k => p[j] < p[k]
    BY <2>7
  <2>9. DOMAIN seen = 1..n /\ \A k \in 1..n : seen[k] = ANALYZED_METRICS[p[k]] /\ p[k] \in 1..4 /\ p[k] \in at
    BY <2>4, <2>8, AnalyzedAre
  <2>10. \A k \in 1..n : seen[k] \in KPIs /\ snaps[72].kpi[seen[k]] # 0
    BY <2>1, <2>9, AnalyzedAre
  <2>11. \A j, k \in 1..n : seen[j] = seen[k] => j = k
    <3>1. TAKE j, k \in 1..n
    <3>2. HAVE seen[j] = seen[k]
    <3>3. p[j] = p[k] /\ p[j] \in 1..4
      BY <2>9, <3>2, AnalyzedAre
    <3>4. ~(j < k) /\ ~(k < j)
      BY <2>8, <3>3
    <3> QED
      BY <3>4
  <2>12. signals = [i \in 1..n |-> SignalOf(seen[i], snaps)]
    BY <1>2, <2>3, <2>9 DEF Analyze
  <2>13. DOMAIN signals = 1..n /\ \A i \in 1..n : signals[i] = SignalOf(seen[i], snaps)
    BY <2>12
  <2>14. \A m \in KPIs : snaps[24].kpi[m] \in Nat /\ snaps[48].kpi[m] \in Nat /\ snaps[72].kpi[m] \in Nat
    BY <1>2 DEF CanAnalyze, SnapsOk, Hours
  <2>15. ASSUME NEW i \in 1..n PROVE signals[i].metric = seen[i]
    <3>1. PICK m, v24, v48, v72 : m = seen[i] /\ v24 = snaps[24].kpi[m] /\ v48 = snaps[48].kpi[m] /\ v72 = snaps[72].kpi[m]
      OBVIOUS
    <3>2. signals[i] = Classify(m, v24, v48, v72)
      BY <2>13, <3>1 DEF SignalOf
    <3>3. Classify(m, v24, v48, v72).metric = m
      BY DEF Classify, Signal
    <3> QED
      BY <3>1, <3>2, <3>3
  <2>16. \A i, j \in DOMAIN signals : signals[i].metric = signals[j].metric => i = j
    BY <2>11, <2>13, <2>15
  <2>17. \A i \in DOMAIN signals : \E m \in KPIs : 
              /\ signals[i] = SignalOf(m, snaps)
              /\ snaps[24].kpi[m] \in Nat /\ snaps[48].kpi[m] \in Nat /\ snaps[72].kpi[m] \in Nat
              /\ snaps[72].kpi[m] # 0
    BY <2>10, <2>13, <2>14
  <2> QED
    BY <2>13, <2>16, <2>17
<1> QED
  BY <1>1, <1>2

LEMMA SignalsHold ==
  ASSUME NEW snaps, SnapsOk(snaps), None \notin Int
  PROVE  SignalsAreMonotonic(Analyze(snaps), snaps)
<1>1. PICK signals : signals = Analyze(snaps)
  OBVIOUS
<1>0. \A i \in DOMAIN signals : \E m \in KPIs : 
        /\ signals[i] = SignalOf(m, snaps)
        /\ snaps[24].kpi[m] \in Nat /\ snaps[48].kpi[m] \in Nat /\ snaps[72].kpi[m] \in Nat
  BY <1>1, SignalsAre
<1>2. ASSUME NEW i \in DOMAIN signals, NEW k, k = signals[i].metric
      PROVE  IsMonotonic(signals[i], snaps[24].kpi[k], snaps[48].kpi[k], snaps[72].kpi[k])
  <2>1. PICK m \in KPIs : /\ signals[i] = SignalOf(m, snaps)
                          /\ snaps[24].kpi[m] \in Nat /\ snaps[48].kpi[m] \in Nat /\ snaps[72].kpi[m] \in Nat
    BY <1>0
  <2>0. PICK s : s = signals[i]
    OBVIOUS
  <2>2. PICK v24 \in Int, v48 \in Int, v72 \in Int :
          v24 = snaps[24].kpi[m] /\ v48 = snaps[48].kpi[m] /\ v72 = snaps[72].kpi[m]
    BY <2>1
  <2>3. s = Classify(m, v24, v48, v72)
    BY <2>0, <2>1, <2>2 DEF SignalOf
  <2>4. s.metric = m /\ IsMonotonic(s, v24, v48, v72)
    BY <2>3, TrendIsMonotonic
  <2> QED
    BY <1>2, <2>0, <2>2, <2>4
<1> QED
  BY <1>1, <1>2 DEF SignalsAreMonotonic

LEMMA TrendsHold == world \in Worlds => TrendsAreMonotonic
  BY SignalsHold, InsightsAssumption DEF TrendsAreMonotonic


-----------------------------------------------------------------------------
\* What an insight can be made of, and what its score is then.
Known(i) ==
  /\ i.severity \in {"HIGH", "MEDIUM", "LOW", "INFO"} /\ i.type \in DOMAIN ACTIONABILITY
  /\ i.value = None \/ i.value \in DOMAIN LogImpact
  /\ i.swing = None \/ i.swing \in Int
  /\ i.severity = "INFO" => i.value = None /\ i.type \in {"LEARNING_PHASE", "RULE_NOT_TRIGGERED", "TREND_UP"}
  /\ i.type = "PERFORMANCE_RISK" => i.severity = "HIGH" /\ i.confidence = "MEDIUM"

LEMMA FactorIs ==
  ASSUME NEW v \in Nat, NEW w \in {5, 15, 20, 30}
  PROVE  Factor(v, w) \in Nat
  BY DEF Factor

LEMMA ScoreIs ==
  ASSUME NEW i, Known(i), \A v \in DOMAIN LogImpact : LogImpact[v] \in Nat, None \notin Int
  PROVE  /\ Score(i) \in Nat
         /\ i.severity = "INFO" => Score(i) <= 56
         /\ i.type = "PERFORMANCE_RISK" => Score(i) >= 58
<1>1. PICK a \in Nat : a = Factor(SEVERITY_FACTOR[i.severity], 30) /\ (i.severity = "INFO" => a = 45)
                       /\ (i.severity = "HIGH" => a = 270)
  BY DEF Known, SEVERITY_FACTOR, Factor
<1>2. PICK b \in Nat : b = Factor(ConfidenceFactor(i), 15) /\ b <= 150 /\ (i.confidence = "MEDIUM" => b = 105)
  <2>1. CASE i.confidence = "HIGH"
    BY <2>1 DEF ConfidenceFactor, Factor
  <2>2. CASE i.confidence = "MEDIUM"
    BY <2>2 DEF ConfidenceFactor, Factor
  <2>3. CASE i.confidence \notin {"HIGH", "MEDIUM"}
    BY <2>3 DEF ConfidenceFactor, Factor
  <2> QED
    BY <2>1, <2>2, <2>3
<1>3. PICK c \in Nat : c = Factor(ImpactFactor(i), 20) /\ (i.value = None => c = 100)
  <2>1. CASE i.value = None
    BY <2>1 DEF ImpactFactor, Factor
  <2>2. CASE i.value # None
    <3>1. ImpactFactor(i) \in Nat
      BY <2>2 DEF Known, ImpactFactor
    <3> QED
      BY <2>2, <3>1, FactorIs
  <2> QED
    BY <2>1, <2>2
<1>4. PICK d \in Nat : d = Factor(MagnitudeFactor(i), 15) /\ d <= 150
  <2>1. PICK v \in Nat : v = MagnitudeFactor(i) /\ v <= 1000
    BY DEF Known, MagnitudeFactor, Magnitude
  <2> QED
    BY <2>1 DEF Factor
<1>5. PICK e \in Nat : e = Factor(ACTIONABILITY[i.type], 15) /\ (i.type = "PERFORMANCE_RISK" => e = 150)
                       /\ (i.type \in {"LEARNING_PHASE", "RULE_NOT_TRIGGERED", "TREND_UP"} => e <= 60)
  <2>1. ACTIONABILITY[i.type] \in Nat
    BY DEF Known, ACTIONABILITY
  <2>2. Factor(ACTIONABILITY[i.type], 15) \in Nat
    BY <2>1, FactorIs
  <2>3. i.type = "PERFORMANCE_RISK" => Factor(ACTIONABILITY[i.type], 15) = 150
    BY DEF Factor, ACTIONABILITY
  <2>4. i.type \in {"LEARNING_PHASE", "RULE_NOT_TRIGGERED", "TREND_UP"} => Factor(ACTIONABILITY[i.type], 15) <= 60
    BY DEF Factor, ACTIONABILITY
  <2> QED
    BY <2>2, <2>3, <2>4
<1>6. Factor(1000, 5) = 50
  BY DEF Factor
<1>7. Score(i) = (a + b + c + d + e + 50 + 5) \div 10
  BY <1>1, <1>2, <1>3, <1>4, <1>5, <1>6 DEF Score
<1>8. Score(i) \in Nat
  BY <1>7
<1>9. ASSUME i.severity = "INFO" PROVE Score(i) <= 56
  <2>1. a = 45 /\ c = 100 /\ e <= 60
    BY <1>1, <1>3, <1>5, <1>9 DEF Known
  <2> QED
    BY <1>2, <1>4, <1>7, <2>1
<1>10. ASSUME i.type = "PERFORMANCE_RISK" PROVE Score(i) >= 58
  <2>1. a = 270 /\ b = 105 /\ e = 150
    BY <1>1, <1>2, <1>5, <1>10 DEF Known
  <2> QED
    BY <1>7, <2>1
<1> QED
  BY <1>8, <1>9, <1>10

\* What is only information ranks below a risk.
LEMMA RankIs ==
  ASSUME NEW i, Known(i), \A v \in DOMAIN LogImpact : LogImpact[v] \in Nat, None \notin Int
  PROVE  /\ RankKey(i) \in Int
         /\ i.severity = "INFO" => RankKey(i) >= -5611
         /\ i.type = "PERFORMANCE_RISK" => RankKey(i) <= -5839
<1>1. PICK n \in Nat : n = Score(i) /\ (i.severity = "INFO" => n <= 56) /\ (i.type = "PERFORMANCE_RISK" => n >= 58)
  BY ScoreIs
<1>2. PICK r \in Nat : r = SeverityRank(i.severity) /\ (i.severity = "INFO" => r = 1) /\ (i.severity = "HIGH" => r = 4)
  BY DEF Known, SeverityRank
<1>3. PICK name \in {-1, 0, 1} : name = NameKey(i)
  BY InsightsAssumption DEF NameKey
<1>4. RankKey(i) = name - 10 * (10 * n + r)
  BY <1>1, <1>2, <1>3 DEF RankKey
<1>5. i.type = "PERFORMANCE_RISK" => r = 4
  BY <1>2 DEF Known
<1> QED
  BY <1>1, <1>2, <1>3, <1>4, <1>5


\* A list of insights that can be told apart, of some entities and of some kinds of sources.
Tells(s, ents, kinds) ==
  /\ \E n \in Nat : DOMAIN s = 1..n /\ s = [k \in 1..n |-> s[k]]
  /\ \A k \in DOMAIN s : Known(s[k]) /\ s[k].id[1] \in ents /\ s[k].id[2][1] \in kinds
  /\ \A j, k \in DOMAIN s : s[j].id = s[k].id => j = k

LEMMA TellsNone == ASSUME NEW ents, NEW kinds PROVE Tells(<<>>, ents, kinds)
<1>1. DOMAIN <<>> = 1..0 /\ <<>> = [k \in 1..0 |-> <<>>[k]] /\ 1..0 = {}
  OBVIOUS
<1> QED
  BY <1>1 DEF Tells

LEMMA TellsOne ==
  ASSUME NEW ents, NEW kinds, NEW i, Known(i), i.id[1] \in ents, i.id[2][1] \in kinds
  PROVE  Tells(<<i>>, ents, kinds)
<1>1. PICK s : s = <<i>>
  OBVIOUS
<1>2. DOMAIN s = 1..1 /\ s[1] = i /\ s = [k \in 1..1 |-> s[k]] /\ \A k \in 1..1 : k = 1
  BY <1>1
<1> QED
  BY <1>1, <1>2 DEF Tells

LEMMA JoinedIs ==
  ASSUME NEW m \in Nat, NEW n \in Nat, NEW s, NEW t,
         DOMAIN s = 1..m, s = [k \in 1..m |-> s[k]], DOMAIN t = 1..n, t = [k \in 1..n |-> t[k]]
  PROVE  /\ DOMAIN (s \o t) = 1..(m + n) /\ s \o t = [k \in 1..(m + n) |-> (s \o t)[k]]
         /\ \A k \in 1..m : (s \o t)[k] = s[k]
         /\ \A k \in (m + 1)..(m + n) : k - m \in 1..n /\ (s \o t)[k] = t[k - m]
<1>1. PICK S : S = {s[k] : k \in 1..m} \cup {t[k] : k \in 1..n}
  OBVIOUS
<1>2. s \in [1..m -> S] /\ t \in [1..n -> S]
  BY <1>1
<1>3. s \in Seq(S) /\ t \in Seq(S) /\ Len(s) = m /\ Len(t) = n
  BY <1>2
<1>4. s \o t \in Seq(S) /\ Len(s \o t) = m + n
  BY <1>3
<1>5. DOMAIN (s \o t) = 1..(m + n) /\ s \o t = [k \in 1..(m + n) |-> (s \o t)[k]]
  BY <1>4
<1>6. \A k \in 1..m : (s \o t)[k] = s[k]
  BY <1>3
<1>7. \A k \in (m + 1)..(m + n) : k - m \in 1..n /\ (s \o t)[k] = t[k - m]
  BY <1>3
<1> QED
  BY <1>5, <1>6, <1>7

LEMMA TellsBoth ==
  ASSUME NEW ents, NEW kinds, NEW s, NEW t, Tells(s, ents, kinds), Tells(t, ents, kinds),
         \A j \in DOMAIN s, k \in DOMAIN t : s[j].id # t[k].id
  PROVE  Tells(s \o t, ents, kinds)
<1>1. PICK m \in Nat : DOMAIN s = 1..m /\ s = [k \in 1..m |-> s[k]]
  BY DEF Tells
<1>2. PICK n \in Nat : DOMAIN t = 1..n /\ t = [k \in 1..n |-> t[k]]
  BY DEF Tells
<1>3. PICK r : r = s \o t
  OBVIOUS
<1>4. /\ DOMAIN r = 1..(m + n) /\ r = [k \in 1..(m + n) |-> r[k]]
      /\ \A k \in 1..m : r[k] = s[k]
      /\ \A k \in (m + 1)..(m + n) : k - m \in 1..n /\ r[k] = t[k - m]
  BY <1>1, <1>2, <1>3, JoinedIs
<1>5. \A k \in 1..(m + n) : k \in 1..m \/ k \in (m + 1)..(m + n)
  OBVIOUS
<1>6. \A k \in 1..(m + n) : Known(r[k]) /\ r[k].id[1] \in ents /\ r[k].id[2][1] \in kinds
  <2>1. ASSUME NEW k \in 1..m PROVE Known(r[k]) /\ r[k].id[1] \in ents /\ r[k].id[2][1] \in kinds
    BY <1>1, <1>4 DEF Tells
  <2>2. ASSUME NEW k \in (m + 1)..(m + n) PROVE Known(r[k]) /\ r[k].id[1] \in ents /\ r[k].id[2][1] \in kinds
    <3>1. PICK i \in 1..n : r[k] = t[i]
      BY <1>4
    <3>2. Known(t[i]) /\ t[i].id[1] \in ents /\ t[i].id[2][1] \in kinds
      BY <1>2 DEF Tells
    <3> QED
      BY <3>1, <3>2
  <2> QED
    BY <1>5, <2>1, <2>2
<1>7. ASSUME NEW j \in 1..(m + n), NEW k \in 1..(m + n), r[j].id = r[k].id PROVE j = k
  <2>1. CASE j \in 1..m /\ k \in 1..m
    BY <1>1, <1>4, <1>7, <2>1 DEF Tells
  <2>2. CASE j \in 1..m /\ k \in (m + 1)..(m + n)
    <3>1. PICK i \in 1..n : r[k] = t[i]
      BY <1>4, <2>2
    <3>2. r[j] = s[j] /\ j \in DOMAIN s /\ i \in DOMAIN t
      BY <1>1, <1>2, <1>4, <2>2
    <3> QED
      BY <1>7, <3>1, <3>2
  <2>3. CASE j \in (m + 1)..(m + n) /\ k \in 1..m
    <3>1. PICK i \in 1..n : r[j] = t[i]
      BY <1>4, <2>3
    <3>2. r[k] = s[k] /\ k \in DOMAIN s /\ i \in DOMAIN t
      BY <1>1, <1>2, <1>4, <2>3
    <3> QED
      BY <1>7, <3>1, <3>2
  <2>4. CASE j \in (m + 1)..(m + n) /\ k \in (m + 1)..(m + n)
    <3>1. j - m \in 1..n /\ k - m \in 1..n /\ t[j - m].id = t[k - m].id
      BY <1>4, <1>7, <2>4
    <3>2. j - m = k - m
      BY <1>2, <3>1 DEF Tells
    <3> QED
      BY <2>4, <3>2
  <2> QED
    BY <1>5, <2>1, <2>2, <2>3, <2>4
<1>8. PICK q \in Nat : q = m + n
  OBVIOUS
<1>9. DOMAIN r = 1..q /\ r = [k \in 1..q |-> r[k]]
  BY <1>4, <1>8
<1>10. /\ \A k \in DOMAIN r : Known(r[k]) /\ r[k].id[1] \in ents /\ r[k].id[2][1] \in kinds
       /\ \A j, k \in DOMAIN r : r[j].id = r[k].id => j = k
  BY <1>6, <1>7, <1>8, <1>9
<1>11. Tells(r, ents, kinds)
  BY <1>9, <1>10 DEF Tells
<1> QED
  BY <1>3, <1>11

\* Lists of other kinds of sources, or of other entities, tell other things.
LEMMA TellsMore ==
  ASSUME NEW s, NEW ents, NEW kinds, Tells(s, ents, kinds), NEW E, NEW K, ents \subseteq E, kinds \subseteq K
  PROVE  Tells(s, E, K)
  BY DEF Tells

LEMMA TellsApart ==
  ASSUME NEW s, NEW e1, NEW k1, Tells(s, e1, k1), NEW t, NEW e2, NEW k2, Tells(t, e2, k2),
         e1 \cap e2 = {} \/ k1 \cap k2 = {}
  PROVE  Tells(s \o t, e1 \cup e2, k1 \cup k2)
<1>1. PICK E, K : E = e1 \cup e2 /\ K = k1 \cup k2
  OBVIOUS
<1>2. e1 \subseteq E /\ k1 \subseteq K /\ e2 \subseteq E /\ k2 \subseteq K
  BY <1>1
<1>3. Tells(s, E, K) /\ Tells(t, E, K)
  BY <1>2, TellsMore
<1>4. \A j \in DOMAIN s, k \in DOMAIN t : s[j].id # t[k].id
  BY DEF Tells
<1> QED
  BY <1>1, <1>3, <1>4, TellsBoth


\* The proposals of an entity are of rules that differ, and of a budget that is known.
ProposalsOk(list) ==
  /\ \E n \in Nat : DOMAIN list = 1..n
  /\ \A k \in DOMAIN list : /\ OrElse(list[k].current, list[k].value) \in {None} \cup DOMAIN LogImpact
                            /\ list[k].rule.delta = None \/ list[k].rule.delta \in Int
  /\ \A j, k \in DOMAIN list : list[j].rule.id = list[k].rule.id => j = k

LEMMA ProposalsAre ==
  ASSUME NEW snaps, NEW budget, NEW result, IsResult(result, snaps, budget),
         budget # None => budget \in DOMAIN LogImpact
  PROVE  /\ ProposalsOk(result.proposed)
         /\ \E n \in Nat : DOMAIN result.skipped = 1..n
<1>1. CASE result = EMPTY
  <2>1. result.proposed = <<>> /\ result.skipped = <<>>
    BY <1>1 DEF EMPTY
  <2>2. DOMAIN <<>> = 1..0 /\ 1..0 = {} /\ 0 \in Nat
    OBVIOUS
  <2> QED
    BY <2>1, <2>2 DEF ProposalsOk
<1>2. CASE \E rules : RulesOk(rules) /\ snaps[24] # None /\ \E b \in {None, budget} : result = Dispatch(rules, snaps, b)
  <2>1. PICK rules : RulesOk(rules) /\ \E b \in {None, budget} : result = Dispatch(rules, snaps, b)
    BY <1>2
  <2>2. PICK b \in {None, budget} : result = Dispatch(rules, snaps, b)
    BY <2>1
  <2>3. PICK results : results = [i \in DOMAIN rules |-> EvaluateRule(rules[i], snaps, b)]
    OBVIOUS
  <2>4. PICK list, skips : list = result.proposed /\ skips = result.skipped
    OBVIOUS
  <2>5. Picks(list, results) /\ Picks(skips, results) /\ \A k \in DOMAIN list : list[k].kind = "proposed"
    BY <2>1, <2>2, <2>3, <2>4, DispatchIs
  <2>6. DOMAIN results = DOMAIN rules
    BY <2>3
  <2>7. PICK n \in Nat : \E q \in [1..n -> DOMAIN rules] :
          list = [k \in 1..n |-> results[q[k]]] /\ \A j, k \in 1..n : q[j] = q[k] => j = k
    BY <2>5, <2>6 DEF Picks
  <2>8. PICK p \in [1..n -> DOMAIN rules] :
          list = [k \in 1..n |-> results[p[k]]] /\ \A j, k \in 1..n : p[j] = p[k] => j = k
    BY <2>7
  <2>9. DOMAIN list = 1..n /\ \A k \in 1..n : list[k] = results[p[k]] /\ p[k] \in DOMAIN rules
    BY <2>8
  <2>10. \A i \in DOMAIN rules : /\ results[i].rule = rules[i]
                                 /\ results[i].kind = "proposed" =>
                                      OrElse(results[i].current, results[i].value) \in {None} \cup DOMAIN LogImpact
    <3>1. TAKE i \in DOMAIN rules
    <3>2. PICK e : e = EvaluateRule(rules[i], snaps, b)
      OBVIOUS
    <3>3. e.rule = rules[i] /\ (e.kind = "proposed" => \/ e.current = None /\ e.value = None
                                                       \/ e.current = b /\ b # None)
      BY <3>2, RuleGives
    <3>4. b = None \/ b \in DOMAIN LogImpact
      BY <2>2
    <3> QED
      BY <2>3, <3>2, <3>3, <3>4 DEF OrElse
  <2>11. ASSUME NEW k \in 1..n
         PROVE  /\ OrElse(list[k].current, list[k].value) \in {None} \cup DOMAIN LogImpact
                /\ list[k].rule.delta = None \/ list[k].rule.delta \in Int
    <3>1. list[k].rule = rules[p[k]] /\ list[k].kind = "proposed"
      BY <2>5, <2>9, <2>10
    <3>2. rules[p[k]].delta = None \/ rules[p[k]].delta \in Int
      BY <2>1, <2>9 DEF RulesOk
    <3> QED
      BY <2>9, <2>10, <3>1, <3>2
  <2>12. ASSUME NEW j \in 1..n, NEW k \in 1..n, list[j].rule.id = list[k].rule.id PROVE j = k
    <3>1. rules[p[j]].id = rules[p[k]].id
      BY <2>9, <2>10, <2>12
    <3>2. p[j] = p[k]
      BY <2>1, <2>9, <3>1 DEF RulesOk
    <3> QED
      BY <2>8, <3>2
  <2>13. ProposalsOk(list)
    BY <2>9, <2>11, <2>12 DEF ProposalsOk
  <2>14. \E m \in Nat : DOMAIN skips = 1..m
    BY <2>5, PicksAre
  <2> QED
    BY <2>4, <2>13, <2>14
<1> QED
  BY <1>1, <1>2 DEF IsResult

LEMMA ProposedTells ==
  ASSUME NEW ent, NEW list, ProposalsOk(list)
  PROVE  Tells(ProposedInsights(ent, list), {ent}, {"proposed"})
<1>1. PICK s : s = ProposedInsights(ent, list)
  OBVIOUS
<1>2. PICK n \in Nat : DOMAIN list = 1..n
  BY DEF ProposalsOk
<1>3. DOMAIN s = 1..n /\ s = [k \in 1..n |-> s[k]] /\ \A k \in 1..n : s[k] = BuildProposedInsight(ent, list[k])
  BY <1>1, <1>2 DEF ProposedInsights
<1>4. ASSUME NEW k \in 1..n
      PROVE  /\ Known(s[k]) /\ s[k].id[1] \in {ent} /\ s[k].id[2][1] \in {"proposed"}
             /\ s[k].id[2][2] = list[k].rule.id
  <2>1. PICK p, v, i : p = list[k] /\ v = OrElse(p.current, p.value) /\ i = s[k]
    OBVIOUS
  <2>2. v \in {None} \cup DOMAIN LogImpact /\ (p.rule.delta = None \/ p.rule.delta \in Int)
    BY <1>2, <2>1 DEF ProposalsOk
  <2>3. i = BuildProposedInsight(ent, p)
    BY <1>3, <2>1
  <2>4. PICK swing : swing = IF p.rule.delta = None THEN None ELSE 10 * p.rule.delta
    OBVIOUS
  <2>5. swing = None \/ swing \in Int
    BY <2>2, <2>4
  <2>6. /\ i.id = <<ent, <<"proposed", p.rule.id, p.rule.action>>>> /\ i.confidence = "MEDIUM"
        /\ i.value = v /\ i.swing = swing
        /\ \/ i.type = "PERFORMANCE_RISK" /\ i.severity = "HIGH"
           \/ i.type = "OPTIMIZATION_OPPORTUNITY" /\ i.severity = "MEDIUM"
    BY <2>1, <2>3, <2>4 DEF BuildProposedInsight, Insight
  <2>7. Known(i)
    BY <2>2, <2>6, <2>5 DEF Known, ACTIONABILITY
  <2> QED
    BY <2>1, <2>6, <2>7
<1>5. \A j, k \in 1..n : s[j].id = s[k].id => j = k
  BY <1>2, <1>4 DEF ProposalsOk
<1> QED
  BY <1>1, <1>3, <1>4, <1>5 DEF Tells

LEMMA SkipsTell ==
  ASSUME NEW ent, NEW skipped, NEW n \in Nat, DOMAIN skipped = 1..n
  PROVE  Tells(SkipInsights(ent, skipped), {ent}, {"skip"})
<1> DEFINE all == [i \in DOMAIN skipped |-> skipped[i].code]
           at == {i \in DOMAIN skipped : \A j \in DOMAIN skipped : j < i => skipped[j].code # skipped[i].code}
           codes == GroupSkipsByCode(skipped)
<1>1. /\ \A i \in DOMAIN skipped : all[i] = skipped[i].code
      /\ \A i \in at : i \in DOMAIN skipped /\ \A j \in DOMAIN skipped : j < i => skipped[j].code # skipped[i].code
  OBVIOUS
<1>2. codes = Kept(all, at)
  BY DEF GroupSkipsByCode
<1> HIDE DEF all, at, codes
<1>4. at \in SUBSET (1..n) /\ IsFiniteSet(1..n)
  BY IntervalIs DEF at
<1>5. IsFiniteSet(at) /\ at \subseteq Nat
  <2>1. IsFiniteSet(at)
    BY <1>4, FS_Subset
  <2>2. at \subseteq Nat
    BY <1>4
  <2> QED
    BY <2>1, <2>2
<1>6. Filters(codes, all, at)
  BY <1>2, <1>5, KeptIs
<1>7. PICK m \in Nat : \E q \in [1..m -> at] :
        codes = [k \in 1..m |-> all[q[k]]] /\ \A j, k \in 1..m : j < k => q[j] < q[k]
  BY <1>6 DEF Filters
<1>8. PICK p \in [1..m -> at] : codes = [k \in 1..m |-> all[p[k]]] /\ \A j, k \in 1..m : j < k => p[j] < p[k]
  BY <1>7
<1>9. DOMAIN codes = 1..m /\ \A k \in 1..m : codes[k] = skipped[p[k]].code /\ p[k] \in at /\ p[k] \in DOMAIN skipped
  BY <1>1, <1>8
<1>10. ASSUME NEW j \in 1..m, NEW k \in 1..m, j < k PROVE codes[j] # codes[k]
  <2>1. p[j] < p[k] /\ p[j] \in DOMAIN skipped /\ p[k] \in at
    BY <1>8, <1>9, <1>10
  <2> QED
    BY <1>1, <1>9, <2>1
<1>11. PICK s : s = SkipInsights(ent, skipped)
  OBVIOUS
<1>12. s = [i \in 1..m |-> BuildSkipInsight(ent, codes[i], RulesSkippedFor(skipped, codes[i]))]
  BY <1>9, <1>11 DEF SkipInsights, codes
<1>13. DOMAIN s = 1..m /\ s = [k \in 1..m |-> s[k]]
       /\ \A k \in 1..m : s[k] = BuildSkipInsight(ent, codes[k], RulesSkippedFor(skipped, codes[k]))
  BY <1>12
<1>14. ASSUME NEW k \in 1..m
       PROVE  Known(s[k]) /\ s[k].id[1] \in {ent} /\ s[k].id[2][1] \in {"skip"} /\ s[k].id[2][2] = codes[k]
  <2>1. PICK i, c, R : i = s[k] /\ c = codes[k] /\ R = RulesSkippedFor(skipped, codes[k])
    OBVIOUS
  <2>2. i = BuildSkipInsight(ent, c, R)
    BY <1>13, <2>1
  <2>3. /\ i.id = <<ent, <<"skip", c>>>> /\ i.value = None /\ i.swing = None
        /\ \/ i.type = "INSUFFICIENT_DATA" /\ i.severity = "LOW"
           \/ i.type = "RULE_NOT_TRIGGERED" /\ i.severity = "INFO"
    BY <2>2 DEF BuildSkipInsight, Insight
  <2>4. Known(i)
    BY <2>3 DEF Known, ACTIONABILITY
  <2> QED
    BY <2>1, <2>3, <2>4
<1>15. ASSUME NEW j \in 1..m, NEW k \in 1..m, s[j].id = s[k].id PROVE j = k
  <2>1. codes[j] = codes[k]
    BY <1>14, <1>15
  <2>2. ~(j < k) /\ ~(k < j)
    BY <1>10, <2>1
  <2> QED
    BY <2>2
<1>16. /\ \A k \in DOMAIN s : Known(s[k]) /\ s[k].id[1] \in {ent} /\ s[k].id[2][1] \in {"skip"}
       /\ \A j, k \in DOMAIN s : s[j].id = s[k].id => j = k
  BY <1>13, <1>14, <1>15
<1>17. Tells(s, {ent}, {"skip"})
  BY <1>13, <1>16 DEF Tells
<1> QED
  BY <1>11, <1>17


\* What a signal can be.
LEMMA ClassifyIs ==
  ASSUME NEW m, NEW v24 \in Int, NEW v48 \in Int, NEW v72 \in Int, v72 > 0, NEW s, s = Classify(m, v24, v48, v72)
  PROVE  /\ s.metric = m /\ s.direction \in {"FLAT", "VOLATILE", "UP", "DOWN"}
         /\ s.confidence \in {"HIGH", "MEDIUM", "LOW"} /\ (s.change = None \/ s.change \in Int)
<1>1. TrendConfidence(v24, v48, v72) \in {"HIGH", "MEDIUM", "LOW"}
  BY DEF TrendConfidence
<1>2. PICK d \in Int : d = PerformanceChange(m, v24, v72)
  BY DEF PerformanceChange
<1>3. PICK c \in Int : c = (2000 * d + v72) \div (2 * v72)
  <2>1. PICK n \in Int, w \in Int : n = 2000 * d + v72 /\ w = 2 * v72 /\ w > 0
    OBVIOUS
  <2>2. n \div w \in Int
    BY <2>1
  <2> QED
    BY <2>1, <2>2
<1> QED
  BY <1>1, <1>2, <1>3 DEF Classify, Signal

LEMMA TrendsTell ==
  ASSUME NEW ent, NEW signals, NEW n \in Nat, DOMAIN signals = 1..n,
         \A i \in 1..n : /\ signals[i].direction \in {"FLAT", "VOLATILE", "UP", "DOWN"}
                         /\ signals[i].confidence \in {"HIGH", "MEDIUM", "LOW"}
                         /\ signals[i].change = None \/ signals[i].change \in Int,
         \A i, j \in 1..n : signals[i].metric = signals[j].metric => i = j
  PROVE  /\ Tells(TrendInsights(ent, MovingSignals(signals)), {ent}, {"trend"})
         /\ \A k \in DOMAIN TrendInsights(ent, MovingSignals(signals)) :
              TrendInsights(ent, MovingSignals(signals))[k].id[2][2] # "STAGNANT"
<1>1. PICK at, moving : at = {i \in DOMAIN signals : signals[i].direction # "FLAT"} /\ moving = Kept(signals, at)
  OBVIOUS
<1>2. moving = MovingSignals(signals)
  BY <1>1 DEF MovingSignals
<1>3. at \in SUBSET (1..n) /\ IsFiniteSet(1..n)
  BY <1>1, IntervalIs
<1>4. IsFiniteSet(at) /\ at \subseteq Nat
  <2>1. IsFiniteSet(at)
    BY <1>3, FS_Subset
  <2>2. at \subseteq Nat
    BY <1>3
  <2> QED
    BY <2>1, <2>2
<1>5. Filters(moving, signals, at)
  BY <1>1, <1>4, KeptIs
<1>6. PICK m \in Nat : \E q \in [1..m -> at] :
        moving = [k \in 1..m |-> signals[q[k]]] /\ \A j, k \in 1..m : j < k => q[j] < q[k]
  BY <1>5 DEF Filters
<1>7. PICK p \in [1..m -> at] : moving = [k \in 1..m |-> signals[p[k]]] /\ \A j, k \in 1..m : j < k => p[j] < p[k]
  BY <1>6
<1>8. DOMAIN moving = 1..m /\ \A k \in 1..m : moving[k] = signals[p[k]] /\ p[k] \in 1..n /\ moving[k].direction # "FLAT"
  <2>1. \A i \in at : i \in 1..n /\ signals[i].direction # "FLAT"
    BY <1>1
  <2>2. DOMAIN moving = 1..m /\ \A k \in 1..m : moving[k] = signals[p[k]] /\ p[k] \in at
    BY <1>7
  <2> QED
    BY <2>1, <2>2
<1>9. \A j, k \in 1..m : moving[j].metric = moving[k].metric => j = k
  <2>1. TAKE j, k \in 1..m
  <2>2. HAVE moving[j].metric = moving[k].metric
  <2>3. p[j] = p[k]
    BY <1>8, <2>2
  <2>4. ~(j < k) /\ ~(k < j)
    BY <1>7, <1>8, <2>3
  <2> QED
    BY <2>4
<1>10. PICK s : s = TrendInsights(ent, moving)
  OBVIOUS
<1>11. DOMAIN s = 1..m /\ s = [k \in 1..m |-> s[k]]
       /\ \A k \in 1..m : s[k] = IF moving[k].direction = "VOLATILE" THEN BuildVolatilityInsight(ent, moving[k])
                                 ELSE BuildTrendDirectionInsight(ent, moving[k])
  BY <1>8, <1>10 DEF TrendInsights
<1>12. ASSUME NEW k \in 1..m
       PROVE  /\ Known(s[k]) /\ s[k].id[1] \in {ent} /\ s[k].id[2][1] \in {"trend"}
              /\ s[k].id[2][2] # "STAGNANT" /\ s[k].id[2][3] = moving[k].metric
  <2>1. PICK i, g : i = s[k] /\ g = moving[k]
    OBVIOUS
  <2>2. /\ g.direction \in {"VOLATILE", "UP", "DOWN"} /\ g.confidence \in {"HIGH", "MEDIUM", "LOW"}
        /\ g.change = None \/ g.change \in Int
    BY <1>8, <2>1
  <2>3. CASE g.direction = "VOLATILE"
    <3>1. i = BuildVolatilityInsight(ent, g)
      BY <1>11, <2>1, <2>3
    <3>2. /\ i.id = <<ent, <<"trend", "VOLATILE", g.metric>>>> /\ i.value = None /\ i.swing = None
          /\ i.type = "VOLATILITY_HIGH" /\ i.severity \in {"MEDIUM", "LOW"}
      BY <3>1 DEF BuildVolatilityInsight, Insight
    <3>3. Known(i)
      BY <3>2 DEF Known, ACTIONABILITY
    <3> QED
      BY <2>1, <3>2, <3>3
  <2>4. CASE g.direction # "VOLATILE"
    <3>1. i = BuildTrendDirectionInsight(ent, g)
      BY <1>11, <2>1, <2>4
    <3>2. /\ i.id = <<ent, <<"trend", g.direction, g.metric>>>> /\ i.value = None /\ i.swing = g.change
          /\ \/ i.type = "TREND_UP" /\ i.severity = "INFO"
             \/ i.type = "TREND_DOWN" /\ i.severity = g.confidence
      BY <3>1 DEF BuildTrendDirectionInsight, Insight
    <3>3. Known(i)
      BY <2>2, <3>2 DEF Known, ACTIONABILITY
    <3> QED
      BY <2>1, <2>2, <3>2, <3>3
  <2> QED
    BY <2>3, <2>4
<1>13. \A j, k \in 1..m : s[j].id = s[k].id => j = k
  BY <1>9, <1>12
<1>14. /\ \A k \in DOMAIN s : Known(s[k]) /\ s[k].id[1] \in {ent} /\ s[k].id[2][1] \in {"trend"}
       /\ \A k \in DOMAIN s : s[k].id[2][2] # "STAGNANT"
       /\ \A j, k \in DOMAIN s : s[j].id = s[k].id => j = k
  BY <1>11, <1>12, <1>13
<1>15. Tells(s, {ent}, {"trend"})
  BY <1>11, <1>14 DEF Tells
<1> QED
  BY <1>2, <1>10, <1>14, <1>15


\* What is said of an entity can be told apart, and so can what is said of both.
KINDS == {"learning", "no-metrics", "proposed", "ready-for-action", "skip", "trend"}

LEMMA EvaluationTells ==
  ASSUME NEW ent, NEW result, ProposalsOk(result.proposed), NEW n \in Nat, DOMAIN result.skipped = 1..n, NEW rules
  PROVE  Tells(AppendFromEvaluation(ent, result, rules), {ent}, {"no-metrics", "proposed", "ready-for-action", "skip"})
<1>1. PICK K, a, b, c : /\ K = {"no-metrics", "proposed", "ready-for-action", "skip"}
                        /\ a = ProposedInsights(ent, result.proposed)
                        /\ b = (IF result.proposed # <<>> THEN <<BuildReadyForActionInsight(ent, result.proposed)>> ELSE <<>>)
                        /\ c = SkipInsights(ent, result.skipped)
  OBVIOUS
<1>2. Tells(a, {ent}, {"proposed"}) /\ Tells(c, {ent}, {"skip"})
  BY <1>1, ProposedTells, SkipsTell
<1>3. Tells(b, {ent}, {"ready-for-action"})
  <2>1. CASE result.proposed # <<>>
    <3>1. PICK i : i = BuildReadyForActionInsight(ent, result.proposed)
      OBVIOUS
    <3>2. /\ i.id = <<ent, <<"ready-for-action">>>> /\ i.value = None /\ i.swing = None
          /\ i.type = "READY_FOR_ACTION" /\ i.severity \in {"HIGH", "MEDIUM"}
      BY <3>1 DEF BuildReadyForActionInsight, Insight
    <3>3. Known(i)
      BY <3>2 DEF Known, ACTIONABILITY
    <3>4. b = <<i>>
      BY <1>1, <2>1, <3>1
    <3> QED
      BY <3>2, <3>3, <3>4, TellsOne
  <2>2. CASE result.proposed = <<>>
    BY <1>1, <2>2, TellsNone
  <2> QED
    BY <2>1, <2>2
<1>4. PICK ab, k2 : ab = a \o b /\ k2 = {"proposed"} \cup {"ready-for-action"}
  OBVIOUS
<1>5. Tells(ab, {ent}, k2)
  <2>1. {"proposed"} \cap {"ready-for-action"} = {} /\ {ent} \cup {ent} = {ent}
    OBVIOUS
  <2>2. Tells(a \o b, {ent} \cup {ent}, {"proposed"} \cup {"ready-for-action"})
    BY <1>2, <1>3, <2>1, TellsApart
  <2> QED
    BY <1>4, <2>1, <2>2
<1>6. Tells(ab \o c, {ent}, K)
  <2>1. k2 \cap {"skip"} = {} /\ {ent} \cup {ent} = {ent} /\ k2 \cup {"skip"} \subseteq K /\ {ent} \subseteq {ent}
    BY <1>1, <1>4
  <2>2. Tells(ab \o c, {ent} \cup {ent}, k2 \cup {"skip"})
    BY <1>2, <1>5, <2>1, TellsApart
  <2> QED
    BY <2>1, <2>2, TellsMore
<1>7. PICK i : i = BuildNoMetricsInsight(ent)
  OBVIOUS
<1>8. Tells(<<i>>, {ent}, K)
  <2>1. /\ i.id = <<ent, <<"no-metrics">>>> /\ i.value = None /\ i.swing = None
        /\ i.type = "INSUFFICIENT_DATA" /\ i.severity = "LOW"
    BY <1>7 DEF BuildNoMetricsInsight, Insight
  <2>2. Known(i)
    BY <2>1 DEF Known, ACTIONABILITY
  <2> QED
    BY <1>1, <2>1, <2>2, TellsOne
<1>9. Tells(<<>>, {ent}, K)
  BY TellsNone
<1>10. PICK e : e = AppendFromEvaluation(ent, result, rules)
  OBVIOUS
<1>11. e = <<>> \/ e = <<i>> \/ e = (a \o b) \o c
  BY <1>1, <1>7, <1>10 DEF AppendFromEvaluation
<1> QED
  BY <1>1, <1>4, <1>6, <1>8, <1>9, <1>10, <1>11

LEMMA AppendedTells ==
  ASSUME NEW ent, NEW snaps, SnapsOk(snaps), None \notin Int
  PROVE  Tells(AppendTrendInsights(ent, snaps), {ent}, {"trend"})
<1>1. PICK signals : signals = Analyze(snaps)
  OBVIOUS
<1>2. \E n \in Nat : DOMAIN signals = 1..n
  BY <1>1, SignalsAre
<1>3. PICK n \in Nat : DOMAIN signals = 1..n
  BY <1>2
<1>4. \A i \in DOMAIN signals : \E m \in KPIs :
        /\ signals[i] = SignalOf(m, snaps)
        /\ snaps[24].kpi[m] \in Nat /\ snaps[48].kpi[m] \in Nat /\ snaps[72].kpi[m] \in Nat
        /\ snaps[72].kpi[m] # 0
  BY <1>1, SignalsAre
<1>5. \A i, j \in DOMAIN signals : signals[i].metric = signals[j].metric => i = j
  BY <1>1, SignalsAre
<1>6. ASSUME NEW i \in 1..n
      PROVE  /\ signals[i].direction \in {"FLAT", "VOLATILE", "UP", "DOWN"}
             /\ signals[i].confidence \in {"HIGH", "MEDIUM", "LOW"}
             /\ signals[i].change = None \/ signals[i].change \in Int
  <2>1. PICK m \in KPIs : /\ signals[i] = SignalOf(m, snaps)
                          /\ snaps[24].kpi[m] \in Nat /\ snaps[48].kpi[m] \in Nat /\ snaps[72].kpi[m] \in Nat
                          /\ snaps[72].kpi[m] # 0
    BY <1>3, <1>4
  <2>2. PICK v24 \in Int, v48 \in Int, v72 \in Int :
          v24 = snaps[24].kpi[m] /\ v48 = snaps[48].kpi[m] /\ v72 = snaps[72].kpi[m] /\ v72 > 0
    BY <2>1
  <2>3. PICK s : s = signals[i]
    OBVIOUS
  <2>4. s = Classify(m, v24, v48, v72)
    BY <2>1, <2>2, <2>3 DEF SignalOf
  <2> QED
    BY <2>2, <2>3, <2>4, ClassifyIs
<1>7. PICK s, t : /\ s = TrendInsights(ent, MovingSignals(signals))
                  /\ t = IF Cardinality({i \in DOMAIN signals : signals[i].direction = "FLAT"}) >= 2
                         THEN <<BuildStagnantInsight(ent)>> ELSE <<>>
  OBVIOUS
<1>8. Tells(s, {ent}, {"trend"}) /\ \A k \in DOMAIN s : s[k].id[2][2] # "STAGNANT"
  BY <1>3, <1>5, <1>6, <1>7, TrendsTell
<1>9. Tells(t, {ent}, {"trend"}) /\ \A k \in DOMAIN t : t[k].id[2][2] = "STAGNANT"
  <2>1. PICK i : i = BuildStagnantInsight(ent)
    OBVIOUS
  <2>2. /\ i.id = <<ent, <<"trend", "STAGNANT">>>> /\ i.value = None /\ i.swing = None
        /\ i.type = "PERFORMANCE_STAGNANT" /\ i.severity = "LOW"
    BY <2>1 DEF BuildStagnantInsight, Insight
  <2>3. Known(i)
    BY <2>2 DEF Known, ACTIONABILITY
  <2>4. Tells(<<i>>, {ent}, {"trend"})
    BY <2>2, <2>3, TellsOne
  <2>5. t = <<i>> \/ t = <<>>
    BY <1>7, <2>1
  <2>6. CASE t = <<i>>
    <3>1. DOMAIN t = 1..1 /\ t[1] = i /\ \A k \in 1..1 : k = 1
      BY <2>6
    <3> QED
      BY <2>2, <2>4, <2>6, <3>1
  <2>7. CASE t = <<>>
    <3>1. DOMAIN t = {}
      BY <2>7
    <3> QED
      BY <2>7, <3>1, TellsNone
  <2> QED
    BY <2>5, <2>6, <2>7
<1>10. \A j \in DOMAIN s, k \in DOMAIN t : s[j].id # t[k].id
  BY <1>8, <1>9
<1>11. Tells(s \o t, {ent}, {"trend"})
  BY <1>8, <1>9, <1>10, TellsBoth
<1>12. AppendTrendInsights(ent, snaps) = s \o t
  BY <1>1, <1>7 DEF AppendTrendInsights
<1> QED
  BY <1>11, <1>12

LEMMA EntityTells ==
  ASSUME NEW ent, NEW snaps, SnapsOk(snaps), None \notin Int, NEW budget, NEW result, IsResult(result, snaps, budget),
         budget # None => budget \in DOMAIN LogImpact, NEW w
  PROVE  Tells(InsightsOf(ent, result, w, snaps), {ent}, KINDS)
<1>1. PICK a, b, K : /\ a = AppendFromEvaluation(ent, result, w.rules) /\ b = AppendTrendInsights(ent, snaps)
                     /\ K = {"no-metrics", "proposed", "ready-for-action", "skip"}
  OBVIOUS
<1>2. ProposalsOk(result.proposed) /\ \E n \in Nat : DOMAIN result.skipped = 1..n
  BY ProposalsAre
<1>3. PICK n \in Nat : DOMAIN result.skipped = 1..n
  BY <1>2
<1>4. Tells(a, {ent}, K)
  BY <1>1, <1>2, <1>3, EvaluationTells
<1>5. Tells(b, {ent}, {"trend"})
  BY <1>1, AppendedTells
<1>6. K \cap {"trend"} = {} /\ K \cup {"trend"} \subseteq KINDS /\ {ent} \cup {ent} \subseteq {ent}
  BY <1>1 DEF KINDS
<1>7. Tells(a \o b, {ent} \cup {ent}, K \cup {"trend"})
  BY <1>4, <1>5, <1>6, TellsApart
<1>8. Tells(a \o b, {ent}, KINDS)
  BY <1>6, <1>7, TellsMore
<1> QED
  BY <1>1, <1>8 DEF InsightsOf

LEMMA UnscoredTells == ASSUME NEW w \in Worlds PROVE Tells(Unscored(w), {"CAMPAIGN", "AD_SET"}, KINDS)
<1>1. None \notin Int /\ (w.campaign.budget # None => w.campaign.budget \in DOMAIN LogImpact)
  BY InsightsAssumption
<1>2. /\ SnapsOk(w.snaps) /\ IsResult(EvaluateCampaign(w.campaign, w.rules, w.snaps), w.snaps, w.campaign.budget)
      /\ w.adSet # None => SnapsOk(w.adSet) /\ IsResult(EvaluateAdSet(w.campaign, w.rules, w.adSet), w.adSet, None)
  BY ResultsAre
<1>3. Tells(CampaignInsights(w), {"CAMPAIGN"}, KINDS)
  <2>1. Tells(InsightsOf("CAMPAIGN", EvaluateCampaign(w.campaign, w.rules, w.snaps), w, w.snaps), {"CAMPAIGN"}, KINDS)
    BY <1>1, <1>2, EntityTells
  <2>2. Tells(<<BuildLearningPhaseInsight("CAMPAIGN")>>, {"CAMPAIGN"}, KINDS)
    <3>1. PICK i : i = BuildLearningPhaseInsight("CAMPAIGN")
      OBVIOUS
    <3>2. /\ i.id = <<"CAMPAIGN", <<"learning">>>> /\ i.value = None /\ i.swing = None
          /\ i.type = "LEARNING_PHASE" /\ i.severity = "INFO"
      BY <3>1 DEF BuildLearningPhaseInsight, Insight
    <3>3. Known(i)
      BY <3>2 DEF Known, ACTIONABILITY
    <3>4. i.id[1] \in {"CAMPAIGN"} /\ i.id[2][1] \in KINDS
      BY <3>2 DEF KINDS
    <3> QED
      BY <3>1, <3>3, <3>4, TellsOne
  <2> QED
    BY <2>1, <2>2, TellsNone DEF CampaignInsights
<1>4. Tells(AdSetInsights(w), {"AD_SET"}, KINDS)
  <2>1. ASSUME w.adSet # None
        PROVE  Tells(InsightsOf("AD_SET", EvaluateAdSet(w.campaign, w.rules, w.adSet), w, w.adSet), {"AD_SET"}, KINDS)
    BY <1>1, <1>2, <2>1, EntityTells
  <2> QED
    BY <2>1, TellsNone DEF AdSetInsights
<1>5. {"CAMPAIGN"} \cap {"AD_SET"} = {} /\ {"CAMPAIGN"} \cup {"AD_SET"} = {"CAMPAIGN", "AD_SET"} /\ KINDS \cup KINDS = KINDS
  OBVIOUS
<1>6. Tells(CampaignInsights(w) \o AdSetInsights(w), {"CAMPAIGN"} \cup {"AD_SET"}, KINDS \cup KINDS)
  BY <1>3, <1>4, <1>5, TellsApart
<1> QED
  BY <1>5, <1>6 DEF Unscored


\* What is listed is of what there is to say, by rank, and of nothing twice.
Ranks(insights, all) ==
  \E n \in Nat : \E q \in [1..n -> DOMAIN all] :
    /\ DOMAIN insights = 1..n /\ \A k \in 1..n : insights[k].about = all[q[k]]
    /\ \A j, k \in 1..n : j < k => q[j] # q[k] /\ RankKey(all[q[j]]) <= RankKey(all[q[k]])

LEMMA ComputedRanks ==
  ASSUME NEW all, NEW u, NEW N \in Nat, DOMAIN all = 1..N, \A k \in 1..N : RankKey(all[k]) \in Int
  PROVE  Ranks(Ranked(all, u), all)
<1> DEFINE scored == [k \in DOMAIN all |-> ScoredFor(u, all[k])]
           key == [k \in DOMAIN all |-> RankKey(all[k])]
           at == DOMAIN all
<1>1. PICK list : list = Ranked(all, u)
  OBVIOUS
<1>2. list = Arranged(scored, at, key)
  BY <1>1 DEF Ranked
<1>3. /\ \A k \in at : scored[k].about = all[k] /\ key[k] = RankKey(all[k]) /\ key[k] \in Int
      /\ IsFiniteSet(at) /\ at \subseteq Nat /\ at = DOMAIN all
  <2>1. \A k \in at : scored[k].about = all[k]
    BY DEF ScoredFor
  <2>2. \A k \in at : key[k] = RankKey(all[k]) /\ key[k] \in Int
    OBVIOUS
  <2> QED
    BY <2>1, <2>2, IntervalIs
<1> HIDE DEF scored, key, at
<1>4. Sorts(list, scored, at, key)
  BY <1>2, <1>3, ArrangedIs
<1>5. PICK n \in Nat : \E q \in [1..n -> at] :
        /\ list = [k \in 1..n |-> scored[q[k]]]
        /\ \A j, k \in 1..n : j < k => key[q[j]] < key[q[k]] \/ (key[q[j]] = key[q[k]] /\ q[j] < q[k])
  BY <1>4 DEF Sorts
<1>6. PICK p \in [1..n -> at] :
        /\ list = [k \in 1..n |-> scored[p[k]]]
        /\ \A j, k \in 1..n : j < k => key[p[j]] < key[p[k]] \/ (key[p[j]] = key[p[k]] /\ p[j] < p[k])
  BY <1>5
<1>7. DOMAIN list = 1..n /\ \A k \in 1..n : list[k].about = all[p[k]]
  BY <1>3, <1>6
<1>8. ASSUME NEW j \in 1..n, NEW k \in 1..n, j < k
      PROVE  p[j] # p[k] /\ RankKey(all[p[j]]) <= RankKey(all[p[k]])
  <2>1. p[j] \in at /\ p[k] \in at
    OBVIOUS
  <2>2. key[p[j]] \in Int /\ key[p[k]] \in Int /\ p[j] \in Nat /\ p[k] \in Nat
    BY <1>3, <2>1
  <2>3. key[p[j]] < key[p[k]] \/ (key[p[j]] = key[p[k]] /\ p[j] < p[k])
    BY <1>6, <1>8
  <2>4. p[j] # p[k] /\ key[p[j]] <= key[p[k]]
    BY <2>2, <2>3
  <2> QED
    BY <1>3, <2>1, <2>4
<1>9. p \in [1..n -> DOMAIN all]
  BY <1>3
<1> QED
  BY <1>1, <1>7, <1>8, <1>9 DEF Ranks

LEMMA FilteredRanks ==
  ASSUME NEW insights, NEW all, Ranks(insights, all), NEW severity,
         NEW N \in Nat, DOMAIN all = 1..N, \A k \in 1..N : RankKey(all[k]) \in Int
  PROVE  Ranks(ApplyFilters(insights, severity), all)
<1> DEFINE at == {k \in DOMAIN insights : severity \in {None, insights[k].about.severity}}
<1>1. PICK list : list = ApplyFilters(insights, severity)
  OBVIOUS
<1>2. list = Kept(insights, at)
  BY <1>1 DEF ApplyFilters
<1>3. PICK n \in Nat : \E q \in [1..n -> DOMAIN all] :
        /\ DOMAIN insights = 1..n /\ \A k \in 1..n : insights[k].about = all[q[k]]
        /\ \A j, k \in 1..n : j < k => q[j] # q[k] /\ RankKey(all[q[j]]) <= RankKey(all[q[k]])
  BY DEF Ranks
<1>4. PICK p \in [1..n -> DOMAIN all] :
        /\ DOMAIN insights = 1..n /\ \A k \in 1..n : insights[k].about = all[p[k]]
        /\ \A j, k \in 1..n : j < k => p[j] # p[k] /\ RankKey(all[p[j]]) <= RankKey(all[p[k]])
  BY <1>3
<1>5. at \in SUBSET (1..n) /\ IsFiniteSet(1..n)
  BY <1>4, IntervalIs
<1> HIDE DEF at
<1>6. IsFiniteSet(at)
  BY <1>5, FS_Subset
<1>7. at \subseteq Nat
  BY <1>5
<1>8. Filters(list, insights, at)
  BY <1>2, <1>6, <1>7, KeptIs
<1>9. PICK m \in Nat : \E r \in [1..m -> at] :
        list = [k \in 1..m |-> insights[r[k]]] /\ \A j, k \in 1..m : j < k => r[j] < r[k]
  BY <1>8 DEF Filters
<1>10. PICK f \in [1..m -> at] : list = [k \in 1..m |-> insights[f[k]]] /\ \A j, k \in 1..m : j < k => f[j] < f[k]
  BY <1>9
<1>11. PICK g : g = [k \in 1..m |-> p[f[k]]]
  OBVIOUS
<1>12. \A k \in 1..m : f[k] \in 1..n /\ g[k] = p[f[k]] /\ g[k] \in DOMAIN all
  BY <1>5, <1>10, <1>11
<1>13. g \in [1..m -> DOMAIN all]
  BY <1>11, <1>12
<1>14. DOMAIN list = 1..m /\ \A k \in 1..m : list[k].about = all[g[k]]
  BY <1>4, <1>10, <1>12
<1>15. \A j, k \in 1..m : j < k => g[j] # g[k] /\ RankKey(all[g[j]]) <= RankKey(all[g[k]])
  <2>1. TAKE j, k \in 1..m
  <2>2. HAVE j < k
  <2>3. f[j] < f[k] /\ f[j] \in 1..n /\ f[k] \in 1..n /\ g[j] = p[f[j]] /\ g[k] = p[f[k]]
    BY <1>10, <1>12, <2>2
  <2>4. p[f[j]] # p[f[k]] /\ RankKey(all[p[f[j]]]) <= RankKey(all[p[f[k]]])
    BY <1>4, <2>3
  <2> QED
    BY <2>3, <2>4
<1>16. \E q \in [1..m -> DOMAIN all] :
         /\ DOMAIN list = 1..m /\ \A k \in 1..m : list[k].about = all[q[k]]
         /\ \A j, k \in 1..m : j < k => q[j] # q[k] /\ RankKey(all[q[j]]) <= RankKey(all[q[k]])
  BY <1>13, <1>14, <1>15
<1>17. Ranks(list, all)
  BY <1>16 DEF Ranks
<1> QED
  BY <1>1, <1>17

\* Whatever is ranked so can be told apart and has the risks first.
LEMMA RankedHolds ==
  ASSUME NEW all, NEW ents, NEW kinds, Tells(all, ents, kinds), Ranks(listed.insights, all)
  PROVE  IdsAreUnique /\ RisksComeFirst
<1>1. PICK list : list = listed.insights
  OBVIOUS
<1>2. PICK n \in Nat : \E q \in [1..n -> DOMAIN all] :
        /\ DOMAIN list = 1..n /\ \A k \in 1..n : list[k].about = all[q[k]]
        /\ \A j, k \in 1..n : j < k => q[j] # q[k] /\ RankKey(all[q[j]]) <= RankKey(all[q[k]])
  BY <1>1 DEF Ranks
<1>3. PICK p \in [1..n -> DOMAIN all] :
        /\ DOMAIN list = 1..n /\ \A k \in 1..n : list[k].about = all[p[k]]
        /\ \A j, k \in 1..n : j < k => p[j] # p[k] /\ RankKey(all[p[j]]) <= RankKey(all[p[k]])
  BY <1>2
<1>4. \A k \in 1..n : p[k] \in DOMAIN all /\ Known(all[p[k]])
  BY <1>3 DEF Tells
<1>5. ASSUME NEW j \in 1..n, NEW k \in 1..n, j < k
      PROVE  /\ list[j].about.id # list[k].about.id
             /\ ~(list[j].about.severity = "INFO" /\ list[k].about.type = "PERFORMANCE_RISK")
  <2>1. PICK a, b : a = all[p[j]] /\ b = all[p[k]]
    OBVIOUS
  <2>2. p[j] # p[k] /\ RankKey(a) <= RankKey(b) /\ list[j].about = a /\ list[k].about = b /\ Known(a) /\ Known(b)
    BY <1>3, <1>4, <1>5, <2>1
  <2>3. a.id # b.id
    BY <1>4, <2>1, <2>2 DEF Tells
  <2>4. \A v \in DOMAIN LogImpact : LogImpact[v] \in Nat
    BY InsightsAssumption
  <2>5. None \notin Int
    BY InsightsAssumption
  <2>6. /\ RankKey(a) \in Int /\ RankKey(b) \in Int
        /\ a.severity = "INFO" => RankKey(a) >= -5611
        /\ b.type = "PERFORMANCE_RISK" => RankKey(b) <= -5839
    BY <2>2, <2>4, <2>5, RankIs
  <2>7. ~(a.severity = "INFO" /\ b.type = "PERFORMANCE_RISK")
    BY <2>2, <2>6
  <2> QED
    BY <2>2, <2>3, <2>7
<1>6. IdsAreUnique
  <2>1. SUFFICES ASSUME NEW j \in 1..n, NEW k \in 1..n, j # k PROVE list[j].about.id # list[k].about.id
    BY <1>1, <1>3 DEF IdsAreUnique
  <2>2. j < k \/ k < j
    BY <2>1
  <2> QED
    BY <1>5, <2>2
<1>7. RisksComeFirst
  <2>1. SUFFICES ASSUME NEW j \in 1..n, NEW k \in 1..n, list[j].about.severity = "INFO",
                        list[k].about.type = "PERFORMANCE_RISK"
                 PROVE  j > k
    BY <1>1, <1>3 DEF RisksComeFirst
  <2>2. ~(j < k)
    BY <1>5, <2>1
  <2>3. j # k
    <3>1. Known(list[k].about)
      BY <1>3, <1>4
    <3> QED
      BY <2>1, <3>1 DEF Known
  <2> QED
    BY <2>2, <2>3
<1> QED
  BY <1>6, <1>7

InsightInv ==
  world \in Worlds /\ IsFiniteSet(interactions) /\ Ranks(listed.insights, Unscored(world))

LEMMA InsightsHold == InsightInv => InsightsAreSound
<1> SUFFICES ASSUME InsightInv PROVE InsightsAreSound
  OBVIOUS
<1>1. world \in Worlds
  BY DEF InsightInv
<1>2. PICK all : all = Unscored(world)
  OBVIOUS
<1>3. Tells(all, {"CAMPAIGN", "AD_SET"}, KINDS) /\ Ranks(listed.insights, all)
  BY <1>1, <1>2, UnscoredTells DEF InsightInv
<1>4. IdsAreUnique /\ RisksComeFirst
  BY <1>3, RankedHolds
<1>5. CountedOnce
  BY CountsHold DEF InsightInv
<1>6. TrendsAreMonotonic
  BY <1>1, TrendsHold
<1> QED
  BY <1>4, <1>5, <1>6 DEF InsightsAreSound

LEMMA InsightStarts == InsightInit => InsightInv
<1> SUFFICES ASSUME InsightInit PROVE InsightInv
  OBVIOUS
<1>1. world \in Worlds /\ listed.insights = <<>> /\ interactions = {}
  BY DEF InsightInit
<1>2. IsFiniteSet(interactions)
  BY <1>1, FS_EmptySet
<1>3. Ranks(<<>>, Unscored(world))
  <2>1. PICK all, q : all = Unscored(world) /\ q = [k \in 1..0 |-> 0]
    OBVIOUS
  <2>2. DOMAIN <<>> = 1..0 /\ 1..0 = {} /\ 0 \in Nat
    OBVIOUS
  <2>3. q \in [1..0 -> DOMAIN all]
    BY <2>1, <2>2
  <2> QED
    BY <2>1, <2>2, <2>3 DEF Ranks
<1> QED
  BY <1>1, <1>2, <1>3 DEF InsightInv

LEMMA InsightSteps == InsightInv /\ [InsightNext]_insightVars => InsightInv'
<1> SUFFICES ASSUME InsightInv, [InsightNext]_insightVars PROVE InsightInv'
  OBVIOUS
<1>1. CASE UNCHANGED insightVars
  BY <1>1 DEF insightVars, InsightInv
<1>2. ASSUME NEW u \in InsightUsers, NEW severity \in {None, "HIGH"}, ListForOrg(u, severity) PROVE InsightInv'
  <2>1. PICK all : all = Unscored(world)
    OBVIOUS
  <2>2. Tells(all, {"CAMPAIGN", "AD_SET"}, KINDS)
    BY <2>1, UnscoredTells DEF InsightInv
  <2>3. PICK N \in Nat : DOMAIN all = 1..N
    BY <2>2 DEF Tells
  <2>4. \A v \in DOMAIN LogImpact : LogImpact[v] \in Nat
    BY InsightsAssumption
  <2>5. None \notin Int
    BY InsightsAssumption
  <2>6. \A k \in 1..N : Known(all[k])
    BY <2>2, <2>3 DEF Tells
  <2>7. \A k \in 1..N : RankKey(all[k]) \in Int
    BY <2>4, <2>5, <2>6, RankIs
  <2>8. Ranks(Ranked(all, u), all)
    BY <2>3, <2>7, ComputedRanks
  <2>9. Ranks(ApplyFilters(Ranked(all, u), severity), all)
    BY <2>3, <2>7, <2>8, FilteredRanks
  <2>10. listed'.insights = ApplyFilters(Ranked(all, u), severity) /\ world' = world /\ interactions' = interactions
    BY <1>2, <2>1 DEF ListForOrg, Compute
  <2>11. Unscored(world') = all
    BY <2>1, <2>10
  <2> QED
    BY <2>9, <2>10, <2>11 DEF InsightInv
<1>3. ASSUME NEW i, NEW marked, Upsert(i, marked) PROVE InsightInv'
  <2>1. world' = world /\ listed' = listed
    BY <1>3 DEF Upsert
  <2>2. PICK s, new : interactions' = (interactions \ {s}) \cup {new}
    BY <1>3 DEF Upsert
  <2>3. IsFiniteSet(interactions')
    <3>1. interactions \ {s} \in SUBSET interactions
      OBVIOUS
    <3>2. IsFiniteSet(interactions \ {s})
      BY <3>1, FS_Subset DEF InsightInv
    <3> QED
      BY <2>2, <3>2, FS_AddElement
  <2> QED
    BY <2>1, <2>3 DEF InsightInv
<1>4. ASSUME NEW i, NEW status, SetStatus(i, status) PROVE InsightInv'
  BY <1>3, <1>4 DEF SetStatus
<1>5. ASSUME NEW i, NEW feedback, NEW note, SetFeedback(i, feedback, note) PROVE InsightInv'
  BY <1>3, <1>5 DEF SetFeedback
<1> QED
  BY <1>1, <1>2, <1>4, <1>5 DEF InsightNext

\* What a user is told can be told apart by its id, whatever the rules, the metrics and
\* the budgets, so that a mark lands on one insight; risks come before what is only
\* information; a trend that claims confidence is one; and the analytics count every
\* interaction once (insights.service.ts 59-64, 153-166, trend-analyzer.service.ts
\* 85-110, insight-scorer.service.ts 48-55, insight-analytics.service.ts).
THEOREM InsightsCorrect == InsightSpec => []InsightsAreSound
<1> QED
  BY InsightStarts, InsightSteps, InsightsHold, PTL DEF InsightSpec


-----------------------------------------------------------------------------
(* Where the evidence comes from: the sweeps of MetricsSchedule.           *)

\* Of a finite set of numbers, one is the least and one is the largest.
LEMMA EndsAre ==
  ASSUME NEW S, IsFiniteSet(S), S # {}, S \subseteq Nat
  PROVE  (\E m \in S : \A x \in S : m <= x) /\ (\E m \in S : \A x \in S : x <= m)
<1>1. PICK g : g = [x \in S |-> x]
  OBVIOUS
<1>2. \A x \in S : g[x] \in Int /\ g[x] = x
  BY <1>1
<1>3. PICK m \in S : \A x \in S : g[m] <= g[x]
  BY <1>2, LeastOf
<1>4. PICK n \in S : \A x \in S : g[x] <= g[n]
  BY <1>2, LargestOf
<1> QED
  BY <1>2, <1>3, <1>4

LEMMA OldestIs == Oldest \in Nat \ {0}
<1>1. PICK S : S = Intervals \cup {DefaultInterval}
  OBVIOUS
<1>2. S # {} /\ S \subseteq Nat \ {0} /\ IsFiniteSet(S)
  BY <1>1, ScheduleAssumption, FS_AddElement
<1>3. \E m \in S : \A x \in S : x <= m
  BY <1>2, EndsAre
<1>4. Longest \in S
  BY <1>1, <1>3 DEF Longest
<1> QED
  BY <1>2, <1>4 DEF Oldest

LEMMA NextWindowIs ==
  ASSUME NEW s, sweep[s].left # {}, sweep[s].left \subseteq Windows
  PROVE  NextWindow(s) \in sweep[s].left
<1>1. PICK S : S = sweep[s].left
  OBVIOUS
<1>2. IsFiniteSet(S) /\ S # {} /\ S \subseteq Nat
  BY <1>1, ScheduleAssumption, FS_Subset
<1>3. \E w \in S : \A v \in S : w <= v
  BY <1>2, EndsAre
<1> QED
  BY <1>1, <1>3 DEF NextWindow

\* A sweep on its way: whom it still owes a visit, and what it has stored.
Owed(r) == r.seen \cup r.at \cup r.todo \cup {c \in Campaigns : OrgOf[c] \in r.orgs}
SweepOk(r, followed, stored) ==
  /\ r.pc \in {"idle", "org", "audit"} => r.at = {} /\ r.todo = {}
  /\ r.pc = "visit" => r.at = {}
  /\ r.pc = "audit" => r.orgs = {}
  /\ r.pc = "fetch" => r.left # {}
  /\ r.pc = "idle" => r.steady = {}
  /\ \E c : r.at \subseteq {c}
  /\ IsFiniteSet(r.seen) /\ r.steady \subseteq followed
  /\ Cardinality(r.seen) >= MaxEntities \/ r.steady \subseteq Owed(r)
  /\ r.today => \A c \in r.at, w \in Windows \ (r.left \cup r.missed) : <<c, w>> \in stored
ScheduleInv == ScheduleTypeOK /\ \A s \in Sweeps : SweepOk(sweep[s], tracked, snap)

LEMMA IdleIs == Idle \in SweepRows /\ \A followed, stored : SweepOk(Idle, followed, stored)
<1>1. Idle \in SweepRows
  BY DEF Idle, SweepRows
<1>2. IsFiniteSet(Idle.seen)
  BY FS_EmptySet DEF Idle
<1> QED
  BY <1>1, <1>2 DEF Idle, SweepOk, Owed

\* What a sweep has done stays done when more is stored.
LEMMA SweepStaysOk ==
  ASSUME NEW r, NEW followed, NEW stored, SweepOk(r, followed, stored), NEW more, stored \subseteq more
  PROVE  SweepOk(r, followed, more)
  BY DEF SweepOk

LEMMA OneSweepMoves ==
  ASSUME ScheduleInv, NEW s \in Sweeps, NEW r \in SweepRows, sweep' = [sweep EXCEPT ![s] = r],
         SweepOk(r, tracked, snap'), tracked' = tracked, snap \subseteq snap'
  PROVE  sweep' \in [Sweeps -> SweepRows] /\ \A t \in Sweeps : SweepOk(sweep'[t], tracked', snap')
<1>1. sweep \in [Sweeps -> SweepRows]
  BY DEF ScheduleInv, ScheduleTypeOK
<1>2. sweep' \in [Sweeps -> SweepRows] /\ sweep'[s] = r /\ \A t \in Sweeps \ {s} : sweep'[t] = sweep[t]
  BY <1>1
<1>3. \A t \in Sweeps \ {s} : SweepOk(sweep[t], tracked, snap')
  BY SweepStaysOk DEF ScheduleInv
<1> QED
  BY <1>2, <1>3

\* The same, for the steps that store nothing and leave the clock alone.
LEMMA OneSweepMovesOnly ==
  ASSUME ScheduleInv, NEW s \in Sweeps, NEW r \in SweepRows, sweep' = [sweep EXCEPT ![s] = r],
         SweepOk(r, tracked, snap), tracked' = tracked, setting' = setting, hour' = hour, age' = age, snap' = snap,
         cron' \in BOOLEAN
  PROVE  ScheduleInv'
<1>1. sweep' \in [Sweeps -> SweepRows] /\ \A t \in Sweeps : SweepOk(sweep'[t], tracked', snap')
  <2>1. SweepOk(r, tracked, snap') /\ snap \subseteq snap'
    OBVIOUS
  <2> QED
    BY <2>1, OneSweepMoves
<1> QED
  BY <1>1 DEF ScheduleInv, ScheduleTypeOK

LEMMA RowIsOk == ASSUME ScheduleInv, NEW s \in Sweeps PROVE sweep[s] \in SweepRows /\ SweepOk(sweep[s], tracked, snap)
  BY DEF ScheduleInv, ScheduleTypeOK

LEMMA StartHolds ==
  ASSUME ScheduleInv, NEW s \in Sweeps, NEW by \in {"SCHEDULER", "MANUAL"}, NEW dry \in BOOLEAN,
         NEW scope \in SUBSET AllOrgs, Start(s, by, dry, scope),
         tracked' = tracked, setting' = setting, hour' = hour, age' = age, snap' = snap, cron' \in BOOLEAN
  PROVE  ScheduleInv'
<1>1. PICK r : r = [Idle EXCEPT !.pc = "org", !.by = by, !.dry = dry, !.orgs = scope,
                                !.steady = {c \in tracked : OrgOf[c] \in scope}]
  OBVIOUS
<1>2. sweep' = [sweep EXCEPT ![s] = r]
  BY <1>1 DEF Start
<1>3. tracked \subseteq Campaigns
  BY DEF ScheduleInv, ScheduleTypeOK
<1>4. /\ r.pc = "org" /\ r.by = by /\ r.dry = dry /\ r.orgs = scope /\ r.steady = {c \in tracked : OrgOf[c] \in scope}
      /\ r.at = {} /\ r.todo = {} /\ r.seen = {}
  BY <1>1 DEF Idle
<1>5. r \in SweepRows
  BY <1>1, <1>3 DEF Idle, SweepRows
<1>6. SweepOk(r, tracked, snap)
  BY <1>3, <1>4, FS_EmptySet DEF SweepOk, Owed
<1> QED
  BY <1>2, <1>5, <1>6, OneSweepMovesOnly


LEMMA ScheduleStarts == ScheduleInit => ScheduleInv
<1> SUFFICES ASSUME ScheduleInit PROVE ScheduleInv
  OBVIOUS
<1>1. sweep = [s \in Sweeps |-> Idle] /\ \A s \in Sweeps : sweep[s] = Idle
  BY DEF ScheduleInit
<1>2. sweep \in [Sweeps -> SweepRows]
  BY <1>1, IdleIs
<1>3. \A s \in Sweeps : SweepOk(sweep[s], tracked, snap)
  BY <1>1, IdleIs
<1>4. setting \in [enabled : SUBSET BOOLEAN, interval : SUBSET Intervals]
  BY DEF ScheduleInit
<1>5. hour \in 0..DayHours - 1
  BY ScheduleAssumption DEF ScheduleInit
<1>6. age \in 0..Oldest
  BY OldestIs DEF ScheduleInit
<1>7. tracked \subseteq Campaigns /\ snap \subseteq Campaigns \X Windows /\ cron \in BOOLEAN
  BY DEF ScheduleInit
<1> QED
  BY <1>2, <1>3, <1>4, <1>5, <1>6, <1>7 DEF ScheduleInv, ScheduleTypeOK

LEMMA TrackHolds == ASSUME ScheduleInv, NEW c \in Campaigns, Track(c) PROVE ScheduleInv'
<1>1. /\ tracked' = IF c \in tracked THEN tracked \ {c} ELSE tracked \cup {c}
      /\ sweep' = [s \in Sweeps |-> [sweep[s] EXCEPT !.steady = @ \ {c}]]
      /\ UNCHANGED <<setting, hour, age, snap, cron>>
  BY DEF Track
<1>2. ASSUME NEW s \in Sweeps PROVE sweep'[s] \in SweepRows /\ SweepOk(sweep'[s], tracked', snap')
  <2>1. PICK r, q : r = sweep[s] /\ q = sweep'[s]
    OBVIOUS
  <2>2. q = [r EXCEPT !.steady = @ \ {c}] /\ r \in SweepRows /\ SweepOk(r, tracked, snap)
    BY <1>1, <2>1, RowIsOk
  <2>3. /\ q \in SweepRows /\ q.steady = r.steady \ {c}
        /\ q.pc = r.pc /\ q.at = r.at /\ q.todo = r.todo /\ q.orgs = r.orgs /\ q.left = r.left
        /\ q.seen = r.seen /\ q.today = r.today /\ q.missed = r.missed
    BY <2>2 DEF SweepRows
  <2>4. Owed(q) = Owed(r)
    BY <2>3 DEF Owed
  <2>5. q.steady \subseteq tracked'
    BY <1>1, <2>2, <2>3 DEF SweepOk
  <2>6. Cardinality(q.seen) >= MaxEntities \/ q.steady \subseteq Owed(q)
    BY <2>2, <2>3, <2>4 DEF SweepOk
  <2>7. SweepOk(q, tracked', snap)
    BY <2>2, <2>3, <2>5, <2>6 DEF SweepOk
  <2> QED
    BY <1>1, <2>1, <2>3, <2>7
<1>3. ScheduleTypeOK'
  BY <1>1, <1>2 DEF ScheduleInv, ScheduleTypeOK
<1> QED
  BY <1>2, <1>3 DEF ScheduleInv

LEMMA StrikeHolds == ASSUME ScheduleInv, Strike PROVE ScheduleInv'
<1>1. /\ cron' = TRUE /\ hour' = (hour + 1) % DayHours /\ age' = (IF age < Oldest THEN age + 1 ELSE age)
      /\ UNCHANGED <<tracked, setting>>
      /\ \/ snap' = {} /\ sweep' = [s \in Sweeps |-> [sweep[s] EXCEPT !.today = sweep[s].at = {}]]
         \/ snap' = snap /\ sweep' = sweep
  BY DEF Strike
<1>2. hour' \in 0..DayHours - 1 /\ age' \in 0..Oldest
  BY <1>1, OldestIs, ScheduleAssumption DEF ScheduleInv, ScheduleTypeOK
<1>3. CASE snap' = snap /\ sweep' = sweep
  BY <1>1, <1>2, <1>3 DEF ScheduleInv, ScheduleTypeOK
<1>4. CASE snap' = {} /\ sweep' = [s \in Sweeps |-> [sweep[s] EXCEPT !.today = sweep[s].at = {}]]
  <2>1. ASSUME NEW s \in Sweeps PROVE sweep'[s] \in SweepRows /\ SweepOk(sweep'[s], tracked', snap')
    <3>1. PICK r, q : r = sweep[s] /\ q = sweep'[s]
      OBVIOUS
    <3>2. q = [r EXCEPT !.today = r.at = {}] /\ r \in SweepRows /\ SweepOk(r, tracked, snap)
      BY <1>4, <3>1, RowIsOk
    <3>3. /\ q \in SweepRows /\ q.today = (r.at = {})
          /\ q.pc = r.pc /\ q.at = r.at /\ q.todo = r.todo /\ q.orgs = r.orgs /\ q.left = r.left
          /\ q.seen = r.seen /\ q.steady = r.steady /\ q.missed = r.missed
      BY <3>2 DEF SweepRows
    <3>4. Owed(q) = Owed(r)
      BY <3>3 DEF Owed
    <3>5. SweepOk(q, tracked, {})
      BY <3>2, <3>3, <3>4 DEF SweepOk
    <3> QED
      BY <1>1, <1>4, <3>1, <3>3, <3>5
  <2>2. sweep' \in [Sweeps -> SweepRows]
    BY <1>4, <2>1
  <2>3. ScheduleTypeOK'
    BY <1>1, <1>2, <1>4, <2>2 DEF ScheduleInv, ScheduleTypeOK
  <2> QED
    BY <2>1, <2>3 DEF ScheduleInv
<1> QED
  BY <1>1, <1>3, <1>4

LEMMA LoadOrgHolds == ASSUME ScheduleInv, NEW s \in Sweeps, LoadOrg(s) PROVE ScheduleInv'
<1>1. PICK r : r = sweep[s]
  OBVIOUS
<1>2. r \in SweepRows /\ SweepOk(r, tracked, snap) /\ r.pc = "org" /\ sweep \in [Sweeps -> SweepRows]
  BY <1>1, RowIsOk DEF LoadOrg, ScheduleInv, ScheduleTypeOK
<1>3. /\ tracked' = tracked /\ setting' = setting /\ hour' = hour /\ age' = age /\ snap' = snap /\ cron' = cron
      /\ cron' \in BOOLEAN /\ tracked \subseteq Campaigns
  BY DEF LoadOrg, ScheduleInv, ScheduleTypeOK
<1>4. CASE r.orgs = {}
  <2>1. PICK q : q = [r EXCEPT !.pc = "audit"]
    OBVIOUS
  <2>2. sweep' = [sweep EXCEPT ![s] = q]
    BY <1>1, <1>2, <1>4, <2>1 DEF LoadOrg
  <2>3. /\ q \in SweepRows /\ q.pc = "audit"
        /\ q.steady = r.steady /\ q.at = r.at /\ q.todo = r.todo /\ q.orgs = r.orgs /\ q.left = r.left
        /\ q.seen = r.seen /\ q.today = r.today /\ q.missed = r.missed
    BY <1>2, <2>1 DEF SweepRows
  <2>4. Owed(q) = Owed(r)
    BY <2>3 DEF Owed
  <2>5. SweepOk(q, tracked, snap)
    BY <1>2, <1>4, <2>3, <2>4 DEF SweepOk
  <2> QED
    BY <1>3, <2>2, <2>3, <2>5, OneSweepMovesOnly
<1>5. CASE r.orgs # {}
  <2>1. PICK o \in r.orgs : sweep' = [sweep EXCEPT ![s] =
                   [sweep[s] EXCEPT !.pc = "visit", !.orgs = @ \ {o}, !.todo = {c \in tracked : OrgOf[c] = o}]]
    BY <1>1, <1>2, <1>5 DEF LoadOrg
  <2>2. PICK q : q = [r EXCEPT !.pc = "visit", !.orgs = @ \ {o}, !.todo = {c \in tracked : OrgOf[c] = o}]
    OBVIOUS
  <2>3. sweep' = [sweep EXCEPT ![s] = q]
    BY <1>1, <2>1, <2>2
  <2>4. {c \in tracked : OrgOf[c] = o} \subseteq Campaigns
    BY <1>3
  <2>5. /\ q \in SweepRows /\ q.pc = "visit" /\ q.orgs = r.orgs \ {o} /\ q.todo = {c \in tracked : OrgOf[c] = o}
        /\ q.steady = r.steady /\ q.at = r.at /\ q.left = r.left
        /\ q.seen = r.seen /\ q.today = r.today /\ q.missed = r.missed
    BY <1>2, <2>2, <2>4 DEF SweepRows
  <2>6. r.steady \subseteq Owed(r) => q.steady \subseteq Owed(q)
    <3>1. SUFFICES ASSUME r.steady \subseteq Owed(r), NEW c \in r.steady PROVE c \in Owed(q)
      BY <2>5
    <3>2. c \in tracked /\ (c \in r.seen \/ c \in r.at \/ (c \in Campaigns /\ OrgOf[c] \in r.orgs))
      BY <1>2, <3>1 DEF Owed, SweepOk
    <3> QED
      BY <2>5, <3>2 DEF Owed
  <2>7. SweepOk(q, tracked, snap)
    BY <1>2, <2>5, <2>6 DEF SweepOk
  <2> QED
    BY <1>3, <2>3, <2>5, <2>7, OneSweepMovesOnly
<1> QED
  BY <1>4, <1>5

LEMMA LeaveOrgHolds == ASSUME ScheduleInv, NEW s \in Sweeps, LeaveOrg(s) PROVE ScheduleInv'
<1>1. PICK r, q : r = sweep[s] /\ q = [r EXCEPT !.pc = "org", !.todo = {}]
  OBVIOUS
<1>2. r \in SweepRows /\ SweepOk(r, tracked, snap) /\ r.pc = "visit" /\ sweep \in [Sweeps -> SweepRows]
  BY <1>1, RowIsOk DEF LeaveOrg, ScheduleInv, ScheduleTypeOK
<1>3. /\ tracked' = tracked /\ setting' = setting /\ hour' = hour /\ age' = age /\ snap' = snap /\ cron' \in BOOLEAN
      /\ sweep' = [sweep EXCEPT ![s] = q]
  BY <1>1, <1>2 DEF LeaveOrg, ScheduleInv, ScheduleTypeOK
<1>4. r.todo = {} \/ Cardinality(r.seen) >= MaxEntities
  BY <1>1 DEF LeaveOrg, Capped
<1>5. /\ q \in SweepRows /\ q.pc = "org" /\ q.todo = {}
      /\ q.steady = r.steady /\ q.at = r.at /\ q.orgs = r.orgs /\ q.left = r.left
      /\ q.seen = r.seen /\ q.today = r.today /\ q.missed = r.missed
  BY <1>1, <1>2 DEF SweepRows
<1>6. r.todo = {} => Owed(q) = Owed(r)
  BY <1>5 DEF Owed
<1>7. SweepOk(q, tracked, snap)
  BY <1>2, <1>4, <1>5, <1>6 DEF SweepOk
<1> QED
  BY <1>3, <1>5, <1>7, OneSweepMovesOnly


\* What a visit adds to the report counts: the cap, once reached, stays reached.
LEMMA SeenGrows ==
  ASSUME NEW S, IsFiniteSet(S), NEW A, NEW c, A \subseteq {c}
  PROVE  IsFiniteSet(S \cup A) /\ (Cardinality(S) >= MaxEntities => Cardinality(S \cup A) >= MaxEntities)
<1>1. IsFiniteSet({c})
  BY FS_EmptySet, FS_AddElement, {} \cup {c} = {c}
<1>2. IsFiniteSet(A)
  BY <1>1, FS_Subset
<1>3. IsFiniteSet(S \cup A)
  BY <1>2, FS_Union
<1>4. Cardinality(S) <= Cardinality(S \cup A)
  BY <1>3, FS_Subset
<1>5. Cardinality(S) \in Nat /\ Cardinality(S \cup A) \in Nat
  BY <1>3, FS_CardinalityType
<1> QED
  BY <1>3, <1>4, <1>5, ScheduleAssumption

LEMMA VisitEntityHolds ==
  ASSUME ScheduleInv, NEW s \in Sweeps, NEW c \in Campaigns, VisitEntity(s, c) PROVE ScheduleInv'
<1>1. PICK r : r = sweep[s]
  OBVIOUS
<1>2. /\ r \in SweepRows /\ SweepOk(r, tracked, snap) /\ r.pc = "visit" /\ c \in r.todo
      /\ sweep \in [Sweeps -> SweepRows] /\ ~(Cardinality(r.seen) >= MaxEntities)
  BY <1>1, RowIsOk DEF VisitEntity, ScheduleInv, ScheduleTypeOK, Capped
<1>3. tracked' = tracked /\ setting' = setting /\ hour' = hour /\ age' = age /\ snap' = snap /\ cron' \in BOOLEAN
  BY DEF VisitEntity, ScheduleInv, ScheduleTypeOK
<1>4. r.steady \subseteq Owed(r)
  BY <1>2 DEF SweepOk
<1>5. PICK walk : walk = [r EXCEPT !.todo = @ \ {c}]
  OBVIOUS
<1>6. sweep' = [sweep EXCEPT ![s] =
         IF walk.dry THEN [walk EXCEPT !.seen = @ \cup {c}]
         ELSE [walk EXCEPT !.pc = "find", !.at = {c}, !.left = Windows, !.today = TRUE]]
  BY <1>1, <1>5 DEF VisitEntity
<1>7. /\ walk \in SweepRows /\ walk.todo = r.todo \ {c} /\ walk.pc = r.pc /\ walk.dry = r.dry
      /\ walk.steady = r.steady /\ walk.at = r.at /\ walk.orgs = r.orgs /\ walk.left = r.left
      /\ walk.seen = r.seen /\ walk.today = r.today /\ walk.missed = r.missed
  BY <1>2, <1>5 DEF SweepRows
<1>8. CASE walk.dry
  <2>1. PICK q : q = [walk EXCEPT !.seen = @ \cup {c}]
    OBVIOUS
  <2>2. /\ q \in SweepRows /\ q.seen = r.seen \cup {c} /\ q.todo = r.todo \ {c} /\ q.pc = "visit"
        /\ q.steady = r.steady /\ q.at = r.at /\ q.orgs = r.orgs /\ q.left = r.left
        /\ q.today = r.today /\ q.missed = r.missed
    BY <1>2, <1>7, <2>1 DEF SweepRows
  <2>3. r.steady \subseteq Owed(q)
    BY <1>4, <2>2 DEF Owed
  <2>4. IsFiniteSet(q.seen)
    BY <1>2, <2>2, FS_AddElement DEF SweepOk
  <2>5. SweepOk(q, tracked, snap)
    BY <1>2, <2>2, <2>3, <2>4 DEF SweepOk
  <2>6. sweep' = [sweep EXCEPT ![s] = q]
    BY <1>6, <1>8, <2>1
  <2> QED
    BY <1>3, <2>2, <2>5, <2>6, OneSweepMovesOnly
<1>9. CASE ~walk.dry
  <2>1. PICK q : q = [walk EXCEPT !.pc = "find", !.at = {c}, !.left = Windows, !.today = TRUE]
    OBVIOUS
  <2>2. /\ q \in SweepRows /\ q.seen = r.seen /\ q.todo = r.todo \ {c} /\ q.pc = "find"
        /\ q.steady = r.steady /\ q.at = {c} /\ q.orgs = r.orgs /\ q.left = Windows
        /\ q.today = TRUE /\ q.missed = r.missed
    BY <1>2, <1>7, <2>1 DEF SweepRows
  <2>3. r.steady \subseteq Owed(q)
    <3>1. r.at = {}
      BY <1>2 DEF SweepOk
    <3> QED
      BY <1>4, <2>2, <3>1 DEF Owed
  <2>5. SweepOk(q, tracked, snap)
    BY <1>2, <2>2, <2>3 DEF SweepOk
  <2>6. sweep' = [sweep EXCEPT ![s] = q]
    BY <1>6, <1>9, <2>1
  <2> QED
    BY <1>3, <2>2, <2>5, <2>6, OneSweepMovesOnly
<1> QED
  BY <1>8, <1>9

LEMMA EntityDoneHolds ==
  ASSUME ScheduleInv, NEW s \in Sweeps, sweep[s].pc = "find", EntityDone(s),
         tracked' = tracked, setting' = setting, hour' = hour, age' = age, snap' = snap, cron' = cron
  PROVE  ScheduleInv'
<1>1. PICK r, q : r = sweep[s] /\ q = [r EXCEPT !.pc = "visit", !.at = {}, !.left = {}, !.today = TRUE,
                                                !.seen = @ \cup r.at, !.missed = {}]
  OBVIOUS
<1>2. r \in SweepRows /\ SweepOk(r, tracked, snap) /\ sweep \in [Sweeps -> SweepRows] /\ cron' \in BOOLEAN
  BY <1>1, RowIsOk DEF ScheduleInv, ScheduleTypeOK
<1>3. sweep' = [sweep EXCEPT ![s] = q]
  BY <1>1, <1>2 DEF EntityDone
<1>4. /\ q \in SweepRows /\ q.pc = "visit" /\ q.at = {} /\ q.left = {} /\ q.seen = r.seen \cup r.at
      /\ q.steady = r.steady /\ q.todo = r.todo /\ q.orgs = r.orgs
  BY <1>1, <1>2 DEF SweepRows
<1>5. PICK c : r.at \subseteq {c}
  BY <1>2 DEF SweepOk
<1>6. IsFiniteSet(q.seen) /\ (Cardinality(r.seen) >= MaxEntities => Cardinality(q.seen) >= MaxEntities)
  <2>1. IsFiniteSet(r.seen)
    BY <1>2 DEF SweepOk
  <2>2. /\ IsFiniteSet(r.seen \cup r.at)
        /\ Cardinality(r.seen) >= MaxEntities => Cardinality(r.seen \cup r.at) >= MaxEntities
    BY <1>5, <2>1, SeenGrows
  <2> QED
    BY <1>4, <2>2
<1>7. Owed(q) = Owed(r)
  BY <1>4 DEF Owed
<1>8. SweepOk(q, tracked, snap)
  BY <1>2, <1>4, <1>6, <1>7 DEF SweepOk
<1> QED
  BY <1>2, <1>3, <1>4, <1>8, OneSweepMovesOnly

LEMMA FindHolds == ASSUME ScheduleInv, NEW s \in Sweeps, Find(s) PROVE ScheduleInv'
<1>1. PICK r : r = sweep[s]
  OBVIOUS
<1>2. r \in SweepRows /\ SweepOk(r, tracked, snap) /\ sweep \in [Sweeps -> SweepRows] /\ r.pc = "find"
  BY <1>1, RowIsOk DEF Find, ScheduleInv, ScheduleTypeOK
<1>3. /\ tracked' = tracked /\ setting' = setting /\ hour' = hour /\ age' = age /\ snap' = snap /\ cron' = cron
      /\ cron' \in BOOLEAN
  BY DEF Find, ScheduleInv, ScheduleTypeOK
<1>4. CASE r.left = {}
  BY <1>1, <1>2, <1>3, <1>4, EntityDoneHolds DEF Find
<1>5. CASE r.left # {}
  <2>1. PICK w : w = NextWindow(s)
    OBVIOUS
  <2>2. w \in r.left
    <3>1. r.left \subseteq Windows
      BY <1>2 DEF SweepRows
    <3> QED
      BY <1>1, <1>5, <2>1, <3>1, NextWindowIs
  <2>3. PICK exists \in BOOLEAN :
          /\ r.today => (exists <=> \E c \in r.at : <<c, w>> \in snap)
          /\ sweep' = [sweep EXCEPT ![s] = IF exists THEN [r EXCEPT !.left = @ \ {w}] ELSE [r EXCEPT !.pc = "fetch"]]
    BY <1>1, <1>2, <1>5, <2>1 DEF Find
  <2>4. CASE exists
    <3>1. PICK q : q = [r EXCEPT !.left = @ \ {w}]
      OBVIOUS
    <3>2. /\ q \in SweepRows /\ q.left = r.left \ {w} /\ q.pc = "find"
          /\ q.seen = r.seen /\ q.todo = r.todo /\ q.steady = r.steady /\ q.at = r.at /\ q.orgs = r.orgs
          /\ q.today = r.today /\ q.missed = r.missed
      BY <1>2, <3>1 DEF SweepRows
    <3>3. PICK e : r.at \subseteq {e}
      BY <1>2 DEF SweepOk
    <3>4. r.today => \A c \in r.at : <<c, w>> \in snap
      BY <2>3, <2>4, <3>3
    <3>5. q.today => \A c \in q.at, v \in Windows \ (q.left \cup q.missed) : <<c, v>> \in snap
      <4>1. SUFFICES ASSUME r.today, NEW c \in r.at, NEW v \in Windows, v \notin q.left, v \notin r.missed
                     PROVE  <<c, v>> \in snap
        BY <3>2
      <4>2. CASE v = w
        BY <3>4, <4>1, <4>2
      <4>3. CASE v # w
        BY <1>2, <3>2, <4>1, <4>3 DEF SweepOk
      <4> QED
        BY <4>2, <4>3
    <3>6. Owed(q) = Owed(r)
      BY <3>2 DEF Owed
    <3>7. SweepOk(q, tracked, snap)
      BY <1>2, <3>2, <3>5, <3>6 DEF SweepOk
    <3> QED
      BY <1>3, <2>3, <2>4, <3>1, <3>2, <3>7, OneSweepMovesOnly
  <2>5. CASE ~exists
    <3>1. PICK q : q = [r EXCEPT !.pc = "fetch"]
      OBVIOUS
    <3>2. /\ q \in SweepRows /\ q.left = r.left /\ q.pc = "fetch"
          /\ q.seen = r.seen /\ q.todo = r.todo /\ q.steady = r.steady /\ q.at = r.at /\ q.orgs = r.orgs
          /\ q.today = r.today /\ q.missed = r.missed
      BY <1>2, <3>1 DEF SweepRows
    <3>3. Owed(q) = Owed(r)
      BY <3>2 DEF Owed
    <3>4. SweepOk(q, tracked, snap)
      BY <1>2, <1>5, <3>2, <3>3 DEF SweepOk
    <3> QED
      BY <1>3, <2>3, <2>5, <3>1, <3>2, <3>4, OneSweepMovesOnly
  <2> QED
    BY <2>4, <2>5
<1> QED
  BY <1>4, <1>5

LEMMA FetchHolds == ASSUME ScheduleInv, NEW s \in Sweeps, FetchWindow(s) PROVE ScheduleInv'
<1>1. PICK r, w : r = sweep[s] /\ w = NextWindow(s)
  OBVIOUS
<1>2. r \in SweepRows /\ SweepOk(r, tracked, snap) /\ sweep \in [Sweeps -> SweepRows] /\ r.pc = "fetch"
  BY <1>1, RowIsOk DEF FetchWindow, ScheduleInv, ScheduleTypeOK
<1>3. /\ tracked' = tracked /\ setting' = setting /\ hour' = hour /\ age' = age /\ cron' = cron
      /\ snap \subseteq Campaigns \X Windows
  BY DEF FetchWindow, ScheduleInv, ScheduleTypeOK
<1>4. w \in r.left /\ r.left \subseteq Windows
  <2>1. r.left # {} /\ r.left \subseteq Windows
    BY <1>2 DEF SweepRows, SweepOk
  <2> QED
    BY <1>1, <2>1, NextWindowIs
<1>5. PICK stored \in BOOLEAN :
        /\ snap' = IF stored /\ r.today THEN snap \cup (r.at \X {w}) ELSE snap
        /\ sweep' = [sweep EXCEPT ![s] = [r EXCEPT !.pc = "find", !.left = @ \ {w},
                                                   !.missed = IF stored THEN @ ELSE @ \cup {w}]]
  BY <1>1, <1>2 DEF FetchWindow
<1>6. PICK q : q = [r EXCEPT !.pc = "find", !.left = @ \ {w}, !.missed = IF stored THEN @ ELSE @ \cup {w}]
  OBVIOUS
<1>7. /\ q \in SweepRows /\ q.left = r.left \ {w} /\ q.pc = "find" /\ q.missed = IF stored THEN r.missed ELSE r.missed \cup {w}
      /\ q.seen = r.seen /\ q.todo = r.todo /\ q.steady = r.steady /\ q.at = r.at /\ q.orgs = r.orgs
      /\ q.today = r.today
  BY <1>2, <1>4, <1>6 DEF SweepRows
<1>8. snap \subseteq snap' /\ snap' \subseteq Campaigns \X Windows
  <2>1. r.at \subseteq Campaigns
    BY <1>2 DEF SweepRows
  <2>2. r.at \X {w} \subseteq Campaigns \X Windows
    BY <1>4, <2>1
  <2> QED
    BY <1>3, <1>5, <2>2
<1>9. q.today => \A c \in q.at, v \in Windows \ (q.left \cup q.missed) : <<c, v>> \in snap'
  <2>1. SUFFICES ASSUME r.today, NEW c \in r.at, NEW v \in Windows, v \notin q.left, v \notin q.missed
                 PROVE  <<c, v>> \in snap'
    BY <1>7
  <2>2. CASE v = w
    <3>1. stored
      BY <1>7, <2>1, <2>2
    <3>2. snap' = snap \cup (r.at \X {w})
      BY <1>5, <2>1, <3>1
    <3> QED
      BY <2>1, <2>2, <3>2
  <2>3. CASE v # w
    <3>1. v \notin r.left \cup r.missed
      BY <1>7, <2>1, <2>3
    <3>2. <<c, v>> \in snap
      BY <1>2, <2>1, <3>1 DEF SweepOk
    <3> QED
      BY <1>8, <3>2
  <2> QED
    BY <2>2, <2>3
<1>10. Owed(q) = Owed(r)
  BY <1>7 DEF Owed
<1>11. SweepOk(q, tracked, snap')
  BY <1>2, <1>7, <1>9, <1>10 DEF SweepOk
<1>12. sweep' = [sweep EXCEPT ![s] = q]
  BY <1>5, <1>6
<1>13. sweep' \in [Sweeps -> SweepRows] /\ \A t \in Sweeps : SweepOk(sweep'[t], tracked', snap')
  BY <1>3, <1>7, <1>8, <1>11, <1>12, OneSweepMoves
<1> QED
  BY <1>3, <1>8, <1>13 DEF ScheduleInv, ScheduleTypeOK

\* Reported or dead, a sweep leaves nothing behind but the age of its row.
LEMMA SweepEnds == ASSUME ScheduleInv, NEW s \in Sweeps, WriteAudit(s) \/ SweepDies(s) PROVE ScheduleInv'
<1>1. /\ sweep' = [sweep EXCEPT ![s] = Idle] /\ (age' = 0 \/ age' = age)
      /\ tracked' = tracked /\ setting' = setting /\ hour' = hour /\ snap' = snap /\ cron' = cron
  BY DEF WriteAudit, SweepDies
<1>2. age' \in 0..Oldest
  BY <1>1, OldestIs DEF ScheduleInv, ScheduleTypeOK
<1>3. Idle \in SweepRows /\ SweepOk(Idle, tracked, snap')
  BY IdleIs
<1>4. sweep' \in [Sweeps -> SweepRows] /\ \A t \in Sweeps : SweepOk(sweep'[t], tracked', snap')
  BY <1>1, <1>3, OneSweepMoves
<1> QED
  BY <1>1, <1>2, <1>4 DEF ScheduleInv, ScheduleTypeOK

LEMMA SweepStepHolds == ASSUME ScheduleInv, NEW s \in Sweeps, SweepStep(s) \/ SweepDies(s) PROVE ScheduleInv'
<1>1. CASE VisitThrows(s)
  BY <1>1, EntityDoneHolds DEF VisitThrows
<1> QED
  BY <1>1, LoadOrgHolds, LeaveOrgHolds, VisitEntityHolds, FindHolds, FetchHolds, SweepEnds DEF SweepStep

\* Nothing but a setting changes, or a sweep starts.
LEMMA ScheduleSettingsHold ==
  ASSUME ScheduleInv, UpsertSetting \/ DeleteSetting PROVE ScheduleInv'
<1>1. setting \in [enabled : SUBSET BOOLEAN, interval : SUBSET Intervals]
  BY DEF ScheduleInv, ScheduleTypeOK
<1>2. UNCHANGED <<tracked, hour, age, snap, cron, sweep>>
  BY DEF UpsertSetting, DeleteSetting
<1>3. setting' \in [enabled : SUBSET BOOLEAN, interval : SUBSET Intervals]
  <2>1. CASE UpsertSetting
    BY <1>1, <2>1 DEF UpsertSetting
  <2>2. CASE DeleteSetting
    <3>1. setting' = [setting EXCEPT !.enabled = {}] \/ setting' = [setting EXCEPT !.interval = {}]
      BY <2>2 DEF DeleteSetting
    <3> QED
      BY <1>1, <3>1
  <2> QED
    BY <2>1, <2>2
<1> QED
  BY <1>2, <1>3 DEF ScheduleInv, ScheduleTypeOK

LEMMA ScheduleSweepsStart ==
  ASSUME ScheduleInv, HandleCron \/ \E s \in Sweeps : ManualAdmin(s) \/ ManualOrg(s) PROVE ScheduleInv'
<1>1. CASE HandleCron
  <2>1. /\ cron' = FALSE /\ UNCHANGED <<tracked, setting, hour, age, snap>>
        /\ sweep' = sweep \/ \E s \in Sweeps : Start(s, "SCHEDULER", FALSE, AllOrgs)
    BY <1>1 DEF HandleCron
  <2>2. CASE sweep' = sweep
    BY <2>1, <2>2 DEF ScheduleInv, ScheduleTypeOK
  <2> QED
    BY <2>1, <2>2, StartHolds
<1>2. ASSUME NEW s \in Sweeps, ManualAdmin(s) \/ ManualOrg(s) PROVE ScheduleInv'
  <2>1. /\ UNCHANGED <<tracked, setting, hour, age, snap, cron>>
        /\ \E dry \in BOOLEAN, scope \in SUBSET AllOrgs : Start(s, "MANUAL", dry, scope)
    BY <1>2 DEF ManualAdmin, ManualOrg
  <2>2. PICK dry \in BOOLEAN, scope \in SUBSET AllOrgs : Start(s, "MANUAL", dry, scope)
    BY <2>1
  <2>3. cron' \in BOOLEAN
    BY <2>1 DEF ScheduleInv, ScheduleTypeOK
  <2> QED
    BY <2>1, <2>2, <2>3, StartHolds
<1> QED
  BY <1>1, <1>2

LEMMA ScheduleSteps == ScheduleInv /\ [ScheduleNext]_scheduleVars => ScheduleInv'
<1> SUFFICES ASSUME ScheduleInv, [ScheduleNext]_scheduleVars PROVE ScheduleInv'
  OBVIOUS
<1>1. CASE UNCHANGED scheduleVars
  BY <1>1 DEF scheduleVars, ScheduleInv, ScheduleTypeOK
<1>2. CASE ScheduleNext
  BY <1>2, ScheduleSettingsHold, ScheduleSweepsStart, StrikeHolds, TrackHolds, SweepStepHolds DEF ScheduleNext
<1> QED
  BY <1>1, <1>2

\* A sweep gets to its report from the walk over the organizations, when none is left.
LEMMA ReportsComeLast ==
  ASSUME ScheduleInv, [ScheduleNext]_scheduleVars, NEW t \in Sweeps, sweep'[t].pc = "audit"
  PROVE  sweep[t].pc \in {"org", "audit"} /\ sweep[t].orgs = {}
<1>1. sweep[t].pc = "audit" => sweep[t].orgs = {}
  BY DEF ScheduleInv, SweepOk
<1>2. SUFFICES ASSUME sweep[t].pc # "audit" PROVE sweep[t].pc = "org" /\ sweep[t].orgs = {}
  BY <1>1
<1>3. sweep \in [Sweeps -> SweepRows] /\ sweep[t] \in SweepRows
  BY DEF ScheduleInv, ScheduleTypeOK
<1>4. sweep' # sweep
  BY <1>2
<1>5. ~Strike
  <2>1. \A s \in Sweeps : [sweep[s] EXCEPT !.today = sweep[s].at = {}].pc = sweep[s].pc
    BY <1>3 DEF SweepRows
  <2> QED
    BY <1>2, <2>1 DEF Strike
<1>6. ASSUME NEW c \in Campaigns PROVE ~Track(c)
  <2>1. \A s \in Sweeps : [sweep[s] EXCEPT !.steady = @ \ {c}].pc = sweep[s].pc
    BY <1>3 DEF SweepRows
  <2> QED
    BY <1>2, <2>1 DEF Track
<1>7. ASSUME NEW s \in Sweeps, NEW by, NEW dry, NEW scope PROVE ~Start(s, by, dry, scope)
  BY <1>2, <1>3 DEF Start, Idle
<1>8. PICK s \in Sweeps : SweepStep(s) \/ SweepDies(s)
  BY <1>4, <1>5, <1>6, <1>7 DEF ScheduleNext, scheduleVars, UpsertSetting, DeleteSetting, HandleCron, ManualAdmin, ManualOrg
<1>9. sweep[s] \in SweepRows
  BY <1>3
<1>10. ~WriteAudit(s) /\ ~SweepDies(s)
  BY <1>2, <1>3 DEF WriteAudit, SweepDies, Idle
<1>11. ASSUME NEW q, sweep' = [sweep EXCEPT ![s] = q] PROVE q.pc = "audit" /\ s = t
  BY <1>2, <1>3, <1>11
<1>12. ~EntityDone(s) /\ ~LeaveOrg(s)
  <2>1. /\ \A U : [sweep[s] EXCEPT !.pc = "visit", !.at = {}, !.left = {}, !.today = TRUE,
                                   !.seen = U, !.missed = {}].pc = "visit"
        /\ [sweep[s] EXCEPT !.pc = "org", !.todo = {}].pc = "org"
    BY <1>9 DEF SweepRows
  <2> QED
    BY <1>11, <2>1 DEF EntityDone, LeaveOrg
<1>13. ASSUME NEW c \in Campaigns PROVE ~VisitEntity(s, c)
  <2>1. PICK walk : walk = [sweep[s] EXCEPT !.todo = @ \ {c}]
    OBVIOUS
  <2>2. walk \in SweepRows /\ walk.pc = sweep[s].pc
    BY <1>9, <2>1 DEF SweepRows
  <2>3. [walk EXCEPT !.seen = @ \cup {c}].pc = sweep[s].pc
        /\ [walk EXCEPT !.pc = "find", !.at = {c}, !.left = Windows, !.today = TRUE].pc = "find"
    BY <2>2 DEF SweepRows
  <2>4. SUFFICES ASSUME VisitEntity(s, c) PROVE FALSE
    OBVIOUS
  <2>5. sweep[s].pc = "visit"
    BY <2>4 DEF VisitEntity
  <2>6. PICK q : q = IF walk.dry THEN [walk EXCEPT !.seen = @ \cup {c}]
                     ELSE [walk EXCEPT !.pc = "find", !.at = {c}, !.left = Windows, !.today = TRUE]
    OBVIOUS
  <2>7. sweep' = [sweep EXCEPT ![s] = q]
    BY <2>1, <2>4, <2>6 DEF VisitEntity
  <2> QED
    BY <1>11, <2>3, <2>5, <2>6, <2>7
<1>14. ~Find(s) /\ ~FetchWindow(s)
  <2>1. PICK w : w = NextWindow(s)
    OBVIOUS
  <2>2. PICK a, b, d, e : /\ a = [sweep[s] EXCEPT !.left = @ \ {w}] /\ b = [sweep[s] EXCEPT !.pc = "fetch"]
                          /\ d = [sweep[s] EXCEPT !.pc = "find", !.left = @ \ {w}, !.missed = @ \cup {w}]
                          /\ e = [sweep[s] EXCEPT !.pc = "find", !.left = @ \ {w}, !.missed = @]
    OBVIOUS
  <2>3. a.pc = sweep[s].pc /\ b.pc = "fetch" /\ d.pc = "find" /\ e.pc = "find"
    BY <1>9, <2>2 DEF SweepRows
  <2>4. ASSUME Find(s) PROVE sweep[s].pc = "find" /\ (sweep' = [sweep EXCEPT ![s] = a] \/ sweep' = [sweep EXCEPT ![s] = b])
    BY <1>12, <2>1, <2>2, <2>4 DEF Find
  <2>5. ASSUME FetchWindow(s) PROVE sweep' = [sweep EXCEPT ![s] = d] \/ sweep' = [sweep EXCEPT ![s] = e]
    BY <2>1, <2>2, <2>5 DEF FetchWindow
  <2> QED
    BY <1>11, <2>3, <2>4, <2>5
<1>16. LoadOrg(s)
  BY <1>8, <1>10, <1>12, <1>13, <1>14 DEF SweepStep, VisitThrows
<1>17. sweep[s].orgs = {}
  <2>1. SUFFICES ASSUME sweep[s].orgs # {} PROVE FALSE
    OBVIOUS
  <2>2. PICK o \in sweep[s].orgs : sweep' = [sweep EXCEPT ![s] =
               [sweep[s] EXCEPT !.pc = "visit", !.orgs = @ \ {o}, !.todo = {c \in tracked : OrgOf[c] = o}]]
    BY <1>16, <2>1 DEF LoadOrg
  <2>3. PICK q : q = [sweep[s] EXCEPT !.pc = "visit", !.orgs = @ \ {o}, !.todo = {c \in tracked : OrgOf[c] = o}]
    OBVIOUS
  <2>4. q.pc = "visit"
    BY <1>9, <2>3 DEF SweepRows
  <2> QED
    BY <1>11, <2>2, <2>3, <2>4
<1>18. s = t
  BY <1>11, <1>16, <1>17 DEF LoadOrg
<1> QED
  BY <1>16, <1>17, <1>18 DEF LoadOrg

\* Then it has visited whom it counts on, or the cap ended it.
LEMMA ReportsAreWhole ==
  ASSUME ScheduleInv, [ScheduleNext]_scheduleVars, NEW s \in Sweeps PROVE SuccessIsStored(s) /\ ReportIsWhole(s)
<1>1. PICK r : r = sweep[s]
  OBVIOUS
<1>2. SweepOk(r, tracked, snap)
  BY <1>1, RowIsOk
<1>3. SuccessIsStored(s)
  BY <1>1, <1>2 DEF SuccessIsStored, SweepOk
<1>4. ASSUME sweep'[s].pc = "audit" PROVE Capped(s) \/ sweep[s].steady \subseteq sweep[s].seen
  <2>1. r.pc \in {"org", "audit"} /\ r.orgs = {}
    BY <1>1, <1>4, ReportsComeLast
  <2>2. Owed(r) = r.seen
    BY <1>2, <2>1 DEF SweepOk, Owed
  <2> QED
    BY <1>1, <1>2, <2>2 DEF SweepOk, Capped
<1> QED
  BY <1>3, <1>4 DEF ReportIsWhole

\* The state of the schedule and of the sweeps is of its type in every behaviour
\* (metrics-ingestion.scheduler.ts, metrics-ingestion-runner.service.ts).
THEOREM ScheduleTypeCorrect == ScheduleSpec => []ScheduleTypeOK
<1>1. ScheduleInv => ScheduleTypeOK
  BY DEF ScheduleInv
<1> QED
  BY <1>1, ScheduleStarts, ScheduleSteps, PTL DEF ScheduleSpec

\* However many sweeps overlap, for any campaigns, windows and cap: a campaign that is
\* reported as a success has its snapshots of the day but for the windows whose fetch
\* failed, and a sweep that reports has passed nobody by who was tracked all along,
\* unless the cap ended it (metrics-ingestion-runner.service.ts, runFor).
THEOREM IngestionCorrect == ScheduleSpec => IngestionReportIsTrue
<1>1. ScheduleInv /\ [ScheduleNext]_scheduleVars => [\A s \in Sweeps : SuccessIsStored(s) /\ ReportIsWhole(s)]_scheduleVars
  BY ReportsAreWhole
<1> QED
  BY <1>1, ScheduleStarts, ScheduleSteps, PTL DEF ScheduleSpec, IngestionReportIsTrue


-----------------------------------------------------------------------------
(* What the administrator sees of it: the page of the actions, ActionLog.  *)

\* A filter leaves as many as it lets pass.
LEMMA KeptCounts ==
  ASSUME NEW s, NEW at, IsFiniteSet(at)
  PROVE  Cardinality(at) \in Nat /\ Kept(s, at) = [k \in 1..Cardinality(at) |-> Kept(s, at)[k]]
<1>1. PICK key : key = [i \in at |-> 0]
  OBVIOUS
<1>2. PICK P, f : P = {<<key[i], i>> : i \in at} /\ f = [i \in at |-> <<key[i], i>>]
  OBVIOUS
<1>3. f \in Bijection(at, P)
  <2>1. \A i \in at : f[i] \in P /\ f[i][2] = i
    BY <1>2
  <2>2. \A q \in P : \E i \in at : f[i] = q
    BY <1>2
  <2>3. f \in [at -> P]
    BY <1>2, <2>1
  <2>4. f \in Injection(at, P)
    BY <2>1, <2>3 DEF Injection, IsInjective
  <2>5. f \in Surjection(at, P)
    BY <2>2, <2>3 DEF Surjection
  <2> QED
    BY <2>4, <2>5 DEF Bijection
<1>4. Cardinality(P) = Cardinality(at)
  <2>1. ExistsBijection(at, P)
    BY <1>3 DEF ExistsBijection
  <2> QED
    BY <2>1, FS_Bijection
<1>5. Kept(s, at) = [k \in 1..Cardinality(P) |-> s[InOrder(P, k)[2]]]
  BY <1>1, <1>2 DEF Kept, Arranged
<1> QED
  BY <1>4, <1>5, FS_CardinalityType

LogRows == [id : Nat, campaign : LogEntities, born : {"PENDING", "APPLIED", "FAILED"},
            status : {"PENDING", "APPLIED", "FAILED", "SKIPPED"}, day : 0..Today]

\* A row has the number of its place, and keeps the status it was logged with unless that
\* was PENDING.
LogOk(log) ==
  /\ log \in Seq(LogRows)
  /\ \A i \in 1..Len(log) : log[i].id = i /\ (log[i].born # "PENDING" => log[i].status = log[i].born)

\* The page's copy is of rows the log had, in a row; what it takes for undecided was not
\* carried out by a cycle.
CopyOk(copy, log) ==
  /\ copy \in Seq(LogRows)
  /\ \A k \in 1..Len(copy) :
       /\ copy[k].id \in 1..Len(log) /\ (copy[k].status = "PENDING" => log[copy[k].id].born = "PENDING")
       /\ copy[k].id = copy[1].id - k + 1
       /\ k = Len(copy) => k = PageLimit \/ copy[k].id = 1
FiltersOk(f) ==
  /\ f = [statuses |-> f.statuses, campaign |-> f.campaign, preset |-> f.preset,
          dateFrom |-> f.dateFrom, dateTo |-> f.dateTo]
  /\ f.dateFrom = None => f.dateTo = None
DecidesOk(d, log) ==
  /\ d = [id |-> d.id, verb |-> d.verb, pc |-> d.pc]
  /\ d.id \in 1..Len(log) /\ log[d.id].born = "PENDING"
LogInv ==
  /\ LogOk(actionRow)
  /\ board = [rows |-> board.rows, filters |-> board.filters, visible |-> board.visible]
  /\ CopyOk(board.rows, actionRow) /\ FiltersOk(board.filters) /\ board.visible \in Nat
  /\ \A d \in decision : DecidesOk(d, actionRow)

LEMMA LogStarts == ActionLogInit => LogInv
<1> SUFFICES ASSUME ActionLogInit PROVE LogInv
  OBVIOUS
<1>1. /\ actionRow = <<>> /\ decision = {} /\ board.rows = <<>> /\ board.filters = EMPTY_FILTER
      /\ board.visible = PAGE_SIZE /\ board = [rows |-> board.rows, filters |-> board.filters, visible |-> board.visible]
  BY DEF ActionLogInit, NoBoard
<1>2. LogOk(actionRow) /\ CopyOk(board.rows, actionRow)
  BY <1>1 DEF LogOk, CopyOk
<1>3. FiltersOk(board.filters)
  BY <1>1 DEF FiltersOk, EMPTY_FILTER
<1>4. board.visible \in Nat
  BY <1>1, ActionLogAssumption
<1> QED
  BY <1>1, <1>2, <1>3, <1>4 DEF LogInv

\* The log grows, and what is undecided is decided: the page's copy stays one of its rows.
LEMMA LogMoves ==
  ASSUME LogInv, NEW log, LogOk(log), Len(log) >= Len(actionRow),
         \A i \in 1..Len(actionRow) : log[i].born = actionRow[i].born
  PROVE  CopyOk(board.rows, log) /\ \A d : DecidesOk(d, actionRow) => DecidesOk(d, log)
<1>1. Len(log) \in Nat /\ Len(actionRow) \in Nat
  BY DEF LogInv, LogOk
<1>2. \A i \in 1..Len(actionRow) : i \in 1..Len(log)
  BY <1>1
<1>3. CopyOk(board.rows, log)
  BY <1>2 DEF LogInv, CopyOk
<1>4. ASSUME NEW d, DecidesOk(d, actionRow) PROVE DecidesOk(d, log)
  BY <1>2, <1>4 DEF DecidesOk
<1> QED
  BY <1>3, <1>4

LEMMA CycleLogsHolds == ASSUME LogInv, CycleLogs PROVE LogInv'
<1>1. PICK c \in LogEntities, born \in {"PENDING", "APPLIED", "FAILED"}, today \in 0..Today :
        actionRow' = Append(actionRow, [id |-> Len(actionRow) + 1, campaign |-> c, born |-> born,
                                        status |-> born, day |-> today])
  BY DEF CycleLogs
<1>2. PICK r : r = [id |-> Len(actionRow) + 1, campaign |-> c, born |-> born, status |-> born, day |-> today]
  OBVIOUS
<1>3. actionRow \in Seq(LogRows) /\ Len(actionRow) \in Nat /\ board' = board /\ decision' = decision
  BY DEF CycleLogs, LogInv, LogOk
<1>4. r \in LogRows /\ r.id = Len(actionRow) + 1 /\ r.status = r.born
  BY <1>2, <1>3 DEF LogRows
<1>5. PICK log : log = Append(actionRow, r)
  OBVIOUS
<1>6. /\ log \in Seq(LogRows) /\ Len(log) = Len(actionRow) + 1 /\ log[Len(actionRow) + 1] = r
      /\ \A i \in 1..Len(actionRow) : log[i] = actionRow[i]
  BY <1>3, <1>4, <1>5
<1>7. LogOk(log)
  <2>1. ASSUME NEW i \in 1..Len(log)
        PROVE  log[i].id = i /\ (log[i].born # "PENDING" => log[i].status = log[i].born)
    <3>1. i \in 1..Len(actionRow) \/ i = Len(actionRow) + 1
      BY <1>3, <1>6
    <3>2. CASE i \in 1..Len(actionRow)
      BY <1>6, <3>2 DEF LogInv, LogOk
    <3>3. CASE i = Len(actionRow) + 1
      BY <1>4, <1>6, <3>3
    <3> QED
      BY <3>1, <3>2, <3>3
  <2> QED
    BY <1>6, <2>1 DEF LogOk
<1>8. CopyOk(board.rows, log) /\ \A d : DecidesOk(d, actionRow) => DecidesOk(d, log)
  BY <1>3, <1>6, <1>7, LogMoves
<1>9. actionRow' = log
  BY <1>1, <1>2, <1>5
<1> QED
  BY <1>3, <1>7, <1>8, <1>9 DEF LogInv

\* One row is decided on, which was logged as a suggestion.
LEMMA DecidedHolds ==
  ASSUME LogInv, NEW i \in 1..Len(actionRow), actionRow[i].born = "PENDING", NEW status \in {"APPLIED", "SKIPPED"},
         actionRow' = [actionRow EXCEPT ![i].status = status], board' = board, decision' \subseteq decision
  PROVE  LogInv'
<1>1. PICK log : log = [actionRow EXCEPT ![i].status = status]
  OBVIOUS
<1>2. PICK r : r = [actionRow[i] EXCEPT !.status = status]
  OBVIOUS
<1>3. actionRow \in Seq(LogRows) /\ Len(actionRow) \in Nat /\ actionRow[i] \in LogRows
  BY DEF LogInv, LogOk
<1>4. r \in LogRows /\ r.id = actionRow[i].id /\ r.born = "PENDING"
  BY <1>2, <1>3 DEF LogRows
<1>5. log = [actionRow EXCEPT ![i] = r]
  BY <1>1, <1>2
<1>6. /\ log \in Seq(LogRows) /\ Len(log) = Len(actionRow) /\ log[i] = r
      /\ \A j \in 1..Len(actionRow) : j # i => log[j] = actionRow[j]
  BY <1>3, <1>4, <1>5
<1>7. LogOk(log)
  BY <1>4, <1>6 DEF LogInv, LogOk
<1>8. CopyOk(board.rows, log) /\ \A d : DecidesOk(d, actionRow) => DecidesOk(d, log)
  <2>1. \A j \in 1..Len(actionRow) : log[j].born = actionRow[j].born
    BY <1>4, <1>6
  <2> QED
    BY <1>3, <1>6, <1>7, <2>1, LogMoves
<1> QED
  BY <1>1, <1>7, <1>8 DEF LogInv

LEMMA DecidedElsewhereHolds == ASSUME LogInv, DecidedElsewhere PROVE LogInv'
<1>1. actionRow \in Seq(LogRows) /\ DOMAIN actionRow = 1..Len(actionRow)
  BY DEF LogInv, LogOk
<1>2. PICK i \in 1..Len(actionRow) :
        /\ actionRow[i].status = "PENDING" /\ board' = board /\ decision' = decision
        /\ \E status \in {"APPLIED", "SKIPPED"} : actionRow' = [actionRow EXCEPT ![i].status = status]
  BY <1>1 DEF DecidedElsewhere
<1>3. actionRow[i].born = "PENDING"
  BY <1>2 DEF LogInv, LogOk
<1>4. PICK status \in {"APPLIED", "SKIPPED"} : actionRow' = [actionRow EXCEPT ![i].status = status]
  BY <1>2
<1> QED
  BY <1>2, <1>3, <1>4, DecidedHolds

LEMMA CallsHold ==
  ASSUME LogInv, NEW d \in decision, ApproveReads(d) \/ ApproveWrites(d) \/ RejectWrites(d) PROVE LogInv'
<1>1. DecidesOk(d, actionRow) /\ d.id \in 1..Len(actionRow) /\ actionRow[d.id].born = "PENDING"
  BY DEF LogInv, DecidesOk
<1>2. CASE ApproveReads(d)
  <2>1. PICK e : e = [d EXCEPT !.pc = "read"]
    OBVIOUS
  <2>2. e = [id |-> e.id, verb |-> e.verb, pc |-> e.pc] /\ e.id = d.id
    BY <1>1, <2>1 DEF DecidesOk
  <2>3. DecidesOk(e, actionRow)
    BY <1>1, <2>2 DEF DecidesOk
  <2>4. decision' \subseteq decision \cup {e} /\ actionRow' = actionRow /\ board' = board
    BY <1>2, <2>1 DEF ApproveReads
  <2> QED
    BY <2>3, <2>4 DEF LogInv
<1>3. CASE ApproveWrites(d)
  <2>1. actionRow' = [actionRow EXCEPT ![d.id].status = "APPLIED"] /\ board' = board /\ decision' \subseteq decision
    BY <1>3 DEF ApproveWrites
  <2> QED
    BY <1>1, <2>1, DecidedHolds
<1>4. CASE RejectWrites(d)
  <2>1. actionRow' = [actionRow EXCEPT ![d.id].status = "SKIPPED"] /\ board' = board /\ decision' \subseteq decision
    BY <1>4 DEF RejectWrites
  <2> QED
    BY <1>1, <2>1, DecidedHolds
<1> QED
  BY <1>2, <1>3, <1>4

LEMMA ListIs == ASSUME LogInv PROVE CopyOk(ListActions, actionRow)
<1>1. PICK n \in Nat : /\ n = IF Len(actionRow) > PageLimit THEN PageLimit ELSE Len(actionRow)
                       /\ n <= Len(actionRow) /\ (n = PageLimit \/ n = Len(actionRow))
  <2>1. Len(actionRow) \in Nat /\ PageLimit \in Nat
    BY ActionLogAssumption DEF LogInv, LogOk
  <2> QED
    BY <2>1
<1>2. PICK m \in Nat : m = Len(actionRow) /\ n <= m
  BY <1>1 DEF LogInv, LogOk
<1>3. ListActions = [k \in 1..n |-> actionRow[m + 1 - k]]
  BY <1>1, <1>2 DEF ListActions
<1>4. PICK copy : copy = [k \in 1..n |-> actionRow[m + 1 - k]]
  OBVIOUS
<1>5. \A k \in 1..n : /\ m + 1 - k \in 1..m /\ copy[k] = actionRow[m + 1 - k]
                      /\ actionRow[m + 1 - k] \in LogRows /\ actionRow[m + 1 - k].id = m + 1 - k
  BY <1>2, <1>4 DEF LogInv, LogOk
<1>6. copy \in Seq(LogRows) /\ Len(copy) = n
  <2>1. copy \in [1..n -> LogRows]
    BY <1>4, <1>5
  <2> QED
    BY <2>1
<1>7. ASSUME NEW k \in 1..n
      PROVE  /\ copy[k].id \in 1..m /\ (copy[k].status = "PENDING" => actionRow[copy[k].id].born = "PENDING")
             /\ copy[k].id = copy[1].id - k + 1
             /\ k = n => k = PageLimit \/ copy[k].id = 1
  <2>1. 1 \in 1..n /\ copy[1].id = m
    BY <1>2, <1>5
  <2>2. copy[k].id = m + 1 - k /\ m + 1 - k \in 1..m /\ copy[k] = actionRow[m + 1 - k]
    BY <1>5
  <2>3. copy[k].status = "PENDING" => actionRow[copy[k].id].born = "PENDING"
    BY <1>2, <2>2 DEF LogInv, LogOk
  <2>4. copy[k].id = copy[1].id - k + 1
    BY <1>2, <2>1, <2>2
  <2>5. k = n => k = PageLimit \/ copy[k].id = 1
    BY <1>1, <1>2, <2>2
  <2> QED
    BY <2>2, <2>3, <2>4, <2>5
<1>8. CopyOk(copy, actionRow)
  BY <1>2, <1>6, <1>7 DEF CopyOk
<1> QED
  BY <1>3, <1>4, <1>8

LEMMA PageHolds ==
  ASSUME LogInv, FetchActions \/ ToggleStatus \/ PickCampaign \/ SetPreset \/ ClearFilters \/ LoadMore PROVE LogInv'
<1>0. board = [rows |-> board.rows, filters |-> board.filters, visible |-> board.visible]
  BY DEF LogInv
<1>1. ASSUME NEW f, FiltersOk(f), ChangeFilter(f) PROVE LogInv'
  <2>1. PICK b : b = [board EXCEPT !.filters = f, !.visible = PAGE_SIZE]
    OBVIOUS
  <2>2. /\ b.rows = board.rows /\ b.filters = f /\ b.visible = PAGE_SIZE
        /\ b = [rows |-> b.rows, filters |-> b.filters, visible |-> b.visible]
    BY <1>0, <2>1
  <2>3. board' = b /\ actionRow' = actionRow /\ decision' = decision
    BY <1>1, <2>1 DEF ChangeFilter
  <2>4. PAGE_SIZE \in Nat
    BY ActionLogAssumption
  <2> QED
    BY <1>1, <2>2, <2>3, <2>4 DEF LogInv
<1>2. PICK g : g = board.filters /\ FiltersOk(g)
  BY DEF LogInv
<1>3. CASE FetchActions
  <2>1. PICK b : b = [board EXCEPT !.rows = ListActions]
    OBVIOUS
  <2>2. /\ b.rows = ListActions /\ b.filters = board.filters /\ b.visible = board.visible
        /\ b = [rows |-> b.rows, filters |-> b.filters, visible |-> b.visible]
    BY <1>0, <2>1
  <2>3. board' = b /\ actionRow' = actionRow /\ decision' = decision
    BY <1>3, <2>1 DEF FetchActions
  <2>4. CopyOk(ListActions, actionRow)
    BY ListIs
  <2> QED
    BY <2>2, <2>3, <2>4 DEF LogInv
<1>4. CASE ToggleStatus
  <2>1. PICK s \in ChipsUsed : ChangeFilter([g EXCEPT !.statuses = IF s \in g.statuses THEN g.statuses \ {s} ELSE g.statuses \cup {s}])
    BY <1>2, <1>4 DEF ToggleStatus
  <2>2. ASSUME NEW u PROVE FiltersOk([g EXCEPT !.statuses = u])
    BY <1>2 DEF FiltersOk
  <2> QED
    BY <1>1, <2>1, <2>2
<1>5. CASE PickCampaign
  <2>1. PICK c : ChangeFilter([g EXCEPT !.campaign = c])
    BY <1>2, <1>5 DEF PickCampaign
  <2>2. FiltersOk([g EXCEPT !.campaign = c])
    BY <1>2 DEF FiltersOk
  <2> QED
    BY <1>1, <2>1, <2>2
<1>6. CASE SetPreset
  <2>1. PICK preset \in PresetsUsed :
          ChangeFilter([g EXCEPT !.preset = IF preset = g.preset THEN None ELSE preset,
                                 !.dateFrom = PresetDays(preset)[1], !.dateTo = PresetDays(preset)[2]])
    BY <1>2, <1>6 DEF SetPreset
  <2>2. PICK a \in Int : a = PresetDays(preset)[1]
    BY ActionLogAssumption DEF PresetDays
  <2>3. a # None
    BY ActionLogAssumption
  <2>4. ASSUME NEW u, NEW v PROVE FiltersOk([g EXCEPT !.preset = u, !.dateFrom = a, !.dateTo = v])
    <3>1. PICK q : q = [g EXCEPT !.preset = u, !.dateFrom = a, !.dateTo = v]
      OBVIOUS
    <3>2. /\ q = [statuses |-> q.statuses, campaign |-> q.campaign, preset |-> q.preset,
                  dateFrom |-> q.dateFrom, dateTo |-> q.dateTo]
          /\ q.dateFrom = a
      <4>1. g = [statuses |-> g.statuses, campaign |-> g.campaign, preset |-> g.preset,
                 dateFrom |-> g.dateFrom, dateTo |-> g.dateTo]
        BY <1>2 DEF FiltersOk
      <4> QED
        BY <3>1, <4>1
    <3> QED
      BY <2>3, <3>1, <3>2 DEF FiltersOk
  <2> QED
    BY <1>1, <2>1, <2>2, <2>4
<1>7. CASE ClearFilters
  <2>1. FiltersOk(EMPTY_FILTER)
    BY DEF FiltersOk, EMPTY_FILTER
  <2> QED
    BY <1>1, <1>7, <2>1 DEF ClearFilters
<1>8. CASE LoadMore
  <2>1. PICK b : b = [board EXCEPT !.visible = @ + PAGE_SIZE]
    OBVIOUS
  <2>2. /\ b.rows = board.rows /\ b.filters = board.filters /\ b.visible = board.visible + PAGE_SIZE
        /\ b = [rows |-> b.rows, filters |-> b.filters, visible |-> b.visible]
    BY <1>0, <2>1
  <2>3. board' = b /\ actionRow' = actionRow /\ decision' = decision
    BY <1>8, <2>1 DEF LoadMore
  <2>4. b.visible \in Nat
    BY <2>2, ActionLogAssumption DEF LogInv
  <2> QED
    BY <2>2, <2>3, <2>4 DEF LogInv
<1> QED
  BY <1>3, <1>4, <1>5, <1>6, <1>7, <1>8

\* What the page shows is of its copy.
LEMMA CardsAre == ASSUME LogInv PROVE \A k \in DOMAIN Visible : \E j \in 1..Len(board.rows) : Visible[k] = board.rows[j]
<1>1. PICK copy, at : copy = board.rows /\ at = {k \in DOMAIN copy : Passes(copy[k], board.filters)}
  OBVIOUS
<1>2. copy \in Seq(LogRows) /\ DOMAIN copy = 1..Len(copy) /\ Len(copy) \in Nat
  BY <1>1 DEF LogInv, CopyOk
<1>3. at \in SUBSET (1..Len(copy))
  BY <1>1, <1>2
<1>4. IsFiniteSet(at)
  BY <1>2, <1>3, IntervalIs, FS_Subset
<1>5. at \subseteq Nat
  BY <1>3
<1>6. Filters(Kept(copy, at), copy, at)
  BY <1>4, <1>5, KeptIs
<1>7. Filtered = Kept(copy, at)
  BY <1>1 DEF Filtered, FilterLog
<1>8. PICK n \in Nat : \E p \in [1..n -> at] : Filtered = [k \in 1..n |-> copy[p[k]]]
  BY <1>6, <1>7 DEF Filters
<1>9. PICK p \in [1..n -> at] : Filtered = [k \in 1..n |-> copy[p[k]]]
  BY <1>8
<1>10. Filtered \in Seq(LogRows) /\ Len(Filtered) = n
  <2>1. \A k \in 1..n : copy[p[k]] \in LogRows
    <3>1. \A j \in 1..Len(copy) : copy[j] \in LogRows
      BY <1>2
    <3>2. \A k \in 1..n : p[k] \in at
      OBVIOUS
    <3> QED
      BY <1>3, <3>1, <3>2
  <2>2. PICK list : list = Filtered
    OBVIOUS
  <2>3. list = [k \in 1..n |-> copy[p[k]]]
    BY <1>9, <2>2
  <2>4. list \in [1..n -> LogRows]
    BY <2>1, <2>3
  <2>5. list \in Seq(LogRows) /\ Len(list) = n
    BY <2>4
  <2> QED
    BY <2>2, <2>5
<1>11. PICK m \in Nat : m <= n /\ Visible = SubSeq(Filtered, 1, m)
  BY <1>10 DEF LogInv, Visible
<1>12. PICK list, cards : list = Filtered /\ cards = SubSeq(list, 1, m) /\ cards = Visible
  BY <1>11
<1>13. Len(list) = n /\ list \in Seq(LogRows)
  BY <1>10, <1>12
<1>15. cards \in Seq(LogRows) /\ Len(cards) = m /\ \A k \in 1..m : cards[k] = list[k]
  BY <1>11, <1>12, <1>13
<1>14. \A k \in 1..m : p[k] \in 1..Len(copy) /\ Visible[k] = copy[p[k]]
  <2>1. \A k \in 1..m : k \in 1..n
    BY <1>11
  <2> QED
    BY <1>3, <1>9, <1>12, <1>15, <2>1
<1>16. DOMAIN Visible = 1..m
  BY <1>12, <1>15
<1> QED
  BY <1>1, <1>14, <1>16

LEMMA DecideHolds == ASSUME LogInv, NEW verb, Decide(verb) PROVE LogInv'
<1>1. PICK k \in DOMAIN Visible :
        /\ Decidable(Visible[k]) /\ actionRow' = actionRow /\ board' = board
        /\ decision' = decision \cup {[id |-> Visible[k].id, verb |-> verb, pc |-> "sent"]}
  BY DEF Decide
<1>2. PICK j \in 1..Len(board.rows) : Visible[k] = board.rows[j]
  BY CardsAre
<1>3. PICK d : d = [id |-> board.rows[j].id, verb |-> verb, pc |-> "sent"]
  OBVIOUS
<1>4. board.rows[j].id \in 1..Len(actionRow) /\ actionRow[board.rows[j].id].born = "PENDING"
  BY <1>1, <1>2 DEF LogInv, CopyOk, Decidable
<1>5. DecidesOk(d, actionRow)
  BY <1>3, <1>4 DEF DecidesOk
<1>6. decision' = decision \cup {d}
  BY <1>1, <1>2, <1>3
<1> QED
  BY <1>1, <1>5, <1>6 DEF LogInv

LEMMA LogSteps == LogInv /\ [ActionLogNext]_actionLogVars => LogInv'
<1> SUFFICES ASSUME LogInv, [ActionLogNext]_actionLogVars PROVE LogInv'
  OBVIOUS
<1>1. CASE UNCHANGED actionLogVars
  BY <1>1 DEF actionLogVars, LogInv
<1>2. CASE ActionLogNext
  BY <1>2, CycleLogsHolds, DecidedElsewhereHolds, PageHolds, DecideHolds, CallsHold DEF ActionLogNext
<1> QED
  BY <1>1, <1>2

\* Without a filter and its dates, everything passes.
LEMMA AllIsShown == ASSUME LogInv PROVE NothingIsHidden
<1>1. PICK f, copy : f = board.filters /\ copy = board.rows
  OBVIOUS
<1>2. SUFFICES ASSUME ~IsFilterActive(f), f.dateFrom = None
               PROVE  /\ ~HasMore => Len(Visible) = Len(copy)
                      /\ \A k \in DOMAIN copy :
                           /\ copy[k].id = copy[1].id - k + 1
                           /\ k = Len(copy) => k = PageLimit \/ copy[k].id = 1
  BY <1>1 DEF NothingIsHidden
<1>3. copy \in Seq(LogRows) /\ DOMAIN copy = 1..Len(copy) /\ Len(copy) \in Nat
  BY <1>1 DEF LogInv, CopyOk
<1>4. \A k \in DOMAIN copy : /\ copy[k].id = copy[1].id - k + 1
                             /\ k = Len(copy) => k = PageLimit \/ copy[k].id = 1
  BY <1>1, <1>3 DEF LogInv, CopyOk
<1>5. f.statuses = {} /\ f.campaign = None /\ f.dateTo = None
  BY <1>1, <1>2 DEF LogInv, FiltersOk, IsFilterActive
<1>6. \A a : Passes(a, f)
  BY <1>2, <1>5 DEF Passes
<1>7. FilterLog(copy, f) = Kept(copy, 1..Len(copy))
  BY <1>3, <1>6 DEF FilterLog
<1>8. PICK list : list = Kept(copy, 1..Len(copy)) /\ list = Filtered
  BY <1>1, <1>7 DEF Filtered
<1>9. list = [k \in 1..Len(copy) |-> list[k]]
  BY <1>3, <1>8, IntervalIs, KeptCounts
<1>10. list \in Seq({list[k] : k \in 1..Len(copy)}) /\ Len(list) = Len(copy)
  BY <1>3, <1>9
<1>11. ~HasMore => Len(Visible) = Len(copy)
  <2>1. SUFFICES ASSUME ~HasMore PROVE Len(Visible) = Len(copy)
    OBVIOUS
  <2>2. ~(board.visible < Len(list)) /\ Visible = SubSeq(list, 1, Len(list))
    BY <1>8, <2>1 DEF HasMore, Visible
  <2> QED
    BY <1>3, <1>10, <2>2
<1> QED
  BY <1>4, <1>11

\* The card of a previewed change reads what the preview sends.
LEMMA CardsShow == PreviewIsShown
<1>1. ASSUME NEW p \in Proposed
      PROVE  LET diff == BuildSimulateDiff(p)
             IN ValueDiff(p.type, diff[1], diff[2]) = <<p.current, IF p.type = "STRATEGY" THEN p.target ELSE p.proposed>>
  <2>1. CASE p.type = "BUDGET"
    <3>1. p.current # None /\ p.proposed # None
      BY <2>1, ActionLogAssumption
    <3> QED
      BY <2>1, <3>1 DEF BuildSimulateDiff, ValueDiff, ValueShown, FieldOf, Given
  <2>2. CASE p.type = "STRATEGY"
    BY <2>2 DEF BuildSimulateDiff, ValueDiff, ValueShown, FieldOf
  <2>3. CASE p.type = "CEILING"
    BY <2>3 DEF BuildSimulateDiff, ValueDiff, ValueShown, FieldOf
  <2> QED
    BY <2>1, <2>2, <2>3, ActionLogAssumption
<1> QED
  BY <1>1 DEF PreviewIsShown

\* Whatever cycles, other administrators and this page do, with any limits and page sizes:
\* what a cycle did is never put down as a user's decision, an unfiltered list ends with
\* the newest actions, and a previewed change is shown as it would be made
\* (optimizer.controller.ts, optimizer/page.tsx, value-diff.tsx).
THEOREM ActionPageCorrect == ActionLogSpec => []ActionPageHolds
<1>1. LogInv => ExecutedStaysOnRecord
  <2>1. SUFFICES ASSUME LogInv PROVE ExecutedStaysOnRecord
    OBVIOUS
  <2>2. DOMAIN actionRow = 1..Len(actionRow)
    BY <2>1 DEF LogInv, LogOk
  <2> QED
    BY <2>1, <2>2 DEF ExecutedStaysOnRecord, LogInv, LogOk
<1>2. LogInv => ActionPageHolds
  BY <1>1, AllIsShown, CardsShow DEF ActionPageHolds
<1> QED
  BY <1>2, LogStarts, LogSteps, PTL DEF ActionLogSpec


=============================================================================
