----------------------------- MODULE PlanDraft ------------------------------
(***************************************************************************)
(* What POST campaign-architect/plans computes from a wizard input before  *)
(* a plan is stored: the decision engine's items with their budgets, the   *)
(* risk findings that later block or allow approval, and the confidence    *)
(* score shown next to them (campaign-architect/decision, risk, summary).  *)
(*                                                                         *)
(* Money is in cents, shares and factor weights in percent.                *)
(***************************************************************************)
EXTENDS Integers, FiniteSets, Functions, Absent

CONSTANT WizardInputs  \* what the wizard may send, with the ad accounts it names

VARIABLES input,   \* the wizard input, with what the ad accounts of the organization are
          built,   \* what is computed: items, findings, confidence
          handed   \* what a launch of the plan gives the adapters, per item

draftVars == <<input, built, handed>>

\* What the request's validation lets through. The ages are within 13..65 each, and nothing
\* says which is the larger; a lifetime budget needs no end date here.
WizardInputDto(in) ==
  /\ in.platforms # {} /\ in.total > 0
  /\ in.targetRoas = None \/ in.targetRoas > 0
  /\ in.targetCpa = None \/ in.targetCpa > 0
  /\ in.ageSpan \in -52..52 /\ in.interestTags \in 0..50 /\ in.assetRefs \in 0..50

\* The other fields are of their types, money is in whole cents, and null is no number.
ASSUME PlanDraftAssumption ==
  /\ None \notin Int
  /\ \A in \in WizardInputs :
       /\ in.goal \in {"AWARENESS", "TRAFFIC", "ENGAGEMENT", "LEADS", "SALES", "APP_INSTALLS"}
       /\ in.budgetType \in {"DAILY", "LIFETIME"} /\ in.pixelInstalled \in {"yes", "no", "unknown"}
       /\ in.total \in Nat /\ in.startDay \in Nat /\ in.endDay \in Nat \cup {None}

HalfUp(num, den) == (2 * num + den) \div (2 * den)

-----------------------------------------------------------------------------
(* decision-engine.service.ts                                              *)

SUPPORTED_PLATFORMS == {"META", "GOOGLE_ADS"}
GOAL_TO_FUNNEL(goal) ==
  CASE goal \in {"AWARENESS", "TRAFFIC"} -> "TOFU"
    [] goal \in {"ENGAGEMENT", "LEADS", "APP_INSTALLS"} -> "MOFU" [] goal = "SALES" -> "BOFU"

MetaShare ==  \* BUDGET_SHARES.META; GOOGLE_ADS has the rest
  [AWARENESS |-> 65, TRAFFIC |-> 45, ENGAGEMENT |-> 70, LEADS |-> 60, SALES |-> 55, APP_INSTALLS |-> 50]
BUDGET_SHARES(goal, p) == IF p = "META" THEN MetaShare[goal] ELSE 100 - MetaShare[goal]

\* The rows of the objective map for the two platforms that get here.
OBJECTIVE_MAP ==
  [META |-> [AWARENESS |-> "REACH", TRAFFIC |-> "LINK_CLICKS", ENGAGEMENT |-> "POST_ENGAGEMENT",
             LEADS |-> "LEAD_GENERATION", SALES |-> "CONVERSIONS", APP_INSTALLS |-> "APP_INSTALLS"],
   GOOGLE_ADS |-> [AWARENESS |-> "DISPLAY_REACH", TRAFFIC |-> "SEARCH_CLICKS", ENGAGEMENT |-> "VIDEO_VIEWS",
             LEADS |-> "LEAD_GENERATION", SALES |-> "CONVERSIONS", APP_INSTALLS |-> "APP_PROMOTION"]]

\* Null without an end date, and for one that is not after the start.
ComputeDurationDays(in) == IF in.endDay = None \/ in.endDay <= in.startDay THEN None ELSE in.endDay - in.startDay

EveryDayWhole(in) == 1  \* mutant: a lifetime budget is not divided by the days
EffectiveDays(in) ==
  IF in.budgetType = "DAILY" THEN 1
  ELSE IF ComputeDurationDays(in) = None THEN 30 ELSE ComputeDurationDays(in)

Accepted(in) == in.platforms \cap SUPPORTED_PLATFORMS
AllocateBudget(in, p) ==
  LET totalRaw == SumFunction([q \in Accepted(in) |-> BUDGET_SHARES(in.goal, q)])
  IN HalfUp(in.total * BUDGET_SHARES(in.goal, p), totalRaw * EffectiveDays(in))

ChooseBiddingStrategy(in) ==
  CASE in.goal = "SALES" /\ in.targetRoas # None -> <<"TARGET_ROAS", in.targetRoas>>
    [] in.goal \in {"SALES", "LEADS", "APP_INSTALLS"} /\ in.targetCpa # None
         /\ ~(in.goal = "SALES" /\ in.targetRoas # None) -> <<"TARGET_CPA", in.targetCpa>>
    [] OTHER -> <<"LOWEST_COST", None>>

BuildItem(in, p) ==
  [platform |-> p, adAccount |-> in.accounts[p], objective |-> OBJECTIVE_MAP[p][in.goal],
   dailyBudget |-> AllocateBudget(in, p), isCbo |-> p = "META", bidding |-> ChooseBiddingStrategy(in)]

-----------------------------------------------------------------------------
(* risk-check.service.ts: a finding is a code, a severity and the platform it is about. *)

PLATFORM_MIN_DAILY(p) == IF p = "META" THEN 100 ELSE 500
LOW_BUDGET_MULTIPLIER == 3
CONVERSION_GOALS == {"SALES", "LEADS", "APP_INSTALLS"}
SHORT_CAMPAIGN_DAYS == 7

Blocker(code, p) == [code |-> code, severity |-> "BLOCKER", platform |-> p]
Warning(code, p) == [code |-> code, severity |-> "WARNING", platform |-> p]
When(condition, finding) == IF condition THEN {finding} ELSE {}

CheckBudgetFloors(items) ==
  LET below == {i \in items : i.dailyBudget < PLATFORM_MIN_DAILY(i.platform)} IN
  IF below = items THEN {Blocker("BUDGET_BELOW_PLATFORM_MINIMUM", "ALL")}
  ELSE {Blocker("BUDGET_BELOW_PLATFORM_MINIMUM", i.platform) : i \in below}
       \cup {Warning("LOW_DAILY_BUDGET", i.platform) : i \in
               {i \in items \ below : i.dailyBudget < LOW_BUDGET_MULTIPLIER * PLATFORM_MIN_DAILY(i.platform)}}

CheckAdAccounts(items) ==
  {Blocker("AD_ACCOUNT_NOT_CONNECTED", i.platform) : i \in {i \in items : i.adAccount.status = "MISSING"}}
  \cup {Blocker("AD_ACCOUNT_DISCONNECTED", i.platform) : i \in
          {i \in items : i.adAccount.status \notin {"MISSING", "ACTIVE", "MOCK"}}}

CheckCurrencyAlignment(in, items) ==
  {Warning("CURRENCY_MISMATCH", i.platform) : i \in
     {i \in items : i.adAccount.status # "MISSING" /\ i.adAccount.currency \notin {None, in.currency}}}

CheckPlan(in, items) ==
  When(in.budgetType = "LIFETIME" /\ in.endDay = None, Blocker("LIFETIME_BUDGET_WITHOUT_END_DATE", "ALL"))
  \cup When(Cardinality(items) = 1, Warning("SINGLE_PLATFORM_CONCENTRATION", "ALL"))
  \cup When(in.goal \in CONVERSION_GOALS /\ in.pixelInstalled # "yes", Warning("NO_CONVERSION_TRACKING", "ALL"))
  \cup When(ComputeDurationDays(in) # None /\ ComputeDurationDays(in) < SHORT_CAMPAIGN_DAYS,
            Warning("SHORT_CAMPAIGN_DURATION", "ALL"))

CheckContent(in) ==
  When(in.interestTags = 0 /\ in.ageSpan > 30, Warning("WEAK_AUDIENCE_DEFINITION", "ALL"))
  \cup When(in.startDay % 7 \in {5, 6}, Warning("WEEKEND_START", "ALL"))
  \cup When(in.assetRefs = 0, Blocker("MISSING_CREATIVE_ASSETS", "ALL"))
  \cup When(~in.headline, Warning("MISSING_HEADLINE", "ALL"))

\* Without an item that is all there is to say; the list is sorted when it is shown.
Evaluate(in, items) ==
  IF items = {} THEN {Blocker("UNSUPPORTED_PLATFORM_FOR_GOAL", "ALL")}
  ELSE IF in.platforms \ SUPPORTED_PLATFORMS # {} THEN {Warning("UNSUPPORTED_PLATFORM_FOR_GOAL", "ALL")}
  ELSE CheckBudgetFloors(items) \cup CheckAdAccounts(items) \cup CheckCurrencyAlignment(in, items)
       \cup CheckPlan(in, items) \cup CheckContent(in)

-----------------------------------------------------------------------------
(* strategic-summary.service.ts                                            *)

PixelAvailability(in) ==
  CASE in.goal \notin CONVERSION_GOALS \/ in.pixelInstalled = "yes" -> 100
    [] in.goal \in CONVERSION_GOALS /\ in.pixelInstalled = "no" -> 15
    [] in.goal \in CONVERSION_GOALS /\ in.pixelInstalled = "unknown" -> 40

AudienceClarity(in) ==
  40 + (IF in.interestTags >= 3 THEN 25 ELSE IF in.interestTags >= 1 THEN 12 ELSE 0)
     + (IF in.ageSpan <= 15 THEN 20 ELSE IF in.ageSpan <= 25 THEN 10 ELSE 0)
     + (IF in.languages THEN 8 ELSE 0) + (IF in.cities THEN 7 ELSE 0)

HEALTHY_MULTIPLIER == 5
BudgetScore(i) ==
  IF i.dailyBudget >= HEALTHY_MULTIPLIER * PLATFORM_MIN_DAILY(i.platform) THEN 100
  ELSE IF i.dailyBudget >= PLATFORM_MIN_DAILY(i.platform) THEN 60 ELSE 10
BudgetSufficiency(items) ==
  IF items = {} THEN 0 ELSE HalfUp(SumFunction([i \in items |-> BudgetScore(i)]), Cardinality(items))

Confidence(in, items) ==
  LET score == HalfUp(30 * PixelAvailability(in) + 30 * AudienceClarity(in) + 40 * BudgetSufficiency(items), 100)
  IN [score |-> score, label |-> IF score >= 75 THEN "HIGH" ELSE IF score >= 50 THEN "MEDIUM" ELSE "LOW"]

-----------------------------------------------------------------------------
(* launcher.service.ts: what the create calls of an item are given. A budget stands on  *)
(* the campaign or on its one ad set.                                                   *)

BuildCampaignDraft(in, i) ==
  [isCbo |-> i.isCbo, objective |-> i.objective, endDay |-> in.endDay,
   dailyBudget |-> IF i.isCbo /\ in.budgetType = "DAILY" THEN i.dailyBudget ELSE None,
   lifetimeBudget |-> IF i.isCbo /\ in.budgetType = "LIFETIME" THEN in.total ELSE None]
BuildAdSetDraft(in, i) ==
  [dailyBudget |-> IF i.isCbo THEN None ELSE i.dailyBudget, bidding |-> i.bidding, endDay |-> in.endDay]
BuildCreativeDraft(in) == [assetRefs |-> IF in.assetRefs > 0 THEN in.assetRefs ELSE 1]  \* a placeholder
Drafts(in, i) == [platform |-> i.platform, campaign |-> BuildCampaignDraft(in, i),
                  adSet |-> BuildAdSetDraft(in, i), creative |-> BuildCreativeDraft(in)]

\* assertNoBlockers
MayLaunch(findings) == \A f \in findings : f.severity # "BLOCKER"

-----------------------------------------------------------------------------
DraftInit == input \in {in \in WizardInputs : WizardInputDto(in)} /\ built = None /\ handed = None

BuildDraft ==
  /\ built = None
  /\ LET items == {BuildItem(input, p) : p \in Accepted(input)} IN
     built' = [funnelStage |-> GOAL_TO_FUNNEL(input.goal), items |-> items,
               findings |-> Evaluate(input, items), confidence |-> Confidence(input, items)]
  /\ UNCHANGED <<input, handed>>

HandOver ==
  /\ built # None /\ handed = None /\ MayLaunch(built.findings)
  /\ handed' = {Drafts(input, i) : i \in built.items}
  /\ UNCHANGED <<input, built>>

DraftNext == BuildDraft \/ HandOver
DraftSpec == DraftInit /\ [][DraftNext]_draftVars

-----------------------------------------------------------------------------
(* Properties.                                                             *)

\* The days that the total is for.
BudgetDays == IF input.budgetType = "DAILY" THEN 1 ELSE ComputeDurationDays(input)

\* What the items spend is the total, but for the rounding to cents: on each day, or over
\* all days of a campaign whose end is after its start.
BudgetIsSplit ==
  LET daily == SumFunction([i \in built.items |-> i.dailyBudget])
  IN built.items # {} /\ BudgetDays # None => daily * BudgetDays - input.total \in -BudgetDays..BudgetDays

Blockers == {f \in built.findings : f.severity = "BLOCKER"}

\* A draft that nothing blocks can be launched as it stands: its accounts work, each
\* platform takes its budget, and it has an asset; except that a platform that was left
\* out silences all other checks.
UnblockedIsLaunchable ==
  Blockers = {} /\ input.platforms \subseteq SUPPORTED_PLATFORMS =>
    /\ built.items # {} /\ input.assetRefs > 0
    /\ \A i \in built.items : /\ i.adAccount.status \in {"ACTIVE", "MOCK"}
                              /\ i.dailyBudget >= PLATFORM_MIN_DAILY(i.platform)

\* The two services look at the same draft with thresholds of their own, and still do not
\* contradict each other: nothing found is not LOW, and a plan that no platform takes
\* the budget of is not HIGH.
ScoreAgreesWithRisks ==
  /\ built.findings = {} => built.confidence.label # "LOW"
  /\ (\A i \in built.items : BudgetScore(i) = 10) => built.confidence.label # "HIGH"

\* The places where a budget may stand in what an adapter is given, those where one does,
\* and what they spend in all.
BudgetPlaces(d) == {<<"campaign", d.campaign.dailyBudget>>, <<"lifetime", d.campaign.lifetimeBudget>>,
                    <<"adSet", d.adSet.dailyBudget>>}
BudgetsSet(d) == {place \in BudgetPlaces(d) : place[2] # None}
SpendsOf(d, days) ==
  SumFunction([place \in BudgetsSet(d) |-> IF place[1] = "lifetime" THEN place[2] ELSE place[2] * days])

\* A launch hands each item's budget over once, on the campaign or on the ad set, and in
\* all what the user gave; except that a campaign with a lifetime budget of its own is
\* given the whole plan's, which only a plan of that one platform means. A plan whose
\* checks were not silenced shows the user's own assets.
BudgetIsHandedOn ==
  /\ Cardinality(handed) = Cardinality(built.items)
  /\ \A d \in handed : Cardinality(BudgetsSet(d)) = 1
  /\ (input.budgetType = "DAILY" \/ Cardinality(handed) = 1) /\ BudgetDays # None /\ handed # {} =>
       SumFunction([d \in handed |-> SpendsOf(d, BudgetDays)]) - input.total \in -BudgetDays..BudgetDays
  /\ input.platforms \subseteq SUPPORTED_PLATFORMS =>
       \A d \in handed : d.creative.assetRefs = input.assetRefs

\* All of it (decision-engine.service.ts 214-252, risk-check.service.ts 33-58,
\* strategic-summary.service.ts 46-66, launcher.service.ts 432-482).
DraftIsSound ==
  /\ built # None => BudgetIsSplit /\ UnblockedIsLaunchable /\ ScoreAgreesWithRisks
  /\ handed # None => BudgetIsHandedOn
=============================================================================
