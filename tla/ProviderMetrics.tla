--------------------------- MODULE ProviderMetrics ---------------------------
(***************************************************************************)
(* What the four adapters make of the same activity: each platform reports *)
(* it in its own rows, units and event names, the adapter asks for a       *)
(* window of it and maps it to NormalizedMetrics (providers/, the mapper   *)
(* services and conversion configurations).  Money is in cents, ctr in     *)
(* millionths, roas and frequency in ten thousandths.                      *)
(***************************************************************************)
EXTENDS Integers, Sequences, FiniteSets, Functions, Absent

CONSTANT AdWorlds  \* activity by day, objective, window, time, event names, a campaign's raw budgets

Objectives == {"CONVERSIONS", "LEADS", "TRAFFIC", "AWARENESS", "ENGAGEMENT", "APP_INSTALLS", "VIDEO_VIEWS"}

\* A platform reports counts and cents, and keeps a budget on a campaign or on its ad sets.
RawCampaigns == [state : {"on", "off", "archived", "removed"}, daily : Nat \cup {None}, lifetime : Nat \cup {None},
                 adSetDaily : Nat \cup {None}, cap : Nat \cup {None}, operation : {"ENABLE", "DISABLE", None}]
Activities == [spend : Nat, impressions : Nat, clicks : Nat, purchases : Nat, leads : Nat, installs : Nat,
               value : Nat, reach : Nat]
ASSUME ProviderMetricsAssumption ==
  /\ None \notin Nat
  /\ AdWorlds \subseteq [days : Seq(Activities), objective : Objectives \cup {None}, hours : Nat, now : Nat,
                          names : {"one", "several"}, campaign : RawCampaigns]
  /\ \A w \in AdWorlds : w.campaign.adSetDaily = None \/ (w.campaign.daily = None /\ w.campaign.lifetime = None)

VARIABLES adWorld,     \* the activity the platforms report
          adReports    \* what the adapters make of it

metricsVars == <<adWorld, adReports>>

Networks == {"META", "GOOGLE_ADS", "SNAPCHAT", "TIKTOK"}

-----------------------------------------------------------------------------
(* The window.  Activity of a day happens at its noon; time is in hours.   *)
NoonOf(d) == 24 * d + 12
\* Three adapters ask by calendar date, both ends included; Snapchat by the clock.
DatesAsked(w) == {d \in DOMAIN w.days : (w.now - w.hours) \div 24 <= d /\ NoonOf(d) <= w.now}
ClockAsked(w) == {d \in DOMAIN w.days : w.now - w.hours <= NoonOf(d) /\ NoonOf(d) <= w.now}

\* A column of rows in all, and what the counted fields of one row come to.
TotalColumn(table, field) == SumFunction([d \in DOMAIN table |-> table[d][field]])
Counted(row, fields) == SumFunction([k \in fields |-> row[k]])
NearestDiv(a, b)  == (2 * a + b) \div (2 * b)
Micros(cents)   == cents * 10000
Cents(micros)   == NearestDiv(micros, 10000)

\* The event a campaign of the objective is after.
GoalOf(day, objective) == CASE objective = "CONVERSIONS" -> day.purchases [] objective = "LEADS" -> day.leads
                            [] objective = "APP_INSTALLS" -> day.installs [] OTHER -> 0

-----------------------------------------------------------------------------
(* What each platform answers: the rows of the days asked for. *)
ActionTypes == {"purchase", "pixel_purchase", "omni_purchase", "lead", "pixel_lead", "complete_registration", "link_click",
                "landing_page_view", "post_engagement", "page_engagement", "mobile_app_install", "app_install"}
MetaRows(w) ==
  [d \in DatesAsked(w) |->
     LET day == w.days[d]
     IN [spend |-> day.spend, impressions |-> day.impressions, clicks |-> day.clicks, reach |-> day.reach,
         actions |-> [t \in ActionTypes |->
                        CASE t = "purchase" -> day.purchases [] t = "lead" -> day.leads [] t = "link_click" -> day.clicks
                          [] t = "mobile_app_install" -> day.installs
                          [] t \in {"pixel_purchase", "omni_purchase"} /\ w.names = "several" -> day.purchases
                          [] OTHER -> 0],
         values |-> [t \in ActionTypes |->
                       IF t = "purchase" \/ (t \in {"pixel_purchase", "omni_purchase"} /\ w.names = "several")
                         THEN day.value ELSE 0]]]
GoogleRows(w) ==
  [d \in DatesAsked(w) |->
     [costMicros |-> Micros(w.days[d].spend), impressions |-> w.days[d].impressions, clicks |-> w.days[d].clicks,
      conversions |-> GoalOf(w.days[d], w.objective), conversionsValue |-> w.days[d].value]]
DaysAsked(w) == [d \in DatesAsked(w) |-> w.days[d]]
TikTokRow(w) ==
  LET goals == SumFunction([d \in DatesAsked(w) |-> GoalOf(w.days[d], w.objective)])
  IN [spend |-> TotalColumn(DaysAsked(w), "spend"), impressions |-> TotalColumn(DaysAsked(w), "impressions"),
      clicks |-> TotalColumn(DaysAsked(w), "clicks"), reach |-> TotalColumn(DaysAsked(w), "reach"),
      conversions |-> goals, total_purchase_value |-> TotalColumn(DaysAsked(w), "value"),
      app_event_purchase |-> IF w.names = "several" THEN goals ELSE 0, app_event_purchase_value |-> 0]
SnapRows(w) ==
  [d \in ClockAsked(w) |->
     LET day == w.days[d]
     IN [spend |-> Micros(day.spend), impressions |-> day.impressions, swipes |-> day.clicks, uniques |-> day.reach,
         conversion_purchases |-> day.purchases, conversion_sign_ups |-> day.leads,
         conversions |-> IF w.names = "several" \/ w.objective = "APP_INSTALLS" THEN GoalOf(day, w.objective) ELSE 0,
         conversion_purchase_value_micro |-> Micros(day.value),
         conversion_purchases_value |-> IF w.names = "several" THEN day.value ELSE 0]]

-----------------------------------------------------------------------------
(* Which of their fields count, by objective; the last case is the fallback. *)
MetaTypes(o) ==
  CASE o = "CONVERSIONS" -> LET bought == {"purchase", "pixel_purchase", "omni_purchase"}
                            IN [conversion |-> bought, revenue |-> bought]
    [] o = "LEADS" -> [conversion |-> {"lead", "pixel_lead", "complete_registration"}, revenue |-> {}]
    [] o = "TRAFFIC" -> [conversion |-> {"link_click", "landing_page_view"}, revenue |-> {}]
    [] o = "AWARENESS" -> [conversion |-> {}, revenue |-> {}]
    [] o = "ENGAGEMENT" -> [conversion |-> {"post_engagement", "page_engagement"}, revenue |-> {}]
    [] o = "APP_INSTALLS" -> [conversion |-> {"mobile_app_install", "app_install"}, revenue |-> {"mobile_app_install"}]
    [] OTHER -> [conversion |-> {"purchase", "pixel_purchase", "lead", "complete_registration"},
                 revenue |-> {"purchase", "pixel_purchase"}]
GoogleUses(o) ==
  CASE o = "CONVERSIONS" -> [conversions |-> TRUE, value |-> TRUE]
    [] o \in {"LEADS", "ENGAGEMENT", "APP_INSTALLS"} -> [conversions |-> TRUE, value |-> FALSE]
    [] o \in {"TRAFFIC", "AWARENESS"} -> [conversions |-> FALSE, value |-> FALSE]
    [] OTHER -> [conversions |-> TRUE, value |-> TRUE]
TikTokFields(o) ==
  CASE o = "CONVERSIONS" -> [conversion |-> {"conversions"}, revenue |-> {"total_purchase_value"}]
    [] o = "LEADS" -> [conversion |-> {"conversions"}, revenue |-> {}]
    [] o \in {"TRAFFIC", "ENGAGEMENT"} -> [conversion |-> {"clicks"}, revenue |-> {}]
    [] o \in {"AWARENESS", "VIDEO_VIEWS"} -> [conversion |-> {}, revenue |-> {}]
    [] o = "APP_INSTALLS" -> [conversion |-> {"app_event_purchase", "conversions"}, revenue |-> {"app_event_purchase_value"}]
    [] OTHER -> [conversion |-> {"conversions"}, revenue |-> {"total_purchase_value"}]
SnapFieldsOfLeads(o) ==  \* mutant: lead campaigns count purchases
  [conversion |-> {"conversion_purchases", "conversions"}, revenue |-> {}]
SnapFields(o) ==
  CASE o = "LEADS" -> [conversion |-> {"conversion_sign_ups", "conversions"}, revenue |-> {}]
    [] o \in {"TRAFFIC", "ENGAGEMENT"} -> [conversion |-> {"swipes"}, revenue |-> {}]
    [] o = "AWARENESS" -> [conversion |-> {}, revenue |-> {}]
    [] o = "APP_INSTALLS" -> [conversion |-> {"conversions"}, revenue |-> {}]
    [] OTHER -> [conversion |-> {"conversion_purchases", "conversions"},
                 revenue |-> {"conversion_purchase_value_micro", "conversion_purchases_value"}]
\* Revenue in micros where the field's name says so.
SnapRevenue(field, v) == IF field = "conversion_purchase_value_micro" THEN v ELSE Micros(v)

-----------------------------------------------------------------------------
(* The mappers. *)
Ratio(a, scale, b) == IF b > 0 THEN NearestDiv(a * scale, b) ELSE 0
NormalizedMetrics(spend, impressions, clicks, conversions, revenue, reach, frequency) ==
  [spend |-> spend, impressions |-> impressions, clicks |-> clicks, ctr |-> Ratio(clicks, 1000000, impressions),
   cpc |-> Ratio(spend, 1, clicks), conversions |-> conversions, cpa |-> Ratio(spend, 1, conversions),
   revenue |-> revenue, roas |-> Ratio(revenue, 10000, spend), reach |-> reach, frequency |-> frequency]

ReachFrequency(impressions, reach) == Ratio(impressions, 10000, reach)
\* Rows of days are added up; the frequency is their mean.
MeanFrequency(table, reached) ==
  Ratio(SumFunction([d \in DOMAIN table |-> ReachFrequency(table[d].impressions, table[d][reached])]),
        1, Cardinality(DOMAIN table))
MetaMetrics(table, o) ==
  NormalizedMetrics(TotalColumn(table, "spend"), TotalColumn(table, "impressions"), TotalColumn(table, "clicks"),
    SumFunction([d \in DOMAIN table |-> Counted(table[d].actions, MetaTypes(o).conversion)]),
    SumFunction([d \in DOMAIN table |-> Counted(table[d].values, MetaTypes(o).revenue)]),
    TotalColumn(table, "reach"), MeanFrequency(table, "reach"))
GoogleMetrics(table, o) ==
  NormalizedMetrics(Cents(TotalColumn(table, "costMicros")), TotalColumn(table, "impressions"), TotalColumn(table, "clicks"),
    IF GoogleUses(o).conversions THEN TotalColumn(table, "conversions") ELSE 0,
    IF GoogleUses(o).value THEN TotalColumn(table, "conversionsValue") ELSE 0, 0, 0)
TikTokMetrics(row, o) ==
  NormalizedMetrics(row.spend, row.impressions, row.clicks, Counted(row, TikTokFields(o).conversion),
    Counted(row, TikTokFields(o).revenue), row.reach, ReachFrequency(row.impressions, row.reach))
SnapRowRevenue(row, fields) == SumFunction([k \in fields |-> SnapRevenue(k, row[k])])
SnapMetrics(table, o) ==
  NormalizedMetrics(Cents(TotalColumn(table, "spend")), TotalColumn(table, "impressions"), TotalColumn(table, "swipes"),
    SumFunction([d \in DOMAIN table |-> Counted(table[d], SnapFields(o).conversion)]),
    Cents(SumFunction([d \in DOMAIN table |-> SnapRowRevenue(table[d], SnapFields(o).revenue)])),
    TotalColumn(table, "uniques"), MeanFrequency(table, "uniques"))

(* Campaigns and ad sets: how they stand and who owns the budget.  A raw   *)
(* campaign has its own words for its state (on, off, archived, removed).  *)
MetaStatus(word)   == IF word \in {"ACTIVE", "ARCHIVED", "DELETED"} THEN word ELSE "PAUSED"
GoogleStatus(word) == CASE word = "ENABLED" -> "ACTIVE" [] word = "REMOVED" -> "DELETED" [] OTHER -> "PAUSED"
SnapStatus(word)   == MetaStatus(word)
\* The operation is looked at first, what became of the campaign only if it says nothing.
TikTokStatus(operation, secondary) ==
  CASE operation = "ENABLE" -> "ACTIVE" [] operation = "DISABLE" -> "PAUSED"
    [] operation = None /\ secondary = "CAMPAIGN_DELETE" -> "DELETED" [] OTHER -> "PAUSED"
Word(p, state) ==
  CASE state = "on"  -> IF p = "GOOGLE_ADS" THEN "ENABLED" ELSE IF p = "TIKTOK" THEN "ENABLE" ELSE "ACTIVE"
    [] state = "off" -> IF p = "TIKTOK" THEN "DISABLE" ELSE "PAUSED"
    [] state = "archived" -> IF p = "META" THEN "ARCHIVED" ELSE "PAUSED"
    [] state = "removed"  -> IF p = "GOOGLE_ADS" THEN "REMOVED" ELSE "DELETED"
CampaignOf(status, daily, lifetime, isCbo) == [status |-> status, daily |-> daily, lifetime |-> lifetime, isCbo |-> isCbo]
MetaCampaign(raw)   == CampaignOf(MetaStatus(Word("META", raw.state)), raw.daily, raw.lifetime,
                                  raw.daily # None \/ raw.lifetime # None)
GoogleCampaign(raw) == CampaignOf(GoogleStatus(Word("GOOGLE_ADS", raw.state)), raw.daily, raw.lifetime, TRUE)
SnapCampaign(raw)   == CampaignOf(SnapStatus(Word("SNAPCHAT", raw.state)), raw.daily, raw.lifetime,
                                  raw.daily # None \/ raw.lifetime # None)
\* One budget and a mode: of the day, in total, or infinite.
TikTokCampaign(raw) ==
  LET budget == IF raw.lifetime # None THEN raw.lifetime ELSE raw.daily
      status == IF raw.state = "removed" THEN TikTokStatus(raw.operation, "CAMPAIGN_DELETE")
                ELSE TikTokStatus(Word("TIKTOK", raw.state), None)
  IN CampaignOf(status, IF raw.lifetime = None THEN budget ELSE None, IF raw.lifetime # None THEN budget ELSE None,
                budget # None)
AdSetOf(daily, ceiling) == [daily |-> daily, ceiling |-> ceiling]
MetaAdSet(raw)   == AdSetOf(raw.adSetDaily, None)
GoogleAdSet(raw) == AdSetOf(None, None)
SnapAdSet(raw)   == AdSetOf(raw.adSetDaily, None)
TikTokAdSet(raw) == AdSetOf(raw.adSetDaily, raw.cap)

\* fetchCampaigns, fetchAdSets: Google is asked for what is not removed.
Listing(campaign, adSet) == [campaign |-> campaign, adSet |-> adSet]
MetaLists(raw)   == Listing(MetaCampaign(raw), MetaAdSet(raw))
GoogleLists(raw) == IF raw.state = "removed" THEN Listing(None, None) ELSE Listing(GoogleCampaign(raw), GoogleAdSet(raw))
SnapLists(raw)   == Listing(SnapCampaign(raw), SnapAdSet(raw))
TikTokLists(raw) == Listing(TikTokCampaign(raw), TikTokAdSet(raw))

-----------------------------------------------------------------------------
MetricsOf(p, w) ==
  CASE p = "META" -> MetaMetrics(MetaRows(w), w.objective) [] p = "GOOGLE_ADS" -> GoogleMetrics(GoogleRows(w), w.objective)
    [] p = "SNAPCHAT" -> SnapMetrics(SnapRows(w), w.objective) [] OTHER -> TikTokMetrics(TikTokRow(w), w.objective)
ListOf(p, raw) == CASE p = "META" -> MetaLists(raw) [] p = "GOOGLE_ADS" -> GoogleLists(raw)
                    [] p = "SNAPCHAT" -> SnapLists(raw) [] OTHER -> TikTokLists(raw)

MetricsInit == adWorld \in AdWorlds /\ adReports = None

FetchAll ==
  /\ adWorld # None /\ adReports = None
  /\ adReports' = [p \in Networks |-> [metrics |-> MetricsOf(p, adWorld), list |-> ListOf(p, adWorld.campaign)]]
  /\ UNCHANGED adWorld

MetricsNext == FetchAll
MetricsSpec == MetricsInit /\ [][MetricsNext]_metricsVars

-----------------------------------------------------------------------------
\* Nothing happened on the first date before the window opened.
CleanEdge(w) == DatesAsked(w) = ClockAsked(w)
Report(p, f) == adReports[p].metrics[f]

\* The four adapters say the same of the same activity, whatever the units and rows it
\* comes in: spend, impressions, clicks and what is computed from them; the conversions
\* and revenue of an objective with an event of its own, where each event has one name.
\* By date or by clock, no adapter misses a day of the window, and the three that read
\* dates agree always.  A campaign that runs reads as active, and no other does but
\* a removed one of TikTok's; of campaign and ad set, one owns the budget.
PlatformsAgree ==
  adReports # None =>
    /\ \A p \in Networks, f \in {"spend", "impressions", "clicks", "ctr", "cpc"} :
         p # "SNAPCHAT" \/ CleanEdge(adWorld) => Report(p, f) = Report("META", f)
    /\ \A p \in Networks : /\ Report(p, "spend") >= Report("SNAPCHAT", "spend")
                           /\ (Report(p, "conversions") = 0 => Report(p, "cpa") = 0)
                           /\ (Report(p, "spend") = 0 => Report(p, "roas") = 0)
    /\ CleanEdge(adWorld) /\ adWorld.names = "one" =>
         \A p \in Networks :
           /\ adWorld.objective \in {"CONVERSIONS", "LEADS", "APP_INSTALLS", "AWARENESS"} =>
                \A f \in {"conversions", "cpa"} : Report(p, f) = Report("META", f)
           /\ adWorld.objective \in {"CONVERSIONS", "LEADS", "AWARENESS"} =>
                \A f \in {"revenue", "roas"} : Report(p, f) = Report("META", f)
    /\ \A p \in Networks :
         LET c   == adReports[p].list.campaign
             set == adReports[p].list.adSet
             raw == adWorld.campaign
         IN c # None =>
              /\ raw.state = "on" => c.status = "ACTIVE"
              /\ c.status = "ACTIVE" => raw.state = "on" \/ p = "TIKTOK"
              /\ raw.adSetDaily # None \/ raw.daily # None \/ raw.lifetime # None => c.isCbo # (set.daily # None)
=============================================================================
