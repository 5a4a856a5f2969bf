------------------------------ MODULE Overview ------------------------------
(***************************************************************************)
(* The pages that sum up an organization: the dashboard (dashboard/), its  *)
(* intelligence strip, the readiness report of a rollout (health/) and the *)
(* activation lab.  Each reads several tables and says what is on; none    *)
(* writes.  A behaviour is one page over one state of the tables.          *)
(***************************************************************************)
EXTENDS RulePerformance

CONSTANTS OverviewTables,   \* the page asked for, and the rows it reads
          CampaignsShown,   \* cards on the dashboard (10)
          ActionsShown,     \* actions on it (6)
          InsightsShown,    \* insights on the strip (10)
          HighlightsShown,  \* trend insights, and rules that need tuning, on it (5)
          RunsListed,       \* ingestion runs listed (20)
          AccountsListed    \* accounts listed (100)

\* What the tables hold: one snapshot of an entity and a day, ids that differ, lists in
\* the order of their query, and campaigns of accounts that exist.
TablesOk(t) ==
  /\ t.kind = "summary" =>
       /\ IsFiniteSet(t.snapshots) /\ t.day \in Int
       /\ \A s \in t.snapshots : s.day \in Int /\ s.spend \in Nat /\ s.roas \in Nat
       /\ \A r, s \in t.snapshots : r.entity = s.entity /\ r.day = s.day => r = s
       /\ IsList(t.campaigns) /\ IsList(t.actions)
       /\ \A i, j \in DOMAIN t.campaigns : t.campaigns[i].id = t.campaigns[j].id => i = j
  /\ t.kind = "intelligence" =>
       /\ IsList(t.insights) /\ \A i \in DOMAIN t.insights : t.insights[i].score \in Int
       /\ \A i, j \in DOMAIN t.insights : i < j => t.insights[i].score >= t.insights[j].score
       /\ FeedbackOk(t.feedback) /\ LedgerOk(t.ledger)
  /\ t.kind = "readiness" =>
       /\ IsFiniteSet(t.accounts) /\ IsFiniteSet(t.campaigns) /\ t.now \in Int
       /\ \A a \in t.accounts : a.syncedAt \in Int \cup {None}
       /\ {t.autoTune, t.ingestion} \subseteq BOOLEAN \cup {None}
  /\ t.kind = "activation" => IsFiniteSet(t.accounts) /\ IsFiniteSet(t.campaigns)
  /\ t.kind = "ingestion" =>
       /\ IsList(t.runs) /\ \A i \in DOMAIN t.runs : t.runs[i].created \in Int
       /\ \A i, j \in DOMAIN t.runs : i < j => t.runs[i].created >= t.runs[j].created
       /\ IsList(t.accounts) /\ \A i, j \in DOMAIN t.accounts : t.accounts[i].id = t.accounts[j].id => i = j
       /\ IsFiniteSet(t.campaigns) /\ \A c \in t.campaigns : \E i \in DOMAIN t.accounts : c.account = t.accounts[i].id
       /\ IsFiniteSet(t.snapshots) /\ \A s \in t.snapshots : s.created \in Int

ASSUME OverviewAssumption ==
  /\ {CampaignsShown, ActionsShown, InsightsShown, HighlightsShown, RunsListed, AccountsListed} \subseteq Nat \ {0}
  /\ None \notin BOOLEAN
  /\ \A t \in OverviewTables : TablesOk(t)

VARIABLES tables, \* [kind, ...]
          shown   \* None, or what the page shows
overviewVars == <<tables, shown>>

-----------------------------------------------------------------------------
(* Dashboard: snapshots [entity, day, spend, roas] of the 24-hour window,   *)
(* one for an entity and a day; campaigns, and the actions of two days,    *)
(* newest first.                                                           *)

LatestOf(snaps) ==  \* today, whatever its day
  {s \in snaps : \A o \in snaps : o.entity = s.entity => o.day <= s.day}
YesterdayOf(snaps) ==  \* the newest that is 18 hours older, of the days between
  LatestOf({s \in snaps : \E t \in LatestOf(snaps) : t.entity = s.entity /\ 24 * (t.day - s.day) >= 18})

SpendOf(snaps) == SumFunction([s \in snaps |-> s.spend])
\* Sums, and the mean of the values that are not zero, as a fraction.
AggregateKpis(snaps) ==
  LET positive == {s \in snaps : s.roas > 0}
  IN [spend |-> SpendOf(snaps),
      roas  |-> [of |-> SumFunction([s \in positive |-> s.roas]), by |-> Larger(1, Cardinality(positive))]]

\* Percent against yesterday, as a fraction.
PctChange(now, prev) ==
  IF prev.of > 0 THEN [of |-> 100 * (now.of * prev.by - prev.of * now.by), by |-> now.by * prev.of]
  ELSE [of |-> 0, by |-> 1]

Cards(active, latest) ==
  [i \in DOMAIN active |-> [id |-> active[i].id, spend |-> SpendOf({s \in latest : s.entity = active[i].id})]]

\* Names are known of the cards, and of the campaigns the listed actions are on.
NamesKnown(active, recent, campaigns) ==
  {active[i].id : i \in DOMAIN active}
    \cup {c.id : c \in {x \in Range(campaigns) : \E j \in DOMAIN recent : recent[j].type = "CAMPAIGN" /\ recent[j].entity = x.id}}

CountByStatus(actions) ==
  [s \in {"APPLIED", "PENDING", "FAILED", "SKIPPED"} |->
     Cardinality({i \in DOMAIN actions : actions[i].status = s /\ actions[i].today})]

Shown24(t) == {s \in t.snapshots : s.day >= t.day - 3}
ActiveCards(t) ==
  First(Kept(t.campaigns, {i \in DOMAIN t.campaigns : t.campaigns[i].status = "ACTIVE"}), CampaignsShown)
NameOf(e, names) == IF e.entity \in names THEN e.entity ELSE None
SummaryOf(t) ==
  LET snaps  == Shown24(t)
      active == ActiveCards(t)
      recent == First(t.actions, ActionsShown)
      names  == NamesKnown(active, recent, t.campaigns)
      today  == AggregateKpis(LatestOf(snaps))
      before == AggregateKpis(YesterdayOf(snaps))
  IN [total |-> today.spend, roas |-> today.roas,
      spendTrend |-> PctChange([of |-> today.spend, by |-> 1], [of |-> before.spend, by |-> 1]),
      roasTrend |-> PctChange(today.roas, before.roas),
      cards |-> Cards(active, LatestOf(snaps)), active |-> Len(active),
      today |-> CountByStatus(t.actions),
      actions |-> [i \in DOMAIN recent |-> NameOf(recent[i], names)],
      alerts |-> {[alert |-> a, name |-> IF a.type = "CAMPAIGN" THEN NameOf(a, names) ELSE None] : a \in t.alerts}]
GetSummary ==
  /\ tables.kind = "summary" /\ shown = None
  /\ shown' = SummaryOf(tables)
  /\ UNCHANGED tables

-----------------------------------------------------------------------------
(* The intelligence strip: the insights of the user in the order of their  *)
(* score, the health and the simulation of the rules, the ledger of runs.  *)

TrendTypes == {"TREND_UP", "TREND_DOWN", "VOLATILITY_HIGH", "PERFORMANCE_STAGNANT"}
BuildHealthSummary(list) ==
  [active |-> Len(list),
   bySeverity |-> [s \in {"INFO", "LOW", "MEDIUM", "HIGH"} |-> Cardinality({i \in DOMAIN list : list[i].severity = s})]]
BuildTrendHighlights(list) == First(Kept(list, {i \in DOMAIN list : list[i].type \in TrendTypes}), HighlightsShown)
BuildRuleHealth(health) ==
  [byHealth |-> [h \in {"HEALTHY", "NEEDS_TUNING", "UNSTABLE", "LOW_SIGNAL"} |->
                   Cardinality({i \in DOMAIN health : health[i].health = h})],
   average  |-> SummarizeHealth(health).average,
   tune     |-> First(Kept(health, {i \in DOMAIN health : health[i].health = "NEEDS_TUNING"}), HighlightsShown)]
BuildAutoTuneStatus(seen) ==
  [runs |-> seen.runs, applied |-> seen.applied, rolledBack |-> seen.rolledBack, remaining |-> seen.remaining,
   last |-> seen.latest]

StripOf(t, taken) ==
  [health     |-> BuildHealthSummary(t.insights),
   insights   |-> First(t.insights, InsightsShown),
   trends     |-> BuildTrendHighlights(t.insights),
   rules      |-> BuildRuleHealth(ClassifyRules(t.feedback.votes)),
   simulation |-> SummarizeSimulation(SimulateRules(t.feedback)),
   autoTune   |-> BuildAutoTuneStatus(Observed(t.ledger, taken))]
GetIntelligenceForOrg ==
  /\ tables.kind = "intelligence" /\ shown = None
  /\ \E taken \in Newest(tables.ledger.rows, RowsRead) : shown' = StripOf(tables, taken)
  /\ UNCHANGED tables

-----------------------------------------------------------------------------
(* Readiness: health/readiness.service.ts, over all organizations.         *)

\* The global row, or the default; no organization's row is looked at.
SettingOr(row, default) == IF row = None THEN default ELSE row
OfStatus(accounts, status) == Cardinality({a \in accounts : a.status = status})
AdAccountsPillar(accounts, now) ==
  LET synced == {a.syncedAt : a \in accounts} \ {None}
  IN [active |-> OfStatus(accounts, "ACTIVE"), errored |-> OfStatus(accounts, "ERROR"),
      disconnected |-> OfStatus(accounts, "DISCONNECTED"),
      sinceSync |-> IF synced = {} THEN None ELSE now - Max(synced)]
GuardrailsUnchecked(q) ==  \* mutant: the automatic campaigns are counted, not required to be none
  [autoTune |-> SettingOr(q.autoTune, FALSE), safe |-> SettingOr(q.autoTune, FALSE) = FALSE]
RolloutSafetyOk(q) ==
  SettingOr(q.autoTune, FALSE) = FALSE /\ Cardinality({c \in q.campaigns : ~c.deleted /\ c.mode = "AUTO_APPLY"}) = 0
GuardrailsPillar(q) == [autoTune |-> SettingOr(q.autoTune, FALSE), safe |-> RolloutSafetyOk(q)]
Blockers(q, guardrails, accounts) ==
  {b \in {"auto-tune", "auto-apply", "provider", "account", "no metrics", "ingestion off"} :
     CASE b = "auto-tune"     -> guardrails.autoTune
       [] b = "auto-apply"    -> \E c \in q.campaigns : ~c.deleted /\ c.mode = "AUTO_APPLY"
       [] b = "provider"      -> \A p \in q.providers : ~p.enabled
       [] b = "account"       -> accounts.active = 0
       [] b = "no metrics"    -> q.lastIngestion = None
       [] b = "ingestion off" -> ~SettingOr(q.ingestion, TRUE)}

ReportOf(q) ==
  LET guardrails == GuardrailsPillar(q)
      accounts   == AdAccountsPillar(q.accounts, q.now)
      blockers   == Blockers(q, guardrails, accounts)
  IN [status |-> IF ~guardrails.safe THEN "unsafe" ELSE IF blockers # {} THEN "degraded" ELSE "ready",
      blockers |-> blockers, accounts |-> accounts]
GetReadiness ==
  /\ tables.kind = "readiness" /\ shown = None
  /\ shown' = ReportOf(tables)
  /\ UNCHANGED tables

-----------------------------------------------------------------------------
(* Activation lab: activation-lab.service.ts, over one organization.       *)

CampaignsStatus(all) ==
  LET live == {c \in all : ~c.deleted}
      active == {c \in live : c.status = "ACTIVE"}
      eligible == {c \in live : c.phase # "LEARNING"}
  IN [total |-> Cardinality(live), active |-> Cardinality(active), eligible |-> Cardinality(eligible),
      activeAndEligible |-> Cardinality(active \cap eligible)]
AdAccountsStatus(accounts) ==
  [p \in {a.platform : a \in accounts} |->
     [tracked   |-> Cardinality({a \in accounts : a.platform = p /\ a.tracked}),
      available |-> Cardinality({a \in accounts : a.platform = p /\ ~a.tracked})]]

\* The page reads a successCount, which is not what the runs write.
IngestionStatus(runs) == IF runs = <<>> THEN None ELSE [at |-> runs[1].at, ok |-> 0, failed |-> runs[1].failed]

\* The rows that are not "ok".
BuildChecklist(q, campaigns, perPlatform) ==
  {item \in {"provider", "account", "campaigns", "active", "phase", "snapshots", "rules", "autoApply"} :
     CASE item = "provider"  -> \A p \in q.providers : ~(p.configured /\ p.enabled)
       [] item = "account"   -> \A p \in DOMAIN perPlatform : perPlatform[p].tracked = 0
       [] item = "campaigns" -> campaigns.total = 0
       [] item = "active"    -> campaigns.active = 0
       [] item = "phase"     -> campaigns.eligible = 0
       [] item = "snapshots" -> \A t \in q.snapshots : t < q.now - 24
       [] item = "rules"     -> q.rules = {}
       [] item = "autoApply" -> \E c \in q.campaigns : c.mode = "AUTO_APPLY"}

LabOf(t) ==
  LET campaigns   == CampaignsStatus(t.campaigns)
      perPlatform == AdAccountsStatus(t.accounts)
  IN [campaigns |-> campaigns, perPlatform |-> perPlatform, total |-> Cardinality(t.accounts),
      lastRun |-> IngestionStatus(t.runs), open |-> BuildChecklist(t, campaigns, perPlatform)]
GetStatus ==
  /\ tables.kind = "activation" /\ shown = None
  /\ shown' = LabOf(tables)
  /\ UNCHANGED tables

-----------------------------------------------------------------------------
(* Ingestion: the runs of the audit log, the last one logged first, and    *)
(* how fresh the metrics of each account are.  An audit row is an          *)
(* organization's when its run was of that organization alone; it is       *)
(* created when the run has ended, and holds when the run started.         *)

RowsOfScope(runs, org) == Kept(runs, {i \in DOMAIN runs : org # None => runs[i].orgs = {org}})

\* toRecentRun drops a row it cannot read, after the rows are taken.
RecentRuns(runs, org) ==
  LET taken == First(RowsOfScope(runs, org), RunsListed)
  IN Kept(taken, {i \in DOMAIN taken : taken[i].readable})
CampaignsOf(a, campaigns) == {c \in campaigns : c.account = a.id}
CreatedFor(a, campaigns, snapshots) ==
  {s.created : s \in {t \in snapshots : \E c \in CampaignsOf(a, campaigns) : c.id = t.entity}}
FreshnessOf(a, campaigns, snapshots) ==
  LET created == CreatedFor(a, campaigns, snapshots)
  IN [account |-> a.id, campaigns |-> Cardinality(CampaignsOf(a, campaigns)),
      last |-> IF created = {} THEN None ELSE Max(created)]
AccountFreshness(accounts, campaigns, snapshots, org) ==
  LET mine == First(Kept(accounts, {i \in DOMAIN accounts : org \in {None, accounts[i].org}}), AccountsListed)
  IN [i \in DOMAIN mine |-> FreshnessOf(mine[i], campaigns, snapshots)]

IngestionPage(t) ==
  LET recent == RecentRuns(t.runs, t.org)
  IN [runs |-> recent, lastRun |-> IF recent = <<>> THEN None ELSE recent[1].started,
      fresh |-> AccountFreshness(t.accounts, t.campaigns, t.snapshots, t.org)]
GetIngestionObservability ==
  /\ tables.kind = "ingestion" /\ shown = None
  /\ shown' = IngestionPage(tables)
  /\ UNCHANGED tables

OverviewInit == tables \in OverviewTables /\ shown = None
OverviewNext == GetSummary \/ GetIntelligenceForOrg \/ GetReadiness \/ GetStatus \/ GetIngestionObservability

\* A question of the tuner and a page, whichever comes first.
PagesSpec ==
  /\ PerformanceInit /\ OverviewInit
  /\ [][\/ PerformanceNext /\ UNCHANGED overviewVars
        \/ OverviewNext /\ UNCHANGED performanceVars]_<<performanceVars, overviewVars>>

-----------------------------------------------------------------------------
(* Properties.                                                             *)

IsShown(kind) == tables # None /\ tables.kind = kind /\ shown # None

\* Every campaign counts once, with its newest day; the cards never show more than the
\* total; where no campaign spends less than on the day before, the trend is not down;
\* a listed action on a campaign carries its name.
DaysOf(e, snaps) == {s.day : s \in {r \in snaps : r.entity = e}}
OnDay(e, d, snaps) == CHOOSE s \in snaps : s.entity = e /\ s.day = d
Final(e, snaps) == OnDay(e, Max(DaysOf(e, snaps)), snaps)
SummaryIsOfTheNewest ==
  IsShown("summary") =>
    LET recent == {s \in tables.snapshots : s.day >= tables.day - 3}
        entities == {s.entity : s \in recent}
        means == {Final(e, recent).roas : e \in entities} \ {0}
    IN /\ shown.total = SumFunction([e \in entities |-> Final(e, recent).spend])
       /\ SumFunction([i \in DOMAIN shown.cards |-> shown.cards[i].spend]) <= shown.total
       /\ \A i \in DOMAIN shown.cards :
            shown.cards[i].id \in entities => shown.cards[i].spend = Final(shown.cards[i].id, recent).spend
       /\ means # {} => shown.roas.by * Min(means) <= shown.roas.of /\ shown.roas.of <= shown.roas.by * Max(means)
       /\ (\A e \in entities : \A d \in DaysOf(e, recent) \ {Max(DaysOf(e, recent))} :
               OnDay(e, d, recent).spend <= Final(e, recent).spend) => shown.spendTrend.of >= 0
       /\ \A i \in DOMAIN shown.actions : tables.actions[i].type = "CAMPAIGN" /\ tables.actions[i].entity \in {c.id : c \in Range(tables.campaigns)}
               => shown.actions[i] = tables.actions[i].entity
       /\ \A a \in shown.alerts : a.name \in {None, a.alert.entity}

\* What the strip leaves out is no more urgent than what it shows; the rules it counts
\* are all the rules, and a cooldown it shows has an applied change behind it.
StripIsTheTop ==
  IsShown("intelligence") =>
    LET Tuned == {e.rule : e \in Range(shown.rules.tune)}
        all == ClassifyRules(tables.feedback.votes)
    IN /\ \A i \in Range(tables.insights) \ Range(shown.insights), j \in Range(shown.insights) : i.score <= j.score
       /\ \A i \in Range(tables.insights) \ Range(shown.trends), j \in Range(shown.trends) : i.type \in TrendTypes => i.score <= j.score
       /\ \A e \in Range(all), f \in Range(shown.rules.tune) :
            e.health = "NEEDS_TUNING" /\ e.rule \notin Tuned => f.score <= e.score
       /\ SumFunction(shown.rules.byHealth) = Len(tables.feedback.votes)
       /\ shown.simulation.lost <= shown.simulation.actions
       /\ shown.autoTune.remaining # None /\ Cardinality(tables.ledger.rows) <= RowsRead => shown.autoTune.applied > 0
       /\ (shown.autoTune.last = None) <=> (tables.ledger.rows = {})

\* A rollout that is not called unsafe finds no campaign the optimizer changes on its own
\* and no tuning by the global row; a ready one has all it needs.
ReadyIsSafe ==
  IsShown("readiness") =>
    /\ shown.status # "unsafe" => /\ tables.autoTune # TRUE
                                  /\ \A c \in tables.campaigns : c.mode = "AUTO_APPLY" => c.deleted
    /\ shown.status = "ready" => /\ \E p \in tables.providers : p.enabled
                                 /\ \E a \in tables.accounts : a.status = "ACTIVE"
                                 /\ tables.lastIngestion # None /\ tables.ingestion # FALSE
    /\ shown.status = "degraded" => shown.blockers # {}
    /\ shown.accounts.sinceSync # None => \A a \in tables.accounts : a.syncedAt # None => tables.now - a.syncedAt >= shown.accounts.sinceSync

\* With every row of the checklist "ok", data can flow and nothing is changed unasked;
\* that one campaign is both active and past learning is not among the rows.
ChecklistIsTrue ==
  IsShown("activation") =>
    /\ shown.open = {} => /\ \E p \in tables.providers : p.configured /\ p.enabled
                          /\ \E a \in tables.accounts : a.tracked
                          /\ \E c \in tables.campaigns : ~c.deleted /\ c.status = "ACTIVE"
                          /\ \A c \in tables.campaigns : c.mode # "AUTO_APPLY"
    /\ shown.campaigns.activeAndEligible <= Smaller(shown.campaigns.active, shown.campaigns.eligible)
    /\ shown.campaigns.active + shown.campaigns.eligible - shown.campaigns.activeAndEligible <= shown.campaigns.total
    /\ SumFunction([p \in DOMAIN shown.perPlatform |-> shown.perPlatform[p].tracked + shown.perPlatform[p].available])
         = shown.total

\* An account is no fresher than its newest snapshot, every campaign of the accounts
\* listed counts for one of them, and a page of one organization holds nothing of
\* another's.  Of the runs of the scope that can be read, none logged later than one
\* that is shown is left out, and the last run is the last one logged of those shown,
\* which need not be the last to start.
FreshnessIsTrue ==
  IsShown("ingestion") =>
    /\ \A i \in DOMAIN shown.fresh :
         LET f == shown.fresh[i]
         IN /\ f.last # None => f.campaigns > 0
            /\ \A c \in tables.campaigns, s \in tables.snapshots :
                 c.account = f.account /\ s.entity = c.id => f.last # None /\ s.created <= f.last
            /\ \A a \in Range(tables.accounts) : a.id = f.account => tables.org \in {None, a.org}
    /\ Len(tables.accounts) <= AccountsListed /\ tables.org = None
         => SumFunction([i \in DOMAIN shown.fresh |-> shown.fresh[i].campaigns]) = Cardinality(tables.campaigns)
    /\ \A r \in Range(shown.runs) : tables.org # None => r.orgs = {tables.org}
    /\ \A r \in Range(tables.runs) \ Range(shown.runs), s \in Range(shown.runs) :
         r.readable /\ (tables.org # None => r.orgs = {tables.org}) => r.created <= s.created
    /\ shown.runs # <<>> =>
         \E r \in Range(shown.runs) : /\ r.started = shown.lastRun
                                      /\ \A s \in Range(shown.runs) : s.created <= r.created

\* What admins and users are shown of the evidence, and what the tuner does with it, is
\* what the tables hold (dashboard.service.ts, dashboard-intelligence.service.ts,
\* readiness.service.ts, activation-lab.service.ts, metrics-ingestion-observability
\* .service.ts and insights/learning).
WhatIsShownHolds ==
  TuningIsJustified /\ SummaryIsOfTheNewest /\ StripIsTheTop /\ ReadyIsSafe /\ ChecklistIsTrue
  /\ FreshnessIsTrue
=============================================================================
