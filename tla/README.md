# Nasaq Ads: models, model checks and proofs

This directory holds TLA+ modules that model the Nasaq Ads API (`apps/api/src`)
and the pages of its front end that keep state (`apps/web/src`), TLC
configurations that check them on small instances, and proofs that TLAPS checks
for every value of their constants. Every definition is translated from the
source; `PROJECT.json` maps each one to its lines.

## 1. The system and its parts

Nasaq Ads is a NestJS API over Postgres (Prisma) and Redis, with a Next.js
front end. An organization connects ad accounts of Meta, Google Ads, Snapchat
and TikTok. The Campaign Architect turns a wizard's answers into a plan and
launches it at the platforms; metrics are ingested on a schedule; the optimizer
evaluates rules on the metrics and changes bids, budgets and statuses; the
insights layer says what it sees and learns from what users think of it; the
historical learning layer learns from campaigns that have ended.

All handlers share one shape: *read rows, decide, await something, write
unconditionally*. There are no row locks and almost no transactions or
conditional updates, so most of the hard behaviour is between a read and the
write it justifies. The pages share another: *load a list, edit a copy, send
the copy*. Several tabs or administrators do so at once.

| part | state | operations | what is hard |
|---|---|---|---|
| Campaign plan workflow (`campaign-architect/plan`, `launcher`) | `campaign_plans`, `campaign_plan_items`, objects at the platforms | create, regenerate, approve, launch | stale status checks, overlapping launches, the 30 s timer that leaves a pipeline running, crashes between a provider call and its record |
| Decision engine, risk check, summary (`decision`, `risk`, `summary`) | none | budget split, bidding choice, risk findings, score | rounding, boundaries, early returns, what the launcher does with the numbers |
| Plan wizard (`apps/web/.../campaign-architect`) | a draft in local storage, its copy in every tab | edit, next, back, submit | a step rehydrated from a draft another tab has changed |
| Optimizer cycle (`optimizer`) | rules, `optimizer_actions`, cooldown tracker (Postgres and Redis), entities | hourly and manual cycle, simulate, approve, reject, execute | cycles that overlap, cooldown registered last, provider changed but database not, mode switched mid-cycle |
| Optimizer page | its copy of the action list, filters | load, filter, page, approve, reject | decisions on rows that have changed since |
| Metrics ingestion (`metrics`) | snapshots, audit rows as the schedule's memory | cron tick, run, dry run, per-org run | the due time derived from audit rows, partial failure, entity cap, midnight |
| Rule evaluation, insights (`optimizer/rules`, `insights`) | interactions | evaluate, generate, score, rank, mark, feedback, analytics | missing windows, weights, ties, ids that must be told apart |
| Rule tuner (`insights/learning`) | org and global settings, log rows | preflight, run, dry run, rollback, cron | cooldown derived from log rows, rollback over newer values |
| Historical learning (`historical-learning`) | outcomes, features | seal, compute, mark stale, score, adjust | check-then-create, staleness, thin evidence, canary |
| Token lifecycle (`providers/*/…-token`, `…-oauth`) | ad account tokens and status | connect callback, refresh, sweep, disconnect | a refresh in flight while the user reconnects; accounts that share one consent |
| Provider configuration (`provider-configs`) and its pages | config rows, a 60 s cache; forms in open pages | get, upsert, enable, delete | a read racing an invalidation; a form that sends what it loaded |
| Provider adapters (`providers/meta`, `google-ads`, `snapchat`, `tiktok`, `mock`, `shared`) | none | HTTP calls, mapping, retry | retries of writes, answers inside a 200, unit conversion, paging |
| Authentication (`auth`, the client of `apps/web`) | users, refresh tokens; tokens in local storage | register, login, refresh, sign out | rotation, tabs that share tokens |
| Organizations (`organizations`) | memberships, invitations | create, invite, change role, remove | the last owner |
| Ad accounts, campaigns (`ad-accounts`, `campaigns`) | accounts, campaigns, ad sets, optimizer mode and phase | connect, sync, track, disconnect, settings | syncs racing disconnects |
| Alerts (`alerts`) | alerts | raise, resolve, auto-resolve, read | find-then-create deduplication |
| Settings (`admin`, `common`, settings page) | settings in three layers | get with org → global → default, set field by field | a page's idea of what is saved |
| Dashboard, readiness, activation lab | none | reports over many tables | caps and windows that change what a number means |
| Request pipeline, the rest of the web front end | none of their own | filters, views | |

### What makes each part correct

- *Plan workflow*: nothing is created at a platform for a plan nobody approved;
  a final status says what exists; ids a relaunch reuses are real and belong to
  the item; a created item is never created again; a launch ends.
- *Draft of a plan*: the items' budgets add up to the plan's; a plan without a
  blocker can be launched; the score agrees with the findings; what is handed to
  the platforms is what was approved. *Wizard*: what is behind the current step
  has passed its gate.
- *Optimizer*: no more than the capped raise within a cooldown; one change of a
  kind per cooldown and one budget action per cycle; suggestions are not
  executed; our budget mirrors the platform's; what was changed is logged. *Its
  page*: nothing executed leaves the record, filters hide nothing else, a card
  shows the change that was made.
- *Rules and insights*: a rule fires only where a window meets its condition;
  risks come first; every insight has an id of its own; feedback counts once.
- *Rule tuner*: a run tightens and never loosens, for reasons the votes and the
  past actions support; its cap and cooldown hold; rolling a run back restores
  what it found, and retrying it is harmless.
- *Historical learning*: one outcome per finished campaign, typical of its days;
  a row that is used rests on outcomes of its window; history shifts budgets
  within limits and leaves the total alone.
- *Provider configurations and tokens*: the cache holds the stored, enabled
  credential; a save changes what its user touched; the stored refresh token
  still works; a disconnect is final until a new consent; a due token is
  refreshed or the account is flagged, and only then.
- *Adapters*: a write is sent once; "done" means done; the same activity reads
  the same on every platform.
- *Metrics*: every tracked campaign is ingested again and again, and the report
  of a run is true. *Alerts*: at most one active alert per condition. *Auth*:
  nobody who signed out comes back without a login. *Memberships*: an
  organization keeps its owner. *Settings, reports*: what is shown is what holds.

## 2. The plan

Ordered by how much money, or access, a mistake costs. All of it is built and
checked; what is proved is marked.

1. `PlanLaunch`, with `PlanLifecycle` as its abstract promise (*proved*).
2. `OptimizerCycle`: overlapping cycles, guardrails, cooldowns, execution,
   reviews; cycles that take turns; `ActionLog`, its page (*all safety proved*).
3. `RuleTuner`: runs and rollbacks over the rules they change (*proved*);
   `RulePerformance`, what a run decides and why (*proved*).
4. `ProviderConfigs`, and `AccountTokens` on top of it; `Consents`, the accounts
   that share one consent; `ProviderForm`, the pages (*proved*).
5. `MetricsSchedule`: the schedule that keeps its memory in audit rows (*safety
   proved*).
6. `Outcomes`, `HistoryScore`, `Learning`: historical learning from snapshots to
   budgets (*proved*).
7. The services around them: `Sessions`, `Memberships`, `Alerts`, `Settings`
   (*proved*).
8. `PlanDraft`, `Wizard`: what a plan is computed from (*proved*).
9. `Providers`, `ProviderMetrics`: the adapters; `RuleEvaluation`, `Insights`:
   evidence; `Overview`, what is shown of it (*proved*).
10. Left: the plan's review and launch pages, and the insights and campaigns
    pages of the web front end.

Modules whose parts do not interact share a run (`MCServices`, `MCEvidence`,
`MCProgress`), so that the set of runs stays small enough to be repeated on every
change.

## 3. The modules

A handler of the API is an `async` function: it runs alone up to its next
`await`. An action of a model is the code between two awaits whose order can
matter. Reads that nothing can separate from what follows are in the action
they feed. What a handler holds from its reads while it awaits is a field of
its record (`req`, `cyc`, `job`, ...), and its later writes use that, as in the
code. Definitions marked `mutant:` are plausible mistakes in the definition that
follows them; no specification uses them, `PROJECT.json` names the property that
each of them breaks.

`Absent` declares the two values that stand for `null`: `None` and `Nobody`.

### PlanLaunch and PlanLifecycle

`plan` is the `campaign_plans` row, `row` its items (one per accepted platform),
`gen` counts how often the items were made anew (their ids change), `req` the
requests, `pipe` the per-item pipelines, which live on when their 30 s timer
wins, and `ledger` what exists at the platforms.

| action | code |
|---|---|
| `CreatePlan`, `LoadForRegenerate` / `CommitRegenerate`, `LoadForApprove` / `CommitApprove` | `plan.service.ts`: `createPlan`, `regeneratePlan`, `approvePlan`, each split at its transaction or update |
| `LoadForLaunch`, `MarkLaunching`, `SkipItem`, `StartItem`, `PersistItem`, `FinishLaunch`, `LaunchThrows` | `launcher.service.ts`: `launchPlan` and `launchItem` |
| `PipeCheck`, `PipeCreate`, `PipeFail` | `runItemPipeline`, one provider call at a time |
| `PipelineSettles`, `TimerFires` | `withTimeout` |
| `DatabaseThrows`, `Crash` | an exception out of Prisma, the death of the process |

The decision engine and the risk check are a free choice of risks here. The
adapters' `create*` calls follow the contract of `IAdProvider` (each call makes a
fresh object and returns its id, or fails, or succeeds with the answer lost);
today the real adapters delegate them to the mock. `PlanLifecycle` is the status
column as the controller documents it; requests that do not overlap implement
it (`LifecycleRefined`).

### PlanDraft and Wizard

`PlanDraft` is what `POST campaign-architect/plans` computes between a wizard's
input and the rows `PlanLaunch` starts from: `DecideItems` with the budget split
and the bidding choices, the risk findings one by one in the order of the code
(its early return included), the score, and, for what is launched unchanged, the
numbers the launcher hands to the adapters. A behaviour is one input; money is in
cents. The bullets and narratives worded from these are left out.

`Wizard` is the store of the six steps: `wizard` each tab's copy, `kept` what the
persist middleware put into local storage, `plans` the plans created. A form is
open, fine, or odd (the page lets it pass and the route refuses it).
`PatchForm`, `GoNext`, `GoBack`, `Acknowledge` and the request write the tab's
copy and storage; `OpenWizard` rehydrates from storage.

### OptimizerCycle

`mode` and `phase` are what users set, `budget` our row, `remote` and `changes`
the platform, `cyc` the cycles, `log` the `optimizer_actions`, `pg` and `redis`
the two places a cooldown is kept. `Start` is the load and the evaluation,
`Guard` one turn of `GuardrailService.validate`: the gates of the capabilities
(`Capabilities` is what the provider of each campaign supports), swing, cooldown,
the set of entities seen, the clamp. A cooldown that only Postgres knows is
written back to Redis in two steps of its own (`Recall`, `Warm`). `Suggest`,
`Apply`, `Call`, `Store`, `Log` are the executor; `Store` may throw before or
after the row was updated, and the action then counts as failed. `Cool` and
`Cache` are the two writes of `registerCooldown`, to Postgres and then to Redis,
each with the clock it meets; either may throw, or be the last thing the process
does. `Edit`, `ReadForApproval` / `WriteApproval`, `Reject` are the users.
`Throw`, `Crash` and `RedisLost` break a cycle off at any of its steps: one that
breaks off between a call and its cooldown is noted as `torn`, with its action.
Which rules fire is a free choice here; `RuleEvaluation` has it. An entity that
is not `ACTIVE` or has `optimizerEnabled` off is loaded as little as one that is
`OFF`, and is folded into it; `SCALING` is handled as `STABLE`. Budgets are in
cents and rounded as `currency.util.ts` rounds them, to `Unit` = 100 cents in
currencies without decimals. `approveAction` writes `APPLIED` and never calls
the platform; that is modelled as it is.

The properties say what holds with all of this switched on. `Vouched` is a change
that went through: its answer arrived, it was not logged as failed, its cycle did
not break off before its cooldown, nobody rejected it since. `OneChangePerCooldown`, `RaiseBounded` and
`MirrorsPlatform` are about the changes that follow such changes; a change whose
answer was lost is under no cooldown, its budget is not our row's, and the next
cycle may raise it again, which is a finding. `ChangeIsLogged` holds of every
change but the one a cycle breaks off at.

### ActionLog

The list route with its paging, and the optimizer page: its copy of the list,
chips, presets, an approve or a reject sent for a row of the copy while the rows
change, and how the card of a previewed cycle reads the values before and after
(`PreviewIsShown`). A card of the log reads the same columns, which the executor
stores under other names, so it shows no change: that is a finding, against the
comment of `value-diff.tsx`, and no property takes it for right. Two clicks with
one verb on one card collapse into one; a preset's dates are fixed while it is on.

### RuleEvaluation and Insights

`RuleEvaluation` is `EvaluatorService` as operators: the three windows of the
day, weighted by recency (`ApplyRecencyWeight`, as fractions), which rules apply
by phase and platform, the least sample, and for each rule a proposal or the
reason for none. `Insights` adds what `GET insights` makes of it for a campaign
and its ad set: trends (changes in tenths of a percent, as `round1` leaves them),
scores in tenths of a point, the order by score, severity and name, the ids, each
user's marks and feedback laid over them, and the analytics that count these. The
trends come, and are left out, in the order of the code. `Arranging` is
JavaScript's `sort` and `filter` as the places they leave: both keep the order of
what they do not tell apart, which the lists of rules, insights and actions rely
on.

### RuleTuner and RulePerformance

`RuleTuner`: `rule` holds the fields the tuner writes, `tlog` the
`rule_tuning_logs`, `req` runs and rollbacks, `tunable` the scopes whose flag and
allowlist let a run pass. `found` is a history variable: what a request found,
until another one writes a rule. `Preflight`, `Simulate`, `ApplyChange` (one
transaction each) are a run, `ApplyFails` a transaction that throws for whatever
reason, `LoadRows`, `RollbackRow` a rollback; rules may be edited and deleted in
between. A threshold is any number, as the route takes any body. A tenth more of
a negative one loosens a GT rule instead of tightening it, which is a finding; the
properties that speak of tightening are about thresholds that are not negative. Which rules are candidates, and what the
simulation says of them, are free choices here: every choice `RulePerformance`
computes is among them.

`RulePerformance` is what a single run decides, as operators over votes and past
actions: health, simulation, the changes kept under the cap, the settings a run
resolves and those the view shows, and the runs rebuilt from log rows. A
behaviour is one question and its answer, rates in ten-thousandths as the code
rounds them.

### Outcomes, HistoryScore and Learning

Historical learning, in the order the evidence travels. `Outcomes` seals a
finished campaign: its snapshots are cleaned of outliers, totalled, classified by
the plan's dimensions, and the outcomes of an organization rolled up into rows,
one per feature, window and bucket. `HistoryScore` is a row's band, confidence
and blend with the global prior, its ageing and the version of its feature, the multiplier of
a platform over its four features (roas, cpa, ctr, conversion rate) with its checks,
a platform whose rows cannot be read, the flag with its canary, and the adjuster that shifts the budgets of
a draft. `Learning` is how these run: the nightly job and an administrator's
compute-now at once (`pipeline`), each in the steps `SealCheck`, `SealCreate`,
`ReadOutcomes`, `WriteFeature`, `MarkStale`, each of which may fail as the code
lets it, while days end and campaigns are paused, archived and taken up again.

### MetricsSchedule

`Strike` is the hour, `HandleCron` the scheduler's decision from global settings
and the newest audit row, `ManualAdmin` and `ManualOrg` a run by hand, of all
organizations or one, dry or not; `LoadOrg`, `VisitEntity`, `Find`, `FetchWindow`
and `WriteAudit` are the steps of a sweep, which may outlive the hour and midnight and may die. The audit row is written
some time after its hour struck, and a tick comes some time after its own, so at
the very hour the interval ends a run may be due or not (`RunIsDue`). A window's fetch has a free outcome; what a snapshot contains is in
`ProviderMetrics`.

### ProviderConfigs, AccountTokens, Consents and ProviderForm

`ProviderConfigs` is one platform's row, the 60 s cache in front of it, readers
(`Lookup`, `Settle`) and administrators' writes (`Submit`, `Commit*`,
`Invalidate`). The passing of 60 seconds is a step that may come at any time.
`raced` marks a cache entry filled by a read that a commit overtook. One API
process is modelled; the cache of another one sees a write only by its TTL.

`AccountTokens` EXTENDS it: the `ad_accounts` row of one account (`refresh`,
`due`, `status`, `deleted`, `tracked`), jobs of three kinds (the cron sweep, a
sync, the OAuth callback), and a platform that rotates refresh tokens. A refresh
token is a grant and a serial; the platform takes the last serial of a grant the
user has not revoked. A refresh may be granted, refused, lost on the way, or
answered by a 200 without an access token, which the code takes for a refusal; in
the last two cases the platform may have rotated the token. The jobs call `Lookup` and `Settle` of `ProviderConfigs`
themselves. Snapchat's services are mapped; TikTok's and Google's are the same
program. The callback's two reads of the configuration, and the sync's two reads
of the account, are one step each; the access token is not tracked (it may
outlive its grant, so a fetch has a free outcome).

`Consents` is the accounts that one consent connects together on Meta, Google and
TikTok, from the state token to the rows written one after the other, and the
sweep over the rows that are due. What the sweep makes of an answer goes by the
platform, whose error mappings differ (`MetaOauthKind`, `GoogleOauthKind`,
`TikTokOauthKind`); a 200 without an access token marks an account `ERROR` on each
of them, and a key that cannot be read after a restart with another
`ENCRYPTION_KEY` marks it on Google, where Meta and TikTok throw to the sweep.
`NoFalseAlarm` names these causes: an account is in `ERROR` only where the user took
a grant back, the platform has replaced a key, our app secret is refused, an answer
for this account held no token, or Google's rows are sealed with another key. As the code has it, a state token is good until
it expires, a refresh writes `ACTIVE`, and a row without `expires_in` is always
due. `ProviderForm` is the credentials as several open pages edit them, with the
service's merge of what is left out; a list is fetched in one step, and `secret`
stands for the app and the state secret. `Saves` puts the settings pages and the
credentials pages side by side.

### Providers and ProviderMetrics

`Providers` is one call of an adapter, for the four platforms: the account row,
the token check (Google takes up a refreshed token, the others go on with the one
they had loaded), the look-up of the configuration before each request, which may
refuse (`ConfigRefuses`), the parent look-up, which may answer 200 with nothing, the gates of the capabilities, the write
sent once, pages read with retries, the kinds of errors, and the conversions of
units and strategies. `ProviderMetrics` is what the four mappers make of the same
activity: their rows, units, event names by objective and windows by date or by
clock, statuses, and who owns a budget.

Taken as the code has it: listings of TikTok and Snapchat ask for one page; Meta
stops after 20 pages and Google after 10, silently; a 24 h window covers two
calendar dates on Meta, Google and TikTok; Meta's `effective_status` is asked for
and not used; a TikTok row that reads `ENABLE` hides that it was deleted; the
`create*` calls go to the mock.

### Sessions, Memberships, Alerts and Settings

`Sessions`: the refresh token rows, and a browser whose tabs share local storage
but not memory; the row of a pair holds the hash of a random string, as the code
writes it. `Memberships`: requests that pass the guards with the role they have
then, read, and write by id. `Alerts`: raisers that find and then write, users and
conditions that resolve, a page that polls. `Settings`: the three layers of a
field, a PATCH that upserts field by field and may stop half way, and pages that
hold what they believe is saved. (The look-up of a global row by a compound key
with a null part is modelled as answering with the row.)

### Overview

The dashboard, its strip, the readiness report and the activation lab: each page
as one read over one state of the tables, with the caps, windows and filters of
the code. Readiness asks for global rows, and for campaigns, only; the last run
shown is the newest, rolled back or not; the dashboard's window is the last three
days; the ingestion history of an organization lists the runs of that
organization alone, by when they were logged. It shows when each started, and two
sweeps that overlap may be logged in the other order: its last run is the last one
logged.

### MC modules

`MCPlanLaunch`, `MCOptimizerCycle` and `MCAccountTokens` instantiate one component
each; `MCProgress`, `MCEvidence` and `MCServices` several. In the latter `part`
names the one a behaviour is of: the variables of the others rest in their
initial state, so a run is the sum of its parts and not their product.

### Proof modules

`PlanLaunch_proofs`, `OptimizerCycle_proofs`, `RuleTuner_proofs`,
`ProviderConfigs_proofs`, `AccountTokens_proofs`, `Services_proofs` and
`Evidence_proofs` hold the theorems of the modules they extend; `RuleTuner_proofs`
also those of `RulePerformance` and `Overview`. `CollectionTheorems` is what they
need of finite sums and of sorted and filtered lists.

## 4. The runs

| run | instance | what it shows |
|---|---|---|
| `plan_serial` | 4 requests one at a time, 1 platform, failures, crashes | the documented workflow, that it implements `PlanLifecycle`, that a created item is skipped |
| `plan_overlap` | 3 requests overlapping, 1 platform, failures, crashes | what survives any interleaving: approval before spend, real ids, complete items, a launched plan has an ad |
| `progress` | *launch*: 2 overlapping requests, 2 platforms, any provider outcome; *metrics*: 2 campaigns of 2 organizations, a cap of 2 entities, 1 sweep, cron and manual; fairness | launches end and a plan leaves `LAUNCHING`; a sweep's report is true, and a campaign that is left to the cron is visited again and again |
| `opt_serial` | 3 cycles in turn, 1 campaign, a raise above the cap and a cut, 4 ticks, refusals, lost answers, database errors, crashes, Redis down or emptied | cooldowns, caps, log and mirror, of the changes that went through |
| `opt_overlap` | 2 overlapping cycles, campaign and ad set, all of these failures, reviews | what holds even then: earned cooldowns, untouched suggestions |
| `opt_progress` | 2 overlapping cycles, calls failing at will, fairness | cycles end; every approved action is logged |
| `opt_off` | 2 cycles, one edit | *violated*: an entity switched off mid-cycle is changed |
| `evidence` | *tuner*: 3 overlapping runs and rollbacks, 2 rules (GT, LT), an edit, a tick, crashes; *insights*, *outcomes*, *score*, *metrics*, *rules*, *overview*, *log*: small sets of tables and inputs | rollback, cap, cooldown, tightening; rules fire on evidence; insights are sound; what is learned is typical; history shifts modestly; platforms agree; what is shown holds; the action page tells who decided what |
| `tokens` | 2 jobs, 2 grants of 2 serials, 2 secrets, lost and empty answers, a crash | the stored token works; a disconnect holds |
| `tokens_progress` | 2 jobs, an administrator switching the platform, fairness | a due token is refreshed or the account flagged |
| `tokens_error` | 2 jobs, 1 grant | *violated*: a late refusal flags an account with a good token |
| `services` | *configs*, *sessions*, *members*, *alerts*, *settings*, *wizard*, *draft*, *learning*, *providers*, *consents*, *form*: two actors each | the cache is current; signed out stays out; owners remain; one alert per condition; saves are meant; what is behind is valid; drafts are sound; learning holds; a call is honest; consents hold |

**Bounds.** Two overlapping actors show every race between a read and a write of
one row; a third (`plan_overlap`, the tuner of `evidence`) lets an approval, or a
second run and a rollback, come in between. One platform is enough where items do
not interact; the two items of `progress` show that one failing item does not
stop the other. The rules of `opt_*` lie on both sides of the caps and of the swing
threshold, and the clock of `opt_serial` runs over more than one cooldown window;
its budget of 333 units of a currency without cents is one where every percentage
rounds. The clock of `opt_overlap` stands still: its two cycles run within one
window. In `tokens`, two serials are one rotation, and two grants one reconnect.

- `progress`: an interval of two hours and days of one hour (`DayHours`), so that
  a sweep can meet midnight and the due time; `MaxEntities` 2 stands for the 500
  of the code, in a report whose rows are windows of campaigns.
- `evidence`: the inputs of the computations are small sets on both sides of
  every threshold, and of each `null` the code knows: missing windows, empty
  tables, malformed settings, no prior, no feedback. `MaxChanges` 1, a cooldown of
  one tick, one edit and `MaxTime` 1 are the tuner's, an edited threshold may be
  negative; `Histories` gives Google's four features rows on both sides of their
  thresholds, and Meta's only ctr, the one row of Meta that is ever found;
  `Releases` bumps one feature's version or none; `PageLimit` 2 and `PAGE_SIZE`
  1 stand for 100 and 8, `CampaignsShown`, `ActionsShown` and their like for the
  caps of the pages.
- `services`: two administrators and two jobs on one configuration; one user in
  two tabs with two pairs of tokens; two people and two requests in one
  organization; two raisers and three alerts of one key; two fields of settings;
  three wizard steps in two tabs; one campaign and two learning runs, where a
  window of the same day and a threshold of one make a day matter
  (`WindowDays` 0, `FreshDays` 0, `StaleDays` 1); listings of 2 and of 21 pages
  (`PagesHeld`), on both sides of the caps of 10 and 20; two accounts of one
  consent with two grants, one rotation and one mishap (`MaxMishaps`: a grant taken
  back, an app secret changed, a seal lost, a state that lapses, an answer without a
  token), since each of these alone decides what becomes of a row; two open forms
  and two writes.
- `tokens_error` has no empty answers (`AnswersEmpty`), so that what it shows is
  the late refusal; `tokens` and `tokens_progress` have them.

`MaxTime`, `Edits`, `MaxSerial`, `MaxCrashes`, `MaxPairs`, `MaxPlans`, `MaxAlerts`,
`MaxOutcomes`, `MaxGrants`, `MaxRotations`, `MaxMishaps`, `MaxWrites`, `MaxMarks`, `MaxActions`
and `MaxCalls` bound counters and nothing else. Symmetry is used in runs that
check no liveness. `CHECK_DEADLOCK FALSE` is set where requests and cycles are
finite in number: the instance stops when all have ended. In `tokens`,
`tokens_progress` and `tokens_error` the jobs are started again and again, and
deadlock is checked.

**Fairness.** `PlanLaunch` and `OptimizerCycle`: weak fairness of the steps of a
request or cycle that is under way. Node runs every ready continuation, and every
provider call ends by its 15 s limit (`shared/http-json.ts`). Nothing makes a
user approve or launch. `MetricsSchedule`: weak fairness of the hour, of the
scheduler's answer to it and of the steps of a sweep; nothing makes an
administrator start one, and that a campaign is visited is promised only while
sweeps stop dying. `AccountTokens`: weak fairness of the steps of a job, and
strong fairness of the hourly sweep (the cron timer fires for ever, and the sweep
finds what is due) and of an answer of the platform: one that is asked over and
over says yes or no in the end. Without the latter, transient failures for ever
leave a due token due, which the code answers by trying again.

## 5. What is proved

TLAPS checks these for every value of the constants, from the assumptions the
modules state; TLC evaluates each assumption in the runs. They say what the code
takes for granted of its inputs: money, counts and windows are natural numbers,
`None` is none of them, rules and rows have the columns of the schema, and sets of
configured values are finite. Where a theorem needs more, its bullet says so.

- `PlanLaunch_proofs`.
  - `TypeCorrect`; `NoSpendBeforeApproval`. That something exists at a platform
    does not itself imply an approved status inductively: a request that has
    loaded the plan for a launch, or a pipeline that outlived its timer, is a
    promise that something will exist. `IApproval` adds that every such request
    and pipeline is there only once the plan has been reviewed, and that no write
    takes a plan out of the reviewed statuses.
  - For requests that overlap as they like: `StoredIdsCorrect`,
    `CreatedItemsCorrect`, `LaunchedCorrect`. Ids travel from a pipeline through a
    settled result to a row, and a later launch carries them on from the copy it
    loaded. `IObjects` says the same of every place an id can be: rows, loaded
    copies, held results and pipelines are honest about objects that exist for
    their platform and generation. The ledger only grows, so an honest value stays
    honest; the work is in the few steps that make a new one.
  - For requests one at a time (`~Concurrent`): `LifecycleCorrect`,
    `ApprovedIsReviewed`, `TerminalCorrect`, `RegenerateCorrect`,
    `CreatedItemsAreLeftAlone`. `ISerial` says that at most one request is under
    way, and that plan and rows are still what it read: what a write after an
    `await` relies on, and all it lacks when requests overlap.
- `OptimizerCycle_proofs`.
  - For cycles that overlap, fail and restart as they like: `CooldownCorrect`,
    `SuggestedCorrect`, `OneBudgetAction`, `LogCorrect`. A cooldown row and a pending suggestion
    are written from what a cycle holds, so the invariant is about that: an action
    still in its queue is unlogged and not carried out, each rule and entity occurs
    once in it, the action at hand is no longer in the queue, the one about to cool
    down is in the log as applied (or was since rejected, which writes `SKIPPED`),
    and an idle cycle has left no trace. Postgres is written before Redis, in
    another step: Redis has no cooldown that Postgres never had, whether a cycle
    breaks off before, between or after the two. `LogCorrect` adds that a change
    without an entry in the log is the one at hand, or the one its cycle broke off at.
  - For cycles in turn (`~Overlap`), whatever fails, is lost or dies:
    `MirrorCorrect`, `SpacingCorrect`, `ModestyCorrect`. `AnyInv` gathers what
    holds however cycles overlap; `SerialInv` adds that one cycle runs, that where
    the last change of a budget went through our row is the platform's, that every
    change that went through is under its cooldown in Postgres or about to be put
    there, and that the changes of a budget, as long as they went through, form a
    chain, each rounding from where the last one ended. A change that did not go
    through is out of the premises: the code does not learn of it.
    `SpacingCorrect` has one more
    hypothesis, `OneStrategyRule`: the guardrails let a cycle touch a budget once
    but say nothing of bidding strategies, so two rules that switch them make two
    changes in one cycle. The seed has one such rule; nothing keeps an
    administrator from creating another. `ModestyCorrect` needs that rules that
    decrease do (`DecreasesLower`), which the seed's do and no validation asks for.
- `RuleTuner_proofs`: `TypeCorrect`, `RunLimitsCorrect`, `RollbackCorrect`,
  `TunerTightens`, for finite sets of rules and requests. The cap
  rests on what a run holds: its rows and the changes it has still to make are
  within it (`WithinCap`). The rest holds as long as nobody else writes a rule, and
  says what a run is then sure of: the rules differ from those it found by its own
  standing rows only (`RulesOk`), what it planned is still what the rules call for
  (`PlannedOk`), what a rollback has to restore has not been restored (`PendingOk`),
  and the standing changes of other runs are a cooldown old (`Rested`).
  - `WhatIsShownCorrect`, for any tables and any question of the kinds
    `OverviewTables` and `TunerQuestions` describe. The invariant (`PagesInv`) is
    short: what is shown is what the page computes of the tables, for some rows the
    query may have taken. The work is in what the computation gives, page by page:
    - `AnswersAreJustified`. A rate is rounded to within half a step, so a rule
      past a limit has at least 5999 (9999) of 20000 votes against it, and not
      6000; that is what `ChangesAreJustified` promises. A list sorted by score and then by
      health is in the order of both (`SortedTwice`), so the cap leaves the smaller
      changes. A row counts for the run it is of, read or not, so a run that is
      listed in part is the oldest (`NewerIsWhole`).
    - `PagesAreTrue`. The newest days of the entities are as many snapshots as
      entities (`LatestAre`), which makes the total a sum over entities and keeps
      the cards within it; a mean of what is not zero lies between the least and the
      largest (`MeanIsBetween`); what a filter and a slice leave out comes after
      what they keep (`HeadIs`); a row of the checklist that is not open is done
      (`NothingOpen`), and the platforms' accounts add up to all (`PlatformsAddUp`).
- `ProviderConfigs_proofs`.
  - `ConfigTypeCorrect`; `CacheCorrect`. The invariant adds `WritesAreChecked` (a
    write on its way to its commit passed the checks against the row it saw, so the
    merged row has a secret) and `FetchesAreCurrent` (a fetched row that no commit
    overtook is the stored row), which makes the `cache.set` that follows right.
  - `SettingsTypeCorrect`, `SettingsCorrect`: between the fields of its PATCH that
    are written and those that are not, a page is right about the first and was
    right about the others when it loaded, but for fields others wrote.
  - `ProviderFormCorrect`: a form remembers how many writes it has seen, and one
    that no write overtook agrees with the row on what was not typed.
  - `SavesCorrect` is the two side by side.
- `AccountTokens_proofs`: `UsesProviderConfigs` (every step is a step of
  `ProviderConfigs` or leaves it alone, so `AccountTokens` implements it) and with
  it `CacheCorrectInUse`; `TypeCorrect`; `StoredTokenCorrect`; `DisconnectCorrect`.
  The stored token works because at most one holder of a grant's successor exists.
  `TokenInv` says so: the row's token is the last one issued unless a job
  holds the successor (`HeldIsLatest`), a token in hand is nowhere else
  (`HeldIsNowhereElse`), no two jobs hold tokens of one grant (`OneHolder`), every
  token anybody has seen was issued (`SeenIsIssued`), and a job's fields fit its
  program counter (`JobsFit`).
- `Services_proofs`, for any number of actors:
  - `OwnersCorrect`. The guards were passed, and the row read, some time before
    the write. `MemberInv` carries what was read: a request about to write has
    read a role that was not `OWNER`, so its target is not the founder, whose row
    has been `OWNER` since the organization exists.
  - `SignedOutCorrect`. It holds for a reason nobody intended: the rows hash
    strings nobody is given, so no refresh is granted, and only a login's answer
    puts tokens into storage. With the JWT hashed, as the comment promises, a
    refresh in flight could undo a sign-out (that is the property's mutant).
  - `WizardCorrect`. An edit touches only the form of the step the tab is at, so
    what is behind it stays as it passed its gate, whichever tab wrote last. This
    needs that no step occurs twice in `WIZARD_STEPS`.
  - `LearningCorrect`. A row's age and the age of what it rests on grow together
    and differ by the window and a day at most; a run that is about to write
    carries the same bound. While no two runs have sealed at once there is one
    sealer, and the campaign it is about to seal has no outcome.
  - `AlertsCorrect`. A call that has found no alert yet is a promise of a second
    one: until it writes, every active alert of its key is marked as a twin. A call
    that has found one will leave it active, unless it was resolved meanwhile.
  - `ConsentsCorrect`, for any number of mishaps. An answer a job holds is one its
    platform gives for a cause (`RefusalsAreFounded`), and a cause, once there,
    stays: that is what an account in `ERROR` rests on. The keys an account holds
    are of a grant that was given, and work or were replaced; while a callback goes through its accounts, the rows
    before the one at hand have its grant and the others do not. It assumes that a
    platform lists an account once in a consent.
  - `ProviderCorrect`. What was written reads back within half a cent, whatever
    the units of the platform; the gates passed before the token check still hold
    at the send; nothing was sent before the one send.
  - `MemberTypeCorrect`, `WizardTypeCorrect`, `AlertTypeCorrect`,
    `LearningTypeCorrect`, `SessionTypeCorrect`: the domains of the variables, and
    in them what is easily lost, such as that every token in a tab was issued.
- `Evidence_proofs`, computations for every input. Rounding is reasoned about by
  the two inequalities it means, never by division.
  - `HistoryCorrect`: multipliers are natural and in their band, a blend lies
    between what it blends, budgets that were moved still add up to the total.
  - `DraftCorrect`: the shares add up to within a unit a day, each finding is
    there for its cause and the score counts them, the launcher hands on the
    numbers that were approved.
  - `AdaptersCorrect`: totals of columns, one event that counts, lists by cases of
    the objective, so that four shapes of rows give one answer.
  - `LearnedCorrect`: a median exists (by the least and the largest of finite
    sets), a ratio of sums lies between the ratios, a wild day is cleaned away.
  - `RulesCorrect`: a weighted mean that meets a limit has a window that meets
    it; the rules are taken in the order of the ranks of their keys.
  - `InsightsCorrect`: ids tell apart the entity and the kind of source, the lists
    put together tell different things, what only informs scores 56 at most and
    a risk 58 at least, buckets count everything once.
  - `ScheduleTypeCorrect`, `IngestionCorrect`: what a sweep still owes a visit
    covers the steadily tracked campaigns unless it was capped, windows neither
    left nor missed are stored while the sweep's date is today's, and a report is
    written by the walk that has no organization left (`SweepOk`).
  - `ActionPageCorrect`: rows keep the status they were logged with unless they
    wait for a decision, the page's copy is a piece of the log as it was, and its
    pending cards were logged as suggestions.
- `CollectionTheorems`: sums over finite sets and sequences, by induction over a finite
  set. (The recursion of the library's folds is inside a `CHOOSE`d function, which
  the provers can reason about once it is shown to exist; a set of subsets takes the
  place of the predicate an induction theorem would need.)

**Only model-checked.** Liveness and everything under fairness (`LaunchesSettle`,
`CyclesSettle`, `DueIsResolved`, the temporal half of `IngestionHolds`), and the two
violations. Every safety property that a passing run checks has a theorem. No
module uses a RECURSIVE operator.

## 6. Where the code and its documentation part

`PROJECT.json` lists the findings with the lines they quote. The two that a run
shows are `opt_off` and `tokens_error`. Others follow from the same models with
the stated option switched on, and the passing runs avoid them on purpose:
overlapping requests break `TerminalStatuses` and `RegenerateOnlyDraft`;
overlapping cycles break `RaiseBounded` and `OneChangePerCooldown`; overlapping rollbacks break `RestoredOnce` without its `Alone`;
two sealing runs at once break `SealedOnce` without its `overlapped`; two raises at
once make twins. The rest were met while translating, and the models keep the
code's side of them. The ones with the widest reach:

- the executor stores a context in which the tuner's simulation finds no KPI, so
  no threshold is ever tightened;
- no refresh token finds its row;
- the cap on the ingestion report ends the ingestion of all organizations;
- a missing 48 h snapshot loses its weight and can make an LT rule fire alone;
- features are stored under one funnel stage and looked up under another;
- a lifetime plan on two platforms hands its whole total to Meta's campaign and
  daily shares to the others;
- a credentials form switches a provider that was switched off on again;
- the guardrails count budget actions only: two rules that switch the bidding
  strategy change it twice in one cycle (`guardrail.service.ts`);
- readiness reports a safe rollout while an organization's own row, or an ad set,
  says otherwise.

Seen and left without a run: a late refresh that got no new refresh token leaves
the access token of an old grant with the refresh token of a new one; two
administrators who save different fields of a configuration at once lose one of
the saves; the acknowledgement of risks on a plan's page
(`apps/web/.../plan-action-bar.tsx`) survives a regenerate that brings new ones.

## 7. What is not modelled

- Stateless filters in front of the handlers: guards, interceptors, validation
  pipes, and the soft-delete middleware, whose effect on reads is in the guards of
  the actions.
- The pages that show one answer of the API and keep nothing: campaigns, insights,
  layout, and the plan's review and launch pages.
- Wording, formatting, DTO mapping, translations; encryption, but for keys that cannot be read
  any more (`Consents`); the redirect URI check; the rate limiter, which does nothing in the code; seeds and migrations.
- Of modelled parts: the administration of rules, the detail page of a tuning run,
  the rows of campaigns that a sync upserts, the decision log and the read-only
  routes of historical learning, the audit log, the admin's analytics across
  organizations, Meta's exchange of its long-lived token within `AccountTokens` (it is
  in `Consents`), logout at the service, which no page calls.

`PROJECT.json` gives the reason for each component.
