------------------------------ MODULE Providers ------------------------------
(***************************************************************************)
(* One call of a provider adapter: the account row is loaded, its token    *)
(* checked, a parent resolved where the platform wants one, and the write  *)
(* sent once or the pages read with retries (providers/).  Money is in     *)
(* tenths of a cent.  HTTP is a request and one of the platform's answers. *)
(***************************************************************************)
EXTENDS Integers, Absent

CONSTANTS Amounts,   \* budgets and bids a caller asks for, tenths of a cent
          PagesHeld  \* how many pages a listing may have (bound)

ASSUME ProvidersAssumption == Amounts \subseteq Nat \ {0} /\ PagesHeld \subseteq Nat \ {0}

VARIABLES adPlatform,  \* platform of the account
          adRow,       \* the AdAccount row: `due`, its token expires within the window
          adRemote,    \* what the platform holds; `accepts`, the tokens that work
          adCall       \* the call under way

providerVars == <<adPlatform, adRow, adRemote, adCall>>

Platforms  == {"META", "GOOGLE_ADS", "SNAPCHAT", "TIKTOK"}
Strategies == {"LOWEST_COST", "COST_CAP", "BID_CAP", "TARGET_CPA", "TARGET_ROAS"}
Creations  == {"createCampaign", "createAdSet", "uploadCreative", "createAd"}
Asks == [op : {"updateBudget"}, entity : {"CAMPAIGN", "AD_SET"}, amount : Amounts]
        \cup [op : {"updateBiddingStrategy"}, strategy : Strategies, amount : Amounts \cup {None}]
        \cup [op : {"updateBidLimits"}, floor : Amounts \cup {None}, ceiling : Amounts \cup {None}]
        \cup [op : {"fetch", "validateCredentials", "refreshAccessToken"} \cup Creations]
Idle == [ask |-> None, pc |-> "idle", token |-> "", tries |-> 0, sends |-> 0, page |-> 0,
         outcome |-> "", kind |-> "", unsure |-> FALSE, ignored |-> FALSE, real |-> FALSE,
         rotated |-> FALSE, before |-> None]

-----------------------------------------------------------------------------
(* Capabilities *)
Can(roas, lifetime, floor, create) == [roas |-> roas, lifetime |-> lifetime, floor |-> floor, create |-> create]
MetaCapabilities   == Can(TRUE, TRUE, FALSE, FALSE)
GoogleCapabilities == Can(TRUE, FALSE, FALSE, FALSE)
SnapCapabilities   == Can(FALSE, TRUE, FALSE, FALSE)
TikTokCapabilities == Can(TRUE, TRUE, FALSE, FALSE)
Capabilities == [p \in Platforms |-> CASE p = "META" -> MetaCapabilities [] p = "GOOGLE_ADS" -> GoogleCapabilities
                                       [] p = "SNAPCHAT" -> SnapCapabilities [] OTHER -> TikTokCapabilities]

-----------------------------------------------------------------------------
(* Units: a cent is ten tenths; a micro is exact. *)
MajorToMinor(m) == ((m + 5) \div 10)
MinorToMajor(c) == c * 10
MajorToMicros(m) == m * 1000
MicrosToMajor(u) == u \div 1000

(* The platforms' names of the strategies, as written and as read. *)
ToMeta(s) == CASE s = "LOWEST_COST" -> "LOWEST_COST_WITHOUT_CAP" [] s = "BID_CAP" -> "LOWEST_COST_WITH_BID_CAP"
               [] s = "COST_CAP" -> "COST_CAP" [] s = "TARGET_CPA" -> "TARGET_COST"
               [] s = "TARGET_ROAS" -> "LOWEST_COST_WITH_MIN_ROAS"
ToGoogle(s) == CASE s = "LOWEST_COST" -> "MAXIMIZE_CONVERSIONS" [] s = "BID_CAP" -> "MANUAL_CPC"
                 [] s \in {"COST_CAP", "TARGET_CPA"} -> "TARGET_CPA" [] s = "TARGET_ROAS" -> "TARGET_ROAS"
ToTikTokSwapped(s) ==  \* mutant: a target written as a cap
  CASE s \in {"LOWEST_COST", "TARGET_ROAS"} -> "BID_TYPE_NO_BID"
    [] s \in {"BID_CAP", "TARGET_CPA"} -> "BID_TYPE_CUSTOM" [] s = "COST_CAP" -> "BID_TYPE_MAX_CONVERSION"
ToTikTok(s) == CASE s \in {"LOWEST_COST", "TARGET_ROAS"} -> "BID_TYPE_NO_BID" [] s = "BID_CAP" -> "BID_TYPE_CUSTOM"
                 [] s \in {"COST_CAP", "TARGET_CPA"} -> "BID_TYPE_MAX_CONVERSION"
ToSnap(s) == CASE s \in {"LOWEST_COST", "TARGET_ROAS"} -> "AUTO_BID" [] s = "BID_CAP" -> "LOWEST_COST_WITH_MAX_BID"
               [] s \in {"COST_CAP", "TARGET_CPA"} -> "TARGET_COST"

FromMeta(t) == CASE t = "LOWEST_COST_WITH_BID_CAP" -> "BID_CAP" [] t = "COST_CAP" -> "COST_CAP"
                 [] t = "TARGET_COST" -> "TARGET_CPA" [] t = "LOWEST_COST_WITH_MIN_ROAS" -> "TARGET_ROAS"
                 [] OTHER -> "LOWEST_COST"
FromGoogle(t) == CASE t = "MANUAL_CPC" -> "BID_CAP" [] t \in {"TARGET_CPA", "TARGET_ROAS"} -> t
                   [] OTHER -> "LOWEST_COST"
FromTikTok(t) == CASE t = "BID_TYPE_CUSTOM" -> "BID_CAP" [] t = "BID_TYPE_MAX_CONVERSION" -> "TARGET_CPA"
                   [] OTHER -> "LOWEST_COST"
FromSnap(t) == CASE t \in {"LOWEST_COST_WITH_MAX_BID", "MAX_BID"} -> "BID_CAP" [] t = "TARGET_COST" -> "TARGET_CPA"
                 [] OTHER -> "LOWEST_COST"

-----------------------------------------------------------------------------
(* What each adapter's writes make of the settings the platform holds. *)
Kept(old, new, convert(_)) == IF new = None THEN old ELSE convert(new)

MetaWrite(ask, held) ==
  CASE ask.op = "updateBudget" -> [held EXCEPT !.budget[ask.entity] = MajorToMinor(ask.amount)]
    [] ask.op = "updateBiddingStrategy" ->
         [held EXCEPT !.strategy = ToMeta(ask.strategy), !.bid = Kept(@, ask.amount, MajorToMinor)]
    [] ask.op = "updateBidLimits" -> [held EXCEPT !.bid = Kept(@, ask.ceiling, MajorToMinor)]
\* The bid amount is sent for the two target strategies only; the ceiling goes to
\* whichever target is there.
GoogleWrite(ask, held) ==
  CASE ask.op = "updateBudget" -> [held EXCEPT !.budget["CAMPAIGN"] = MajorToMicros(ask.amount)]
    [] ask.op = "updateBiddingStrategy" ->
         [held EXCEPT !.strategy = ToGoogle(ask.strategy),
                      !.target = IF ask.strategy \in {"TARGET_CPA", "TARGET_ROAS"}
                                   THEN Kept(@, ask.amount, MajorToMicros) ELSE @]
    [] ask.op = "updateBidLimits" -> [held EXCEPT !.ceiling = Kept(@, ask.ceiling, MajorToMicros)]
SnapWrite(ask, held) ==
  CASE ask.op = "updateBudget" -> [held EXCEPT !.budget[ask.entity] = MajorToMicros(ask.amount)]
    [] ask.op = "updateBiddingStrategy" ->
         [held EXCEPT !.strategy = ToSnap(ask.strategy), !.bid = Kept(@, ask.amount, MajorToMicros)]
    [] ask.op = "updateBidLimits" ->
         [held EXCEPT !.strategy = "LOWEST_COST_WITH_MAX_BID", !.bid = MajorToMicros(ask.ceiling)]
Same(m) == m
TikTokWrite(ask, held) ==
  CASE ask.op = "updateBudget" -> [held EXCEPT !.budget[ask.entity] = ask.amount]
    [] ask.op = "updateBiddingStrategy" ->
         [held EXCEPT !.strategy = ToTikTok(ask.strategy),
                      !.bid = IF ask.strategy = "BID_CAP" THEN Kept(@, ask.amount, Same) ELSE @,
                      !.target = IF ask.strategy \in {"COST_CAP", "TARGET_CPA"} THEN Kept(@, ask.amount, Same) ELSE @]
    [] ask.op = "updateBidLimits" -> [held EXCEPT !.strategy = "BID_TYPE_CUSTOM", !.bid = ask.ceiling]
Written(p, ask, held) == CASE p = "META" -> MetaWrite(ask, held) [] p = "GOOGLE_ADS" -> GoogleWrite(ask, held)
                           [] p = "SNAPCHAT" -> SnapWrite(ask, held) [] OTHER -> TikTokWrite(ask, held)

\* The adapter must look up a parent first: the campaign of an ad group, the budget of a
\* campaign, the campaign of an ad squad.
GoogleResolves(ask) == ask.op \in {"updateBudget", "updateBiddingStrategy", "updateBidLimits"}
SnapResolves(ask)   == \/ ask.op \in {"updateBiddingStrategy", "updateBidLimits"}
                       \/ ask.op = "updateBudget" /\ ask.entity = "AD_SET"
Resolves(p, ask) == \/ p = "GOOGLE_ADS" /\ GoogleResolves(ask)
                    \/ p = "SNAPCHAT" /\ SnapResolves(ask)

-----------------------------------------------------------------------------
(* Answers: an HTTP status, 0 when none came in time, and the platform's code. *)
MetaKind(a) ==
  IF a.code = 190 THEN "INVALID_TOKEN"
  ELSE IF a.code \in {4, 17, 32, 368} \/ a.status = 429 THEN "RATE_LIMIT"
  ELSE CASE a.status \in {401, 403} -> "UNAUTHORIZED" [] a.status = 404 -> "NOT_FOUND"
         [] a.status >= 500 -> "PROVIDER_ERROR"
         [] OTHER -> IF a.code \in {100, 200} THEN "VALIDATION" ELSE "UNKNOWN"
GoogleKind(a) ==
  CASE a.status = 401 -> "INVALID_TOKEN" [] a.status = 403 -> "UNAUTHORIZED" [] a.status = 404 -> "NOT_FOUND"
    [] a.status = 429 -> "RATE_LIMIT" [] a.status >= 500 -> "PROVIDER_ERROR" [] a.status = 400 -> "VALIDATION"
    [] OTHER -> "UNKNOWN"
SnapKind(a) ==
  CASE a.status = 401 -> "INVALID_TOKEN" [] a.status = 403 -> "UNAUTHORIZED" [] a.status = 404 -> "NOT_FOUND"
    [] a.status = 429 -> "RATE_LIMIT" [] a.status >= 500 -> "PROVIDER_ERROR"
    [] a.status \in {400, 422} -> "VALIDATION" [] OTHER -> "UNKNOWN"
TikTokHttpKind(a) == SnapKind(a)
\* TikTok reports most errors inside a 200; an answer without a code is a server error.
TikTokCodeKind(a) ==
  IF a.code = None THEN "PROVIDER_ERROR"
  ELSE CASE a.code \in 40100..40102 -> "INVALID_TOKEN" [] a.code \in 40103..40105 -> "UNAUTHORIZED"
         [] a.code = 40002 -> "NOT_FOUND" [] a.code \in {50002, 51001} -> "RATE_LIMIT"
         [] OTHER -> IF a.code >= 50000 THEN "PROVIDER_ERROR"
                     ELSE IF a.code >= 40000 THEN "VALIDATION" ELSE "UNKNOWN"
IsOk(p, a) == a.status = 200 /\ (p = "TIKTOK" => a.code = 0)
NetworkKind(a) == IF a.status = 0 THEN "NETWORK" ELSE ""
KindOf(p, a) ==
  IF NetworkKind(a) # "" THEN NetworkKind(a)
  ELSE CASE p = "META" -> MetaKind(a) [] p = "GOOGLE_ADS" -> GoogleKind(a) [] p = "SNAPCHAT" -> SnapKind(a)
         [] OTHER -> IF a.status = 200 THEN TikTokCodeKind(a) ELSE TikTokHttpKind(a)
IsRetryable(kind) == kind \in {"RATE_LIMIT", "NETWORK", "PROVIDER_ERROR"}
MaxAttempts == 4

Reply(status, code) == [status |-> status, code |-> code]
Refusals(p) == CASE p = "META" -> {Reply(400, 17), Reply(400, 100), Reply(404, 0)}
                 [] p = "GOOGLE_ADS" -> {Reply(429, 0), Reply(400, 0), Reply(404, 0)}
                 [] p = "SNAPCHAT" -> {Reply(429, 0), Reply(422, 0), Reply(404, 0)}
                 [] OTHER -> {Reply(200, 50002), Reply(200, 40000), Reply(200, 40002), Reply(429, 0)}
Unclear(p) == {Reply(0, 0), Reply(503, 0)} \cup (IF p = "TIKTOK" THEN {Reply(200, None)} ELSE {})
BadToken(p) == CASE p = "META" -> Reply(400, 190) [] p = "TIKTOK" -> Reply(200, 40100) [] OTHER -> Reply(401, 0)
\* The platform looks at the token first.
Answers(p, token) == IF token \notin adRemote.accepts THEN {BadToken(p), Reply(0, 0)}
                     ELSE {Reply(200, 0)} \cup Refusals(p) \cup Unclear(p)

-----------------------------------------------------------------------------
ProviderInit ==
  /\ adPlatform \in Platforms
  /\ adRow \in [status : {"ACTIVE", "MOCK", "GONE", "MISMATCH", "NO_TOKEN"}, token : {"old"}, due : BOOLEAN]
  /\ adRemote \in [settings : {[budget |-> [e \in {"CAMPAIGN", "AD_SET"} |-> 1], strategy |-> "",
                                bid |-> 1, target |-> 1, ceiling |-> 1]},
                   accepts : IF adRow.due THEN {{}, {"old"}} ELSE {{"old"}}, pages : PagesHeld]
  /\ adCall = Idle

Begin(ask) ==
  /\ adCall.pc = "idle"
  /\ adCall' = [Idle EXCEPT !.ask = ask, !.pc = IF ask.op \in Creations THEN "mock" ELSE "load",
                            !.before = adRemote.settings]
  /\ UNCHANGED <<adPlatform, adRow, adRemote>>

Ended(call, outcome, kind) == [call EXCEPT !.pc = "done", !.outcome = outcome, !.kind = kind]
LoadError(row) == CASE row.status = "GONE" -> "NOT_FOUND" [] row.status = "MISMATCH" -> "VALIDATION"
                    [] row.status = "NO_TOKEN" -> "INVALID_TOKEN" [] OTHER -> ""

\* Creation always goes to the mock, and so does every call of a MOCK account.
Mock ==
  /\ adCall.pc = "mock"
  /\ adCall' = Ended(adCall, "success", "")
  /\ UNCHANGED <<adPlatform, adRow, adRemote>>

\* loadOrMock: the row, then the token's expiry, except where the caller skips it.
SkipsRefresh(p, ask) == \/ ask.op = "refreshAccessToken"
                        \/ ask.op = "validateCredentials" /\ p # "GOOGLE_ADS"
LoadOrMock ==
  /\ adCall.pc = "load"
  /\ adCall' = CASE LoadError(adRow) # "" -> Ended(adCall, "thrown", LoadError(adRow))
                 [] adRow.status = "MOCK" -> [adCall EXCEPT !.pc = "mock"]
                 [] OTHER -> [adCall EXCEPT !.token = adRow.token, !.real = TRUE,
                                !.pc = IF SkipsRefresh(adPlatform, adCall.ask) THEN "gate" ELSE "check"]
  /\ UNCHANGED <<adPlatform, adRow, adRemote>>

Renewed(row) == [row EXCEPT !.token = "new", !.due = FALSE]
Accepting(remote) == {[remote EXCEPT !.accepts = @ \cup {"new"}], [remote EXCEPT !.accepts = {"new"}]}
\* refreshIfNeeded may rotate the token; its failure is swallowed.
CheckToken ==
  /\ adCall.pc = "check"
  /\ \/ /\ adRow.due /\ adRow.status # "GONE"
        /\ adRow' = Renewed(adRow) /\ adRemote' \in Accepting(adRemote)
        /\ adCall' = [adCall EXCEPT !.rotated = TRUE, !.pc = "reload"]
     \/ adCall' = [adCall EXCEPT !.pc = "reload"] /\ UNCHANGED <<adRow, adRemote>>
  /\ UNCHANGED adPlatform

\* Google loads the row again; the others go on with the token they loaded.
Reload ==
  /\ adCall.pc = "reload"
  /\ adCall' = IF adPlatform # "GOOGLE_ADS" THEN [adCall EXCEPT !.pc = "gate"]
               ELSE IF LoadError(adRow) # "" THEN Ended(adCall, "thrown", LoadError(adRow))
               ELSE [adCall EXCEPT !.pc = "gate", !.token = adRow.token]
  /\ UNCHANGED <<adPlatform, adRow, adRemote>>

\* What is decided before any request is sent.
Gate ==
  /\ adCall.pc = "gate"
  /\ LET ask == adCall.ask
     IN adCall' = CASE ask.op = "updateBidLimits" /\ ask.floor # None -> Ended(adCall, "failed", "UNSUPPORTED")
                    [] ask.op = "updateBidLimits" /\ ask.floor = None /\ ask.ceiling = None -> Ended(adCall, "success", "")
                    [] ask.op = "updateBudget" /\ adPlatform = "GOOGLE_ADS" /\ ask.entity = "AD_SET" ->
                         Ended(adCall, "failed", "VALIDATION")
                    [] ask.op = "refreshAccessToken" -> [adCall EXCEPT !.pc = "refresh"]
                    [] ask.op \in {"fetch", "validateCredentials"} -> [adCall EXCEPT !.pc = "read"]
                    [] OTHER -> [adCall EXCEPT !.pc = IF Resolves(adPlatform, ask) THEN "read" ELSE "send"]
  /\ UNCHANGED <<adPlatform, adRow, adRemote>>

ForceRefresh ==
  /\ adCall.pc = "refresh"
  /\ \/ adRow' = Renewed(adRow) /\ adRemote' \in Accepting(adRemote)
     \/ UNCHANGED <<adRow, adRemote>>
  /\ adCall' = Ended(adCall, "success", "")
  /\ UNCHANGED adPlatform

\* Pages a listing asks for at most.
MetaMaxPages == 20
GoogleMaxPages == 10
MaxPages(p) == CASE p = "META" -> MetaMaxPages [] p = "GOOGLE_ADS" -> GoogleMaxPages [] OTHER -> 1
LastPage(call) == call.ask.op # "fetch" \/ call.page + 1 >= MaxPages(adPlatform) \/ call.page + 1 >= adRemote.pages

\* A request that only reads, sent by withRetry.  A read for a write decides whether to
\* go on: its failure is the write's, and so is a parent that is not found in a 200.
FailedRead(call, kind) ==
  Ended(call, IF call.ask.op = "validateCredentials" /\ kind = "INVALID_TOKEN" THEN "invalid"
              ELSE IF call.ask.op \in {"fetch", "validateCredentials"} THEN "thrown" ELSE "failed", kind)
Read ==
  /\ adCall.pc = "read"
  /\ \E a \in Answers(adPlatform, adCall.token), found \in BOOLEAN :
       LET tried == [adCall EXCEPT !.tries = @ + 1]
           kind  == KindOf(adPlatform, a)
       IN adCall' = CASE IsOk(adPlatform, a) ->
                           IF ~LastPage(adCall) THEN [tried EXCEPT !.page = @ + 1, !.tries = 0]
                           ELSE IF adCall.ask.op \in {"fetch", "validateCredentials"}
                                  THEN Ended([tried EXCEPT !.page = @ + 1], "success", "")
                           ELSE IF found THEN [tried EXCEPT !.pc = "send"] ELSE FailedRead(tried, "NOT_FOUND")
                      [] ~IsOk(adPlatform, a) /\ IsRetryable(kind) /\ tried.tries < MaxAttempts -> tried
                      [] OTHER -> FailedRead(tried, kind)
  /\ UNCHANGED <<adPlatform, adRow, adRemote>>

\* Each request looks the configuration up first (a listing of META's but once): it is
\* missing or disabled or without its secrets, or cannot be read.  Nothing is sent or retried.
ConfigRefuses ==
  /\ adCall.pc \in {"read", "send"}
  /\ adPlatform = "META" /\ adCall.ask.op = "fetch" => adCall.page = 0 /\ adCall.tries = 0
  /\ \E kind \in {"VALIDATION", "UNKNOWN"} : adCall' = FailedRead(adCall, kind)
  /\ UNCHANGED <<adPlatform, adRow, adRemote>>

\* mutation(): the write, sent once.  Without a clear answer it may have been carried
\* out.  Snapchat answers 200 and refuses the item inside, which the client does not
\* look at.
Send ==
  /\ adCall.pc = "send"
  /\ \E a \in Answers(adPlatform, adCall.token), done \in BOOLEAN :
       LET ok == IsOk(adPlatform, a)
       IN /\ done => ok \/ a \in Unclear(adPlatform)
          /\ ok /\ ~done => adPlatform = "SNAPCHAT"
          /\ done => adCall.token \in adRemote.accepts
          /\ adRemote' = IF done THEN [adRemote EXCEPT !.settings = Written(adPlatform, adCall.ask, @)] ELSE adRemote
          /\ adCall' = [Ended(adCall, IF ok THEN "success" ELSE "failed", IF ok THEN "" ELSE KindOf(adPlatform, a))
                        EXCEPT !.sends = @ + 1, !.unsure = a \in Unclear(adPlatform), !.ignored = ok /\ ~done]
  /\ UNCHANGED <<adPlatform, adRow>>

\* The user disconnects the account meanwhile.
Disconnect ==
  /\ adRow.status = "ACTIVE" /\ adRow' = [adRow EXCEPT !.status = "GONE"]
  /\ UNCHANGED <<adPlatform, adRemote, adCall>>

ProviderNext == (\E ask \in Asks : Begin(ask)) \/ Mock \/ LoadOrMock \/ CheckToken \/ Reload \/ Gate \/ ForceRefresh
                \/ Read \/ ConfigRefuses \/ Send \/ Disconnect
ProviderSpec == ProviderInit /\ [][ProviderNext]_providerVars

-----------------------------------------------------------------------------
Within(a, b, d) == a - b <= d /\ b - a <= d
HeldBudget(e) == LET b == adRemote.settings.budget[e]
                 IN CASE adPlatform = "META" -> MinorToMajor(b) [] adPlatform = "TIKTOK" -> b [] OTHER -> MicrosToMajor(b)
HeldStrategy == LET s == adRemote.settings.strategy
                IN CASE adPlatform = "META" -> FromMeta(s) [] adPlatform = "GOOGLE_ADS" -> FromGoogle(s)
                     [] adPlatform = "SNAPCHAT" -> FromSnap(s) [] OTHER -> FromTikTok(s)
HeldBid == CASE adPlatform = "META" -> MinorToMajor(adRemote.settings.bid) [] adPlatform = "TIKTOK" -> adRemote.settings.bid
             [] adPlatform = "SNAPCHAT" -> MicrosToMajor(adRemote.settings.bid)
             [] OTHER -> MicrosToMajor(adRemote.settings.ceiling)
\* Strategies a platform has no name of its own for: they read back as another.
Lossy == ({"GOOGLE_ADS", "SNAPCHAT", "TIKTOK"} \X {"COST_CAP"}) \cup ({"SNAPCHAT", "TIKTOK"} \X {"TARGET_ROAS"})

\* A write that reports success for a real account is in force: reading the settings back
\* the way a sync does gives what was asked, to half a cent, and nothing else moved.
\* Two gaps are carved out by name: strategies without an equal on the platform, and items
\* Snapchat refuses inside a 200.
SuccessIsReal ==
  LET ask == adCall.ask
      old == adCall.before
      now == adRemote.settings
  IN adCall.outcome = "success" /\ adCall.real /\ ~adCall.ignored =>
       CASE ask.op = "updateBudget" -> /\ Within(HeldBudget(ask.entity), ask.amount, 5)
                                       /\ \A e \in DOMAIN now.budget \ {ask.entity} : now.budget[e] = old.budget[e]
                                       /\ [now EXCEPT !.budget = old.budget] = old
         [] ask.op = "updateBiddingStrategy" ->
              /\ <<adPlatform, ask.strategy>> \in Lossy \/ HeldStrategy = ask.strategy
              /\ ask.strategy = "BID_CAP" /\ ask.amount # None /\ adPlatform # "GOOGLE_ADS" => Within(HeldBid, ask.amount, 5)
              /\ now.budget = old.budget
         [] ask.op = "updateBidLimits" ->
              /\ ask.floor = None
              /\ IF ask.ceiling = None THEN now = old ELSE Within(HeldBid, ask.ceiling, 5) /\ now.budget = old.budget
         [] OTHER -> now = old

\* A write is sent at most once, a read at most MaxAttempts times a page; a call that
\* ends without an unclear answer and without success left the platform as it was; and
\* what the capabilities rule out is never reported done.
ProviderIsHonest ==
  /\ SuccessIsReal
  /\ adCall.sends <= 1 /\ adCall.tries <= 4
  /\ adCall.pc = "done" /\ adCall.outcome # "success" /\ ~adCall.unsure => adRemote.settings = adCall.before
  /\ adCall.sends = 0 => adCall.ask = None \/ adRemote.settings = adCall.before
  /\ adPlatform = "GOOGLE_ADS" /\ adCall.rotated /\ adCall.pc \in {"read", "send"} => adCall.token = "new"
=============================================================================
