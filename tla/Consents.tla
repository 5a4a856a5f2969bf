------------------------------- MODULE Consents -------------------------------
(***************************************************************************)
(* Accounts that one consent connects together: an admin starts the flow,  *)
(* the callback checks the state token, exchanges the code and stores the  *)
(* same token on every account of the grant, one row after the other,      *)
(* while the hourly sweep refreshes the rows that are due                  *)
(* (providers/{meta,google-ads,tiktok}: the OAuth and token services).     *)
(* What befalls a single account, its removal included, is in              *)
(* AccountTokens.                                                          *)
(***************************************************************************)
EXTENDS Naturals, Sequences, FiniteSets, Absent

CONSTANTS ConsentOrgs,  \* organizations
          Granted,      \* the accounts of the user at the platform, in the order they are listed
          MaxGrants,    \* consents given (bound)
          MaxRotations, \* times a platform replaces the key of one grant (bound)
          MaxMishaps    \* grants taken back, secrets changed, empty answers, late states (bound)

VARIABLES consentNet, \* the platform
          linkRow,    \* the AdAccount rows by organization and account
          idp,        \* the platform's side: keys that work, grants taken back, empty answers given
          flows,      \* state tokens handed out; `good` until the secret is changed or ten minutes passed
          setup,      \* the provider configuration
          callback,   \* the callback under way
          tokenSweep  \* the token scheduler's run

consentVars == <<consentNet, linkRow, idp, flows, setup, callback, tokenSweep>>

Grantors  == {"META", "GOOGLE_ADS", "TIKTOK"}
GrantedAccounts == {Granted[i] : i \in DOMAIN Granted}
ASSUME ConsentsAssumption ==
  /\ MaxGrants \in Nat \ {0} /\ MaxRotations \in Nat /\ MaxMishaps \in Nat
  /\ Granted \in Seq(GrantedAccounts) /\ Granted # <<>>
  /\ \A i, j \in DOMAIN Granted : Granted[i] = Granted[j] => i = j  \* an account is listed once

Links     == ConsentOrgs \X GrantedAccounts
RefreshAnswers == {"same", "rotated", "unreadable", "NETWORK", "INVALID_TOKEN", "UNAUTHORIZED", "RATE_LIMIT",
            "NOT_FOUND", "PROVIDER_ERROR", "VALIDATION", "UNKNOWN"}
NoCallback == [pc |-> "none", state |-> None, grant |-> 0, list |-> <<>>, at |-> 1]
NoTokenSweep == [todo |-> {}, link |-> None, row |-> None, answer |-> ""]

-----------------------------------------------------------------------------
(* A key is what a refresh presents: Meta's long-lived access token, the   *)
(* others' refresh token.  A row is readable while what it was sealed with *)
(* is the ENCRYPTION_KEY of the API.                                       *)
Key(g, n) == [grant |-> g, n |-> n]
Keys      == [grant : Nat, n : Nat]
LinkRows  == [key : Keys, due : BOOLEAN, status : {"ACTIVE", "ERROR"}, tracked : BOOLEAN, readable : BOOLEAN]

ASSUME NoneIsNoLinkRow == None \notin LinkRows

\* The bound on what goes wrong on either side in one behaviour.
Mishaps == Cardinality(idp.blank) + Cardinality({m \in {<<"grants", idp.revoked>>, <<"app", ~setup.appSecret>>,
  <<"seal", ~setup.sealKept>>, <<"states", \E s \in flows : ~s.good>>} : m[2]})
MayFail == Mishaps < MaxMishaps

(* buildAuthorizeUrl, signState: Google asks for the developer token first. *)
SignState(org)   == [org |-> org, good |-> TRUE]
MetaStarts(org)   == TRUE
GoogleStarts(org) == setup.developerToken
TikTokStarts(org) == TRUE
Starts(org) == CASE consentNet = "META" -> MetaStarts(org) [] consentNet = "GOOGLE_ADS" -> GoogleStarts(org)
                 [] OTHER -> TikTokStarts(org)
StartConsent(org) ==
  /\ Starts(org)
  /\ flows' = flows \cup {SignState(org)}
  /\ UNCHANGED <<consentNet, linkRow, idp, setup, callback, tokenSweep>>

\* verifyState: the signature, then the time; nothing remembers a state that was used.
VerifyState(state) == state.good
MetaAccepts(state)   == VerifyState(state)
GoogleAccepts(state) == setup.developerToken /\ VerifyState(state)
TikTokAccepts(state) == VerifyState(state)
Accepts(state) == CASE consentNet = "META" -> MetaAccepts(state) [] consentNet = "GOOGLE_ADS" -> GoogleAccepts(state)
                    [] OTHER -> TikTokAccepts(state)

\* handleCallback: state, code, list of accounts, rows.
Callback(state) ==
  /\ callback.pc \in {"none", "success", "refused"} /\ state \in flows
  /\ callback' = IF Accepts(state) THEN [NoCallback EXCEPT !.state = state, !.pc = "exchange"] ELSE NoCallback
  /\ UNCHANGED <<consentNet, linkRow, idp, flows, setup, tokenSweep>>

\* What the answer to the exchange must hold.
MetaExchanged(answer)   == answer.access /\ answer.longLived
GoogleExchanged(answer) == answer.access /\ answer.refresh
TikTokExchanged(answer) == answer.access /\ answer.refresh
Exchanged(answer) == CASE consentNet = "META" -> MetaExchanged(answer) [] consentNet = "GOOGLE_ADS" -> GoogleExchanged(answer)
                       [] OTHER -> TikTokExchanged(answer)
\* The user has consented: the platform issues a grant, whether we hear of it or not.
ExchangeCode ==
  /\ callback.pc = "exchange"
  /\ LET g == idp.grants + 1
     IN \/ /\ g <= MaxGrants
           /\ idp' = [idp EXCEPT !.grants = g, !.alive = @ \cup {Key(g, 0)}]
           /\ \E answer \in [access : BOOLEAN, longLived : BOOLEAN, refresh : BOOLEAN] :
                callback' = IF Exchanged(answer) THEN [callback EXCEPT !.grant = g, !.pc = "list"]
                            ELSE [callback EXCEPT !.pc = "refused"]
        \/ callback' = [callback EXCEPT !.pc = "refused"] /\ UNCHANGED idp
  /\ UNCHANGED <<consentNet, linkRow, flows, setup, tokenSweep>>

ListAccounts ==
  /\ callback.pc = "list"
  /\ \E n \in 0..Len(Granted) :
       callback' \in {[callback EXCEPT !.list = SubSeq(Granted, 1, n), !.pc = "upsert"], [callback EXCEPT !.pc = "refused"]}
  /\ UNCHANGED <<consentNet, linkRow, idp, flows, setup, tokenSweep>>

\* The row of one account: live, untracked if it is new; Meta's has no refresh token.
\* It is due when its time comes, at once if the answer had no expiry (Expires).
StoredLink(old, key) == [key |-> key, due |-> FALSE, status |-> "ACTIVE",
                    tracked |-> IF old = None THEN FALSE ELSE old.tracked, readable |-> TRUE]
MetaUpsert(old, g)   == StoredLink(old, Key(g, 0))
GoogleUpsert(old, g) == StoredLink(old, Key(g, 0))
TikTokUpsert(old, g) == StoredLink(old, Key(g, 0))
Upserted(old, g) == CASE consentNet = "META" -> MetaUpsert(old, g) [] consentNet = "GOOGLE_ADS" -> GoogleUpsert(old, g)
                           [] OTHER -> TikTokUpsert(old, g)
UpsertAccount ==
  /\ callback.pc = "upsert" /\ callback.at <= Len(callback.list)
  /\ LET link == <<callback.state.org, callback.list[callback.at]>>
     IN linkRow' = [linkRow EXCEPT ![link] = Upserted(@, callback.grant)]
  /\ callback' = [callback EXCEPT !.at = @ + 1]
  /\ UNCHANGED <<consentNet, idp, flows, setup, tokenSweep>>
\* A write that fails leaves the rows before it.
UpsertFails ==
  /\ callback.pc = "upsert"
  /\ callback' = [callback EXCEPT !.pc = "refused"]
  /\ UNCHANGED <<consentNet, linkRow, idp, flows, setup, tokenSweep>>
Connected ==
  /\ callback.pc = "upsert" /\ callback.at > Len(callback.list)
  /\ callback' = [callback EXCEPT !.pc = "success"]
  /\ UNCHANGED <<consentNet, linkRow, idp, flows, setup, tokenSweep>>

-----------------------------------------------------------------------------
(* The sweep: findAccountsNeedingRefresh, then forceRefresh of each row as  *)
(* it was loaded.                                                           *)
Eligible(row) == row # None /\ row.tracked /\ row.status = "ACTIVE" /\ row.due
MetaDue   == {link \in Links : Eligible(linkRow[link])}
GoogleDue == {link \in Links : Eligible(linkRow[link])}
TikTokDue == {link \in Links : Eligible(linkRow[link])}
StartSweep ==
  /\ tokenSweep.todo = {} /\ tokenSweep.link = None
  /\ LET due == CASE consentNet = "META" -> MetaDue [] consentNet = "GOOGLE_ADS" -> GoogleDue [] OTHER -> TikTokDue
     IN /\ due # {}
        /\ tokenSweep' = [tokenSweep EXCEPT !.todo = {[link |-> l, row |-> linkRow[l]] : l \in due}]
  /\ UNCHANGED <<consentNet, linkRow, idp, flows, setup, callback>>

\* What a refusal is taken for, by its code and its status: Meta's and Google's mapError
\* and mapOauthError, TikTok's mapHttpError and mapEnvelopeError (a refusal inside a 200).
MetaOauthKind(code, status) ==
  IF code = 190 THEN "INVALID_TOKEN"
  ELSE IF code \in {4, 17, 32, 368} \/ status = 429 THEN "RATE_LIMIT"
  ELSE IF status \in {401, 403} THEN "UNAUTHORIZED" ELSE IF status = 404 THEN "NOT_FOUND"
  ELSE IF status >= 500 THEN "PROVIDER_ERROR" ELSE IF code \in {100, 200} THEN "VALIDATION" ELSE "UNKNOWN"
GoogleOauthKind(error, status) ==
  IF error \in {"invalid_grant", "invalid_token"} THEN "INVALID_TOKEN"
  ELSE IF error = "unauthorized_client" \/ status \in {401, 403} THEN "UNAUTHORIZED"
  ELSE IF status = 429 THEN "RATE_LIMIT" ELSE IF status >= 500 THEN "PROVIDER_ERROR" ELSE "VALIDATION"
TikTokOauthHttpKind(status) ==
  IF status = 401 THEN "INVALID_TOKEN" ELSE IF status = 403 THEN "UNAUTHORIZED"
  ELSE IF status = 404 THEN "NOT_FOUND" ELSE IF status = 429 THEN "RATE_LIMIT"
  ELSE IF status >= 500 THEN "PROVIDER_ERROR" ELSE IF status \in {400, 422} THEN "VALIDATION" ELSE "UNKNOWN"
TikTokOauthKind(code) ==
  IF code \in 40100..40102 THEN "INVALID_TOKEN" ELSE IF code \in 40103..40105 THEN "UNAUTHORIZED"
  ELSE IF code = 40002 THEN "NOT_FOUND" ELSE IF code \in {50002, 51001} THEN "RATE_LIMIT"
  ELSE IF code >= 50000 THEN "PROVIDER_ERROR" ELSE IF code >= 40000 THEN "VALIDATION" ELSE "UNKNOWN"
IsAuthFailAny(kind) == kind # ""  \* mutant: any failure
IsAuthFail(kind) == kind \in {"INVALID_TOKEN", "UNAUTHORIZED"}

\* How a platform refuses our application, and how a key that is dead.
AppRefusals ==
  CASE consentNet = "META"       -> {MetaOauthKind(101, 400), MetaOauthKind(4, 400), MetaOauthKind(10, 403)}
    [] consentNet = "GOOGLE_ADS" -> {GoogleOauthKind("invalid_client", 401), GoogleOauthKind("invalid_request", 400)}
    [] OTHER                     -> {TikTokOauthKind(40001), TikTokOauthKind(40105), TikTokOauthHttpKind(403)}
DeadKeyRefusals ==
  CASE consentNet = "META"       -> {MetaOauthKind(190, 400)}
    [] consentNet = "GOOGLE_ADS" -> {GoogleOauthKind("invalid_grant", 400)}
    [] OTHER                     -> {TikTokOauthKind(40102), TikTokOauthKind(40103), TikTokOauthHttpKind(401)}
RefusedAs(key) == IF ~setup.appSecret THEN AppRefusals ELSE IF key \in idp.alive THEN {} ELSE DeadKeyRefusals

\* A refresh the platform carries out may replace the key; then the old one is dead.
AfterRefresh(key) == IF idp.rotates THEN (idp.alive \ {key}) \cup {Key(key.grant, key.n + 1)} ELSE idp.alive
CarriedOut(key) == RefusedAs(key) = {} /\ (idp.rotates => key.n < MaxRotations)
\* The platform's books: which accounts it sent an answer for that held no token.
Blanked(link, answer) == IF answer = "UNAUTHORIZED" THEN idp.blank \cup {link} ELSE idp.blank

\* A key that cannot be read is not sent.  Otherwise it is refused, or the refresh carried
\* out; an answer gets lost, or is a 200 without a token, which the service takes for
\* UNAUTHORIZED whether or not the key was replaced.
CallRefresh(job) ==
  /\ job \in tokenSweep.todo /\ tokenSweep.link = None
  /\ \E answer \in RefreshAnswers :
       /\ tokenSweep' = [tokenSweep EXCEPT !.todo = @ \ {job}, !.link = job.link, !.row = job.row, !.answer = answer]
       /\ \/ ~job.row.readable /\ answer = "unreadable" /\ UNCHANGED idp
          \/ job.row.readable /\ answer \in RefusedAs(job.row.key) /\ UNCHANGED idp
          \/ /\ job.row.readable /\ CarriedOut(job.row.key)
             /\ answer \in {IF idp.rotates THEN "rotated" ELSE "same", "NETWORK", "UNAUTHORIZED"}
             /\ answer = "UNAUTHORIZED" => MayFail
             /\ idp' = [idp EXCEPT !.alive = AfterRefresh(job.row.key), !.blank = Blanked(job.link, answer)]
          \/ /\ job.row.readable /\ answer \in {"NETWORK", "UNAUTHORIZED"}
             /\ answer = "UNAUTHORIZED" => MayFail
             /\ idp' = [idp EXCEPT !.blank = Blanked(job.link, answer)]
  /\ UNCHANGED <<consentNet, linkRow, flows, setup, callback>>

\* The write goes by id to whatever the row is by now.
MetaRefreshed(old, job, answer)   == [old EXCEPT !.key = job.key, !.status = "ACTIVE"]
GoogleRefreshed(old, job, answer) ==
  [old EXCEPT !.key = IF answer = "rotated" THEN Key(job.key.grant, job.key.n + 1) ELSE @, !.status = "ACTIVE"]
TikTokRefreshed(old, job, answer) ==
  [old EXCEPT !.key = IF answer = "rotated" THEN Key(job.key.grant, job.key.n + 1) ELSE @, !.status = "ACTIVE"]
MarkError(old) == [old EXCEPT !.status = "ERROR"]
\* Google marks an account whose key it cannot read; the others' decrypt throws to the sweep.
Marks(answer) == IsAuthFail(answer) \/ (consentNet = "GOOGLE_ADS" /\ answer = "unreadable")
WriteRefresh ==
  /\ tokenSweep.link # None
  /\ LET answer == tokenSweep.answer
         old    == linkRow[tokenSweep.link]
         job    == tokenSweep.row
         new    == CASE consentNet = "META" -> MetaRefreshed(old, job, answer)
                     [] consentNet = "GOOGLE_ADS" -> GoogleRefreshed(old, job, answer)
                     [] OTHER -> TikTokRefreshed(old, job, answer)
     IN \/ /\ answer \in {"same", "rotated"}
           /\ linkRow' = [linkRow EXCEPT ![tokenSweep.link] = [new EXCEPT !.due = FALSE]]
        \/ /\ answer \notin {"same", "rotated"}
           /\ linkRow' = [linkRow EXCEPT ![tokenSweep.link] = IF Marks(answer) THEN MarkError(@) ELSE @]
  /\ tokenSweep' = [tokenSweep EXCEPT !.link = None, !.row = None, !.answer = ""]
  /\ UNCHANGED <<consentNet, idp, flows, setup, callback>>

-----------------------------------------------------------------------------
(* Around them. *)
Track(link) == /\ linkRow[link] # None /\ ~linkRow[link].tracked
               /\ linkRow' = [linkRow EXCEPT ![link].tracked = TRUE]
               /\ UNCHANGED <<consentNet, idp, flows, setup, callback, tokenSweep>>
Expires(link) == /\ linkRow[link] # None /\ linkRow[link].tracked /\ ~linkRow[link].due
                 /\ linkRow' = [linkRow EXCEPT ![link].due = TRUE]
                 /\ UNCHANGED <<consentNet, idp, flows, setup, callback, tokenSweep>>
\* The user takes back every grant.
TakeBack == /\ MayFail /\ idp.grants > 0 /\ idp' = [idp EXCEPT !.alive = {}, !.revoked = TRUE]
            /\ UNCHANGED <<consentNet, linkRow, flows, setup, callback, tokenSweep>>
\* The secret is changed or time passes; the app secret is changed at the platform.
Lapse == /\ MayFail /\ \E s \in flows : s.good
         /\ flows' = {[s EXCEPT !.good = FALSE] : s \in flows}
         /\ UNCHANGED <<consentNet, linkRow, idp, setup, callback, tokenSweep>>
LoseAppSecret == /\ MayFail /\ setup.appSecret /\ setup' = [setup EXCEPT !.appSecret = FALSE]
                 /\ UNCHANGED <<consentNet, linkRow, idp, flows, callback, tokenSweep>>
\* The API restarts, perhaps with another ENCRYPTION_KEY: then no row is readable any more.
Unreadable(row) == IF row = None THEN None ELSE [row EXCEPT !.readable = FALSE]
RestartApi == /\ callback' = NoCallback /\ tokenSweep' = NoTokenSweep
           /\ \/ UNCHANGED <<linkRow, setup>>
              \/ /\ MayFail /\ setup.sealKept /\ setup' = [setup EXCEPT !.sealKept = FALSE]
                 /\ linkRow' = [link \in Links |-> Unreadable(linkRow[link])]
           /\ UNCHANGED <<consentNet, idp, flows>>

ConsentInit ==
  /\ consentNet \in Grantors
  /\ linkRow = [link \in Links |-> None]
  /\ idp \in [grants : {0}, alive : {{}}, blank : {{}}, revoked : {FALSE},
             rotates : IF consentNet = "META" THEN {FALSE} ELSE BOOLEAN]
  /\ flows = {} /\ callback = NoCallback /\ tokenSweep = NoTokenSweep
  /\ setup \in [appSecret : {TRUE}, sealKept : {TRUE},
               developerToken : IF consentNet = "GOOGLE_ADS" THEN BOOLEAN ELSE {TRUE}]

ConsentNext ==
  \/ \E org \in ConsentOrgs : StartConsent(org)
  \/ \E state \in flows : Callback(state)
  \/ ExchangeCode \/ ListAccounts \/ UpsertAccount \/ UpsertFails \/ Connected
  \/ StartSweep \/ (\E job \in tokenSweep.todo : CallRefresh(job)) \/ WriteRefresh
  \/ (\E link \in Links : Track(link) \/ Expires(link)) \/ TakeBack \/ Lapse \/ LoseAppSecret \/ RestartApi
ConsentSpec == ConsentInit /\ [][ConsentNext]_consentVars

-----------------------------------------------------------------------------
\* Nobody is asked to reconnect without a cause: an account is flagged only where the
\* user took a grant back, the platform has replaced a key, our app secret is refused, an
\* answer for this very account held no token, or Google's rows were sealed with another key.
NoFalseAlarm ==
  \A link \in Links : linkRow[link] # None /\ linkRow[link].status = "ERROR" =>
    \/ idp.revoked \/ ~setup.appSecret \/ (\E key \in idp.alive : key.n > 0)
    \/ link \in idp.blank
    \/ consentNet = "GOOGLE_ADS" /\ ~setup.sealKept

\* Where the platform keeps a key that was used, every stored key works, those of the
\* sister accounts of a consent included; where it does not, it has replaced this one.
KeysWork ==
  \A link \in Links : linkRow[link] # None /\ ~idp.revoked =>
    LET key == linkRow[link].key
    IN key \in idp.alive \/ (idp.rotates /\ \E n \in 1..MaxRotations : Key(key.grant, n) \in idp.alive /\ key.n < n)

\* A callback that reports success has connected every account it listed, with this
\* consent, whatever the sweep wrote meanwhile; one that failed has connected those
\* before the failure and no other.
ConsentIsWhole ==
  /\ callback.pc = "success" /\ ~idp.rotates /\ consentNet # "META" =>
       \A i \in DOMAIN callback.list : linkRow[<<callback.state.org, callback.list[i]>>].key.grant = callback.grant
  /\ callback.pc \in {"upsert", "refused"} =>
       \A i \in callback.at..Len(callback.list) :
         LET row == linkRow[<<callback.state.org, callback.list[i]>>] IN row = None \/ row.key.grant # callback.grant

\* The sweep leaves accounts alone that nobody tracks: their key is the consent's.
UntrackedIsLeftAlone ==
  \A link \in Links : linkRow[link] # None /\ ~linkRow[link].tracked => linkRow[link].key.n = 0 /\ linkRow[link].status = "ACTIVE"

\* What a consent and the sweep after it promise to the accounts that share it
\* (handleCallback, findAccountsNeedingRefresh and forceRefresh of the three services).
ConsentsHold == NoFalseAlarm /\ KeysWork /\ ConsentIsWhole /\ UntrackedIsLeftAlone
===============================================================================
