---------------------------- MODULE AccountTokens ----------------------------
(***************************************************************************)
(* The connection of one ad account to its platform: the row in            *)
(* ad_accounts with its tokens and status, and the requests and cron sweeps *)
(* that read and write it concurrently -- the OAuth callback, the token     *)
(* refresh sweep, the sync of campaigns with its refresh before the call,   *)
(* connecting by hand, disconnecting and tracking.  Every exchange with the *)
(* platform goes through ProviderConfigs for the app secret.                *)
(*                                                                         *)
(* Snapchat's services are modelled; TikTok's and Google's are the same     *)
(* program.  A refresh token is a grant, what one consent of the user gives *)
(* out, and a serial number: a platform that rotates answers a refresh with *)
(* the next serial and takes only the last one from then on.               *)
(***************************************************************************)
EXTENDS ProviderConfigs, Naturals

CONSTANTS Grants,      \* consents of the user
          MaxSerial,   \* bound: refresh tokens issued per grant
          MaxCrashes,  \* bound: crashes of the process
          AnswersEmpty \* the platform may answer a refresh without a token

ASSUME BoundsAreNaturals == MaxSerial \in Nat \ {0} /\ MaxCrashes \in Nat
ASSUME AnswersAreEmptyOrNot == AnswersEmpty \in BOOLEAN

VARIABLES acct,       \* the ad_accounts row, or None before it is created
          job,        \* per job: what it is doing with the row
          appSecret,  \* the app secret the platform takes
          latest,     \* per grant: the last serial issued, 0 for none
          revoked,    \* grants the user has taken back
          lost,       \* history: grants with a token no row will ever hold
          crashes     \* crashes so far

tokenVars == <<acct, job, appSecret, latest, revoked, lost, crashes>>
vars == <<configVars, tokenVars>>
platform == <<appSecret, latest, revoked>>

Tokens == [grant : Grants, serial : 1..MaxSerial]

Accounts == [refresh : Tokens \cup {None},
             due : BOOLEAN,               \* tokenExpiresAt null or in the window
             status : {"ACTIVE", "ERROR"},
             deleted : BOOLEAN,           \* deletedAt is set
             tracked : BOOLEAN]

ASSUME NoneIsNoRow == None \notin Tokens \cup Accounts

NoJob == [kind |-> "none", pc |-> "idle", tok |-> None, new |-> None]
JobStates == [kind : {"none", "sweep", "sync", "callback"},
              pc : {"idle", "config", "write", "flag", "fetch", "finish"},
              tok : Tokens \cup {None},   \* the refresh token it read
              new : Tokens \cup {None}]   \* the one it was answered with

TypeOK ==
  /\ ConfigTypeOK
  /\ acct \in Accounts \cup {None}
  /\ job \in [Jobs -> JobStates]
  /\ appSecret \in Secrets
  /\ latest \in [Grants -> 0..MaxSerial]
  /\ revoked \in SUBSET Grants
  /\ lost \in SUBSET Grants
  /\ crashes \in 0..MaxCrashes

Init ==
  /\ ConfigInit
  /\ acct = None
  /\ job = [j \in Jobs |-> NoJob]
  /\ appSecret \in Secrets
  /\ latest = [g \in Grants |-> 0]
  /\ revoked = {}
  /\ lost = {}
  /\ crashes = 0

Live == acct # None /\ ~acct.deleted

\* The platform takes a refresh token that is the last of a standing grant.
Usable(tok) ==
  /\ tok # None
  /\ tok.grant \notin revoked
  /\ tok.serial = latest[tok.grant]

-----------------------------------------------------------------------------
(* A job reads the row and, if the token is due, refreshes it *)

\* forceRefresh of a row without a refresh token goes straight to markError.
Refresh(j, kind) ==
  job' = [job EXCEPT ![j] = [kind |-> kind, tok |-> acct.refresh, new |-> None,
                             pc |-> IF acct.refresh = None THEN "flag" ELSE "config"]]

\* The sweep of the scheduler finds the account.
SweepLoad(j) ==
  /\ job[j].pc = "idle"
  /\ Live /\ acct.tracked /\ acct.due /\ acct.status = "ACTIVE"
  /\ Refresh(j, "sweep")
  /\ UNCHANGED <<configVars, acct, platform, lost, crashes>>

\* sync finds the account; its provider call refreshes a due token first,
\* whatever the status and the tracking of the row.
SyncLoad(j) ==
  /\ job[j].pc = "idle"
  /\ Live
  /\ IF acct.due THEN Refresh(j, "sync")
     ELSE job' = [job EXCEPT ![j] = [NoJob EXCEPT !.kind = "sync", !.pc = "fetch"]]
  /\ UNCHANGED <<configVars, acct, platform, lost, crashes>>

\* The user comes back from the consent screen.
CallbackLoad(j) ==
  /\ job[j].pc = "idle"
  /\ job' = [job EXCEPT ![j] = [NoJob EXCEPT !.kind = "callback", !.pc = "config"]]
  /\ UNCHANGED <<configVars, acct, platform, lost, crashes>>

\* The job asks for the app secret.
ConfigLookup(j) ==
  /\ job[j].pc = "config"
  /\ Lookup(j)
  /\ UNCHANGED tokenVars

ConfigSettle(j) ==
  /\ Settle(j)
  /\ UNCHANGED tokenVars

\* The refresh is over for this job, with or without success: a sync goes on
\* to its fetch with the token it had loaded, the others end.
RefreshOver(j) ==
  job' = [job EXCEPT ![j] = IF job[j].kind = "sync"
                            THEN [NoJob EXCEPT !.kind = "sync", !.pc = "fetch"]
                            ELSE NoJob]

\* No enabled configuration: VALIDATION, which is no auth failure.
Refused(j) ==
  /\ job[j].pc = "config" /\ reader[j].pc = "refused"
  /\ Release(j)
  /\ RefreshOver(j)
  /\ UNCHANGED <<stored, cache, admin, acct, platform, lost, crashes>>

-----------------------------------------------------------------------------
(* The platform answers *)

Asked(j) == job[j].pc = "config" /\ reader[j].pc = "served"
SecretTaken(j) == reader[j].row.secret = appSecret

\* The next serial of the grant is out: older ones are dead.
Issue(g) == latest' = [latest EXCEPT ![g] = @ + 1]

\* A refresh is granted; the answer carries the next refresh token, or none
\* when the platform keeps the old one valid.
Granted(j) ==
  /\ Asked(j) /\ job[j].kind # "callback"
  /\ SecretTaken(j) /\ Usable(job[j].tok)
  /\ LET t == job[j].tok IN
     \/ /\ t.serial < MaxSerial
        /\ Issue(t.grant)
        /\ job' = [job EXCEPT ![j].pc = "write", ![j].tok = None,
                              ![j].new = [t EXCEPT !.serial = @ + 1]]
     \/ /\ job' = [job EXCEPT ![j].pc = "write", ![j].tok = None]
        /\ UNCHANGED latest
  /\ Release(j)
  /\ UNCHANGED <<stored, cache, admin, acct, appSecret, revoked, lost, crashes>>

\* 401, 403 or invalid_grant: the token or the app secret is not taken.
Rejected(j) ==
  /\ Asked(j) /\ job[j].kind # "callback"
  /\ ~(SecretTaken(j) /\ Usable(job[j].tok))
  /\ job' = [job EXCEPT ![j].pc = "flag", ![j].tok = None]
  /\ Release(j)
  /\ UNCHANGED <<stored, cache, admin, acct, platform, lost, crashes>>

\* The platform may have rotated the token although the job is handed none.
MayLose(j) ==
  \/ UNCHANGED <<latest, lost>>
  \/ /\ SecretTaken(j) /\ Usable(job[j].tok) /\ job[j].tok.serial < MaxSerial
     /\ Issue(job[j].tok.grant)
     /\ lost' = lost \cup {job[j].tok.grant}

\* A 200 without an access token counts as UNAUTHORIZED, whatever the platform
\* has done; a refresh token beside it is dropped.
Empty(j) ==
  /\ AnswersEmpty
  /\ Asked(j) /\ job[j].kind # "callback"
  /\ MayLose(j)
  /\ job' = [job EXCEPT ![j].pc = "flag", ![j].tok = None]
  /\ Release(j)
  /\ UNCHANGED <<stored, cache, admin, acct, appSecret, revoked, crashes>>

\* Network, 5xx, 15 second timeout: not an auth failure, so nothing is written.
Transient(j) ==
  /\ Asked(j)
  /\ MayLose(j)
  /\ Release(j)
  /\ RefreshOver(j)
  /\ UNCHANGED <<stored, cache, admin, acct, appSecret, revoked, crashes>>

\* The code of the callback is exchanged for the tokens of a new grant (any
\* failure, an incomplete answer included, ends the callback: Transient).
Consented(j) ==
  /\ Asked(j) /\ job[j].kind = "callback"
  /\ SecretTaken(j)
  /\ \E g \in Grants :
       /\ latest[g] = 0
       /\ Issue(g)
       /\ job' = [job EXCEPT ![j].pc = "write", ![j].new = [grant |-> g, serial |-> 1]]
  /\ Release(j)
  /\ UNCHANGED <<stored, cache, admin, acct, appSecret, revoked, lost, crashes>>

-----------------------------------------------------------------------------
(* The job writes the row, by its id: soft-deleted or not *)

RefreshedKeepsToken(new) == [acct EXCEPT !.due = FALSE, !.status = "ACTIVE"]  \* mutant: the rotated token is dropped
RefreshedStaysDue(new) ==  \* mutant: tokenExpiresAt is not written
  [acct EXCEPT !.refresh = IF new = None THEN @ ELSE new, !.status = "ACTIVE"]
\* forceRefresh stores the new tokens; a missing refresh token keeps the one
\* stored now.
Refreshed(new) ==
  [acct EXCEPT !.refresh = IF new = None THEN @ ELSE new,
               !.due = FALSE, !.status = "ACTIVE"]

WriteTokens(j) ==
  /\ job[j].pc = "write" /\ job[j].kind # "callback"
  /\ acct' = Refreshed(job[j].new)
  /\ RefreshOver(j)
  /\ UNCHANGED <<configVars, platform, lost, crashes>>

\* The callback upserts the row: a new one is not tracked, an old one is live
\* again and keeps its flag.
UpsertAccount(j) ==
  /\ job[j].pc = "write" /\ job[j].kind = "callback"
  /\ acct' = [refresh |-> job[j].new, due |-> FALSE, status |-> "ACTIVE",
              deleted |-> FALSE, tracked |-> acct # None /\ acct.tracked]
  /\ job' = [job EXCEPT ![j] = NoJob]
  /\ UNCHANGED <<configVars, platform, lost, crashes>>

Errored == [acct EXCEPT !.status = "ERROR"]

MarkError(j) ==
  /\ job[j].pc = "flag"
  /\ acct' = Errored
  /\ RefreshOver(j)
  /\ UNCHANGED <<configVars, platform, lost, crashes>>

\* fetchCampaigns with the access token loaded at the start: an access token
\* may outlive its grant and its refresh token, so either answer is possible.
Fetch(j) ==
  /\ job[j].pc = "fetch"
  /\ \/ job' = [job EXCEPT ![j].pc = "finish"]
     \/ job' = [job EXCEPT ![j] = NoJob]
  /\ UNCHANGED <<configVars, acct, platform, lost, crashes>>

SyncedRevives == [acct EXCEPT !.status = "ACTIVE", !.deleted = FALSE]  \* mutant: a sync clears deletedAt
Synced == [acct EXCEPT !.status = "ACTIVE"]

SyncFinish(j) ==
  /\ job[j].pc = "finish"
  /\ acct' = Synced
  /\ job' = [job EXCEPT ![j] = NoJob]
  /\ UNCHANGED <<configVars, platform, lost, crashes>>

-----------------------------------------------------------------------------
(* Requests of one statement *)

\* connect: tokens typed in by hand, with or without a refresh token.  The
\* unique key keeps it from recreating a row, soft-deleted rows included.
Connect ==
  /\ acct = None
  /\ \E tok \in {None} \cup {[grant |-> g, serial |-> 1] : g \in {h \in Grants : latest[h] = 0}} :
       /\ acct' = [refresh |-> tok, due |-> TRUE, status |-> "ACTIVE",
                   deleted |-> FALSE, tracked |-> FALSE]
       /\ IF tok = None THEN UNCHANGED latest ELSE Issue(tok.grant)
  /\ UNCHANGED <<configVars, job, appSecret, revoked, lost, crashes>>

Disconnect ==
  /\ Live
  /\ acct' = [acct EXCEPT !.deleted = TRUE]
  /\ UNCHANGED <<configVars, job, platform, lost, crashes>>

\* setTracked and bulkSetTracked; the bulk one reaches soft-deleted rows too.
SetTracked ==
  /\ acct # None
  /\ acct' = [acct EXCEPT !.tracked = ~@]
  /\ UNCHANGED <<configVars, job, platform, lost, crashes>>

AdminWrite ==
  /\ \E a \in Admins : AdminStep(a)
  /\ UNCHANGED tokenVars

-----------------------------------------------------------------------------
(* The world *)

TokenFallsDue ==
  /\ acct # None /\ ~acct.due
  /\ acct' = [acct EXCEPT !.due = TRUE]
  /\ UNCHANGED <<configVars, job, platform, lost, crashes>>

Revoke ==
  /\ \E g \in Grants \ revoked : latest[g] > 0 /\ revoked' = revoked \cup {g}
  /\ UNCHANGED <<configVars, acct, job, appSecret, latest, lost, crashes>>

RotateAppSecret ==
  /\ \E s \in Secrets \ {appSecret} : appSecret' = s
  /\ UNCHANGED <<configVars, acct, job, latest, revoked, lost, crashes>>

CacheTimeout == CacheExpires /\ UNCHANGED tokenVars

\* The process dies: its jobs, its cache and its writes under way are gone.
Crash ==
  /\ crashes < MaxCrashes
  /\ crashes' = crashes + 1
  /\ lost' = lost \cup {job[j].new.grant : j \in {k \in Jobs : job[k].new # None}}
  /\ job' = [j \in Jobs |-> NoJob]
  /\ Restart
  /\ UNCHANGED <<acct, platform>>

-----------------------------------------------------------------------------
JobStep(j) ==
  \/ SweepLoad(j) \/ SyncLoad(j) \/ CallbackLoad(j)
  \/ ConfigLookup(j) \/ ConfigSettle(j) \/ Refused(j)
  \/ Granted(j) \/ Rejected(j) \/ Empty(j) \/ Transient(j) \/ Consented(j)
  \/ WriteTokens(j) \/ UpsertAccount(j) \/ MarkError(j) \/ Fetch(j) \/ SyncFinish(j)

Next ==
  \/ \E j \in Jobs : JobStep(j)
  \/ Connect \/ Disconnect \/ SetTracked \/ AdminWrite
  \/ TokenFallsDue \/ Revoke \/ RotateAppSecret \/ CacheTimeout \/ Crash

Spec == Init /\ [][Next]_vars

\* Statements and promises complete, a request to the platform by its timeout
\* at the latest; the cron timer fires again and again; and a platform that is
\* asked over and over to refresh a token says yes or no in the end.
LocalStep(j) ==
  \/ ConfigLookup(j) \/ ConfigSettle(j) \/ Refused(j)
  \/ Granted(j) \/ Rejected(j) \/ Empty(j) \/ Transient(j) \/ Consented(j)
  \/ WriteTokens(j) \/ UpsertAccount(j) \/ MarkError(j) \/ Fetch(j) \/ SyncFinish(j)

Fairness ==
  /\ \A j \in Jobs : WF_vars(LocalStep(j)) /\ SF_vars(Granted(j) \/ Rejected(j))
  /\ SF_vars(\E j \in Jobs : SweepLoad(j))

FairSpec == Spec /\ Fairness

-----------------------------------------------------------------------------
\* The refresh token in the row still works at the platform unless the user
\* took its grant back, whatever refreshes, syncs and reconnects overlap: a
\* rotated token is either in the row or in the hands of a job about to store
\* it.  Only an answer lost on the way or without an access token, or a crash
\* before the write breaks this (snapchat-token.service.ts 53-76).
StoredTokenWorks ==
  acct # None /\ acct.refresh # None =>
    LET g == acct.refresh.grant IN
    \/ g \in revoked \cup lost
    \/ \E j \in Jobs : job[j].new # None /\ job[j].new.grant = g
    \/ Usable(acct.refresh)

\* A disconnected account comes back only with a new consent: no refresh or
\* sync that was under way when the user disconnected it revives it
\* (ad-accounts.service.ts 56-65, snapchat-token.service.ts 65-76).
DisconnectHolds ==
  [][acct # None /\ acct.deleted /\ ~acct'.deleted
       => \E j \in Jobs : job[j].kind = "callback" /\ job[j].new = acct'.refresh]_vars

\* A tracked account whose token falls due is refreshed, or the user is told to
\* reconnect, unless the platform's configuration is absent or disabled
\* (snapchat-token.scheduler.ts 5-8).
Due == Live /\ acct.tracked /\ acct.due /\ acct.status = "ACTIVE"
DueIsResolved ==
  <>[](stored # None /\ stored.enabled) => [](Due => <>~Due)

\* An account in ERROR needs a new consent: its refresh token is missing, or no
\* longer taken ("the user revoked or the token is past its hard expiry -- only
\* a fresh OAuth flow will fix it", meta-token.service.ts 67-68).
ErrorMeansReconnect ==
  acct # None /\ acct.status = "ERROR" => ~Usable(acct.refresh)
=============================================================================
