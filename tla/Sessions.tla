------------------------------ MODULE Sessions ------------------------------
(***************************************************************************)
(* Signing in and out: the auth service with its refresh token rows        *)
(* (auth/), and a browser whose tabs share the tokens in local storage but *)
(* keep their own copy of the auth store (web lib/api/client.ts,           *)
(* lib/stores/auth.store.ts, the login page, the dashboard's layout).      *)
(***************************************************************************)
EXTENDS Naturals, Absent

CONSTANTS Users,    \* e-mail addresses
          Tabs,     \* tabs of one browser
          MaxPairs  \* token pairs ever issued (bound)

ASSUME SessionsAssumption == MaxPairs \in Nat /\ Nobody \notin Users \cup Nat

VARIABLES
  account,   \* users: "none", "active" or "inactive" (set in the database only)
  sysadmin,  \* users.is_system_admin, set in the database only
  refreshToken, \* the refresh_tokens rows
  owner,     \* per pair issued, the user its two tokens name
  lapsed,    \* tokens past their expiry, as <<"access" or "refresh", pair>>
  storage,   \* local storage: the two tokens, and the persisted user
  tab        \* the tabs

sessionVars == <<account, sysadmin, refreshToken, owner, lapsed, storage, tab>>

Pairs   == 1..MaxPairs
Token   == Pairs \cup {Nobody}
Viewers == [sub : Users, isSystemAdmin : BOOLEAN]
\* What a stored hash is the hash of: the random string of a pair or its refresh token.
Hashes  == {"rawRefreshToken", "refreshToken"} \X Pairs

\* A tab: the user its store holds; the request under way with the tokens it was sent
\* with; `me` is the user the layout's effect closed over when it asked for /auth/me.
Quiet == [pc |-> "idle", user |-> Nobody, sent |-> Nobody, me |-> Nobody]
TabRows == [pc : {"idle", "login", "sent", "refused", "refreshing", "granted", "denied", "retried"},
            user : Viewers \cup {Nobody}, sent : Token, me : Viewers \cup {Nobody}]

SessionTypeOK ==
  /\ account \in [Users -> {"none", "active", "inactive"}] /\ sysadmin \in [Users -> BOOLEAN]
  /\ refreshToken \subseteq [tokenHash : Hashes, userId : Users, revoked : BOOLEAN]
  /\ owner \in [Pairs -> Users \cup {Nobody}]
  /\ lapsed \subseteq {"access", "refresh"} \X Pairs
  /\ storage \in [access : Token, refresh : Token, user : Viewers \cup {Nobody}]
  /\ tab \in [Tabs -> TabRows]

SessionInit ==
  /\ account = [u \in Users |-> "none"] /\ sysadmin = [u \in Users |-> FALSE]
  /\ refreshToken = {} /\ lapsed = {}
  /\ owner = [n \in Pairs |-> Nobody]
  /\ storage = [access |-> Nobody, refresh |-> Nobody, user |-> Nobody]
  /\ tab = [t \in Tabs |-> Quiet]

-----------------------------------------------------------------------------
(* The service.                                                            *)

\* A registered address conflicts.
Register(u) ==
  /\ account[u] = "none"
  /\ account' = [account EXCEPT ![u] = "active"]
  /\ UNCHANGED <<sysadmin, refreshToken, owner, lapsed, storage, tab>>

\* A change made in the database.
UserRowChanges ==
  /\ \/ \E u \in Users : account[u] = "active" /\ account' = [account EXCEPT ![u] = "inactive"] /\ UNCHANGED sysadmin
     \/ \E u \in Users : sysadmin' = [sysadmin EXCEPT ![u] = ~@] /\ UNCHANGED account
  /\ UNCHANGED <<refreshToken, owner, lapsed, storage, tab>>

StoredHashJwt(n) == <<"refreshToken", n>>  \* mutant: the hash of what the client gets
\* What is hashed for the row is the random string, which nobody is given.
StoredHash(n) == <<"rawRefreshToken", n>>

\* A fresh pair n for a user, its row added to `rows`.
GenerateTokenPair(n, u, rows) ==
  /\ owner[n] = Nobody /\ \A m \in Pairs : m < n => owner[m] # Nobody
  /\ owner' = [owner EXCEPT ![n] = u]
  /\ refreshToken' = rows \cup {[tokenHash |-> StoredHash(n), userId |-> u, revoked |-> FALSE]}

\* The row a presented refresh token leads to.
RowOf(n) == {row \in refreshToken : row.tokenHash = <<"refreshToken", n>>}

\* POST auth/refresh: the strategy checks signature and expiry, the service the row,
\* which it revokes before it issues the next pair.
Refresh(t) ==
  /\ tab[t].pc = "refreshing"
  /\ LET n == tab[t].sent
         good == {row \in RowOf(n) : row.userId = owner[n] /\ ~row.revoked}
         revoked == (refreshToken \ good) \cup {[row EXCEPT !.revoked = TRUE] : row \in good}
     IN  IF good # {} /\ <<"refresh", n>> \notin lapsed
         THEN \E m \in Pairs : /\ GenerateTokenPair(m, owner[n], revoked)
                               /\ tab' = [tab EXCEPT ![t].pc = "granted", ![t].sent = m]
         ELSE tab' = [tab EXCEPT ![t].pc = "denied"] /\ UNCHANGED <<refreshToken, owner>>
  /\ UNCHANGED <<account, sysadmin, lapsed, storage>>

TokenLapses ==
  /\ \E kind \in {"access", "refresh"}, n \in Pairs : owner[n] # Nobody /\ lapsed' = lapsed \cup {<<kind, n>>}
  /\ UNCHANGED <<account, sysadmin, refreshToken, owner, storage, tab>>

\* JwtStrategy: an access token in force of a user who is active.
Admitted(n) ==
  /\ n # Nobody /\ <<"access", n>> \notin lapsed
  /\ account[owner[n]] = "active"

-----------------------------------------------------------------------------
(* The browser.                                                            *)

\* The right password of an active user; a refusal changes nothing in the browser.
Login(t, u) ==
  /\ tab[t].pc = "idle" /\ account[u] = "active"
  /\ \E n \in Pairs : /\ GenerateTokenPair(n, u, refreshToken)
                      /\ tab' = [tab EXCEPT ![t].pc = "login", ![t].sent = n]
  /\ UNCHANGED <<account, sysadmin, lapsed, storage>>

StoreLogin(t) ==
  /\ tab[t].pc = "login"
  /\ LET n == tab[t].sent
         user == [sub |-> owner[n], isSystemAdmin |-> sysadmin[owner[n]]]
     IN  /\ storage' = [access |-> n, refresh |-> n, user |-> user]
         /\ tab' = [tab EXCEPT ![t] = [Quiet EXCEPT !.user = user]]
  /\ UNCHANGED <<account, sysadmin, refreshToken, owner, lapsed>>

\* The answer to a login never arrives.
LoginLost(t) ==
  /\ tab[t].pc = "login"
  /\ tab' = [tab EXCEPT ![t].pc = "idle", ![t].sent = Nobody]
  /\ UNCHANGED <<account, sysadmin, refreshToken, owner, lapsed, storage>>

\* A page is loaded: the store is restored from local storage, and the layout asks who
\* the user is, with whatever token is stored; without a user it goes to the login page.
Load(t) ==
  /\ tab[t].pc = "idle"
  /\ tab' = [tab EXCEPT ![t] =
       IF storage.user = Nobody THEN Quiet
       ELSE [pc |-> "sent", user |-> storage.user, sent |-> storage.access, me |-> storage.user]]
  /\ UNCHANGED <<account, sysadmin, refreshToken, owner, lapsed, storage>>

\* Any other call of the API.
Call(t) ==
  /\ tab[t].pc = "idle" /\ tab[t].user # Nobody
  /\ tab' = [tab EXCEPT ![t].pc = "sent", ![t].sent = storage.access]
  /\ UNCHANGED <<account, sysadmin, refreshToken, owner, lapsed, storage>>

\* The answer.  /auth/me that differs from the user it was asked for sets the user
\* again, in the tab and in storage, from the closure.
Answer(t) ==
  /\ tab[t].pc \in {"sent", "retried"}
  /\ IF ~Admitted(tab[t].sent)
     THEN /\ tab' = [tab EXCEPT ![t] = IF tab[t].pc = "sent" THEN [tab[t] EXCEPT !.pc = "refused"]
                                       ELSE [Quiet EXCEPT !.user = tab[t].user]]
          /\ UNCHANGED storage
     ELSE LET flag == sysadmin[owner[tab[t].sent]]
              user == IF tab[t].me # Nobody /\ tab[t].me.isSystemAdmin # flag
                      THEN [tab[t].me EXCEPT !.isSystemAdmin = flag] ELSE tab[t].user
          IN  /\ tab' = [tab EXCEPT ![t] = [Quiet EXCEPT !.user = user]]
              /\ storage' = IF user # tab[t].user THEN [storage EXCEPT !.user = user] ELSE storage
  /\ UNCHANGED <<account, sysadmin, refreshToken, owner, lapsed>>

\* A 401: the stored refresh token is tried; without one the tab goes to the login page.
TryRefresh(t) ==
  /\ tab[t].pc = "refused"
  /\ tab' = [tab EXCEPT ![t] = IF storage.refresh = Nobody THEN Quiet
                               ELSE [tab[t] EXCEPT !.pc = "refreshing", !.sent = storage.refresh]]
  /\ UNCHANGED <<account, sysadmin, refreshToken, owner, lapsed, storage>>

\* The network fails, which counts as a refusal.
RefreshLost(t) ==
  /\ tab[t].pc \in {"refreshing", "granted"}
  /\ tab' = [tab EXCEPT ![t].pc = "denied"]
  /\ UNCHANGED <<account, sysadmin, refreshToken, owner, lapsed, storage>>

\* Granted, the pair is stored and the call repeated; denied, whatever tokens are in
\* storage by now are removed (the persisted user is not) and the login page loads.
Refreshed(t) ==
  /\ tab[t].pc \in {"granted", "denied"}
  /\ IF tab[t].pc = "granted"
     THEN /\ storage' = [storage EXCEPT !.access = tab[t].sent, !.refresh = tab[t].sent]
          /\ tab' = [tab EXCEPT ![t].pc = "retried"]
     ELSE /\ storage' = [storage EXCEPT !.access = Nobody, !.refresh = Nobody]
          /\ tab' = [tab EXCEPT ![t] = Quiet]
  /\ UNCHANGED <<account, sysadmin, refreshToken, owner, lapsed>>

\* The sidebar: local storage is cleared, and the service is not told.  A call that is
\* under way goes on.
SignOut(t) ==
  /\ tab[t].user # Nobody
  /\ storage' = [access |-> Nobody, refresh |-> Nobody, user |-> Nobody]
  /\ tab' = [tab EXCEPT ![t].user = Nobody]
  /\ UNCHANGED <<account, sysadmin, refreshToken, owner, lapsed>>

SessionNext ==
  \/ UserRowChanges \/ TokenLapses
  \/ \E u \in Users : Register(u)
  \/ \E t \in Tabs : \/ StoreLogin(t) \/ LoginLost(t) \/ Load(t) \/ Call(t) \/ Answer(t)
                     \/ TryRefresh(t) \/ Refresh(t) \/ RefreshLost(t) \/ Refreshed(t) \/ SignOut(t)
                     \/ \E u \in Users : Login(t, u)

SessionSpec == SessionInit /\ [][SessionNext]_sessionVars

-----------------------------------------------------------------------------
\* Once any tab has signed out, or a refresh was refused, no tab brings a session back:
\* tokens return to the browser only with a login's answer, whatever refreshes and calls
\* of other tabs were under way (client.ts 37-58, sidebar.tsx 109-113).
SignedOutStaysOut ==
  [][storage.access = Nobody /\ storage'.access # Nobody =>
       \E t \in Tabs : tab[t].pc = "login" /\ tab'[t].pc = "idle"]_sessionVars
=============================================================================
