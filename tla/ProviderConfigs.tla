--------------------------- MODULE ProviderConfigs ---------------------------
(***************************************************************************)
(* The credentials of one ad platform: the provider_configs row that       *)
(* administrators write, and the cache of decrypted values that every OAuth *)
(* exchange and token refresh of the process reads it through              *)
(* (src/apps/api/src/provider-configs/provider-configs.service.ts).        *)
(*                                                                         *)
(* The service is asynchronous: a read of the row and the cache.set that    *)
(* follows it are separate steps, and so are the existence check, the       *)
(* commit and the cache.delete of a write.  Between them any other request  *)
(* may run.  The 60 seconds of the TTL are a step that may come at any      *)
(* time.  Of a row only what callers tell apart is kept: its app secret and *)
(* its isEnabled flag.                                                     *)
(***************************************************************************)
EXTENDS FiniteSets, Absent

CONSTANTS Admins,    \* requests of administrators that may run at once
          Jobs,      \* callers of getEnabled that may run at once
          Secrets,   \* app secrets
          Offered    \* the requests administrators make

VARIABLES stored,    \* the provider_configs row of the platform, or None
          cache,     \* the cache entry of the platform, or None
          reader,    \* per job: where its call of getEnabled is
          admin      \* per admin: where its write is

configVars == <<stored, cache, reader, admin>>

Rows == [secret : Secrets, enabled : BOOLEAN]

\* A cache entry.  `raced` is history: a write committed between the read this
\* entry was filled from and the cache.set that filled it.
Entries == [secret : Secrets, raced : BOOLEAN]

NoRead == [pc |-> "idle", row |-> None, raced |-> FALSE]
Reads == [pc : {"idle", "fetched", "served", "refused"},
          row : Rows \cup {None}, raced : BOOLEAN]

\* What a request body may say; None is a field left out of the DTO.
Upserts == [op : {"upsert"}, secret : Secrets \cup {None},
            enabled : BOOLEAN \cup {None}]
Toggles == [op : {"setEnabled"}, secret : {None}, enabled : BOOLEAN]
Deletes == [op : {"delete"}, secret : {None}, enabled : {None}]
Requests == Upserts \cup Toggles \cup Deletes

ASSUME OfferedAreRequests == Offered \subseteq Requests
ASSUME NoneIsNoValue == None \notin Secrets \cup BOOLEAN \cup Rows

NoWrite == [pc |-> "idle", request |-> None, existing |-> None]
Writes == [pc : {"idle", "commit", "invalidate"},
           request : Requests \cup {None}, existing : Rows \cup {None}]

ConfigTypeOK ==
  /\ stored \in Rows \cup {None}
  /\ cache \in Entries \cup {None}
  /\ reader \in [Jobs -> Reads]
  /\ admin \in [Admins -> Writes]

\* The process starts, on whatever an earlier one left in the database.
ConfigInit ==
  /\ stored \in Rows \cup {None}
  /\ cache = None
  /\ reader = [j \in Jobs |-> NoRead]
  /\ admin = [a \in Admins |-> NoWrite]

-----------------------------------------------------------------------------
(* getEnabled *)

\* A live cache entry answers at once; otherwise the row is fetched.
Lookup(j) ==
  /\ reader[j].pc = "idle"
  /\ reader' = [reader EXCEPT ![j] =
       IF cache # None
       THEN [pc |-> "served", raced |-> FALSE,
             row |-> [secret |-> cache.secret, enabled |-> TRUE]]
       ELSE [pc |-> "fetched", raced |-> FALSE, row |-> stored]]
  /\ UNCHANGED <<stored, cache, admin>>

\* The fetched row is absent or disabled (VALIDATION), or fills the cache.
Settle(j) ==
  /\ reader[j].pc = "fetched"
  /\ LET usable == reader[j].row # None /\ reader[j].row.enabled
     IN  /\ reader' = [reader EXCEPT ![j] =
                         IF usable
                         THEN [@ EXCEPT !.pc = "served", !.raced = FALSE]
                         ELSE [NoRead EXCEPT !.pc = "refused"]]
         /\ cache' = IF usable
                     THEN [secret |-> reader[j].row.secret,
                           raced |-> reader[j].raced]
                     ELSE cache
  /\ UNCHANGED <<stored, admin>>

\* The caller takes the answer and is done with getEnabled.
Release(j) == reader' = [reader EXCEPT ![j] = NoRead]

\* The entry's 60 seconds are over: the next lookup takes it for a miss.
CacheExpires ==
  /\ cache # None
  /\ cache' = None
  /\ UNCHANGED <<stored, reader, admin>>

-----------------------------------------------------------------------------
(* upsert, setEnabled, delete *)

\* The first read.  Creating a row takes an appSecret; toggling or deleting
\* takes a row.  A request refused here changes nothing.
Submit(a, request) ==
  /\ admin[a].pc = "idle"
  /\ stored = None => request.op = "upsert" /\ request.secret # None
  /\ admin' = [admin EXCEPT ![a] =
                 [pc |-> "commit", request |-> request, existing |-> stored]]
  /\ UNCHANGED <<stored, cache, reader>>

\* A field left out of the DTO keeps the value the first read saw.
MergedRow(write) ==
  LET had == write.existing IN
  [secret |-> IF write.request.secret # None THEN write.request.secret
                                             ELSE had.secret,
   enabled |-> IF write.request.enabled # None THEN write.request.enabled
               ELSE IF had # None THEN had.enabled ELSE FALSE]

\* The write of the row.  Every read in flight now holds a row of the past.
CommitRow(a, row) ==
  /\ stored' = row
  /\ reader' = [j \in Jobs |->
                  IF reader[j].pc = "fetched"
                  THEN [reader[j] EXCEPT !.raced = TRUE] ELSE reader[j]]
  /\ admin' = [admin EXCEPT ![a].pc = "invalidate"]
  /\ UNCHANGED cache

CommitUpsert(a) ==
  /\ admin[a].pc = "commit"
  /\ admin[a].request.op = "upsert"
  /\ CommitRow(a, MergedRow(admin[a]))

CommitToggle(a) ==
  /\ admin[a].pc = "commit"
  /\ admin[a].request.op = "setEnabled"
  /\ stored # None
  /\ CommitRow(a, [stored EXCEPT !.enabled = admin[a].request.enabled])

CommitDelete(a) ==
  /\ admin[a].pc = "commit"
  /\ admin[a].request.op = "delete"
  /\ stored # None
  /\ CommitRow(a, None)

\* update and delete of a row that is gone throw: no cache.delete follows.
CommitFails(a) ==
  /\ admin[a].pc = "commit"
  /\ admin[a].request.op # "upsert"
  /\ stored = None
  /\ admin' = [admin EXCEPT ![a] = NoWrite]
  /\ UNCHANGED <<stored, cache, reader>>

Commit(a) == CommitUpsert(a) \/ CommitToggle(a) \/ CommitDelete(a) \/ CommitFails(a)

InvalidateUpserts(a) ==  \* mutant: only upsert drops the cache entry
  /\ admin[a].pc = "invalidate"
  /\ cache' = IF admin[a].request.op = "upsert" THEN None ELSE cache
  /\ admin' = [admin EXCEPT ![a] = NoWrite]
  /\ UNCHANGED <<stored, reader>>

Invalidate(a) ==
  /\ admin[a].pc = "invalidate"
  /\ cache' = None
  /\ admin' = [admin EXCEPT ![a] = NoWrite]
  /\ UNCHANGED <<stored, reader>>

-----------------------------------------------------------------------------
AdminStep(a) == (\E request \in Offered : Submit(a, request)) \/ Commit(a) \/ Invalidate(a)

\* A caller that only looks the credentials up and lets go of them.
LetGo(j) ==
  /\ reader[j].pc \in {"served", "refused"}
  /\ Release(j)
  /\ UNCHANGED <<stored, cache, admin>>

\* The process dies and another starts: its requests and its cache are gone.
Restart ==
  /\ cache' = None
  /\ reader' = [j \in Jobs |-> NoRead]
  /\ admin' = [a \in Admins |-> NoWrite]
  /\ UNCHANGED stored

ConfigNext ==
  \/ \E j \in Jobs : Lookup(j) \/ Settle(j) \/ LetGo(j)
  \/ \E a \in Admins : AdminStep(a)
  \/ CacheExpires
  \/ Restart

ConfigSpec == ConfigInit /\ [][ConfigNext]_configVars

-----------------------------------------------------------------------------
\* Once every write that has committed has also deleted the cache entry, the
\* cache holds the stored secret of an enabled row, whatever order the reads
\* and the writes ran in; the one exception is an entry filled by a read that
\* a commit overtook, which lives until its TTL
\* (provider-configs.service.ts 18-21: "Invalidated on any write so rotated
\* secrets become live within one cycle").
CacheIsCurrent ==
  /\ cache # None
  /\ ~cache.raced
  /\ \A a \in Admins : admin[a].pc # "invalidate"
  => stored # None /\ stored.enabled /\ cache.secret = stored.secret
=============================================================================
