------------------------ MODULE ProviderConfigs_proofs ------------------------
(***************************************************************************)
(* What the cache of provider credentials guarantees to any number of      *)
(* administrators and callers, and for any secrets; and what pages that    *)
(* save settings and credentials, any number of them, may rely on.         *)
(***************************************************************************)
EXTENDS ProviderConfigs, Saves, TLAPS

USE OfferedAreRequests, NoneIsNoValue

\* A write on its way to its commit holds a request that passed the checks of
\* the handler against the row it saw.
WriteIsChecked(w) ==
  w.pc = "commit" =>
    /\ w.request \in Requests
    /\ (w.existing = None /\ w.request.op = "upsert") => w.request.secret # None
WritesAreChecked == \A a \in Admins : WriteIsChecked(admin[a])

\* A fetched row that no commit overtook is the stored row.
FetchesAreCurrent ==
  \A j \in Jobs : reader[j].pc = "fetched" /\ ~reader[j].raced => reader[j].row = stored

\* The inductive invariant: CacheIsCurrent is kept by Settle only because of
\* FetchesAreCurrent, and the type of the row by an upsert only because of
\* WritesAreChecked.
Inv == ConfigTypeOK /\ WritesAreChecked /\ FetchesAreCurrent /\ CacheIsCurrent

-----------------------------------------------------------------------------
LEMMA IdleTyped == NoRead \in Reads /\ NoWrite \in Writes /\ WriteIsChecked(NoWrite)
  BY DEF NoRead, Reads, NoWrite, Writes, WriteIsChecked

LEMMA ReadTyped ==
  ASSUME NEW x \in Reads, NEW c \in {"idle", "fetched", "served", "refused"}, NEW b \in BOOLEAN
  PROVE  /\ [x EXCEPT !.pc = c, !.raced = b] \in Reads
         /\ [x EXCEPT !.raced = b] \in Reads
         /\ [NoRead EXCEPT !.pc = c] \in Reads
  BY DEF Reads, NoRead

\* Merging what a request says with what its first read saw yields a row.
LEMMA MergedTyped ==
  ASSUME NEW w \in Writes, WriteIsChecked(w), w.pc = "commit", w.request.op = "upsert"
  PROVE  MergedRow(w) \in Rows
<1>1. w.request \in Upserts
  BY DEF WriteIsChecked, Requests, Upserts, Toggles, Deletes
<1>2. w.request.secret \in Secrets \cup {None} /\ w.request.enabled \in BOOLEAN \cup {None}
  BY <1>1 DEF Upserts
<1>3. w.existing = None => w.request.secret # None
  BY DEF WriteIsChecked
<1>4. w.existing \in Rows \cup {None}
  BY DEF Writes
<1>5. w.existing # None => w.existing.secret \in Secrets /\ w.existing.enabled \in BOOLEAN
  BY <1>4 DEF Rows
<1>6. (IF w.request.secret # None THEN w.request.secret ELSE w.existing.secret) \in Secrets
  BY <1>2, <1>3, <1>5
<1>7. (IF w.request.enabled # None THEN w.request.enabled
       ELSE IF w.existing # None THEN w.existing.enabled ELSE FALSE) \in BOOLEAN
  BY <1>2, <1>5, Zenon
<1>8. QED
  BY <1>6, <1>7 DEF MergedRow, Rows

-----------------------------------------------------------------------------
LEMMA InvInit == ConfigInit => Inv
  BY IdleTyped DEF ConfigInit, Inv, ConfigTypeOK, WritesAreChecked, FetchesAreCurrent,
                   CacheIsCurrent, NoRead, NoWrite

LEMMA LookupKeeps == ASSUME Inv, NEW j \in Jobs, Lookup(j) PROVE Inv'
<1> DEFINE r == IF cache # None
                THEN [pc |-> "served", raced |-> FALSE,
                      row |-> [secret |-> cache.secret, enabled |-> TRUE]]
                ELSE [pc |-> "fetched", raced |-> FALSE, row |-> stored]
<1>1. r \in Reads
  BY DEF Inv, ConfigTypeOK, Reads, Rows, Entries
<1>2. reader' = [reader EXCEPT ![j] = r] /\ UNCHANGED <<stored, cache, admin>>
  BY DEF Lookup
<1>3. r.pc = "fetched" => r.row = stored
  OBVIOUS
<1> HIDE DEF r
<1>4. reader' \in [Jobs -> Reads]
  BY <1>1, <1>2 DEF Inv, ConfigTypeOK
<1>5. FetchesAreCurrent'
  BY <1>2, <1>3 DEF Inv, ConfigTypeOK, FetchesAreCurrent
<1>6. QED
  BY <1>2, <1>4, <1>5 DEF Inv, ConfigTypeOK, WritesAreChecked, WriteIsChecked, CacheIsCurrent

LEMMA SettleKeeps == ASSUME Inv, NEW j \in Jobs, Settle(j) PROVE Inv'
<1> DEFINE usable == reader[j].row # None /\ reader[j].row.enabled
           r == IF usable THEN [reader[j] EXCEPT !.pc = "served", !.raced = FALSE]
                ELSE [NoRead EXCEPT !.pc = "refused"]
<1>0. reader[j] \in Reads
  BY DEF Inv, ConfigTypeOK
<1>1. r \in Reads /\ r.pc # "fetched"
  <2>1. r \in Reads
    BY <1>0, ReadTyped
  <2>2. r.pc # "fetched"
    BY <1>0 DEF NoRead, Reads
  <2>3. QED
    BY <2>1, <2>2
<1>2. reader' = [reader EXCEPT ![j] = r] /\ UNCHANGED <<stored, admin>>
  BY DEF Settle
<1>3. cache' = IF usable THEN [secret |-> reader[j].row.secret, raced |-> reader[j].raced]
               ELSE cache
  BY DEF Settle
<1>4. reader[j].pc = "fetched" /\ (~reader[j].raced => reader[j].row = stored)
  BY DEF Settle, Inv, FetchesAreCurrent
<1>5. reader[j].raced \in BOOLEAN /\ reader[j].row \in Rows \cup {None}
  BY <1>0 DEF Reads
<1>6. cache' \in Entries \cup {None}
  BY <1>3, <1>5 DEF Inv, ConfigTypeOK, Entries, Rows
<1>7. CacheIsCurrent'
  <2>1. CASE usable
    BY <1>2, <1>3, <1>4, <2>1 DEF CacheIsCurrent
  <2>2. CASE ~usable
    BY <1>2, <1>3, <2>2 DEF Inv, CacheIsCurrent
  <2>3. QED
    BY <2>1, <2>2
<1> HIDE DEF r, usable
<1>8. reader' \in [Jobs -> Reads] /\ FetchesAreCurrent'
  BY <1>1, <1>2 DEF Inv, ConfigTypeOK, FetchesAreCurrent
<1>9. QED
  BY <1>2, <1>6, <1>7, <1>8 DEF Inv, ConfigTypeOK, WritesAreChecked, WriteIsChecked

LEMMA ReleaseKeeps ==
  ASSUME Inv, NEW j \in Jobs, Release(j), UNCHANGED <<stored, cache, admin>> PROVE Inv'
<1>1. reader' = [reader EXCEPT ![j] = NoRead] /\ NoRead.pc # "fetched"
  BY DEF Release, NoRead
<1>2. QED
  BY <1>1, IdleTyped DEF Inv, ConfigTypeOK, WritesAreChecked, WriteIsChecked,
                         FetchesAreCurrent, CacheIsCurrent

LEMMA SubmitKeeps ==
  ASSUME Inv, NEW a \in Admins, NEW q \in Offered, Submit(a, q) PROVE Inv'
<1> DEFINE w == [pc |-> "commit", request |-> q, existing |-> stored]
<1>1. w \in Writes /\ WriteIsChecked(w) /\ w.pc # "invalidate"
  BY DEF Submit, Inv, ConfigTypeOK, Writes, WriteIsChecked
<1>2. admin' = [admin EXCEPT ![a] = w] /\ UNCHANGED <<stored, cache, reader>>
  BY DEF Submit
<1>3. admin[a].pc # "invalidate"
  BY DEF Submit
<1> HIDE DEF w
<1>4. admin' \in [Admins -> Writes] /\ WritesAreChecked'
  BY <1>1, <1>2 DEF Inv, ConfigTypeOK, WritesAreChecked
<1>5. CacheIsCurrent'
  BY <1>1, <1>2, <1>3 DEF Inv, ConfigTypeOK, CacheIsCurrent
<1>6. QED
  BY <1>2, <1>4, <1>5 DEF Inv, ConfigTypeOK, FetchesAreCurrent

\* The one step that may part the cache from the row: from here to the
\* invalidation the invariant asks nothing of the cache.
LEMMA CommitRowKeeps ==
  ASSUME Inv, NEW a \in Admins, NEW row \in Rows \cup {None}, CommitRow(a, row) PROVE Inv'
<1>1. stored' = row /\ cache' = cache /\ admin' = [admin EXCEPT ![a].pc = "invalidate"]
  BY DEF CommitRow
<1>2. reader' = [j \in Jobs |-> IF reader[j].pc = "fetched"
                                THEN [reader[j] EXCEPT !.raced = TRUE] ELSE reader[j]]
  BY DEF CommitRow
<1>3. reader' \in [Jobs -> Reads]
  BY <1>2, ReadTyped DEF Inv, ConfigTypeOK
<1>4. FetchesAreCurrent'
  <2> SUFFICES ASSUME NEW j \in Jobs PROVE reader'[j].pc = "fetched" => reader'[j].raced
    BY DEF FetchesAreCurrent
  <2>1. reader[j] \in Reads
    BY DEF Inv, ConfigTypeOK
  <2>2. QED
    BY <1>2, <2>1 DEF Reads
<1>5. [admin[a] EXCEPT !.pc = "invalidate"] \in Writes
  BY DEF Inv, ConfigTypeOK, Writes
<1>6. admin' = [admin EXCEPT ![a] = [admin[a] EXCEPT !.pc = "invalidate"]]
  BY <1>1
<1>7. admin' \in [Admins -> Writes] /\ admin'[a].pc = "invalidate"
  <2>1. [admin[a] EXCEPT !.pc = "invalidate"].pc = "invalidate"
    BY DEF Inv, ConfigTypeOK, Writes
  <2>2. QED
    BY <1>5, <1>6, <2>1 DEF Inv, ConfigTypeOK
<1>8. WritesAreChecked'
  BY <1>6, <1>7 DEF Inv, ConfigTypeOK, WritesAreChecked, WriteIsChecked
<1>9. QED
  BY <1>1, <1>3, <1>4, <1>7, <1>8 DEF Inv, ConfigTypeOK, CacheIsCurrent

LEMMA CommitKeeps == ASSUME Inv, NEW a \in Admins, Commit(a) PROVE Inv'
<1>0. admin[a] \in Writes /\ WriteIsChecked(admin[a])
  BY DEF Inv, ConfigTypeOK, WritesAreChecked
<1>1. CASE CommitUpsert(a)
  BY <1>0, <1>1, MergedTyped, CommitRowKeeps DEF CommitUpsert
<1>2. CASE CommitToggle(a)
  <2>1. admin[a].request \in Toggles
    BY <1>0, <1>2 DEF CommitToggle, WriteIsChecked, Requests, Upserts, Toggles, Deletes
  <2>2. stored \in Rows /\ admin[a].request.enabled \in BOOLEAN
    BY <1>2, <2>1 DEF CommitToggle, Inv, ConfigTypeOK, Toggles
  <2>3. [stored EXCEPT !.enabled = admin[a].request.enabled] \in Rows
    BY <2>2 DEF Rows
  <2>4. QED
    BY <1>2, <2>3, CommitRowKeeps DEF CommitToggle
<1>3. CASE CommitDelete(a)
  BY <1>3, CommitRowKeeps DEF CommitDelete
<1>4. CASE CommitFails(a)
  <2>1. admin' = [admin EXCEPT ![a] = NoWrite] /\ admin[a].pc # "invalidate"
        /\ UNCHANGED <<stored, cache, reader>>
    BY <1>4 DEF CommitFails
  <2>2. NoWrite.pc # "invalidate"
    BY DEF NoWrite
  <2>3. QED
    BY <2>1, <2>2, IdleTyped DEF Inv, ConfigTypeOK, WritesAreChecked, FetchesAreCurrent, CacheIsCurrent
<1>5. QED
  BY <1>1, <1>2, <1>3, <1>4 DEF Commit

LEMMA InvalidateKeeps == ASSUME Inv, NEW a \in Admins, Invalidate(a) PROVE Inv'
  BY IdleTyped DEF Invalidate, Inv, ConfigTypeOK, WritesAreChecked, FetchesAreCurrent, CacheIsCurrent

LEMMA RestartKeeps == ASSUME Inv, Restart PROVE Inv'
<1>1. NoRead.pc # "fetched"
  BY DEF NoRead
<1>2. QED
  BY <1>1, IdleTyped DEF Restart, Inv, ConfigTypeOK, WritesAreChecked, FetchesAreCurrent, CacheIsCurrent

LEMMA InvStep == Inv /\ [ConfigNext]_configVars => Inv'
<1> SUFFICES ASSUME Inv, [ConfigNext]_configVars PROVE Inv'
  OBVIOUS
<1>1. ASSUME NEW j \in Jobs, Lookup(j) \/ Settle(j) \/ LetGo(j) PROVE Inv'
  BY <1>1, LookupKeeps, SettleKeeps, ReleaseKeeps DEF LetGo
<1>2. ASSUME NEW a \in Admins, AdminStep(a) PROVE Inv'
  BY <1>2, SubmitKeeps, CommitKeeps, InvalidateKeeps DEF AdminStep
<1>3. CASE CacheExpires
  BY <1>3 DEF CacheExpires, Inv, ConfigTypeOK, WritesAreChecked, WriteIsChecked,
              FetchesAreCurrent, CacheIsCurrent
<1>4. CASE Restart
  BY <1>4, RestartKeeps
<1>5. CASE UNCHANGED configVars
  BY <1>5 DEF configVars, Inv, ConfigTypeOK, WritesAreChecked, WriteIsChecked,
              FetchesAreCurrent, CacheIsCurrent
<1>6. QED
  BY <1>1, <1>2, <1>3, <1>4, <1>5 DEF ConfigNext

\* Whatever administrators and callers do, in any order, the row, the cache and
\* the calls under way have the shape the code gives them: merging a partial
\* request with the row never leaves a row without a secret
\* (provider-configs.service.ts 84-114).
THEOREM ConfigTypeCorrect == ConfigSpec => []ConfigTypeOK
<1>1. Inv => ConfigTypeOK
  BY DEF Inv
<1>2. QED
  BY <1>1, InvInit, InvStep, PTL DEF ConfigSpec

\* For any number of administrators and callers: with no invalidation
\* outstanding, a cache entry is the stored, enabled credential, unless a
\* commit overtook the read that filled it (provider-configs.service.ts 18-21).
THEOREM CacheCorrect == ConfigSpec => []CacheIsCurrent
<1>1. Inv => CacheIsCurrent
  BY DEF Inv
<1>2. QED
  BY <1>1, InvInit, InvStep, PTL DEF ConfigSpec
-----------------------------------------------------------------------------
(* Settings: what a page takes for saved is in force *)

\* The fields a PATCH has written.
Sent(n) == {FieldOrder[i] : i \in 1..n}

\* What a page knows of the settings in force, r: what it loaded, or, while its PATCH is
\* under way, what it has sent so far.
Knows(x, r) ==
  /\ x.pc = "editing" => \A f \in Fields \ x.stale : x.initialSettings[f] = r[f]
  /\ x.pc = "saving" => \A f \in Fields \ x.stale :
       r[f] = IF f \in Sent(x.done) THEN x.body[f] ELSE x.initialSettings[f]
SettingsInv == SettingsTypeOK /\ \A p \in Pages : Knows(page[p], Resolved)

LEMMA OrderIs == /\ Len(FieldOrder) \in Nat
                 /\ \A i \in 1..Len(FieldOrder) : FieldOrder[i] \in Fields
                 /\ \A n \in 0..Len(FieldOrder) : Sent(n) \subseteq Fields
                 /\ Sent(0) = {} /\ Sent(Len(FieldOrder)) = Fields
                 /\ \A n \in 0..(Len(FieldOrder) - 1) : Sent(n + 1) = Sent(n) \cup {FieldOrder[n + 1]}
<1>1. Len(FieldOrder) \in Nat
  BY SettingsAssumption
<1>2. \A n \in 0..(Len(FieldOrder) - 1) : Sent(n + 1) = Sent(n) \cup {FieldOrder[n + 1]}
  <2> SUFFICES ASSUME NEW n \in 0..(Len(FieldOrder) - 1) PROVE Sent(n + 1) = Sent(n) \cup {FieldOrder[n + 1]}
    OBVIOUS
  <2>1. \A i \in Nat : i \in 1..(n + 1) <=> i \in 1..n \/ i = n + 1
    BY <1>1
  <2> QED
    BY <1>1, <2>1 DEF Sent
<1> QED
  BY <1>1, <1>2 DEF Sent, Fields

\* A row, where there is one, is what is resolved.
LEMMA ValueIs ==
  ASSUME NEW row, row \in SUBSET FieldValues, \A a, b \in row : a = b, NEW o \in FieldValues
  PROVE  /\ Value(row, o) \in FieldValues
         /\ \A v : row = {v} => Value(row, o) = v
  BY DEF Value

LEMMA ResolvedIs ==
  ASSUME NEW g \in Layer, NEW r \in Layer
  PROVE  /\ ResolvedLayers(g, r) \in Forms
         /\ \A f \in Fields : \A v : r[f] = {v} => ResolvedLayers(g, r)[f] = v
<1> DEFINE low(f) == Value(g[f], Defaults[f])
<1>1. \A f \in Fields : low(f) \in FieldValues /\ Value(r[f], low(f)) \in FieldValues
                        /\ \A v : r[f] = {v} => Value(r[f], low(f)) = v
  <2> SUFFICES ASSUME NEW f \in Fields
               PROVE  /\ low(f) \in FieldValues /\ Value(r[f], low(f)) \in FieldValues
                      /\ \A v : r[f] = {v} => Value(r[f], low(f)) = v
    OBVIOUS
  <2>1. Defaults[f] \in FieldValues
    BY SettingsAssumption DEF Forms
  <2>2. g[f] \in SUBSET FieldValues /\ \A a, b \in g[f] : a = b
    BY DEF Layer
  <2>3. r[f] \in SUBSET FieldValues /\ \A a, b \in r[f] : a = b
    BY DEF Layer
  <2>4. low(f) \in FieldValues
    BY <2>1, <2>2, ValueIs
  <2> HIDE DEF low
  <2> QED
    BY <2>3, <2>4, ValueIs
<1> HIDE DEF low
<1>2. ResolvedLayers(g, r) = [f \in Fields |-> Value(r[f], low(f))]
  BY DEF ResolvedLayers, low
<1> QED
  BY <1>1, <1>2 DEF Forms

\* A layer with one field written or emptied.
LEMMA LayerWrite ==
  ASSUME NEW r \in Layer, NEW f \in Fields, NEW v, v = {} \/ \E a \in FieldValues : v = {a}
  PROVE  [r EXCEPT ![f] = v] \in Layer
<1>1. v \in SUBSET FieldValues /\ \A a, b \in v : a = b
  OBVIOUS
<1> QED
  BY <1>1 DEF Layer

\* Writing one field of a layer changes what is resolved for that field only.
LEMMA OthersResolved ==
  ASSUME NEW g, NEW r, NEW h, NEW q, NEW f \in Fields, \A e \in Fields : e # f => g[e] = h[e] /\ r[e] = q[e]
  PROVE  \A e \in Fields : e # f => ResolvedLayers(g, r)[e] = ResolvedLayers(h, q)[e]
  BY DEF ResolvedLayers


\* Somebody wrote field f: the pages that do not know it have it down as stale, and what
\* they know of the other fields stands.
LEMMA OvertakenKnows ==
  ASSUME NEW x \in PageRows, NEW f \in Fields, NEW y, y = [x EXCEPT !.stale = x.stale \cup {f}],
         NEW r, NEW q, Knows(x, r), \A e \in Fields : e # f => q[e] = r[e]
  PROVE  y \in PageRows /\ Knows(y, q)
<1>1. y \in PageRows /\ y.pc = x.pc /\ y.stale = x.stale \cup {f} /\ y.initialSettings = x.initialSettings
      /\ y.body = x.body /\ y.done = x.done
  BY DEF PageRows
<1> QED
  BY <1>1 DEF Knows

LEMMA AdminWritesKeeps ==
  ASSUME SettingsInv, AdminWrites
  PROVE  SettingsInv'
<1>1. PICK f \in Fields, v \in FieldValues :
        /\ \/ globalRow' = [globalRow EXCEPT ![f] = {v}] /\ UNCHANGED orgRow
           \/ globalRow' = [globalRow EXCEPT ![f] = {}] /\ UNCHANGED orgRow
           \/ orgRow' = [orgRow EXCEPT ![f] = {v}] /\ UNCHANGED globalRow
        /\ page' = Overtaken(Pages, {f})
  BY DEF AdminWrites
<1>2. globalRow \in Layer /\ orgRow \in Layer /\ page \in [Pages -> PageRows]
  BY DEF SettingsInv, SettingsTypeOK
<1>3. globalRow' \in Layer /\ orgRow' \in Layer
  <2>1. PICK w, e : w = {v} /\ e = {}
    OBVIOUS
  <2>2. /\ [globalRow EXCEPT ![f] = w] \in Layer /\ [globalRow EXCEPT ![f] = e] \in Layer
        /\ [orgRow EXCEPT ![f] = w] \in Layer
    BY <1>2, <2>1, LayerWrite
  <2> QED
    BY <1>1, <1>2, <2>1, <2>2
<1>4. \A e \in Fields : e # f => globalRow'[e] = globalRow[e] /\ orgRow'[e] = orgRow[e]
  BY <1>1, <1>2 DEF Layer
<1>5. \A e \in Fields : e # f => Resolved'[e] = Resolved[e]
  BY <1>4, OthersResolved DEF Resolved
<1>6. ASSUME NEW p \in Pages PROVE page'[p] \in PageRows /\ Knows(page'[p], Resolved')
  <2>1. page'[p] = [page[p] EXCEPT !.stale = page[p].stale \cup {f}]
    BY <1>1 DEF Overtaken
  <2>2. page[p] \in PageRows /\ Knows(page[p], Resolved)
    BY <1>2 DEF SettingsInv
  <2> QED
    BY <1>5, <2>1, <2>2, OvertakenKnows
<1>7. page' \in [Pages -> PageRows]
  BY <1>1, <1>6 DEF Overtaken
<1> QED
  BY <1>3, <1>6, <1>7 DEF SettingsInv, SettingsTypeOK

\* A step of one page that writes no row.
LEMMA PageStep ==
  ASSUME SettingsInv, NEW p \in Pages, NEW y \in PageRows, Knows(y, Resolved),
         page' = [page EXCEPT ![p] = y], UNCHANGED <<globalRow, orgRow>>
  PROVE  SettingsInv'
<1>1. Resolved' = Resolved
  BY DEF Resolved
<1> QED
  BY <1>1 DEF SettingsInv, SettingsTypeOK

LEMMA LoadSettingsKeeps ==
  ASSUME SettingsInv, NEW p \in Pages, LoadSettings(p)
  PROVE  SettingsInv'
<1>1. PICK y : y = [Blank EXCEPT !.pc = "editing", !.initialSettings = Resolved, !.form = Resolved]
  OBVIOUS
<1>2. Resolved \in Forms
  BY ResolvedIs DEF SettingsInv, SettingsTypeOK, Resolved
<1>3. y.pc = "editing" /\ y.initialSettings = Resolved
  BY <1>1 DEF Blank
<1>4. y \in PageRows
  <2>1. PICK n, r : n = Len(FieldOrder) /\ r = Resolved
    OBVIOUS
  <2>2. Defaults \in Forms /\ n \in Nat /\ r \in Forms
    BY <1>2, <2>1, SettingsAssumption, OrderIs
  <2>3. y = [pc |-> "editing", initialSettings |-> r, form |-> r, body |-> Defaults, done |-> 0, stale |-> {}]
    BY <1>1, <2>1 DEF Blank
  <2>4. 0 \in 0..n /\ {} \in SUBSET Fields
    BY <2>2
  <2> QED
    BY <2>1, <2>2, <2>3, <2>4 DEF PageRows
<1>5. Knows(y, Resolved)
  BY <1>3 DEF Knows
<1> QED
  BY <1>1, <1>4, <1>5, PageStep DEF LoadSettings

LEMMA EditFieldKeeps ==
  ASSUME SettingsInv, NEW p \in Pages, NEW f \in Fields, NEW v \in FieldValues, EditField(p, f, v)
  PROVE  SettingsInv'
<1>1. page[p] \in PageRows /\ Knows(page[p], Resolved)
  BY DEF SettingsInv, SettingsTypeOK
<1>2. PICK x, w : x = page[p] /\ w = [x.form EXCEPT ![f] = v]
  OBVIOUS
<1>3. w \in Forms
  BY <1>1, <1>2 DEF PageRows, Forms
<1>4. PICK y : y = [x EXCEPT !.form = w]
  OBVIOUS
<1>5. y \in PageRows /\ y.pc = x.pc /\ y.stale = x.stale /\ y.initialSettings = x.initialSettings
      /\ y.body = x.body /\ y.done = x.done
  BY <1>1, <1>2, <1>3, <1>4 DEF PageRows
<1>6. Knows(y, Resolved)
  BY <1>1, <1>2, <1>5 DEF Knows
<1>7. page' = [page EXCEPT ![p] = y]
  BY <1>2, <1>4 DEF EditField
<1> QED
  BY <1>5, <1>6, <1>7, PageStep DEF EditField

LEMMA SaveKeeps ==
  ASSUME SettingsInv, NEW p \in Pages, Save(p)
  PROVE  SettingsInv'
<1>1. page[p] \in PageRows /\ Knows(page[p], Resolved) /\ page[p].pc = "editing" /\ page \in [Pages -> PageRows]
  BY DEF SettingsInv, SettingsTypeOK, Save
<1>2. PICK x, y : x = page[p] /\ y = [x EXCEPT !.pc = "saving", !.body = x.form, !.done = 0]
  OBVIOUS
<1>3. y \in PageRows /\ y.pc = "saving" /\ y.stale = x.stale /\ y.initialSettings = x.initialSettings /\ y.done = 0
  <2>1. PICK D : D = 0..Len(FieldOrder)
    OBVIOUS
  <2>2. 0 \in D
    BY <2>1, OrderIs
  <2> QED
    BY <1>1, <1>2, <2>1, <2>2 DEF PageRows
<1>4. Knows(y, Resolved)
  BY <1>1, <1>2, <1>3, OrderIs DEF Knows
<1>5. page' = [page EXCEPT ![p] = y]
  BY <1>1, <1>2 DEF Save
<1> QED
  BY <1>3, <1>4, <1>5, PageStep DEF Save

LEMMA SavedKeeps ==
  ASSUME SettingsInv, NEW p \in Pages, Saved(p)
  PROVE  SettingsInv'
<1>1. page[p] \in PageRows /\ Knows(page[p], Resolved) /\ page[p].pc = "saving" /\ page[p].done = Len(FieldOrder)
      /\ page \in [Pages -> PageRows]
  BY DEF SettingsInv, SettingsTypeOK, Saved
<1>2. PICK x, y : x = page[p] /\ y = [x EXCEPT !.pc = "editing", !.initialSettings = x.body, !.done = 0]
  OBVIOUS
<1>3. y \in PageRows /\ y.pc = "editing" /\ y.stale = x.stale /\ y.initialSettings = x.body
  <2>1. PICK D : D = 0..Len(FieldOrder)
    OBVIOUS
  <2>2. 0 \in D
    BY <2>1, OrderIs
  <2> QED
    BY <1>1, <1>2, <2>1, <2>2 DEF PageRows
<1>4. Knows(y, Resolved)
  BY <1>1, <1>2, <1>3, OrderIs DEF Knows
<1>5. page' = [page EXCEPT ![p] = y]
  BY <1>1, <1>2 DEF Saved
<1> QED
  BY <1>3, <1>4, <1>5, PageStep DEF Saved

LEMMA SaveFailsKeeps ==
  ASSUME SettingsInv, NEW p \in Pages, SaveFails(p)
  PROVE  SettingsInv'
<1>1. page[p] \in PageRows /\ Knows(page[p], Resolved) /\ page[p].pc = "saving" /\ page \in [Pages -> PageRows]
  BY DEF SettingsInv, SettingsTypeOK, SaveFails
<1>2. PICK x, w, y : x = page[p] /\ w = x.stale \cup Sent(x.done) /\ y = [x EXCEPT !.pc = "editing", !.done = 0, !.stale = w]
  OBVIOUS
<1>3. w \in SUBSET Fields
  BY <1>1, <1>2, OrderIs DEF PageRows
<1>4. y \in PageRows /\ y.pc = "editing" /\ y.stale = w /\ y.initialSettings = x.initialSettings
  <2>1. PICK D : D = 0..Len(FieldOrder)
    OBVIOUS
  <2>2. 0 \in D
    BY <2>1, OrderIs
  <2> QED
    BY <1>1, <1>2, <1>3, <2>1, <2>2 DEF PageRows
<1>5. Knows(y, Resolved)
  BY <1>1, <1>2, <1>4 DEF Knows
<1>6. page' = [page EXCEPT ![p] = y]
  BY <1>1, <1>2 DEF SaveFails, Sent
<1> QED
  BY <1>4, <1>5, <1>6, PageStep DEF SaveFails

\* One upsert: the page knows what it wrote, the others do not.
LEMMA UpdateFieldKeeps ==
  ASSUME SettingsInv, NEW p \in Pages, UpdateField(p)
  PROVE  SettingsInv'
<1>1. /\ page \in [Pages -> PageRows] /\ globalRow \in Layer /\ orgRow \in Layer
      /\ page[p] \in PageRows /\ Knows(page[p], Resolved) /\ page[p].pc = "saving" /\ page[p].done < Len(FieldOrder)
      /\ UNCHANGED globalRow
  BY DEF SettingsInv, SettingsTypeOK, UpdateField
<1>2. PICK x, f, v : x = page[p] /\ f = FieldOrder[x.done + 1] /\ v = x.body[f]
  OBVIOUS
<1>3. f \in Fields /\ v \in FieldValues /\ x.done + 1 \in 1..Len(FieldOrder)
  BY <1>1, <1>2, OrderIs DEF PageRows, Forms
<1>4. orgRow' = [orgRow EXCEPT ![f] = {v}]
  BY <1>2 DEF UpdateField
<1>5. PICK y : y = [x EXCEPT !.done = x.done + 1, !.stale = x.stale \ {f}]
  OBVIOUS
<1>6. page' = [Overtaken(Pages \ {p}, {f}) EXCEPT ![p] = y]
  <2>1. Overtaken(Pages \ {p}, {f})[p] = x
    BY <1>2 DEF Overtaken
  <2> QED
    BY <1>2, <1>5, <2>1 DEF UpdateField
<1>7. orgRow' \in Layer /\ globalRow' \in Layer
  <2>1. PICK w : w = {v}
    OBVIOUS
  <2>2. [orgRow EXCEPT ![f] = w] \in Layer
    BY <1>1, <1>3, <2>1, LayerWrite
  <2> QED
    BY <1>1, <1>4, <2>1, <2>2
<1>8. Resolved'[f] = v
  <2>1. orgRow'[f] = {v}
    BY <1>1, <1>3, <1>4 DEF Layer
  <2>2. \A g, r : g \in Layer /\ r \in Layer => (\A e \in Fields : \A u : r[e] = {u} => ResolvedLayers(g, r)[e] = u)
    BY ResolvedIs
  <2> QED
    BY <1>3, <1>7, <2>1, <2>2 DEF Resolved
<1>9. \A e \in Fields : e # f => Resolved'[e] = Resolved[e]
  <2>1. \A e \in Fields : e # f => globalRow'[e] = globalRow[e] /\ orgRow'[e] = orgRow[e]
    BY <1>1, <1>4 DEF Layer
  <2> QED
    BY <1>3, <2>1, OthersResolved DEF Resolved
<1>10. /\ y \in PageRows /\ y.pc = "saving" /\ y.done = x.done + 1 /\ y.stale = x.stale \ {f}
       /\ y.initialSettings = x.initialSettings /\ y.body = x.body
  <2>1. PICK D, m, t : D = 0..Len(FieldOrder) /\ m = x.done + 1 /\ t = x.stale \ {f}
    OBVIOUS
  <2>2. x \in PageRows /\ x.done \in Nat
    BY <1>1, <1>2 DEF PageRows
  <2>3. m \in D /\ t \in SUBSET Fields
    BY <1>3, <2>1, <2>2 DEF PageRows
  <2>4. y = [x EXCEPT !.done = m, !.stale = t]
    BY <1>5, <2>1
  <2>5. y \in PageRows /\ y.pc = x.pc /\ y.done = m /\ y.stale = t /\ y.initialSettings = x.initialSettings /\ y.body = x.body
    BY <2>1, <2>2, <2>3, <2>4 DEF PageRows
  <2> QED
    BY <1>1, <1>2, <2>1, <2>5
<1>11. Knows(y, Resolved')
  <2>1. Sent(y.done) = Sent(x.done) \cup {f}
    BY <1>1, <1>2, <1>3, <1>10, OrderIs DEF PageRows
  <2>2. ASSUME NEW e \in Fields \ y.stale
        PROVE  Resolved'[e] = IF e \in Sent(y.done) THEN y.body[e] ELSE y.initialSettings[e]
    BY <1>1, <1>2, <1>8, <1>9, <1>10, <2>1 DEF Knows
  <2> QED
    BY <1>10, <2>2 DEF Knows
<1>12. ASSUME NEW q \in Pages PROVE page'[q] \in PageRows /\ Knows(page'[q], Resolved')
  <2>1. CASE q = p
    <3>1. page'[p] = y
      BY <1>6 DEF Overtaken
    <3> QED
      BY <1>10, <1>11, <2>1, <3>1
  <2>2. CASE q # p
    <3>1. page'[q] = [page[q] EXCEPT !.stale = page[q].stale \cup {f}]
      BY <1>6, <2>2 DEF Overtaken
    <3>2. page[q] \in PageRows /\ Knows(page[q], Resolved)
      BY <1>1 DEF SettingsInv
    <3>3. PICK r, s, w, z : r = Resolved /\ s = Resolved' /\ w = page[q] /\ z = page'[q]
      OBVIOUS
    <3>4. w \in PageRows /\ Knows(w, r) /\ z = [w EXCEPT !.stale = w.stale \cup {f}]
      BY <3>1, <3>2, <3>3
    <3>5. f \in Fields /\ \A e \in Fields : e # f => s[e] = r[e]
      BY <1>3, <1>9, <3>3
    <3>6. z \in PageRows /\ Knows(z, s)
      BY <3>4, <3>5, OvertakenKnows
    <3> QED
      BY <3>3, <3>6
  <2> QED
    BY <2>1, <2>2
<1>13. page' \in [Pages -> PageRows]
  BY <1>6, <1>12 DEF Overtaken
<1> QED
  BY <1>7, <1>12, <1>13 DEF SettingsInv, SettingsTypeOK

LEMMA SettingsInitInv == SettingsInit => SettingsInv
<1> SUFFICES ASSUME SettingsInit PROVE SettingsInv
  OBVIOUS
<1>1. globalRow \in Layer /\ orgRow \in Layer
  BY DEF SettingsInit, Layer
<1>2. Blank \in PageRows /\ Blank.pc = "loading"
  BY SettingsAssumption, OrderIs DEF Blank, PageRows
<1> QED
  BY <1>1, <1>2 DEF SettingsInit, SettingsInv, SettingsTypeOK, Knows

LEMMA SettingsStepInv == SettingsInv /\ [SettingsNext]_settingsVars => SettingsInv'
<1> SUFFICES ASSUME SettingsInv, [SettingsNext]_settingsVars PROVE SettingsInv'
  OBVIOUS
<1>1. CASE AdminWrites
  BY <1>1, AdminWritesKeeps
<1>2. ASSUME NEW p \in Pages, LoadSettings(p) \/ Save(p) \/ UpdateField(p) \/ Saved(p) \/ SaveFails(p) PROVE SettingsInv'
  BY <1>2, LoadSettingsKeeps, SaveKeeps, UpdateFieldKeeps, SavedKeeps, SaveFailsKeeps
<1>3. ASSUME NEW p \in Pages, NEW f \in Fields, NEW v \in FieldValues, EditField(p, f, v) PROVE SettingsInv'
  BY <1>3, EditFieldKeeps
<1>4. CASE UNCHANGED settingsVars
  BY <1>4 DEF settingsVars, SettingsInv, SettingsTypeOK, Resolved
<1> QED
  BY <1>1, <1>2, <1>3, <1>4 DEF SettingsNext

\* The rows, the forms and what the pages remember have the shape the code gives them
\* (org-settings.controller.ts 28-82, web settings/page.tsx 18-50).
THEOREM SettingsTypeCorrect == SettingsSpec => []SettingsTypeOK
<1>1. SettingsInv => SettingsTypeOK
  BY DEF SettingsInv
<1> QED
  BY <1>1, SettingsInitInv, SettingsStepInv, PTL DEF SettingsSpec

\* For any fields, values and open pages: what a page takes for saved is what the
\* optimizer of the organization resolves, but for fields somebody else has written since
\* and those of a save of its own that failed half way.
THEOREM SettingsCorrect == SettingsSpec => []SavedIsInForce
<1>1. SettingsInv => SavedIsInForce
  BY DEF SettingsInv, SavedIsInForce, Knows
<1> QED
  BY <1>1, SettingsInitInv, SettingsStepInv, PTL DEF SettingsSpec

-----------------------------------------------------------------------------
(* ProviderForm: a save of credentials does what was typed *)

PageFields == {"list", "seen", "editing", "form", "typed", "from", "save", "switch"}
SaveFields == {"pc", "dto", "existing", "read"}
Opened     == {"enabled", "appId", "scopes", "apiVersion", "extra"}

CompleteRow(row) == DOMAIN row = RowFields /\ row.secret # None /\ row.appId # None
RowOk(row) == row = None \/ CompleteRow(row)

\* The form holds what was typed and, in the other fields, what the list had when the form
\* was opened: the secrets empty, and the rest that of the row, if nobody has written it.
FormOk(form, typed, from, n, row) ==
  /\ DOMAIN form = DOMAIN NoForm
  /\ from \in Nat /\ from <= n
  /\ \A f \in DOMAIN typed : form[f] = typed[f]
  /\ \A f \in {"secret", "token"} \ DOMAIN typed : form[f] = None
  /\ from = n /\ row # None => \A f \in Opened \ DOMAIN typed : form[f] = BuildInitialForm(row)[f]

\* A save sends the form; between its read and its write it holds the row it read, which is
\* no older than the form.
SaveOk(save, form, from, n, row) ==
  /\ DOMAIN save = SaveFields
  /\ save.dto = form /\ form.appId # None
  /\ save.pc \in {"sent", "read", "written", "refused"}
  /\ save.pc = "read" =>
       /\ save.read \in Nat /\ from <= save.read /\ save.read <= n
       /\ save.read = n => save.existing = row
       /\ RowOk(save.existing) /\ (save.existing = None => form.secret # None)

PageOk(x, n, row) ==
  /\ DOMAIN x = PageFields
  /\ x.seen \in Nat /\ x.seen <= n /\ (x.seen = n => x.list = row) /\ RowOk(x.list)
  /\ x.typed = <<>> \/ x.typed \in Typings
  /\ x.editing \in BOOLEAN
  /\ x.editing = FALSE => x.typed = <<>> /\ x.save = None
  /\ x.editing = TRUE => FormOk(x.form, x.typed, x.from, n, row)
  /\ x.save # None => SaveOk(x.save, x.form, x.from, n, row)

LastOk == lastSave # None => UntouchedIsKept /\ SecretsSurvive
FormInv ==
  /\ writes \in Nat /\ RowOk(configRow) /\ LastOk
  /\ DOMAIN formPage = FormPages /\ \A p \in FormPages : PageOk(formPage[p], writes, configRow)

\* What another's write leaves of what a page has: nothing of it is of the row now.
LEMMA RowWritten ==
  ASSUME NEW x, NEW n \in Nat, NEW r, NEW q, PageOk(x, n, r)
  PROVE  PageOk(x, n + 1, q)
<1>1. x.editing = TRUE => FormOk(x.form, x.typed, x.from, n + 1, q)
  BY DEF PageOk, FormOk
<1>2. x.save # None => SaveOk(x.save, x.form, x.from, n + 1, q)
  BY DEF PageOk, SaveOk
<1>3. x.seen \in Nat /\ x.seen <= n + 1 /\ (x.seen = n + 1 => x.list = q) /\ RowOk(x.list)
  BY DEF PageOk
<1> QED
  BY <1>1, <1>2, <1>3 DEF PageOk

\* A step of one page that writes no row.
LEMMA FormStep ==
  ASSUME FormInv, NEW p \in FormPages, NEW y, On(p, y), PageOk(y, writes, configRow),
         UNCHANGED <<configRow, writes>>, lastSave' = None
  PROVE  FormInv'
<1>1. ASSUME NEW q \in FormPages PROVE PageOk(formPage'[q], writes, configRow)
  BY DEF On, FormInv
<1>2. DOMAIN formPage' = FormPages
  BY DEF On, FormInv
<1>3. (\A q \in FormPages : PageOk(formPage[q], writes, configRow))'
  BY <1>1
<1> QED
  BY <1>2, <1>3 DEF FormInv, LastOk

\* The form that opens on a list: secrets empty.
LEMMA Opens ==
  ASSUME NEW list, NEW n \in Nat, NEW m \in Nat, m <= n, NEW row, m = n => list = row
  PROVE  FormOk(BuildInitialForm(list), <<>>, m, n, row)
<1>1. PICK b : b = BuildInitialForm(list)
  OBVIOUS
<1>2. DOMAIN b = DOMAIN NoForm /\ b.secret = None /\ b.token = None
  BY <1>1 DEF BuildInitialForm, NoForm
<1>3. DOMAIN <<>> = {}
  OBVIOUS
<1>4. m = n => b = BuildInitialForm(row)
  BY <1>1
<1>5. FormOk(b, <<>>, m, n, row)
  BY <1>2, <1>3, <1>4 DEF FormOk
<1> QED
  BY <1>1, <1>5

LEMMA FetchConfigsKeeps == ASSUME FormInv, NEW p \in FormPages, FetchConfigs(p) PROVE FormInv'
<1>1. PICK x, n, r, y : x = formPage[p] /\ n = writes /\ r = configRow /\ y = [x EXCEPT !.list = r, !.seen = n]
  OBVIOUS
<1>2. PageOk(x, n, r) /\ n \in Nat /\ RowOk(r)
  BY <1>1 DEF FormInv
<1>3. /\ DOMAIN y = PageFields /\ y.list = r /\ y.seen = n /\ y.typed = x.typed /\ y.editing = x.editing
      /\ y.form = x.form /\ y.from = x.from /\ y.save = x.save
  BY <1>1, <1>2 DEF PageOk, PageFields
<1>4. PageOk(y, n, r)
  BY <1>2, <1>3 DEF PageOk
<1> QED
  BY <1>1, <1>4, FormStep DEF FetchConfigs

LEMMA StartEditKeeps == ASSUME FormInv, NEW p \in FormPages, StartEdit(p) PROVE FormInv'
<1>1. PICK x, n, r, b, y : /\ x = formPage[p] /\ n = writes /\ r = configRow /\ b = BuildInitialForm(x.list)
                           /\ y = [x EXCEPT !.editing = TRUE, !.form = b, !.from = x.seen]
  OBVIOUS
<1>2. PageOk(x, n, r) /\ n \in Nat /\ RowOk(r) /\ ~x.editing
  BY <1>1 DEF FormInv, StartEdit
<1>3. /\ DOMAIN y = PageFields /\ y.list = x.list /\ y.seen = x.seen /\ y.typed = x.typed /\ y.editing = TRUE
      /\ y.form = b /\ y.from = x.seen /\ y.save = x.save
  BY <1>1, <1>2 DEF PageOk, PageFields
<1>4. x.typed = <<>> /\ x.save = None
  BY <1>2 DEF PageOk
<1>5. FormOk(b, <<>>, x.seen, n, r)
  BY <1>1, <1>2, Opens DEF PageOk
<1>6. PageOk(y, n, r)
  BY <1>2, <1>3, <1>4, <1>5 DEF PageOk
<1> QED
  BY <1>1, <1>6, FormStep DEF StartEdit

\* A page whose form closes.
LEMMA Closed ==
  ASSUME NEW x, NEW n, NEW r, PageOk(x, n, r), NEW y,
         y = [x EXCEPT !.save = None, !.editing = FALSE, !.form = NoForm, !.typed = <<>>, !.from = 0]
  PROVE  PageOk(y, n, r)
<1>1. PICK a, b, c : a = NoForm /\ b = <<>> /\ c = None
  OBVIOUS
<1>2. y = [x EXCEPT !.save = c, !.editing = FALSE, !.form = a, !.typed = b, !.from = 0]
  BY <1>1
<1>3. DOMAIN y = PageFields /\ y.list = x.list /\ y.seen = x.seen /\ y.typed = b /\ y.editing = FALSE /\ y.save = c
  BY <1>2 DEF PageOk, PageFields
<1> QED
  BY <1>1, <1>3 DEF PageOk

LEMMA CancelEditKeeps == ASSUME FormInv, NEW p \in FormPages, CancelEdit(p) PROVE FormInv'
<1>1. PICK x, n, r, y : /\ x = formPage[p] /\ n = writes /\ r = configRow
                        /\ y = [x EXCEPT !.editing = FALSE, !.form = NoForm, !.typed = <<>>, !.from = 0]
  OBVIOUS
<1>2. PageOk(x, n, r) /\ x.save = None
  BY <1>1 DEF FormInv, CancelEdit
<1>3. PICK a, b : a = NoForm /\ b = <<>>
  OBVIOUS
<1>4. y = [x EXCEPT !.editing = FALSE, !.form = a, !.typed = b, !.from = 0]
  BY <1>1, <1>3
<1>5. DOMAIN y = PageFields /\ y.list = x.list /\ y.seen = x.seen /\ y.typed = b /\ y.editing = FALSE /\ y.save = x.save
  BY <1>2, <1>4 DEF PageOk, PageFields
<1>6. PageOk(y, n, r)
  BY <1>2, <1>3, <1>5 DEF PageOk
<1> QED
  BY <1>1, <1>6, FormStep DEF CancelEdit

\* Typing over a form: what was typed at first is typed again.
LEMMA TypedOver ==
  ASSUME NEW form, NEW old, NEW typed \in Typings, old = <<>> \/ old = typed, NEW from, NEW n, NEW r,
         FormOk(form, old, from, n, r),
         NEW g, g = [f \in DOMAIN form |-> IF f \in DOMAIN typed THEN typed[f] ELSE form[f]]
  PROVE  FormOk(g, typed, from, n, r)
<1>1. DOMAIN typed \subseteq DOMAIN NoForm
  BY ProviderFormAssumption
<1>2. DOMAIN old \subseteq DOMAIN typed
  <2>1. DOMAIN <<>> = {}
    OBVIOUS
  <2> QED
    BY <2>1
<1>3. DOMAIN g = DOMAIN NoForm /\ \A f \in DOMAIN typed : g[f] = typed[f]
  BY <1>1 DEF FormOk
<1>4. \A f \in DOMAIN NoForm \ DOMAIN typed : g[f] = form[f]
  BY DEF FormOk
<1>5. {"secret", "token"} \subseteq DOMAIN NoForm /\ Opened \subseteq DOMAIN NoForm
  BY DEF NoForm, Opened
<1>6. \A f \in {"secret", "token"} \ DOMAIN typed : g[f] = None
  BY <1>2, <1>4, <1>5 DEF FormOk
<1>7. from = n /\ r # None => \A f \in Opened \ DOMAIN typed : g[f] = BuildInitialForm(r)[f]
  BY <1>2, <1>4, <1>5 DEF FormOk
<1> QED
  BY <1>3, <1>6, <1>7 DEF FormOk

LEMMA SubmitFormKeeps == ASSUME FormInv, NEW p \in FormPages, NEW typed \in Typings, SubmitForm(p, typed) PROVE FormInv'
<1>1. PICK x, n, r, g, s : /\ x = formPage[p] /\ n = writes /\ r = configRow
          /\ g = [f \in DOMAIN x.form |-> IF f \in DOMAIN typed THEN typed[f] ELSE x.form[f]]
          /\ s = [pc |-> "sent", dto |-> g, existing |-> None, read |-> 0]
  OBVIOUS
<1>2. PICK y : y = [x EXCEPT !.form = g, !.typed = typed, !.save = s]
  OBVIOUS
<1>3. /\ PageOk(x, n, r) /\ x.editing /\ x.save = None /\ x.typed \in {<<>>, typed} /\ g.appId # None
      /\ On(p, y) /\ UNCHANGED <<configRow, writes>> /\ lastSave' = None
  BY <1>1, <1>2 DEF FormInv, SubmitForm, ValidateForm
<1>4. /\ DOMAIN y = PageFields /\ y.list = x.list /\ y.seen = x.seen /\ y.typed = typed /\ y.editing = x.editing
      /\ y.form = g /\ y.from = x.from /\ y.save = s
  BY <1>2, <1>3 DEF PageOk, PageFields
<1>5. FormOk(x.form, x.typed, x.from, n, r) /\ x.editing = TRUE
  BY <1>3 DEF PageOk
<1>6. FormOk(g, typed, x.from, n, r)
  BY <1>1, <1>3, <1>5, TypedOver
<1>7. SaveOk(s, g, x.from, n, r)
  BY <1>1, <1>3 DEF SaveOk, SaveFields
<1>8. PageOk(y, n, r)
  BY <1>3, <1>4, <1>5, <1>6, <1>7 DEF PageOk
<1> QED
  BY <1>1, <1>3, <1>8, FormStep

LEMMA ClickSwitchKeeps == ASSUME FormInv, NEW p \in FormPages, ClickSwitch(p) PROVE FormInv'
<1>1. PICK x, n, r, s, y : /\ x = formPage[p] /\ n = writes /\ r = configRow /\ s = [next |-> ~x.list.enabled]
                           /\ y = [x EXCEPT !.switch = s]
  OBVIOUS
<1>2. PageOk(x, n, r)
  BY <1>1 DEF FormInv
<1>3. /\ DOMAIN y = PageFields /\ y.list = x.list /\ y.seen = x.seen /\ y.typed = x.typed /\ y.editing = x.editing
      /\ y.form = x.form /\ y.from = x.from /\ y.save = x.save
  BY <1>1, <1>2 DEF PageOk, PageFields
<1>4. PageOk(y, n, r)
  BY <1>2, <1>3 DEF PageOk
<1> QED
  BY <1>1, <1>4, FormStep DEF ClickSwitch

\* A page whose save changes hands, its form as it was.
LEMMA SaveSet ==
  ASSUME FormInv, NEW p \in FormPages, formPage[p].save # None, NEW s, On(p, [formPage[p] EXCEPT !.save = s]),
         s = None \/ SaveOk(s, formPage[p].form, formPage[p].from, writes, configRow),
         UNCHANGED <<configRow, writes>>, lastSave' = None
  PROVE  FormInv'
<1>1. PICK x, n, r, y : x = formPage[p] /\ n = writes /\ r = configRow /\ y = [x EXCEPT !.save = s]
  OBVIOUS
<1>2. PageOk(x, n, r) /\ x.save # None
  BY <1>1 DEF FormInv
<1>3. /\ DOMAIN y = PageFields /\ y.list = x.list /\ y.seen = x.seen /\ y.typed = x.typed /\ y.editing = x.editing
      /\ y.form = x.form /\ y.from = x.from /\ y.save = s
  BY <1>1, <1>2 DEF PageOk, PageFields
<1>4. s = None \/ SaveOk(s, y.form, y.from, n, r)
  BY <1>1, <1>3
<1>5. PageOk(y, n, r)
  BY <1>2, <1>3, <1>4 DEF PageOk
<1> QED
  BY <1>1, <1>5, FormStep

LEMMA SaveAnsweredKeeps == ASSUME FormInv, NEW p \in FormPages, SaveAnswered(p) PROVE FormInv'
<1>1. CASE On(p, [formPage[p] EXCEPT !.save = None])
  BY <1>1, SaveSet DEF SaveAnswered
<1>2. CASE On(p, [formPage[p] EXCEPT !.save = None, !.editing = FALSE, !.form = NoForm, !.typed = <<>>, !.from = 0])
  <2>1. PICK x, n, r, y : /\ x = formPage[p] /\ n = writes /\ r = configRow
          /\ y = [x EXCEPT !.save = None, !.editing = FALSE, !.form = NoForm, !.typed = <<>>, !.from = 0]
    OBVIOUS
  <2>2. PageOk(x, n, r)
    BY <2>1 DEF FormInv
  <2>3. PageOk(y, n, r)
    BY <2>1, <2>2, Closed
  <2> QED
    BY <1>2, <2>1, <2>3, FormStep DEF SaveAnswered
<1> QED
  BY <1>1, <1>2 DEF SaveAnswered

LEMMA UpsertReadsKeeps == ASSUME FormInv, NEW p \in FormPages, UpsertReads(p) PROVE FormInv'
<1>1. PICK x, n, r, s, t : /\ x = formPage[p] /\ n = writes /\ r = configRow /\ s = x.save
          /\ t = IF r = None /\ s.dto.secret = None THEN [s EXCEPT !.pc = "refused"]
                 ELSE [s EXCEPT !.pc = "read", !.existing = r, !.read = n]
  OBVIOUS
<1>2. /\ PageOk(x, n, r) /\ s # None /\ n \in Nat /\ RowOk(r)
      /\ On(p, [x EXCEPT !.save = t]) /\ UNCHANGED <<configRow, writes>> /\ lastSave' = None
  BY <1>1 DEF FormInv, UpsertReads
<1>3. SaveOk(s, x.form, x.from, n, r) /\ FormOk(x.form, x.typed, x.from, n, r)
  BY <1>1, <1>2 DEF PageOk
<1>4. CASE r = None /\ s.dto.secret = None
  <2>1. DOMAIN t = SaveFields /\ t.pc = "refused" /\ t.dto = s.dto
    BY <1>1, <1>3, <1>4 DEF SaveOk, SaveFields
  <2>2. SaveOk(t, x.form, x.from, n, r)
    BY <1>3, <2>1 DEF SaveOk
  <2> QED
    BY <1>1, <1>2, <2>2, SaveSet
<1>5. CASE ~(r = None /\ s.dto.secret = None)
  <2>1. DOMAIN t = SaveFields /\ t.pc = "read" /\ t.dto = s.dto /\ t.existing = r /\ t.read = n
    BY <1>1, <1>3, <1>5 DEF SaveOk, SaveFields
  <2>2. SaveOk(t, x.form, x.from, n, r)
    BY <1>2, <1>3, <1>5, <2>1 DEF SaveOk, FormOk
  <2> QED
    BY <1>1, <1>2, <2>2, SaveSet
<1> QED
  BY <1>4, <1>5

\* The row that is merged from what was sent and what was read is complete.
LEMMA MergedIsComplete ==
  ASSUME NEW dto, NEW existing, RowOk(existing), dto.appId # None, existing = None => dto.secret # None
  PROVE  CompleteRow(MergedConfig(dto, existing))
<1>1. PICK m : m = MergedConfig(dto, existing)
  OBVIOUS
<1>2. DOMAIN m = RowFields
  BY <1>1 DEF MergedConfig, RowFields
<1>3. m.appId = dto.appId
  BY <1>1 DEF MergedConfig
<1>4. m.secret = SentOrStored(dto, existing, "secret")
  BY <1>1 DEF MergedConfig
<1>5. m.secret # None
  BY <1>4 DEF SentOrStored, RowOk, CompleteRow
<1>6. CompleteRow(m)
  BY <1>2, <1>3, <1>5 DEF CompleteRow
<1> QED
  BY <1>1, <1>6

\* What a card shows of a row, field by field.
LEMMA ShownIs ==
  ASSUME NEW row, DOMAIN row = RowFields
  PROVE  /\ \A f \in RowFields : f # "apiVersion" => Shown(row)[f] = row[f]
         /\ Shown(row).apiVersion = ShownVersion(row)
<1>1. PICK v : v = IF row.apiVersion = None THEN "default" ELSE row.apiVersion
  OBVIOUS
<1>2. Shown(row) = [row EXCEPT !.apiVersion = v]
  BY <1>1 DEF Shown
<1>3. v = ShownVersion(row)
  BY <1>1 DEF ShownVersion, DEFAULT_API_VERSION
<1> QED
  BY <1>2, <1>3 DEF RowFields

\* The fields the form opens with.
LEMMA OpenedIs ==
  ASSUME NEW row, row # None
  PROVE  LET b == BuildInitialForm(row) IN
         /\ b.enabled = row.enabled /\ b.appId = row.appId /\ b.scopes = row.scopes
         /\ b.apiVersion = ShownVersion(row) /\ b.extra = row.extra
<1>1. PICK v : v = ShownVersion(row)
  OBVIOUS
<1>2. BuildInitialForm(row) = [NoForm EXCEPT !.enabled = row.enabled, !.appId = row.appId, !.scopes = row.scopes,
                                  !.apiVersion = v, !.extra = row.extra]
  BY <1>1 DEF BuildInitialForm
<1> QED
  BY <1>1, <1>2 DEF NoForm

\* The heart of UntouchedIsKept: a form nobody overtook, merged with the row it was opened on.
LEMMA MergedIsKept ==
  ASSUME NEW row, CompleteRow(row), row # None, NEW typed, typed = <<>> \/ typed \in Typings,
         NEW n \in Nat, NEW form, FormOk(form, typed, n, n, row), form.appId # None,
         NEW m, m = MergedConfig(form, row)
  PROVE  \A f \in RowFields :
           Shown(m)[f] = IF f \in DOMAIN typed /\ (typed[f] # None \/ f = "scopes") THEN typed[f] ELSE Shown(row)[f]
<1>1. /\ DOMAIN m = RowFields
      /\ m.enabled = form.enabled /\ m.appId = form.appId /\ m.scopes = form.scopes
      /\ m.apiVersion = SentOrStored(form, row, "apiVersion") /\ m.extra = SentOrStored(form, row, "extra")
      /\ m.secret = SentOrStored(form, row, "secret") /\ m.token = SentOrStored(form, row, "token")
      /\ m.other = row.other
  BY DEF MergedConfig, MergeExtraSecrets, RowFields
<1>2. DOMAIN typed \subseteq DOMAIN NoForm /\ ("enabled" \in DOMAIN typed => typed["enabled"] # None)
  <2>1. DOMAIN <<>> = {}
    OBVIOUS
  <2> QED
    BY <2>1, ProviderFormAssumption
<1>3. /\ \A f \in DOMAIN typed : form[f] = typed[f]
      /\ \A f \in {"secret", "token"} \ DOMAIN typed : form[f] = None
      /\ \A f \in Opened \ DOMAIN typed : form[f] = BuildInitialForm(row)[f]
  BY DEF FormOk
<1>4. /\ \A f \in RowFields : f # "apiVersion" => Shown(row)[f] = row[f] /\ Shown(m)[f] = m[f]
      /\ Shown(row).apiVersion = ShownVersion(row) /\ Shown(m).apiVersion = ShownVersion(m)
  BY <1>1, ShownIs DEF CompleteRow
<1>5. PICK b : b = BuildInitialForm(row)
  OBVIOUS
<1>6. /\ b.enabled = row.enabled /\ b.appId = row.appId /\ b.scopes = row.scopes
      /\ b.apiVersion = ShownVersion(row) /\ b.extra = row.extra
  BY <1>5, OpenedIs
<1>7. \A f \in Opened \ DOMAIN typed : form[f] = b[f]
  BY <1>3, <1>5
<1> DEFINE Goal(f) ==
      Shown(m)[f] = IF f \in DOMAIN typed /\ (typed[f] # None \/ f = "scopes") THEN typed[f] ELSE Shown(row)[f]
<1>8. Goal("enabled") /\ Goal("appId") /\ Goal("scopes")
  BY <1>1, <1>2, <1>3, <1>4, <1>6, <1>7 DEF Opened, RowFields
<1>9. Goal("extra")
  BY <1>1, <1>3, <1>4, <1>6, <1>7 DEF Opened, RowFields, SentOrStored
<1>10. Goal("secret") /\ Goal("token")
  BY <1>1, <1>3, <1>4 DEF RowFields, SentOrStored
<1>11. Goal("other")
  BY <1>1, <1>2, <1>4 DEF RowFields, NoForm
<1>12. Goal("apiVersion")
  <2>1. CASE "apiVersion" \in DOMAIN typed
    BY <1>1, <1>3, <1>4, <2>1 DEF SentOrStored, ShownVersion
  <2>2. CASE ~("apiVersion" \in DOMAIN typed)
    <3>1. form.apiVersion = ShownVersion(row) /\ ShownVersion(row) # None
      BY <1>6, <1>7, <2>2, ProviderFormAssumption DEF Opened, ShownVersion
    <3>2. m.apiVersion = ShownVersion(row)
      BY <1>1, <3>1 DEF SentOrStored
    <3>3. ShownVersion(m) = m.apiVersion
      BY <3>1, <3>2 DEF ShownVersion
    <3> QED
      BY <1>4, <2>2, <3>2, <3>3
  <2> QED
    BY <2>1, <2>2
<1> HIDE DEF Goal
<1>13. \A f \in RowFields : Goal(f)
  BY <1>8, <1>9, <1>10, <1>11, <1>12 DEF RowFields
<1> QED
  BY <1>13 DEF Goal

\* A write of the row, by one page or none: what the others have is of an older row.
LEMMA WrittenKeeps ==
  ASSUME FormInv, NEW n \in Nat, n = writes, writes' = n + 1, RowOk(configRow'), LastOk',
         DOMAIN formPage' = FormPages,
         \A q \in FormPages : formPage'[q] = formPage[q] \/ PageOk(formPage'[q], n, configRow)
  PROVE  FormInv'
<1>1. ASSUME NEW q \in FormPages PROVE PageOk(formPage'[q], n + 1, configRow')
  <2>1. PageOk(formPage'[q], n, configRow)
    BY DEF FormInv
  <2> QED
    BY <2>1, RowWritten
<1>2. (\A q \in FormPages : PageOk(formPage[q], writes, configRow))'
  BY <1>1
<1>3. writes' \in Nat
  OBVIOUS
<1> QED
  BY <1>2, <1>3 DEF FormInv

LEMMA UpsertWritesKeeps == ASSUME FormInv, NEW p \in FormPages, UpsertWrites(p) PROVE FormInv'
<1>1. PICK x, n, r, s, t, m, y :
        /\ x = formPage[p] /\ n = writes /\ r = configRow /\ s = x.save /\ t = [s EXCEPT !.pc = "written"]
        /\ m = MergedConfig(s.dto, s.existing) /\ y = [x EXCEPT !.save = t]
  OBVIOUS
<1>2. /\ PageOk(x, n, r) /\ s # None /\ s.pc = "read" /\ n \in Nat /\ RowOk(r)
      /\ configRow' = m /\ writes' = n + 1
  BY <1>1 DEF FormInv, UpsertWrites, WriteRow
<1>3. lastSave' = [typed |-> x.typed, from |-> x.from, read |-> s.read, at |-> n, before |-> r, after |-> m]
  BY <1>1, <1>2 DEF UpsertWrites
<1>4. formPage' = [formPage EXCEPT ![p] = y]
  BY <1>1 DEF UpsertWrites, On
<1>5. SaveOk(s, x.form, x.from, n, r) /\ FormOk(x.form, x.typed, x.from, n, r) /\ (x.typed = <<>> \/ x.typed \in Typings)
  BY <1>1, <1>2 DEF PageOk
<1>6. /\ s.dto = x.form /\ x.form.appId # None /\ s.read \in Nat /\ x.from <= s.read /\ s.read <= n
      /\ (s.read = n => s.existing = r) /\ RowOk(s.existing) /\ (s.existing = None => x.form.secret # None)
  BY <1>2, <1>5 DEF SaveOk
<1>7. CompleteRow(m)
  BY <1>1, <1>6, MergedIsComplete
<1>8. PageOk(y, n, r)
  <2>1. DOMAIN t = SaveFields /\ t.pc = "written" /\ t.dto = s.dto
    BY <1>1, <1>5 DEF SaveOk, SaveFields
  <2>2. SaveOk(t, x.form, x.from, n, r)
    BY <1>5, <1>6, <2>1 DEF SaveOk
  <2>3. /\ DOMAIN y = PageFields /\ y.list = x.list /\ y.seen = x.seen /\ y.typed = x.typed /\ y.editing = x.editing
        /\ y.form = x.form /\ y.from = x.from /\ y.save = t
    BY <1>1, <1>2 DEF PageOk, PageFields
  <2>4. x.editing = TRUE
    BY <1>1, <1>2 DEF PageOk
  <2> QED
    BY <1>2, <2>2, <2>3, <2>4 DEF PageOk
<1>9. /\ lastSave'.typed = x.typed /\ lastSave'.from = x.from /\ lastSave'.read = s.read /\ lastSave'.at = n
      /\ lastSave'.before = r /\ lastSave'.after = m
  BY <1>3
<1>10. UntouchedIsKept'
  <2>1. CASE x.from = n /\ r # None
    <3>1. s.existing = r
      BY <1>2, <1>5, <1>6, <2>1 DEF FormOk
    <3>2. FormOk(x.form, x.typed, n, n, r) /\ CompleteRow(r) /\ m = MergedConfig(x.form, r)
      BY <1>1, <1>2, <1>5, <1>6, <2>1, <3>1 DEF RowOk
    <3>3. \A f \in RowFields : Shown(m)[f] =
             IF f \in DOMAIN x.typed /\ (x.typed[f] # None \/ f = "scopes") THEN x.typed[f] ELSE Shown(r)[f]
      BY <1>2, <1>5, <1>6, <2>1, <3>2, MergedIsKept
    <3>4. DOMAIN m = RowFields
      BY <1>7 DEF CompleteRow
    <3> QED
      BY <1>9, <3>3, <3>4 DEF UntouchedIsKept, Typed
  <2> QED
    BY <1>9, <2>1 DEF UntouchedIsKept
<1>11. SecretsSurvive'
  <2>1. CASE s.read = n /\ r # None
    <3>1. m = MergedConfig(x.form, r)
      BY <1>1, <1>6, <2>1
    <3>2. /\ m.secret = SentOrStored(x.form, r, "secret") /\ m.token = SentOrStored(x.form, r, "token")
          /\ m.other = r.other
      BY <2>1, <3>1 DEF MergedConfig, MergeExtraSecrets
    <3>3. \A f \in {"secret", "token"} : ~(f \in DOMAIN x.typed) => m[f] = r[f]
      BY <1>5, <2>1, <3>2 DEF FormOk, SentOrStored
    <3> QED
      BY <1>9, <3>2, <3>3 DEF SecretsSurvive, Typed
  <2> QED
    BY <1>9, <2>1 DEF SecretsSurvive
<1>12. LastOk' /\ RowOk(configRow')
  BY <1>2, <1>7, <1>10, <1>11 DEF LastOk, RowOk
<1>13. DOMAIN formPage' = FormPages /\ \A q \in FormPages : formPage'[q] = formPage[q] \/ PageOk(formPage'[q], n, configRow)
  BY <1>1, <1>4, <1>8 DEF FormInv
<1> QED
  BY <1>1, <1>2, <1>12, <1>13, WrittenKeeps

LEMMA SwitchWritesKeeps == ASSUME FormInv, NEW p \in FormPages, SwitchWrites(p) PROVE FormInv'
<1>1. PICK x, n, r, y : x = formPage[p] /\ n = writes /\ r = configRow /\ y = [x EXCEPT !.switch = None]
  OBVIOUS
<1>2. PageOk(x, n, r) /\ RowOk(r) /\ n \in Nat /\ On(p, y) /\ lastSave' = None
  BY <1>1 DEF FormInv, SwitchWrites
<1>3. /\ DOMAIN y = PageFields /\ y.list = x.list /\ y.seen = x.seen /\ y.typed = x.typed /\ y.editing = x.editing
      /\ y.form = x.form /\ y.from = x.from /\ y.save = x.save
  BY <1>1, <1>2 DEF PageOk, PageFields
<1>4. PageOk(y, n, r)
  BY <1>2, <1>3 DEF PageOk
<1>5. CASE r = None
  BY <1>1, <1>2, <1>4, <1>5, FormStep DEF SwitchWrites
<1>6. CASE r # None
  <2>1. PICK e, q : e = formPage[p].switch.next /\ q = [r EXCEPT !.enabled = e]
    OBVIOUS
  <2>2. configRow' = q /\ writes' = n + 1
    BY <1>1, <1>6, <2>1 DEF SwitchWrites, WriteRow
  <2>3. CompleteRow(q)
    BY <1>2, <1>6, <2>1 DEF RowOk, CompleteRow, RowFields
  <2>4. RowOk(configRow') /\ LastOk'
    BY <1>2, <2>2, <2>3 DEF RowOk, LastOk
  <2>5. DOMAIN formPage' = FormPages /\ \A k \in FormPages : formPage'[k] = formPage[k] \/ PageOk(formPage'[k], n, configRow)
    BY <1>1, <1>2, <1>4 DEF On, FormInv
  <2> QED
    BY <1>1, <1>2, <2>2, <2>4, <2>5, WrittenKeeps
<1> QED
  BY <1>5, <1>6

LEMMA RemoveConfigKeeps == ASSUME FormInv, RemoveConfig PROVE FormInv'
<1>1. PICK n : n = writes
  OBVIOUS
<1>2. n \in Nat /\ writes' = n + 1 /\ RowOk(configRow') /\ LastOk' /\ formPage' = formPage /\ DOMAIN formPage = FormPages
  BY <1>1 DEF FormInv, RemoveConfig, WriteRow, RowOk, LastOk
<1> QED
  BY <1>1, <1>2, WrittenKeeps

LEMMA FormInitInv == ProviderFormInit => FormInv
<1> SUFFICES ASSUME ProviderFormInit PROVE FormInv
  OBVIOUS
<1>1. RowOk(configRow)
  BY ProviderFormAssumption DEF ProviderFormInit, RowOk, CompleteRow
<1>2. PICK x, e : e = <<>> /\ x = [list |-> configRow, seen |-> 0, editing |-> FALSE, form |-> NoForm,
                                   typed |-> e, from |-> 0, save |-> None, switch |-> None]
  OBVIOUS
<1>3. PageOk(x, 0, configRow)
  BY <1>1, <1>2 DEF PageOk, PageFields
<1>4. formPage = [p \in FormPages |-> x] /\ writes = 0 /\ lastSave = None
  BY <1>2 DEF ProviderFormInit
<1> QED
  BY <1>1, <1>3, <1>4 DEF FormInv, LastOk

LEMMA FormStepInv == FormInv /\ [ProviderFormNext]_providerFormVars => FormInv'
<1> SUFFICES ASSUME FormInv, [ProviderFormNext]_providerFormVars PROVE FormInv'
  OBVIOUS
<1>1. ASSUME NEW p \in FormPages, FetchConfigs(p) \/ StartEdit(p) \/ CancelEdit(p) \/ ClickSwitch(p) PROVE FormInv'
  BY <1>1, FetchConfigsKeeps, StartEditKeeps, CancelEditKeeps, ClickSwitchKeeps
<1>2. ASSUME NEW p \in FormPages, NEW typed \in Typings, SubmitForm(p, typed) PROVE FormInv'
  BY <1>2, SubmitFormKeeps
<1>3. ASSUME NEW p \in FormPages, UpsertReads(p) \/ UpsertWrites(p) \/ SaveAnswered(p) \/ SwitchWrites(p) PROVE FormInv'
  BY <1>3, UpsertReadsKeeps, UpsertWritesKeeps, SaveAnsweredKeeps, SwitchWritesKeeps
<1>4. CASE RemoveConfig
  BY <1>4, RemoveConfigKeeps
<1>5. CASE UNCHANGED providerFormVars
  BY <1>5 DEF providerFormVars, FormInv, LastOk, UntouchedIsKept, SecretsSurvive, Typed
<1> QED
  BY <1>1, <1>2, <1>3, <1>4, <1>5 DEF ProviderFormNext

\* For any pages, typings and number of writes: a save of a form nobody overtook changes
\* what was typed and nothing else, no save loses a secret that was not typed, and no
\* sequence of saves, switches and deletions leaves a platform without its secrets
\* (provider-configs.service.ts 75-250, provider-config-form.tsx 39-118).
THEOREM ProviderFormCorrect == ProviderFormSpec => []SaveIsAsMeant
<1>1. FormInv => SaveIsAsMeant
  BY DEF FormInv, LastOk, SaveIsAsMeant, IsComplete, RowOk, CompleteRow
<1> QED
  BY <1>1, FormInitInv, FormStepInv, PTL DEF ProviderFormSpec

\* Both promises together, for settings pages and credentials pages side by side.
THEOREM SavesCorrect == SettingsSpec /\ ProviderFormSpec => []SavesAreMeant
<1>1. SettingsInv /\ FormInv => SavesAreMeant
  BY DEF FormInv, LastOk, SaveIsAsMeant, IsComplete, RowOk, CompleteRow, SavesAreMeant, SettingsInv, SavedIsInForce, Knows
<1> QED
  BY <1>1, FormInitInv, FormStepInv, SettingsInitInv, SettingsStepInv, PTL DEF ProviderFormSpec, SettingsSpec

=============================================================================
