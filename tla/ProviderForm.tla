---------------------------- MODULE ProviderForm -----------------------------
(***************************************************************************)
(* The credentials of one ad platform as administrators edit them: the     *)
(* cards and forms of several open pages, each over its own copy of the    *)
(* list, and the upserts, switches and deletions they send                 *)
(* (web features/provider-configs, provider-configs.service.ts).  Module   *)
(* ProviderConfigs has the cache in front of the same row.                 *)
(*                                                                         *)
(* `secret` stands for the app secret and the state secret, `appId` for    *)
(* the redirect URI too; `token` is the extra secret the form knows of,    *)
(* `other` one it does not.  None is an empty field, or one left out.      *)
(***************************************************************************)
EXTENDS Integers, Absent

CONSTANTS FormPages,   \* open pages
          FirstRows,   \* the stored configuration at first, or None
          Typings,     \* what an administrator changes in a form: field -> value
          MaxWrites    \* bound: writes of the row

VARIABLES configRow,   \* the provider_configs row of the platform, or None
          formPage,    \* per page: its copy of the list, its form, its calls
          writes,      \* history: how often the row was written
          lastSave     \* history: the save that wrote in the last step, or None

providerFormVars == <<configRow, formPage, writes, lastSave>>

DEFAULT_API_VERSION == "default"  \* PLATFORM_META
NoForm == [enabled |-> FALSE, appId |-> None, scopes |-> None, apiVersion |-> None, extra |-> None,
           secret |-> None, token |-> None]
RowFields == {"enabled", "appId", "scopes", "apiVersion", "extra", "secret", "token", "other"}

\* A row was created with an app id and a secret, and the form has inputs of its own only.
ASSUME ProviderFormAssumption ==
  /\ None # DEFAULT_API_VERSION
  /\ \A row \in FirstRows \ {None} : DOMAIN row = RowFields /\ row.secret # None /\ row.appId # None
  /\ \A typed \in Typings : /\ DOMAIN typed \subseteq DOMAIN NoForm
                            /\ "enabled" \in DOMAIN typed => typed.enabled # None

ProviderFormInit ==
  /\ configRow \in FirstRows
  /\ formPage = [p \in FormPages |-> [list |-> configRow, seen |-> 0, editing |-> FALSE, form |-> NoForm,
                                      typed |-> <<>>, from |-> 0, save |-> None, switch |-> None]]
  /\ writes = 0 /\ lastSave = None

WriteRow(row) == configRow' = row /\ writes' = writes + 1
On(p, page)  == formPage' = [formPage EXCEPT ![p] = page]

-----------------------------------------------------------------------------
(* The page *)

\* The list is fetched again: on focus, when it is stale, after a write of this page.
FetchConfigs(p) ==
  /\ On(p, [formPage[p] EXCEPT !.list = configRow, !.seen = writes])
  /\ UNCHANGED <<configRow, writes>> /\ lastSave' = None

ShownVersion(config) == IF config.apiVersion = None THEN DEFAULT_API_VERSION ELSE config.apiVersion

\* The form starts from the list, with the secrets empty, and is not touched by a later list.
BuildInitialForm(config) ==
  IF config = None
  THEN [NoForm EXCEPT !.enabled = TRUE, !.apiVersion = DEFAULT_API_VERSION, !.scopes = "default"]
  ELSE [NoForm EXCEPT !.enabled = config.enabled, !.appId = config.appId, !.scopes = config.scopes,
                      !.apiVersion = ShownVersion(config), !.extra = config.extra]
StartEdit(p) ==
  /\ ~formPage[p].editing
  /\ On(p, [formPage[p] EXCEPT !.editing = TRUE, !.form = BuildInitialForm(formPage[p].list), !.from = formPage[p].seen])
  /\ UNCHANGED <<configRow, writes>> /\ lastSave' = None
CancelEdit(p) ==
  /\ formPage[p].editing /\ formPage[p].save = None
  /\ On(p, [formPage[p] EXCEPT !.editing = FALSE, !.form = NoForm, !.typed = <<>>, !.from = 0])
  /\ UNCHANGED <<configRow, writes>> /\ lastSave' = None

ValidateForm(form, isCreate) == form.appId # None /\ (isCreate => form.secret # None)

\* What was typed stays for another try. An empty version, extra or secret is left out of what is sent; the rest always goes.
SubmitForm(p, typed) ==
  LET page == formPage[p]
      form == [f \in DOMAIN page.form |-> IF f \in DOMAIN typed THEN typed[f] ELSE page.form[f]]
  IN /\ page.editing /\ page.save = None
     /\ page.typed \in {<<>>, typed}
     /\ ValidateForm(form, page.list = None)
     /\ On(p, [page EXCEPT !.form = form, !.typed = typed,
                           !.save = [pc |-> "sent", dto |-> form, existing |-> None, read |-> 0]])
     /\ UNCHANGED <<configRow, writes>> /\ lastSave' = None

\* The quick switch of the card sends the opposite of what the list says.
ClickSwitch(p) ==
  LET page == formPage[p] IN
  /\ ~page.editing /\ page.list # None /\ page.switch = None
  /\ On(p, [page EXCEPT !.switch = [next |-> ~page.list.enabled]])
  /\ UNCHANGED <<configRow, writes>> /\ lastSave' = None

\* A save that went through closes the form; one that was refused or lost leaves it open.
SaveAnswered(p) ==
  LET page == formPage[p] IN
  /\ page.save # None
  /\ \/ page.save.pc = "written"
        /\ On(p, [page EXCEPT !.save = None, !.editing = FALSE, !.form = NoForm, !.typed = <<>>, !.from = 0])
     \/ page.save.pc \in {"written", "refused"} /\ On(p, [page EXCEPT !.save = None])
  /\ UNCHANGED <<configRow, writes>> /\ lastSave' = None

-----------------------------------------------------------------------------
(* The service *)

UpsertReads(p) ==
  LET save == formPage[p].save IN
  /\ save # None /\ save.pc = "sent"
  /\ On(p, [formPage[p] EXCEPT !.save =
              IF configRow = None /\ save.dto.secret = None THEN [save EXCEPT !.pc = "refused"]
              ELSE [save EXCEPT !.pc = "read", !.existing = configRow, !.read = writes]])
  /\ UNCHANGED <<configRow, writes>> /\ lastSave' = None

SentOrStored(sent, existing, field) == IF sent[field] # None \/ existing = None THEN sent[field] ELSE existing[field]
BagReplaced(dto, existing) == [token |-> dto.token, other |-> None]  \* mutant: the bag is not merged
MergeExtraSecrets(dto, existing) ==
  [token |-> SentOrStored(dto, existing, "token"), other |-> IF existing = None THEN None ELSE existing.other]
MergedConfig(dto, existing) ==
  LET bag == MergeExtraSecrets(dto, existing) IN
  [enabled |-> dto.enabled, appId |-> dto.appId, scopes |-> dto.scopes,
   apiVersion |-> SentOrStored(dto, existing, "apiVersion"), extra |-> SentOrStored(dto, existing, "extra"),
   secret |-> SentOrStored(dto, existing, "secret"), token |-> bag.token, other |-> bag.other]

\* The row is written from what the first read saw, created again if it is gone.
UpsertWrites(p) ==
  LET save == formPage[p].save IN
  /\ save # None /\ save.pc = "read"
  /\ WriteRow(MergedConfig(save.dto, save.existing))
  /\ lastSave' = [typed |-> formPage[p].typed, from |-> formPage[p].from, read |-> save.read, at |-> writes,
                  before |-> configRow, after |-> configRow']
  /\ On(p, [formPage[p] EXCEPT !.save.pc = "written"])

\* The update of one column, or a row that is gone.
SwitchWrites(p) ==
  LET switch == formPage[p].switch IN
  /\ switch # None
  /\ IF configRow = None THEN UNCHANGED <<configRow, writes>>
     ELSE WriteRow([configRow EXCEPT !.enabled = switch.next])
  /\ On(p, [formPage[p] EXCEPT !.switch = None])
  /\ lastSave' = None

\* DELETE, which no page offers.
RemoveConfig ==
  /\ configRow # None
  /\ WriteRow(None) /\ UNCHANGED formPage /\ lastSave' = None

\* The bound ends a behaviour.
ProviderFormNext ==
  /\ writes < MaxWrites
  /\ \/ \E p \in FormPages :
          \/ FetchConfigs(p) \/ StartEdit(p) \/ CancelEdit(p) \/ ClickSwitch(p)
          \/ \E typed \in Typings : SubmitForm(p, typed)
          \/ UpsertReads(p) \/ UpsertWrites(p) \/ SaveAnswered(p) \/ SwitchWrites(p)
     \/ RemoveConfig
ProviderFormSpec == ProviderFormInit /\ [][ProviderFormNext]_providerFormVars

-----------------------------------------------------------------------------
(* Properties.                                                             *)

\* What a card shows of a row; a version that is not stored shows as the default.
Shown(row) == [row EXCEPT !.apiVersion = IF @ = None THEN "default" ELSE @]
Typed(field) == field \in DOMAIN lastSave.typed

\* A save of a form nobody's write has overtaken since its list was read leaves the row as
\* it was but for what the administrator typed; except that a version or an extra field
\* that was emptied comes back.
UntouchedIsKept ==
  lastSave.from = lastSave.at /\ lastSave.before # None =>
    \A f \in DOMAIN lastSave.after :
      Shown(lastSave.after)[f] =
        IF Typed(f) /\ (lastSave.typed[f] # None \/ f = "scopes") THEN lastSave.typed[f]
        ELSE Shown(lastSave.before)[f]

\* However old the form, a secret that was not typed is the stored one, unless it was
\* written between the read and the write of the save itself.
SecretsSurvive ==
  lastSave.read = lastSave.at /\ lastSave.before # None =>
    /\ \A f \in {"secret", "token"} : ~Typed(f) => lastSave.after[f] = lastSave.before[f]
    /\ lastSave.after.other = lastSave.before.other

\* No sequence of saves, switches and deletions leaves a platform without its secrets.
IsComplete == configRow # None => configRow.secret # None /\ configRow.appId # None

\* All of it (provider-configs.service.ts 75-250, provider-config-form.tsx 39-118).
SaveIsAsMeant == (lastSave # None => UntouchedIsKept /\ SecretsSurvive) /\ IsComplete
=============================================================================
