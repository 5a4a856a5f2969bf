------------------------------ MODULE Settings ------------------------------
(***************************************************************************)
(* The optimizer settings of an organization: rows of admin_settings in    *)
(* three layers, the PATCH that writes them one upsert after the other,    *)
(* and the settings page with its form and its idea of what is saved       *)
(* (admin/, web settings page).                                            *)
(***************************************************************************)
EXTENDS Naturals, Sequences

CONSTANTS FieldOrder,  \* the fields, in the order FIELD_TO_KEY lists them
          FieldValues, \* the values a field may take
          Defaults,    \* DEFAULTS and SETTINGS_DEFAULTS
          Pages        \* open settings pages

Fields == {FieldOrder[i] : i \in 1..Len(FieldOrder)}
Forms  == [Fields -> FieldValues]

ASSUME SettingsAssumption == FieldOrder \in Seq(STRING) /\ Defaults \in Forms

VARIABLES globalRow,  \* global rows: per field, a set of at most one value
          orgRow,     \* the organization's rows, likewise
          page        \* the open pages

settingsVars == <<globalRow, orgRow, page>>

Layer == [Fields -> {v \in SUBSET FieldValues : \A a, b \in v : a = b}]
\* `done` counts the fields of the PATCH under way; `stale` is set when somebody else, or
\* a PATCH that failed, has changed a field since the page loaded or last wrote it.
Blank == [pc |-> "loading", initialSettings |-> Defaults, form |-> Defaults, body |-> Defaults,
          done |-> 0, stale |-> {}]
PageRows == [pc : {"loading", "editing", "saving"}, initialSettings : Forms, form : Forms,
             body : Forms, done : 0..Len(FieldOrder), stale : SUBSET Fields]

SettingsTypeOK ==
  /\ globalRow \in Layer /\ orgRow \in Layer /\ page \in [Pages -> PageRows]

SettingsInit ==
  /\ globalRow = [f \in Fields |-> {}] /\ orgRow = [f \in Fields |-> {}]
  /\ page = [p \in Pages |-> Blank]

Value(row, otherwise) == IF row = {} THEN otherwise ELSE CHOOSE v \in row : TRUE
ResolvedLayers(global, org) == [f \in Fields |-> Value(org[f], Value(global[f], Defaults[f]))]

\* getAll: the defaults, overlaid with the global rows, overlaid with the organization's.
Resolved == ResolvedLayers(globalRow, orgRow)

\* What these pages do not know.
Overtaken(pages, fields) == [p \in Pages |-> IF p \in pages THEN [page[p] EXCEPT !.stale = @ \cup fields]
                                             ELSE page[p]]

\* A system administrator's PUT or DELETE of a global row, or PUT of an organization's.
AdminWrites ==
  \E f \in Fields, v \in FieldValues :
    /\ \/ globalRow' = [globalRow EXCEPT ![f] = {v}] /\ UNCHANGED orgRow
       \/ globalRow[f] # {} /\ globalRow' = [globalRow EXCEPT ![f] = {}] /\ UNCHANGED orgRow
       \/ orgRow' = [orgRow EXCEPT ![f] = {v}] /\ UNCHANGED globalRow
    /\ page' = Overtaken(Pages, {f})

\* The query answers, at first and whenever the window is focused again: a form under
\* edit is replaced too.
LoadSettings(p) ==
  /\ page[p].pc # "saving"
  /\ page' = [page EXCEPT ![p] = [Blank EXCEPT !.pc = "editing", !.initialSettings = Resolved,
                                               !.form = Resolved]]
  /\ UNCHANGED <<globalRow, orgRow>>

EditField(p, f, v) ==
  /\ page[p].pc # "loading"
  /\ page' = [page EXCEPT ![p].form[f] = v]
  /\ UNCHANGED <<globalRow, orgRow>>

\* The save button, enabled on a dirty form, sends the whole form.
Save(p) ==
  /\ page[p].pc = "editing" /\ page[p].form # page[p].initialSettings
  /\ page' = [page EXCEPT ![p].pc = "saving", ![p].body = page[p].form, ![p].done = 0]
  /\ UNCHANGED <<globalRow, orgRow>>

UpdateGlobal(p) ==  \* mutant: a field that has a global row is not written
  /\ page[p].pc = "saving" /\ page[p].done < Len(FieldOrder)
  /\ LET f == FieldOrder[page[p].done + 1] IN
     /\ orgRow' = IF globalRow[f] # {} THEN orgRow ELSE [orgRow EXCEPT ![f] = {page[p].body[f]}]
     /\ page' = [Overtaken(Pages \ {p}, {f}) EXCEPT ![p].done = @ + 1, ![p].stale = @ \ {f}]
  /\ UNCHANGED globalRow

\* updateOptimizer: one upsert of the organization's row after the other.
UpdateField(p) ==
  /\ page[p].pc = "saving" /\ page[p].done < Len(FieldOrder)
  /\ LET f == FieldOrder[page[p].done + 1] IN
     /\ orgRow' = [orgRow EXCEPT ![f] = {page[p].body[f]}]
     /\ page' = [Overtaken(Pages \ {p}, {f}) EXCEPT ![p].done = @ + 1, ![p].stale = @ \ {f}]
  /\ UNCHANGED globalRow

\* All fields are in: what was sent is what the page takes for saved.
Saved(p) ==
  /\ page[p].pc = "saving" /\ page[p].done = Len(FieldOrder)
  /\ page' = [page EXCEPT ![p].pc = "editing", ![p].initialSettings = page[p].body, ![p].done = 0]
  /\ UNCHANGED <<globalRow, orgRow>>

\* One of the upserts, or the answer, fails: the fields before it are written, and the
\* page still takes the old values for saved.
SaveFails(p) ==
  /\ page[p].pc = "saving"
  /\ page' = [page EXCEPT ![p].pc = "editing", ![p].done = 0,
                          ![p].stale = @ \cup {FieldOrder[i] : i \in 1..page[p].done}]
  /\ UNCHANGED <<globalRow, orgRow>>

SettingsNext ==
  \/ AdminWrites
  \/ \E p \in Pages : \/ LoadSettings(p) \/ Save(p) \/ UpdateField(p) \/ Saved(p) \/ SaveFails(p)
                      \/ \E f \in Fields, v \in FieldValues : EditField(p, f, v)

SettingsSpec == SettingsInit /\ [][SettingsNext]_settingsVars

-----------------------------------------------------------------------------
\* What a page takes for saved is what the optimizer of the organization resolves, field
\* by field, unless somebody else has written the field since the page loaded it or
\* saved it, or a save of its own failed half way (org-settings.controller.ts 72-82,
\* web settings/page.tsx 24-50).
SavedIsInForce ==
  \A p \in Pages : page[p].pc = "editing" =>
    \A f \in Fields \ page[p].stale : page[p].initialSettings[f] = Resolved[f]
=============================================================================
