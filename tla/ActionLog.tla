------------------------------ MODULE ActionLog ------------------------------
(***************************************************************************)
(* The optimizer page: the list of optimizer_actions the API answers with, *)
(* the page's filters and decisions over its copy of that list, and how a  *)
(* card shows a change of a previewed cycle (optimizer/                    *)
(* optimizer.controller.ts, executor.service.ts, web optimizer page).      *)
(***************************************************************************)
EXTENDS Integers, Sequences, FiniteSets, Arranging, Absent

CONSTANTS Proposed,    \* what cycles propose: type, values current and proposed, target
          LogEntities, \* the campaigns it is about
          PageLimit,      \* how many actions the page asks for: 100
          PAGE_SIZE,   \* how many more the page shows at a time: 8
          ChipsUsed,   \* statuses whose chip the user clicks
          MaxActions,  \* bound: actions logged
          MaxCalls,    \* bound: decisions under way
          PresetsUsed, \* date presets the user clicks
          Today        \* the days of the log are 0..Today

\* A budget is proposed from a budget (base-rule.handler.ts): both values are there.
ASSUME ActionLogAssumption ==
  /\ \A p \in Proposed : /\ p.type \in {"BUDGET", "STRATEGY", "CEILING"}
                         /\ p.type = "BUDGET" => p.current # None /\ p.proposed # None
  /\ {PageLimit, PAGE_SIZE} \subseteq Nat \ {0} /\ Today \in Nat /\ None \notin Int
  /\ PresetsUsed \subseteq {"today", "yesterday", "7d", "30d"}

VARIABLES actionRow,  \* optimizer_actions, oldest first; `born` is the status a row was logged with
          board,      \* the page: its copy of the list, its filters, how many cards it shows
          decision    \* decisions of this page under way

actionLogVars == <<actionRow, board, decision>>

EMPTY_FILTER == [statuses |-> {}, campaign |-> None, preset |-> None, dateFrom |-> None, dateTo |-> None]
NoBoard == [rows |-> <<>>, filters |-> EMPTY_FILTER, visible |-> PAGE_SIZE]

ActionLogInit == actionRow = <<>> /\ board = NoBoard /\ decision = {}

-----------------------------------------------------------------------------
(* What a card of the preview of a cycle shows of a change.  A card of the log reads    *)
(* the same columns, which the executor stores under other names: see the README.       *)

Given(a, b) == IF a # None THEN a ELSE b
BuildSimulateDiff(p) ==
  CASE p.type = "BUDGET"   -> <<[daily_budget |-> Given(p.current, 0)], [daily_budget |-> Given(p.proposed, 0)]>>
    [] p.type = "STRATEGY" -> <<[bidding_strategy |-> p.current], [bidding_strategy |-> p.target]>>
    [] p.type = "CEILING"  -> <<[bid_ceiling_sar |-> p.current], [bid_ceiling_sar |-> p.proposed]>>

FieldOf(payload, key) == IF key \in DOMAIN payload THEN payload[key] ELSE None
ValueShown(type, payload) ==
  CASE type = "BUDGET"   -> Given(FieldOf(payload, "daily_budget_sar"), Given(FieldOf(payload, "daily_budget"), 0))
    [] type = "STRATEGY" -> FieldOf(payload, "bidding_strategy")
    [] type = "CEILING"  -> FieldOf(payload, "bid_ceiling_sar")
ValueDiff(type, before, after) == <<ValueShown(type, before), ValueShown(type, after)>>

-----------------------------------------------------------------------------
(* Cycles and other administrators *)

\* A cycle proposes, and suggests or tries what it proposed.
CycleLogs ==
  /\ Len(actionRow) < MaxActions
  /\ \E c \in LogEntities, born \in {"PENDING", "APPLIED", "FAILED"}, today \in 0..Today :
       /\ actionRow # <<>> => today >= actionRow[Len(actionRow)].day
       /\ actionRow' = Append(actionRow, [id |-> Len(actionRow) + 1, campaign |-> c, born |-> born,
                                          status |-> born, day |-> today])
  /\ UNCHANGED <<board, decision>>

\* Another administrator decides on a suggestion on another page.
DecidedElsewhere ==
  \E i \in DOMAIN actionRow :
    /\ actionRow[i].status = "PENDING"
    /\ \E status \in {"APPLIED", "SKIPPED"} : actionRow' = [actionRow EXCEPT ![i].status = status]
    /\ UNCHANGED <<board, decision>>

-----------------------------------------------------------------------------
(* The page *)

\* The newest, newest first.
ListActions == [k \in 1..(IF Len(actionRow) > PageLimit THEN PageLimit ELSE Len(actionRow)) |->
                  actionRow[Len(actionRow) + 1 - k]]

\* The list arrives: at first, when it is stale, and after a decision that went through.
FetchActions == board' = [board EXCEPT !.rows = ListActions] /\ UNCHANGED <<actionRow, decision>>

Passes(a, f) ==
  /\ f.statuses # {} => a.status \in f.statuses
  /\ f.campaign # None => a.campaign = f.campaign
  /\ f.dateFrom # None => a.day >= f.dateFrom
  /\ f.dateTo # None => a.day <= f.dateTo
FilterLog(rows, f) == Kept(rows, {k \in DOMAIN rows : Passes(rows[k], f)})
Filtered == FilterLog(board.rows, board.filters)
Visible  == SubSeq(Filtered, 1, IF board.visible < Len(Filtered) THEN board.visible ELSE Len(Filtered))
HasMore  == board.visible < Len(Filtered)

ChangeFilter(f) ==
  /\ board' = [board EXCEPT !.filters = f, !.visible = PAGE_SIZE]
  /\ UNCHANGED <<actionRow, decision>>

ToggleStatus == \E s \in ChipsUsed :
  LET chosen == board.filters.statuses IN
  ChangeFilter([board.filters EXCEPT !.statuses = IF s \in chosen THEN chosen \ {s} ELSE chosen \cup {s}])

PickCampaign == \E c \in {board.rows[k].campaign : k \in DOMAIN board.rows} \cup {None} :
  ChangeFilter([board.filters EXCEPT !.campaign = c])

PresetDays(preset) ==
  CASE preset = "today" -> <<Today, Today>> [] preset = "yesterday" -> <<Today - 1, Today - 1>>
    [] preset = "7d" -> <<Today - 6, Today>> [] preset = "30d" -> <<Today - 29, Today>>

\* A second click on a preset takes it back, and leaves its dates.
SetPreset == \E preset \in PresetsUsed :
  ChangeFilter([board.filters EXCEPT !.preset = IF preset = @ THEN None ELSE preset,
                                     !.dateFrom = PresetDays(preset)[1], !.dateTo = PresetDays(preset)[2]])

IsFilterActive(f) == f.statuses # {} \/ f.campaign # None \/ f.preset # None
ClearFilters == IsFilterActive(board.filters) /\ ChangeFilter(EMPTY_FILTER)

LoadMore ==
  /\ HasMore /\ board' = [board EXCEPT !.visible = @ + PAGE_SIZE]
  /\ UNCHANGED <<actionRow, decision>>

\* The buttons of a suggestion; they are free again at once, whatever becomes of the call.
DecidableAny(a) == TRUE  \* mutant: every card has the buttons
Decidable(a) == a.status = "PENDING"
Decide(verb) ==
  /\ Cardinality(decision) < MaxCalls
  /\ LET cards == Visible IN
     \E k \in DOMAIN cards : /\ Decidable(cards[k])
                            /\ decision' = decision \cup {[id |-> cards[k].id, verb |-> verb, pc |-> "sent"]}
  /\ UNCHANGED <<actionRow, board>>

ApproveReads(d) ==
  /\ d.verb = "approve" /\ d.pc = "sent"
  /\ decision' = (decision \ {d}) \cup (IF actionRow[d.id].status = "PENDING" THEN {[d EXCEPT !.pc = "read"]} ELSE {})
  /\ UNCHANGED <<actionRow, board>>
ApproveWrites(d) ==
  /\ d.pc = "read"
  /\ actionRow' = [actionRow EXCEPT ![d.id].status = "APPLIED"] /\ decision' = decision \ {d}
  /\ UNCHANGED board
RejectWrites(d) ==
  /\ d.verb = "reject"
  /\ actionRow' = [actionRow EXCEPT ![d.id].status = "SKIPPED"] /\ decision' = decision \ {d}
  /\ UNCHANGED board

ActionLogNext ==
  \/ CycleLogs \/ DecidedElsewhere
  \/ FetchActions \/ ToggleStatus \/ PickCampaign \/ SetPreset \/ ClearFilters \/ LoadMore
  \/ \E verb \in {"approve", "reject"} : Decide(verb)
  \/ \E d \in decision : ApproveReads(d) \/ ApproveWrites(d) \/ RejectWrites(d)
ActionLogSpec == ActionLogInit /\ [][ActionLogNext]_actionLogVars

-----------------------------------------------------------------------------
(* Properties.                                                             *)

\* rejectAction looks at no status and the page decides on a copy of the list: still,
\* what a cycle did or failed to do is never put down as decided by a user.
ExecutedStaysOnRecord ==
  \A i \in DOMAIN actionRow : actionRow[i].born # "PENDING" => actionRow[i].status = actionRow[i].born

\* With nothing marked as a filter, "load more" ends with the newest actions of the log as
\* they were at the last answer, unless a date preset was taken back: then its dates hide
\* the rest, and nothing on the page offers to clear them.
NothingIsHidden ==
  LET f == board.filters IN
  ~IsFilterActive(f) /\ f.dateFrom = None =>
    /\ ~HasMore => Len(Visible) = Len(board.rows)
    /\ \A k \in DOMAIN board.rows :
         /\ board.rows[k].id = board.rows[1].id - k + 1
         /\ k = Len(board.rows) => k = PageLimit \/ board.rows[k].id = 1

\* The card of a previewed change shows what the cycle would make of what: both values of
\* a budget or a bid ceiling, and the strategy it switches to.
PreviewIsShown ==
  \A p \in Proposed :
    LET diff == BuildSimulateDiff(p)
    IN ValueDiff(p.type, diff[1], diff[2]) = <<p.current, IF p.type = "STRATEGY" THEN p.target ELSE p.proposed>>

\* All of it (optimizer.controller.ts 63-123 and 132-279, optimizer/page.tsx 197-283,
\* filter-bar.tsx 84-113, value-diff.tsx 112-222).
ActionPageHolds == ExecutedStaysOnRecord /\ NothingIsHidden /\ PreviewIsShown
=============================================================================
