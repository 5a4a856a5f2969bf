------------------------------- MODULE Alerts -------------------------------
(***************************************************************************)
(* Alerts of one organization: raised with deduplication by a find and a   *)
(* write, resolved by users and by cleared conditions, and a page that     *)
(* polls (alerts/, web alerts page).  Nothing in the repository calls      *)
(* raise or autoResolve yet; their callers are any.                        *)
(***************************************************************************)
EXTENDS Naturals, Sequences

CONSTANTS AlertKeys,   \* dedup keys: organization, entity and alert type
          MaxAlerts,   \* alerts rows (bound)
          Raisers      \* calls of raise in progress at once (bound)

ASSUME AlertsAssumption == MaxAlerts \in Nat

VARIABLES alert,      \* alerts rows, by id; `twin`: another raise of the key was under way
          raiser,     \* calls of raise
          clearing,   \* the keys autoResolve still has to go through
          alertPage   \* the rows the page shows

alertVars == <<alert, raiser, clearing, alertPage>>

AlertIds == 1..MaxAlerts
AlertRows == [dedupKey : AlertKeys, isRead : BOOLEAN, resolved : BOOLEAN, twin : BOOLEAN]
\* `disturbed`: an alert of the key was resolved since the call looked.
NotRaising == [pc |-> "idle", key |-> "none", found |-> 0, disturbed |-> FALSE]

AlertTypeOK ==
  /\ \E n \in 0..MaxAlerts : alert \in [1..n -> AlertRows]
  /\ raiser \in [Raisers -> [pc : {"idle", "found"}, key : AlertKeys \cup {"none"},
                             found : 0..MaxAlerts, disturbed : BOOLEAN]]
  /\ clearing \subseteq AlertKeys
  /\ \E n \in 0..MaxAlerts : alertPage \in [1..n -> AlertRows]

AlertInit ==
  /\ alert = <<>> /\ clearing = {} /\ alertPage = <<>>
  /\ raiser = [r \in Raisers |-> NotRaising]

ActiveOfAny(rows, key) == {i \in DOMAIN rows : rows[i].dedupKey = key}  \* mutant: resolved ones count
ActiveOf(rows, key) == {i \in DOMAIN rows : rows[i].dedupKey = key /\ ~rows[i].resolved}

\* raise: any active alert of the key, or none.
FindActive(r, key) ==
  /\ raiser[r].pc = "idle"
  /\ \E i \in IF ActiveOf(alert, key) = {} THEN {0} ELSE ActiveOf(alert, key) :
       raiser' = [raiser EXCEPT ![r] = [pc |-> "found", key |-> key, found |-> i, disturbed |-> FALSE]]
  /\ UNCHANGED <<alert, clearing, alertPage>>

\* The alert found is touched (it stays read, and where it is in the list); or one is
\* created.
WriteAlert(r) ==
  /\ raiser[r].pc = "found"
  /\ IF raiser[r].found # 0 THEN UNCHANGED alert
     ELSE /\ Len(alert) < MaxAlerts
          /\ alert' = Append(alert, [dedupKey |-> raiser[r].key, isRead |-> FALSE, resolved |-> FALSE,
                 twin |-> \E q \in Raisers \ {r} : raiser[q].key = raiser[r].key /\ raiser[q].found = 0])
  /\ raiser' = [raiser EXCEPT ![r] = NotRaising]
  /\ UNCHANGED <<clearing, alertPage>>

\* Rows are resolved; raises under way that looked before are disturbed.
ResolveRows(ids) ==
  /\ alert' = [i \in DOMAIN alert |-> IF i \in ids THEN [alert[i] EXCEPT !.resolved = TRUE] ELSE alert[i]]
  /\ raiser' = [r \in Raisers |->
       [pc |-> raiser[r].pc, key |-> raiser[r].key, found |-> raiser[r].found,
        disturbed |-> raiser[r].disturbed \/ \E i \in ids : alert[i].dedupKey = raiser[r].key]]

AutoResolve ==
  /\ clearing = {} /\ clearing' \in (SUBSET AlertKeys) \ {{}}
  /\ UNCHANGED <<alert, raiser, alertPage>>

\* One updateMany per cleared condition.
AutoResolveKey(key) ==
  /\ key \in clearing /\ clearing' = clearing \ {key}
  /\ ResolveRows(ActiveOf(alert, key))
  /\ UNCHANGED alertPage

\* The page loads, and again every minute and after each of its own changes.
FetchAlerts ==
  /\ alertPage' = alert
  /\ UNCHANGED <<alert, raiser, clearing>>

\* The buttons of a row as the page shows it; the update is by id, whatever it is now.
MarkRead(i) ==
  /\ i \in DOMAIN alertPage /\ ~alertPage[i].isRead
  /\ alert' = [alert EXCEPT ![i].isRead = TRUE]
  /\ UNCHANGED <<raiser, clearing, alertPage>>

MarkAllRead ==
  /\ \E i \in DOMAIN alertPage : ~alertPage[i].isRead
  /\ alert' = [i \in DOMAIN alert |-> [alert[i] EXCEPT !.isRead = TRUE]]
  /\ UNCHANGED <<raiser, clearing, alertPage>>

Resolve(i) ==
  /\ i \in DOMAIN alertPage /\ ~alertPage[i].resolved
  /\ ResolveRows({i})
  /\ UNCHANGED <<clearing, alertPage>>

AlertNext ==
  \/ AutoResolve \/ FetchAlerts \/ MarkAllRead
  \/ \E key \in AlertKeys : AutoResolveKey(key) \/ \E r \in Raisers : FindActive(r, key)
  \/ \E r \in Raisers : WriteAlert(r)
  \/ \E i \in AlertIds : MarkRead(i) \/ Resolve(i)

AlertSpec == AlertInit /\ [][AlertNext]_alertVars

-----------------------------------------------------------------------------
Open(rows, key) == {i \in DOMAIN rows : rows[i].dedupKey = key /\ ~rows[i].resolved}

\* A raise leaves an active alert of its key, unless one was resolved after it looked;
\* and there is one active alert per key, unless two raises of the key found none at the
\* same time (alerts.service.ts 21-22: "Only one active (unresolved) alert per dedup_key").
RaisedOnce ==
  [][/\ \A r \in Raisers : raiser[r].pc = "found" /\ raiser'[r].pc = "idle" =>
          raiser[r].disturbed \/ Open(alert', raiser[r].key) # {}
     /\ \A key \in AlertKeys : \A i, j \in Open(alert', key) :
          i < j => alert'[i].twin \/ alert'[j].twin]_alertVars
=============================================================================
