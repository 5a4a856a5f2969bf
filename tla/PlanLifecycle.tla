--------------------------- MODULE PlanLifecycle ---------------------------
(***************************************************************************)
(* What a campaign plan promises its users: the status column as a one-way *)
(* road.  A plan is drafted, approved, launched, and ends as LAUNCHED or   *)
(* FAILED; a launch that died half way is picked up again from LAUNCHING.  *)
(* The detailed workflow of PlanLaunch implements this when its requests   *)
(* do not overlap.                                                         *)
(***************************************************************************)

VARIABLE status

Statuses == {"ABSENT", "DRAFT", "APPROVED", "LAUNCHING", "LAUNCHED", "FAILED"}

\* "LAUNCHED/FAILED are terminal" (campaign-architect.controller.ts:172).
Terminal == {"LAUNCHED", "FAILED"}

Init == status = "ABSENT"

Move(from, to) == status = from /\ status' = to

Create  == Move("ABSENT", "DRAFT")
Approve == Move("DRAFT", "APPROVED")
Begin   == Move("APPROVED", "LAUNCHING")
End     == \E s \in Terminal : Move("LAUNCHING", s)

Next == Create \/ Approve \/ Begin \/ End

Spec == Init /\ [][Next]_status

=============================================================================
