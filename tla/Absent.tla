------------------------------- MODULE Absent -------------------------------
(***************************************************************************)
(* What stands for null and undefined, in the modules that are checked     *)
(* together.                                                               *)
(***************************************************************************)
CONSTANTS None,    \* no value, no row, a field that is left out
          Nobody   \* no user, no token
=============================================================================
