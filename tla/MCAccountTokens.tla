--------------------------- MODULE MCAccountTokens ---------------------------
(* Small instances of AccountTokens for TLC. *)
EXTENDS AccountTokens, TLC

\* An administrator switches the platform on and off.
SwitchOnOff == [op : {"setEnabled"}, secret : {None}, enabled : BOOLEAN]
SwitchOff == [op : {"setEnabled"}, secret : {None}, enabled : {FALSE}]

Symmetry == Permutations(Jobs) \cup Permutations(Grants) \cup Permutations(Secrets)
=============================================================================
