---------------------------- MODULE MCSetupFlow ----------------------------
(* Two images, either of which may be chosen. *)
EXTENDS SetupFlow, TLC

CONSTANTS d1, d2
TwoDisks == {d1, d2}
Alike == Permutations(TwoDisks)
=============================================================================
