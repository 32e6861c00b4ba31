---------------------------- MODULE MCFleetLock ----------------------------
(***************************************************************************)
(* Instances of FleetLock for TLC.                                         *)
(***************************************************************************)
EXTENDS FleetLock, TLC

CONSTANTS r1, r2, r3, r4

Runs3 == {r1, r2, r3}
Runs4 == {r1, r2, r3, r4}
Symmetry3 == Permutations(Runs3)
=============================================================================
