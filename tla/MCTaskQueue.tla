---------------------------- MODULE MCTaskQueue ----------------------------
(***************************************************************************)
(* Instances of TaskQueue for TLC.                                         *)
(***************************************************************************)
EXTENDS TaskQueue, TLC

CONSTANTS w1, w2

Workers2 == {w1, w2}
Symmetry == Permutations(Workers2)

NoPins == [t \in Task |-> None]
NoAffinity == [w \in Worker |-> {}]
NoEdges == {}
NoDeps == [t \in Task |-> {}]

\* 2 follows 1.
ChainDeps == [t \in Task |-> IF t = 2 THEN {1} ELSE {}]

\* 3 joins 1 and 2 and wants something of 1's result; 4 follows 3.
JoinDeps ==
    [t \in Task |-> CASE t = 3 -> {1, 2} [] t = 4 -> {3} [] OTHER -> {}]
JoinCond == {<<1, 3>>}
JoinPins == [t \in Task |-> IF t = 2 THEN w1 ELSE None]
JoinAffinity == [w \in Worker |-> IF w = w2 THEN {1, 4} ELSE {}]
=============================================================================
