----------------------------- MODULE MCSnapshot -----------------------------
(* TLC instance of Snapshot: names 1 and 3 belong to the fixture, 2 and 4  *)
(* do not; file identifiers are interchangeable.                           *)
EXTENDS Snapshot, TLC

CONSTANTS new, old

LatestFiles == [n \in Names |-> IF n \in {2, 4} THEN None ELSE new]
OldFiles    == [n \in Names |-> IF n \in {2, 4} THEN None ELSE old]
Symmetry    == Permutations(Id)
=============================================================================
