--------------------------- MODULE MCKafkaWindow ---------------------------
(***************************************************************************)
(* Instances of KafkaWindow for TLC.                                       *)
(***************************************************************************)
EXTENDS KafkaWindow, TLC

CONSTANTS p1, p2, r1, r2, r3

Partitions2 == {p1, p2}
Runs3 == {r1, r2, r3}

(***************************************************************************)
(* Partitions and runs are only compared with their like.                  *)
(***************************************************************************)
Symmetry == Permutations(Partitions) \cup Permutations(Runs)
=============================================================================
