------------------------ MODULE MCIngestionPipeline ------------------------
(***************************************************************************)
(* Instances of IngestionPipeline for TLC.                                 *)
(***************************************************************************)
EXTENDS IngestionProperties, TLC

CONSTANTS a, b, r1, r2, r3

Rows1 == {a}
Rows2 == {a, b}
Runs2 == {r1, r2}
Runs3 == {r1, r2, r3}

Ts12 == 1..2
Ts14 == 1..4
Ts13 == 1..3
Ts01 == 0..1

(***************************************************************************)
(* Rows and runs are only compared with one another.                       *)
(***************************************************************************)
Symmetry == Permutations(Rows) \cup Permutations(Runs)
=============================================================================
