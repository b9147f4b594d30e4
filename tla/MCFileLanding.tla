--------------------------- MODULE MCFileLanding ---------------------------
(***************************************************************************)
(* Instances of FileLanding for TLC.                                       *)
(***************************************************************************)
EXTENDS FileLanding, TLC

CONSTANTS f1, f2

Files2 == {f1, f2}

(***************************************************************************)
(* Files are only compared with one another.                               *)
(***************************************************************************)
Symmetry == Permutations(Files)
=============================================================================
