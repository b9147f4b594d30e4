-------------------------- MODULE MCSecretDelivery --------------------------
(***************************************************************************)
(* Instances of SecretDelivery for TLC.                                    *)
(***************************************************************************)
EXTENDS SecretDelivery, TLC

CONSTANTS t1, t2, t3

MCTokens == {t1, t2, t3}
MCMethods == {"kubernetes", "userpass"}
MCSecrets == <<"data-processor/postgres", "data-platform/hadoop">>

(***************************************************************************)
(* Tokens are only compared with one another, and t1 is the environment's. *)
(***************************************************************************)
Symmetry == Permutations({t2, t3})
=============================================================================
