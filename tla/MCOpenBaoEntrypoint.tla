------------------------ MODULE MCOpenBaoEntrypoint ------------------------
(***************************************************************************)
(* Instances of OpenBaoEntrypoint for TLC.                                 *)
(***************************************************************************)
EXTENDS OpenBaoEntrypoint

DemoSecrets == <<"data-processor/postgres", "data-platform/hadoop", "data-platform/kafka">>
=============================================================================
