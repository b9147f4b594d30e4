--------------------------- MODULE SecretDelivery ---------------------------
(***************************************************************************)
(* The OpenBao server that entrypoint.sh starts, initialises, unseals and  *)
(* seeds, together with an Airflow task that reads its secrets through     *)
(* OpenBaoHook.  The two meet in the server alone: the hook gets answers   *)
(* while the container is up and unsealed, and finds what has been seeded. *)
(***************************************************************************)
EXTENDS OpenBaoEntrypoint

CONSTANTS Methods, Tokens, EnvToken, Retries, MaxBlips, None

ASSUME SomeSecretAssumption == SecretPaths # <<>>
ASSUME TaskAssumption == Retries \in Nat /\ MaxBlips \in Nat
ASSUME TokenAssumption == None \notin Tokens /\ EnvToken \in Tokens \cup {None}

VARIABLES method, varToken, issued, live, step, tries, reading, login, client, blips, calm

hookVars == <<method, varToken, issued, live, step, tries, reading, login, client, blips, calm>>

(***************************************************************************)
(* Once the script has come to its end, and no command of it has failed,   *)
(* its operator takes the secrets to be there.                             *)
(***************************************************************************)
Promised == pc = "serving" /\ faults = 0

Hook == INSTANCE OpenBaoHook WITH
    Paths <- Len(SecretPaths),
    answers <- Answers,
    stored <- secrets,
    promised <- Promised

DeliveryInit == Init /\ Hook!HookInit

DeliveryNext ==
    \/ Next /\ Hook!Meanwhile
    \/ UNCHANGED vars /\ Hook!HookNext

DeliverySpec == DeliveryInit /\ [][DeliveryNext]_<<vars, hookVars>>

-----------------------------------------------------------------------------
(***************************************************************************)
(* The types of the task's variables, and its agreement with the server's. *)
(***************************************************************************)
TaskTypeOK == Hook!HookTypeOK

(***************************************************************************)
(* From the script to the task: as long as no command of the script fails, *)
(* a try during which the container kept serving reads all its secrets,    *)
(* however often the container died before; and the hook passes over       *)
(* tokens that expire (see ExpiryIsHealed in OpenBaoHook).                 *)
(***************************************************************************)
ServingIsEnough == Hook!ExpiryIsHealed

=============================================================================
