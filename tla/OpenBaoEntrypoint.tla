------------------------- MODULE OpenBaoEntrypoint -------------------------
(***************************************************************************)
(* demo/openbao/entrypoint.sh: the script that starts the OpenBao server,  *)
(* initialises it on the first start, unseals it on every start, and seeds *)
(* the secrets the pipelines read.                                         *)
(*                                                                         *)
(* The server's storage and the script's three files share one volume, so  *)
(* they survive a restart of the container; the seal and the script's      *)
(* variables do not.  The script checks almost no exit status, and the     *)
(* container may die between any two commands.                             *)
(***************************************************************************)
EXTENDS Naturals, Sequences

CONSTANTS
    SecretPaths,   \* the secrets seeded, in order
    MaxCrashes,    \* bound: deaths of the container
    MaxStarts,     \* bound: starts of the container
    MaxFaults      \* bound: commands that fail on their own

ASSUME BoundsAssumption ==
    MaxCrashes \in Nat /\ MaxStarts \in Nat /\ MaxFaults \in Nat
ASSUME SecretPathsAssumption == SecretPaths \in Seq(STRING)

VARIABLES
    initialized,  \* server: holds a master key
    engine,       \* server: KV v2 is mounted at secret/
    secrets,      \* server: indices of SecretPaths that have been written
    sealed,       \* server, until it stops
    tokenFile,    \* root-token.txt
    keysFile,     \* unseal-keys.txt
    marker,       \* does .init-complete exist?
    rootToken,    \* the script's ROOT_TOKEN
    pc,           \* what the script does next
    next,         \* index of the secret it seeds next
    starts, crashes, faults

serverDisk == <<initialized, engine, secrets>>
files == <<tokenFile, keysFile, marker>>
counts == <<starts, crashes, faults>>
vars == <<serverDisk, sealed, files, rootToken, pc, next, counts>>

(***************************************************************************)
(* Contents of a file or variable: "garbage" is the output of a refused    *)
(* `bao operator init` taken for a token or for keys.                      *)
(***************************************************************************)
Content == {"absent", "empty", "good", "garbage"}
Stopped == {"down", "exited"}
Commands == {"wait", "status", "unseal", "init", "save.token", "save.keys", "marker?",
             "enable", "put", "touch", "serving"}

Init ==
    /\ initialized = FALSE /\ engine = FALSE /\ secrets = {}
    /\ sealed = TRUE
    /\ tokenFile = "absent" /\ keysFile = "absent" /\ marker = FALSE
    /\ rootToken = "empty"
    /\ pc = "down"
    /\ next = 1
    /\ starts = 0 /\ crashes = 0 /\ faults = 0

Fault == faults < MaxFaults /\ faults' = faults + 1 /\ UNCHANGED <<starts, crashes>>
NoFault == UNCHANGED counts

Step(here, there) == pc = here /\ pc' = there

-----------------------------------------------------------------------------
(***************************************************************************)
(* The container starts, or starts again: an initialised server comes up   *)
(* sealed.                                                                 *)
(***************************************************************************)
Start ==
    /\ pc \in Stopped
    /\ starts < MaxStarts
    /\ starts' = starts + 1
    /\ pc' = "wait"
    /\ sealed' = TRUE
    /\ rootToken' = "empty"
    /\ next' = 1
    /\ UNCHANGED <<serverDisk, files, crashes, faults>>

(***************************************************************************)
(* Server and script die together.  tee truncates its file before it       *)
(* writes it.                                                              *)
(***************************************************************************)
Crash ==
    /\ pc \notin Stopped
    /\ crashes < MaxCrashes
    /\ crashes' = crashes + 1
    /\ pc' = "down"
    /\ tokenFile' \in {tokenFile} \cup (IF pc = "save.token" THEN {"empty"} ELSE {})
    /\ keysFile' \in {keysFile} \cup (IF pc = "save.keys" THEN {"empty"} ELSE {})
    /\ sealed' = TRUE
    /\ rootToken' = "empty"
    /\ UNCHANGED <<serverDisk, marker, next, starts, faults>>

(***************************************************************************)
(* The server answers, or does not in MAX_RETRIES attempts.                *)
(***************************************************************************)
WaitForServer ==
    /\ \/ Step("wait", "status") /\ NoFault
       \/ Step("wait", "exited") /\ Fault
    /\ UNCHANGED <<serverDisk, sealed, files, rootToken, next>>

CheckStatus_MutantAlwaysInit ==
    /\ Step("status", "init") /\ NoFault
    /\ UNCHANGED <<serverDisk, sealed, files, rootToken, next>>

(***************************************************************************)
(* One `bao status`.  If the command fails, its output says nothing of     *)
(* "initialized" and the script takes the server for a new one.            *)
(***************************************************************************)
CheckStatus ==
    /\ \/ initialized /\ Step("status", "unseal") /\ NoFault
       \/ ~initialized /\ Step("status", "init") /\ NoFault
       \/ initialized /\ Step("status", "init") /\ Fault
    /\ UNCHANGED <<serverDisk, sealed, files, rootToken, next>>

(***************************************************************************)
(* Two unseal commands with two keys, exit status ignored: the server is   *)
(* unsealed when both succeed and the keys are its own.                    *)
(***************************************************************************)
Unsealing(keys) ==
    \/ sealed' = (keys # "good") /\ NoFault
    \/ sealed' = TRUE /\ Fault

UnsealFromFile ==
    \/ /\ keysFile \notin {"absent", "empty"}
       /\ Step("unseal", "marker?")
       /\ Unsealing(keysFile)
       /\ rootToken' = IF tokenFile = "absent" THEN rootToken ELSE tokenFile
       /\ UNCHANGED <<serverDisk, files, next>>
    \/ /\ keysFile \in {"absent", "empty"}
       /\ Step("unseal", "exited")
       /\ NoFault
       /\ UNCHANGED <<serverDisk, sealed, files, rootToken, next>>

-----------------------------------------------------------------------------
(***************************************************************************)
(* `bao operator init`.  A token is extracted only from the answer of a    *)
(* server that has just been initialised: sed leaves any other output as   *)
(* it is, and the script exits.                                            *)
(***************************************************************************)
InitServer ==
    /\ ~initialized
    /\ initialized' = TRUE
    /\ \/ Step("init", "save.token") /\ rootToken' = "good" /\ NoFault
       \/ Step("init", "exited") /\ UNCHANGED rootToken /\ Fault
    /\ UNCHANGED <<engine, secrets, sealed, files, next>>

InitRefused_MutantUnchecked ==
    /\ Step("init", "save.token") /\ rootToken' = "garbage"
    /\ initialized /\ NoFault
    /\ UNCHANGED <<serverDisk, sealed, files, next>>

InitRefused ==
    /\ Step("init", "exited")
    /\ \/ initialized /\ NoFault
       \/ ~initialized /\ Fault
    /\ UNCHANGED <<serverDisk, sealed, files, rootToken, next>>

(***************************************************************************)
(* tee; a failed write leaves the truncated file and goes unnoticed.       *)
(***************************************************************************)
SaveToken ==
    /\ Step("save.token", "save.keys")
    /\ \/ tokenFile' = rootToken /\ NoFault
       \/ tokenFile' = "empty" /\ Fault
    /\ UNCHANGED <<serverDisk, sealed, keysFile, marker, rootToken, next>>

(***************************************************************************)
(* The keys come from the same answer as the token.                        *)
(***************************************************************************)
SaveKeysAndUnseal ==
    /\ Step("save.keys", "marker?")
    /\ \/ keysFile' = rootToken /\ Unsealing(rootToken)
       \/ keysFile' = "empty" /\ sealed' = FALSE /\ Fault
    /\ UNCHANGED <<serverDisk, tokenFile, marker, rootToken, next>>

-----------------------------------------------------------------------------
(***************************************************************************)
(* Secrets are seeded when the marker is missing and there is a token;     *)
(* without one the script reports an error and serves all the same.        *)
(***************************************************************************)
CheckMarker_MutantMarksFirst ==
    /\ \/ (marker \/ rootToken = "empty") /\ Step("marker?", "serving") /\ UNCHANGED marker
       \/ ~marker /\ rootToken # "empty" /\ Step("marker?", "enable") /\ marker' = TRUE
    /\ NoFault
    /\ UNCHANGED <<serverDisk, sealed, tokenFile, keysFile, rootToken, next>>

CheckMarker ==
    /\ \/ (marker \/ rootToken = "empty") /\ Step("marker?", "serving")
       \/ ~marker /\ rootToken # "empty" /\ Step("marker?", "enable")
    /\ NoFault
    /\ UNCHANGED <<serverDisk, sealed, files, rootToken, next>>

Accepts == ~sealed /\ rootToken = "good"

EnableEngine ==
    /\ Step("enable", "put")
    /\ \/ engine' = (engine \/ Accepts) /\ NoFault
       \/ UNCHANGED engine /\ Fault
    /\ UNCHANGED <<initialized, secrets, sealed, files, rootToken, next>>

PutSecret_MutantOneTooMany ==
    /\ Step("put", IF next <= Len(SecretPaths) THEN "put" ELSE "touch")
    /\ \/ secrets' = secrets \cup (IF engine /\ Accepts THEN {next} ELSE {}) /\ NoFault
       \/ UNCHANGED secrets /\ Fault
    /\ next' = next + 1
    /\ UNCHANGED <<initialized, engine, sealed, files, rootToken>>

(***************************************************************************)
(* `bao kv put`, one path after the other; a failure is only displayed.    *)
(***************************************************************************)
PutSecret ==
    /\ next \in DOMAIN SecretPaths
    /\ Step("put", IF next < Len(SecretPaths) THEN "put" ELSE "touch")
    /\ \/ secrets' = secrets \cup (IF engine /\ Accepts THEN {next} ELSE {}) /\ NoFault
       \/ UNCHANGED secrets /\ Fault
    /\ next' = next + 1
    /\ UNCHANGED <<initialized, engine, sealed, files, rootToken>>

TouchMarker ==
    /\ Step("touch", "serving")
    /\ marker' = TRUE
    /\ NoFault
    /\ UNCHANGED <<serverDisk, sealed, tokenFile, keysFile, rootToken, next>>

-----------------------------------------------------------------------------
Script ==
    \/ WaitForServer \/ CheckStatus \/ UnsealFromFile
    \/ InitServer \/ InitRefused \/ SaveToken \/ SaveKeysAndUnseal
    \/ CheckMarker \/ EnableEngine \/ PutSecret \/ TouchMarker

Next == Start \/ Crash \/ Script

Spec == Init /\ [][Next]_vars

-----------------------------------------------------------------------------
(***************************************************************************)
(* The files hold what a script could have written, and only the secrets   *)
(* listed are put.                                                         *)
(***************************************************************************)
TypeOK ==
    /\ initialized \in BOOLEAN /\ engine \in BOOLEAN
    /\ secrets \subseteq DOMAIN SecretPaths
    /\ sealed \in BOOLEAN
    /\ tokenFile \in Content /\ keysFile \in Content /\ marker \in BOOLEAN
    /\ rootToken \in Content \ {"absent"}
    /\ pc \in Stopped \cup Commands
    /\ next \in Nat
    /\ starts \in Nat /\ crashes \in Nat /\ faults \in Nat

Seeded == secrets = DOMAIN SecretPaths

(***************************************************************************)
(* Wherever the container dies, and however often: as long as no command   *)
(* fails on its own, a server that is left serving is unsealed and holds   *)
(* every secret.                                                           *)
(***************************************************************************)
ReadyIsUsable == faults = 0 /\ pc = "serving" => ~sealed /\ marker /\ Seeded

(***************************************************************************)
(* The script only gives up when a command failed, or when the container   *)
(* died after the server was initialised and before its keys were saved:   *)
(* then no restart brings the secrets back.                                *)
(***************************************************************************)
GivesUpOnLostKeys ==
    faults = 0 /\ pc = "exited" => crashes > 0 /\ initialized /\ keysFile # "good"

(***************************************************************************)
(* Keys and token, once saved, are never overwritten, not even when        *)
(* `bao status` fails and the script tries to initialise again.            *)
(***************************************************************************)
SavedFilesSurvive ==
    [][/\ keysFile = "good" => keysFile' = "good"
       /\ tokenFile = "good" => tokenFile' = "good"]_<<tokenFile, keysFile>>

(***************************************************************************)
(* The entry point keeps the promise of KeyCustody: the server seals       *)
(* itself, the script has the keys in hand from the one `bao operator      *)
(* init` to its second tee, and unseal-keys.txt is where they are kept.    *)
(***************************************************************************)
Answers == pc \notin Stopped /\ ~sealed

Custody == INSTANCE KeyCustody WITH
    Secrets <- DOMAIN SecretPaths,
    open <- Answers,
    keys <- IF ~initialized THEN "none"
            ELSE IF keysFile = "good" THEN "kept"
            ELSE IF pc \in {"save.token", "save.keys"} THEN "inhand"
            ELSE "lost"

KeepsCustody == Custody!CSpec

(***************************************************************************)
(* entrypoint.sh, above `touch`: "Mark initialization complete".  The      *)
(* marker should stand for complete initialization.                        *)
(***************************************************************************)
MarkerMeansSeeded == marker => Seeded

=============================================================================
