---------------------- MODULE OpenBaoEntrypoint_proofs ----------------------
(***************************************************************************)
(* Theorems about OpenBaoEntrypoint, for any list of secrets and any       *)
(* number of starts, deaths of the container and failing commands.         *)
(***************************************************************************)
EXTENDS OpenBaoEntrypoint, TLAPS

USE BoundsAssumption, SecretPathsAssumption
USE DEF Content, Stopped, Commands, Step

LEMMA PathsAreNumbered == Len(SecretPaths) \in Nat /\ DOMAIN SecretPaths = 1..Len(SecretPaths)
  OBVIOUS

LEMMA CountsStep ==
    ASSUME TypeOK, Fault \/ NoFault
    PROVE  starts' \in Nat /\ crashes' \in Nat /\ faults' \in Nat
<1>1. CASE Fault
  BY <1>1 DEF TypeOK, Fault
<1>2. CASE NoFault
  BY <1>2 DEF TypeOK, NoFault, counts
<1>3. QED
  BY <1>1, <1>2

LEMMA InitTypeOK == Init => TypeOK
<1> SUFFICES ASSUME Init PROVE TypeOK
  OBVIOUS
<1>1. initialized \in BOOLEAN /\ engine \in BOOLEAN /\ sealed \in BOOLEAN /\ marker \in BOOLEAN
  BY DEF Init
<1>2. secrets \subseteq DOMAIN SecretPaths
  BY DEF Init
<1>3. QED
  BY <1>1, <1>2 DEF Init, TypeOK

LEMMA ServerTypeOK ==
    ASSUME TypeOK, Start \/ Crash \/ WaitForServer \/ CheckStatus \/ UnsealFromFile
    PROVE  TypeOK'
<1>1. CASE Start
  BY <1>1 DEF Start, serverDisk, files, TypeOK
<1>2. CASE Crash
  BY <1>2 DEF Crash, serverDisk, TypeOK
<1>3. CASE WaitForServer
  BY <1>3, CountsStep DEF WaitForServer, serverDisk, files, TypeOK
<1>4. CASE CheckStatus
  BY <1>4, CountsStep DEF CheckStatus, serverDisk, files, TypeOK
<1>5. CASE UnsealFromFile
  BY <1>5, CountsStep DEF UnsealFromFile, Unsealing, serverDisk, files, TypeOK
<1>6. QED
  BY <1>1, <1>2, <1>3, <1>4, <1>5

LEMMA InitialisationTypeOK ==
    ASSUME TypeOK, InitServer \/ InitRefused \/ SaveToken \/ SaveKeysAndUnseal
    PROVE  TypeOK'
<1>1. CASE InitServer
  BY <1>1, CountsStep DEF InitServer, files, TypeOK
<1>2. CASE InitRefused
  BY <1>2, CountsStep DEF InitRefused, serverDisk, files, TypeOK
<1>3. CASE SaveToken
  BY <1>3, CountsStep DEF SaveToken, serverDisk, TypeOK
<1>4. CASE SaveKeysAndUnseal
  BY <1>4, CountsStep DEF SaveKeysAndUnseal, Unsealing, serverDisk, TypeOK
<1>5. QED
  BY <1>1, <1>2, <1>3, <1>4

LEMMA SeedingTypeOK ==
    ASSUME TypeOK, CheckMarker \/ EnableEngine \/ PutSecret \/ TouchMarker
    PROVE  TypeOK'
<1>1. CASE CheckMarker
  BY <1>1, CountsStep DEF CheckMarker, serverDisk, files, TypeOK
<1>2. CASE EnableEngine
  BY <1>2, CountsStep DEF EnableEngine, Accepts, files, TypeOK
<1>3. CASE PutSecret
  BY <1>3, CountsStep DEF PutSecret, Accepts, files, TypeOK
<1>4. CASE TouchMarker
  BY <1>4, CountsStep DEF TouchMarker, serverDisk, TypeOK
<1>5. QED
  BY <1>1, <1>2, <1>3, <1>4

LEMMA NextTypeOK == TypeOK /\ [Next]_vars => TypeOK'
<1>1. TypeOK /\ UNCHANGED vars => TypeOK'
  BY DEF vars, serverDisk, files, counts, TypeOK
<1>2. QED
  BY <1>1, ServerTypeOK, InitialisationTypeOK, SeedingTypeOK DEF Next, Script

(***************************************************************************)
(* Files, server and script keep their types, whatever fails.              *)
(***************************************************************************)
THEOREM TypeCorrect == Spec => []TypeOK
  BY InitTypeOK, NextTypeOK, PTL DEF Spec

-----------------------------------------------------------------------------
(***************************************************************************)
(* What holds whatever commands fail: the files are written only after the *)
(* one initialisation of the server, before which they do not exist.       *)
(***************************************************************************)
FilesAreOnce ==
    /\ ~initialized => tokenFile = "absent" /\ keysFile = "absent"
    /\ pc \in {"save.token", "save.keys"} => initialized /\ keysFile # "good"
    /\ pc = "save.token" => tokenFile # "good"

LEMMA FilesStep ==
    ASSUME FilesAreOnce, [Next]_vars
    PROVE  /\ FilesAreOnce'
           /\ keysFile = "good" => keysFile' = "good"
           /\ tokenFile = "good" => tokenFile' = "good"
<1> USE DEF FilesAreOnce
<1>1. CASE Start \/ Crash
  BY <1>1 DEF Start, Crash, serverDisk, files
<1>2. CASE WaitForServer \/ CheckStatus \/ UnsealFromFile
  BY <1>2 DEF WaitForServer, CheckStatus, UnsealFromFile, serverDisk, files
<1>3. CASE InitServer \/ InitRefused
  BY <1>3 DEF InitServer, InitRefused, serverDisk, files
<1>4. CASE SaveToken \/ SaveKeysAndUnseal
  BY <1>4 DEF SaveToken, SaveKeysAndUnseal, serverDisk
<1>5. CASE CheckMarker \/ EnableEngine \/ PutSecret \/ TouchMarker
  BY <1>5 DEF CheckMarker, EnableEngine, PutSecret, TouchMarker, serverDisk, files
<1>6. CASE UNCHANGED vars
  BY <1>6 DEF vars, serverDisk, files
<1>7. QED
  BY <1>1, <1>2, <1>3, <1>4, <1>5, <1>6 DEF Next, Script

(***************************************************************************)
(* Saved keys and a saved token are never overwritten, however often       *)
(* `bao status` fails and the script initialises a second time.            *)
(***************************************************************************)
THEOREM SavedFilesAreKept == Spec => SavedFilesSurvive
<1>1. Init => FilesAreOnce
  BY DEF Init, FilesAreOnce
<1>2. FilesAreOnce /\ [Next]_vars => FilesAreOnce'
  BY FilesStep
<1>3. FilesAreOnce /\ [Next]_vars =>
        [/\ keysFile = "good" => keysFile' = "good"
         /\ tokenFile = "good" => tokenFile' = "good"]_<<tokenFile, keysFile>>
  BY FilesStep
<1>4. QED
  BY <1>1, <1>2, <1>3, PTL DEF Spec, SavedFilesSurvive

-----------------------------------------------------------------------------
(***************************************************************************)
(* What holds as long as no command has failed on its own, wherever the    *)
(* container died.                                                         *)
(***************************************************************************)
Unsealed == {"marker?", "enable", "put", "touch", "serving"}
Seeding == {"marker?", "enable", "put", "touch"}

(***************************************************************************)
(* Files and the script's variable are never garbage, and the token is     *)
(* saved before the keys.                                                  *)
(***************************************************************************)
FilesAreSound ==
    /\ rootToken \in {"empty", "good"}
    /\ tokenFile \in {"absent", "empty", "good"}
    /\ keysFile \in {"absent", "empty", "good"}
    /\ keysFile = "good" => tokenFile = "good"
    /\ pc \in {"save.token", "save.keys"} => rootToken = "good"
    /\ pc = "save.keys" => tokenFile = "good"

(***************************************************************************)
(* The script knows whether the server is initialised; the keys of an      *)
(* initialised server are only lost to a crash.                            *)
(***************************************************************************)
StatusIsKnown ==
    /\ pc = "init" => ~initialized
    /\ pc = "unseal" => initialized
    /\ pc = "exited" => crashes > 0 /\ initialized /\ keysFile # "good"
    /\ initialized /\ keysFile # "good" /\ crashes = 0 => pc \in {"save.token", "save.keys"}

(***************************************************************************)
(* Past the unsealing the server is open, and the puts have gone as far as *)
(* the script has come.                                                    *)
(***************************************************************************)
SeedingIsSound ==
    /\ pc \in Unsealed => ~sealed
    /\ pc \in Seeding => rootToken = "good"
    /\ pc \in {"put", "touch"} => engine
    /\ pc \in Commands \ {"put", "touch", "serving"} => next = 1
    /\ pc = "put" => \A i \in DOMAIN SecretPaths : i < next => i \in secrets
    /\ pc = "touch" => Seeded
    /\ marker => Seeded
    /\ pc = "serving" => marker

Clean == FilesAreSound /\ StatusIsKnown /\ SeedingIsSound

IInv == TypeOK /\ FilesAreOnce /\ (faults = 0 => Clean)

USE DEF Unsealed, Seeding

LEMMA InitIInv == Init => IInv
<1> SUFFICES ASSUME Init PROVE IInv
  OBVIOUS
<1>1. TypeOK /\ FilesAreOnce
  BY InitTypeOK DEF Init, FilesAreOnce
<1>2. FilesAreSound /\ StatusIsKnown /\ SeedingIsSound
  BY DEF Init, FilesAreSound, StatusIsKnown, SeedingIsSound
<1>3. QED
  BY <1>1, <1>2 DEF IInv, Clean

LEMMA NoFaultSoFar ==
    ASSUME TypeOK, Fault \/ NoFault, faults' = 0
    PROVE  faults = 0 /\ NoFault /\ crashes' = crashes
<1>1. faults' = faults + 1 => faults' # 0
  BY DEF TypeOK
<1>2. QED
  BY <1>1 DEF Fault, NoFault, counts

LEMMA StartClean ==
    ASSUME IInv, Start \/ Crash, faults' = 0
    PROVE  Clean'
<1> USE DEF IInv, Clean
<1>1. CASE Start
  <2>1. faults = 0
    BY <1>1 DEF Start
  <2>2. FilesAreSound' /\ StatusIsKnown'
    BY <1>1, <2>1 DEF Start, serverDisk, files, FilesAreSound, StatusIsKnown
  <2>3. SeedingIsSound'
    BY <1>1, <2>1 DEF Start, serverDisk, files, SeedingIsSound, Seeded
  <2>4. QED
    BY <2>2, <2>3
<1>2. CASE Crash
  <2>1. faults = 0 /\ crashes' > 0
    BY <1>2 DEF Crash, TypeOK
  <2>2. FilesAreSound'
    BY <1>2, <2>1 DEF Crash, serverDisk, FilesAreSound, FilesAreOnce
  <2>3. StatusIsKnown'
    BY <1>2, <2>1 DEF Crash, serverDisk, StatusIsKnown
  <2>4. SeedingIsSound'
    BY <1>2, <2>1 DEF Crash, serverDisk, SeedingIsSound, Seeded
  <2>5. QED
    BY <2>2, <2>3, <2>4
<1>3. QED
  BY <1>1, <1>2

LEMMA UnsealClean ==
    ASSUME IInv, WaitForServer \/ CheckStatus \/ UnsealFromFile, faults' = 0
    PROVE  Clean'
<1> USE DEF IInv, Clean
<1>1. Fault \/ NoFault
  BY DEF WaitForServer, CheckStatus, UnsealFromFile, Unsealing
<1>2. faults = 0 /\ NoFault /\ crashes' = crashes /\ ~Fault
  BY <1>1, NoFaultSoFar DEF Fault, NoFault, counts, TypeOK
<1>3. CASE WaitForServer
  BY <1>2, <1>3 DEF WaitForServer, serverDisk, files, FilesAreSound, StatusIsKnown, SeedingIsSound,
                    Seeded
<1>4. CASE CheckStatus
  BY <1>2, <1>4 DEF CheckStatus, serverDisk, files, FilesAreSound, StatusIsKnown, SeedingIsSound,
                    Seeded
<1>5. CASE UnsealFromFile
  <2>1. FilesAreSound'
    BY <1>2, <1>5 DEF UnsealFromFile, serverDisk, files, FilesAreSound
  <2>2. StatusIsKnown'
    BY <1>2, <1>5 DEF UnsealFromFile, serverDisk, files, StatusIsKnown, TypeOK
  <2>3. pc' # "exited" => pc' = "marker?" /\ keysFile = "good" /\ Unsealing(keysFile)
                          /\ rootToken' = "good"
    BY <1>2, <1>5 DEF UnsealFromFile, FilesAreSound
  <2>4. pc' # "exited" => ~sealed'
    BY <1>2, <2>3 DEF Unsealing
  <2>5. pc' \in {"marker?", "exited"} /\ (pc' = "marker?" => next' = 1)
        /\ (marker' => Seeded')
    BY <1>2, <1>5 DEF UnsealFromFile, serverDisk, files, SeedingIsSound, Seeded
  <2>6. SeedingIsSound'
    BY <1>5, <2>3, <2>4, <2>5 DEF UnsealFromFile, SeedingIsSound
  <2>7. QED
    BY <2>1, <2>2, <2>6
<1>6. QED
  BY <1>3, <1>4, <1>5

LEMMA InitialisationClean ==
    ASSUME IInv, InitServer \/ InitRefused \/ SaveToken \/ SaveKeysAndUnseal, faults' = 0
    PROVE  Clean'
<1> USE DEF IInv, Clean
<1>1. Fault \/ NoFault
  BY DEF InitServer, InitRefused, SaveToken, SaveKeysAndUnseal, Unsealing
<1>2. faults = 0 /\ NoFault /\ crashes' = crashes /\ ~Fault
  BY <1>1, NoFaultSoFar DEF Fault, NoFault, counts, TypeOK
<1>3. CASE InitServer
  BY <1>2, <1>3 DEF InitServer, files, FilesAreOnce, FilesAreSound, StatusIsKnown, SeedingIsSound,
                    Seeded
<1>4. CASE InitRefused
  BY <1>2, <1>4 DEF InitRefused, StatusIsKnown
<1>5. CASE SaveToken
  BY <1>2, <1>5 DEF SaveToken, serverDisk, FilesAreOnce, FilesAreSound, StatusIsKnown,
                    SeedingIsSound, Seeded
<1>6. CASE SaveKeysAndUnseal
  BY <1>2, <1>6 DEF SaveKeysAndUnseal, Unsealing, serverDisk, FilesAreOnce, FilesAreSound,
                    StatusIsKnown, SeedingIsSound, Seeded
<1>7. QED
  BY <1>3, <1>4, <1>5, <1>6

LEMMA SeedingClean ==
    ASSUME IInv, CheckMarker \/ EnableEngine \/ PutSecret \/ TouchMarker, faults' = 0
    PROVE  Clean'
<1> USE DEF IInv, Clean
<1>1. Fault \/ NoFault
  BY DEF CheckMarker, EnableEngine, PutSecret, TouchMarker
<1>2. faults = 0 /\ NoFault /\ crashes' = crashes /\ ~Fault
  BY <1>1, NoFaultSoFar DEF Fault, NoFault, counts, TypeOK
<1>3. FilesAreSound' /\ StatusIsKnown'
  BY <1>2 DEF CheckMarker, EnableEngine, PutSecret, TouchMarker, serverDisk, files,
              FilesAreSound, StatusIsKnown
<1>4. CASE CheckMarker
  <2>1. SeedingIsSound'
    BY <1>2, <1>4 DEF CheckMarker, serverDisk, files, SeedingIsSound, Seeded
  <2>2. QED
    BY <1>3, <2>1
<1>5. CASE EnableEngine
  <2>1. pc' = "put" /\ sealed' = sealed /\ ~sealed /\ rootToken' = "good" /\ next' = 1
    BY <1>2, <1>5 DEF EnableEngine, files, SeedingIsSound
  <2>2. Accepts
    BY <1>2, <1>5 DEF EnableEngine, Accepts, SeedingIsSound
  <2>3. engine'
    BY <1>2, <1>5, <2>2, Zenon DEF EnableEngine
  <2>4. marker' => Seeded'
    BY <1>2, <1>5 DEF EnableEngine, files, SeedingIsSound, Seeded
  <2>5. SeedingIsSound'
    BY <2>1, <2>3, <2>4, PathsAreNumbered DEF SeedingIsSound
  <2>6. QED
    BY <1>3, <2>5
<1>6. CASE PutSecret
  <2>1. /\ pc = "put" /\ pc' \in {"put", "touch"} /\ engine' /\ ~sealed' /\ rootToken' = "good"
        /\ secrets' = secrets \cup {next} /\ next' = next + 1 /\ marker' = marker
        /\ next \in DOMAIN SecretPaths /\ (pc' = "touch" => ~(next < Len(SecretPaths)))
    BY <1>2, <1>6 DEF PutSecret, Accepts, files, SeedingIsSound
  <2>2. \A i \in DOMAIN SecretPaths : i < next' => i \in secrets'
    BY <1>2, <2>1, PathsAreNumbered DEF SeedingIsSound
  <2>3. secrets' \subseteq DOMAIN SecretPaths
    BY <2>1 DEF TypeOK
  <2>4. pc' = "touch" => Seeded'
    BY <2>1, <2>2, <2>3, PathsAreNumbered DEF Seeded
  <2>5. marker' => Seeded'
    BY <1>2, <2>1, <2>3 DEF SeedingIsSound, Seeded
  <2>6. SeedingIsSound'
    BY <2>1, <2>2, <2>4, <2>5 DEF SeedingIsSound
  <2>7. QED
    BY <1>3, <2>6
<1>7. CASE TouchMarker
  <2>1. SeedingIsSound'
    BY <1>2, <1>7 DEF TouchMarker, serverDisk, SeedingIsSound, Seeded
  <2>2. QED
    BY <1>3, <2>1
<1>8. QED
  BY <1>4, <1>5, <1>6, <1>7

LEMMA NextIInv == IInv /\ [Next]_vars => IInv'
<1> SUFFICES ASSUME IInv, [Next]_vars PROVE IInv'
  OBVIOUS
<1>1. TypeOK' /\ FilesAreOnce'
  BY NextTypeOK, FilesStep DEF IInv
<1>2. ASSUME faults' = 0 PROVE Clean'
  <2>1. CASE UNCHANGED vars
    BY <1>2, <2>1 DEF vars, serverDisk, files, counts, IInv, Clean, FilesAreSound, StatusIsKnown,
                      SeedingIsSound, Seeded
  <2>2. QED
    BY <1>2, <2>1, StartClean, UnsealClean, InitialisationClean, SeedingClean DEF Next, Script
<1>3. QED
  BY <1>1, <1>2 DEF IInv

(***************************************************************************)
(* The inductive invariant of the script.                                  *)
(***************************************************************************)
THEOREM Invariance == Spec => []IInv
  BY InitIInv, NextIInv, PTL DEF Spec

(***************************************************************************)
(* Wherever and however often the container dies: as long as no command    *)
(* fails, a server left serving is unsealed and holds every secret.        *)
(***************************************************************************)
THEOREM ServingIsUsable == Spec => []ReadyIsUsable
<1>1. IInv => ReadyIsUsable
  BY DEF IInv, Clean, SeedingIsSound, ReadyIsUsable
<1>2. QED
  BY <1>1, Invariance, PTL

(***************************************************************************)
(* The script gives up on its own only when a crash has lost the keys.     *)
(***************************************************************************)
THEOREM GivingUpHasAReason == Spec => []GivesUpOnLostKeys
<1>1. IInv => GivesUpOnLostKeys
  BY DEF IInv, Clean, StatusIsKnown, GivesUpOnLostKeys
<1>2. QED
  BY <1>1, Invariance, PTL

-----------------------------------------------------------------------------
(***************************************************************************)
(* The entry point implements KeyCustody, whatever commands fail.  Up to   *)
(* the unsealing the server is sealed, what the script has in hand is the  *)
(* token and keys of its server, and it never saved any others.            *)
(***************************************************************************)
CustodyInv ==
    /\ pc \in Stopped \cup {"wait", "status", "unseal", "init", "save.token", "save.keys"} => sealed
    /\ pc \in {"unseal", "save.token", "save.keys"} => initialized
    /\ pc \in {"save.token", "save.keys"} => rootToken = "good"
    /\ keysFile \in {"absent", "empty", "good"}

Keys ==
    IF ~initialized THEN "none"
    ELSE IF keysFile = "good" THEN "kept"
    ELSE IF pc \in {"save.token", "save.keys"} THEN "inhand"
    ELSE "lost"

LEMMA CustodyInvStep == CustodyInv /\ [Next]_vars => CustodyInv'
<1> SUFFICES ASSUME CustodyInv, [Next]_vars PROVE CustodyInv'
  OBVIOUS
<1> USE DEF CustodyInv
<1>1. CASE Start \/ Crash
  BY <1>1 DEF Start, Crash, serverDisk, files
<1>2. CASE WaitForServer \/ CheckStatus
  BY <1>2 DEF WaitForServer, CheckStatus, serverDisk, files
<1>3. CASE UnsealFromFile
  BY <1>3 DEF UnsealFromFile, serverDisk, files
<1>4. CASE InitServer \/ InitRefused
  BY <1>4 DEF InitServer, InitRefused, serverDisk, files
<1>5. CASE SaveToken \/ SaveKeysAndUnseal
  BY <1>5 DEF SaveToken, SaveKeysAndUnseal, serverDisk
<1>6. CASE CheckMarker \/ EnableEngine \/ PutSecret \/ TouchMarker
  BY <1>6 DEF CheckMarker, EnableEngine, PutSecret, TouchMarker, serverDisk, files
<1>7. CASE UNCHANGED vars
  BY <1>7 DEF vars, serverDisk, files
<1>8. QED
  BY <1>1, <1>2, <1>3, <1>4, <1>5, <1>6, <1>7 DEF Next, Script

(***************************************************************************)
(* Most commands change neither the keys nor the secrets nor the seal.     *)
(***************************************************************************)
LEMMA CustodyFrame ==
    ASSUME UNCHANGED <<Keys, Answers, secrets>>
    PROVE  UNCHANGED Custody!cvars
  BY DEF Custody!cvars, Keys

LEMMA StopsAndStarts ==
    ASSUME CustodyInv, FilesAreOnce, Start \/ Crash \/ WaitForServer \/ CheckStatus
    PROVE  Custody!Close \/ UNCHANGED Custody!cvars
<1> USE DEF CustodyInv
<1>1. CASE Crash
  <2>1. Keys' = IF Keys = "inhand" THEN "lost" ELSE Keys
    BY <1>1 DEF Crash, serverDisk, Keys, FilesAreOnce
  <2>2. pc' = "down" /\ UNCHANGED secrets
    BY <1>1 DEF Crash, serverDisk
  <2>3. Answers' = FALSE
    BY <2>2 DEF Answers
  <2>4. QED
    BY <2>1, <2>2, <2>3 DEF Custody!Close, Keys
<1>2. CASE Start
  BY <1>2, CustodyFrame DEF Start, serverDisk, files, Keys, Answers
<1>3. CASE WaitForServer \/ CheckStatus
  BY <1>3, CustodyFrame DEF WaitForServer, CheckStatus, serverDisk, files, Keys, Answers
<1>4. QED
  BY <1>1, <1>2, <1>3

LEMMA UnsealRefines ==
    ASSUME CustodyInv, UnsealFromFile
    PROVE  Custody!OpenUp \/ UNCHANGED Custody!cvars
<1> USE DEF CustodyInv
<1>1. pc = "unseal" /\ sealed /\ initialized /\ Answers = FALSE
  BY DEF UnsealFromFile, Answers
<1>2. UNCHANGED <<Keys, secrets>>
  BY <1>1 DEF UnsealFromFile, serverDisk, files, Keys
<1>3. Answers' \in BOOLEAN
  BY DEF Answers
<1>4. CASE Answers' = FALSE
  BY <1>1, <1>2, <1>4, CustodyFrame
<1>5. CASE Answers' = TRUE
  <2>1. keysFile = "good"
    BY <1>5 DEF UnsealFromFile, Unsealing, Answers
  <2>2. Keys = "kept"
    BY <1>1, <2>1 DEF Keys
  <2>3. QED
    BY <1>1, <1>2, <1>5, <2>2 DEF Custody!OpenUp, Keys
<1>6. QED
  BY <1>3, <1>4, <1>5

LEMMA InitialisationRefines ==
    ASSUME CustodyInv, FilesAreOnce, InitServer \/ InitRefused
    PROVE  Custody!Generate \/ UNCHANGED Custody!cvars
<1> USE DEF CustodyInv
<1>1. CASE InitServer
  <2>1. pc = "init" /\ sealed /\ sealed' = sealed /\ UNCHANGED <<secrets, keysFile>>
    BY <1>1 DEF InitServer, files
  <2>2. Answers' = FALSE /\ Answers = FALSE
    BY <2>1 DEF Answers
  <2>3. ~initialized /\ initialized' /\ pc' \in {"save.token", "exited"}
    BY <1>1 DEF InitServer
  <2>4. keysFile # "good"
    BY <2>3 DEF FilesAreOnce
  <2>5. Keys = "none" /\ Keys' \in {"inhand", "lost"}
    BY <2>1, <2>3, <2>4 DEF Keys
  <2>6. QED
    BY <2>1, <2>2, <2>5 DEF Custody!Generate, Keys
<1>2. CASE InitRefused
  <2>1. pc = "init" /\ pc' = "exited" /\ UNCHANGED <<initialized, keysFile, secrets, sealed>>
    BY <1>2 DEF InitRefused, serverDisk, files
  <2>2. UNCHANGED <<Keys, Answers>>
    BY <2>1 DEF Keys, Answers
  <2>3. QED
    BY <2>1, <2>2, CustodyFrame
<1>3. QED
  BY <1>1, <1>2

LEMMA SavingRefines ==
    ASSUME CustodyInv, FilesAreOnce, SaveToken \/ SaveKeysAndUnseal
    PROVE  Custody!Settle \/ UNCHANGED Custody!cvars
<1> USE DEF CustodyInv
<1>1. CASE SaveToken
  <2>1. /\ pc = "save.token" /\ pc' = "save.keys"
        /\ UNCHANGED <<initialized, keysFile, secrets, sealed>>
    BY <1>1 DEF SaveToken, serverDisk
  <2>2. UNCHANGED <<Keys, Answers>>
    BY <2>1 DEF Keys, Answers
  <2>3. QED
    BY <2>1, <2>2, CustodyFrame
<1>2. CASE SaveKeysAndUnseal
  <2>1. pc = "save.keys" /\ pc' = "marker?" /\ initialized /\ initialized' /\ UNCHANGED secrets
    BY <1>2 DEF SaveKeysAndUnseal, serverDisk
  <2>2. keysFile' \in {"good", "empty"}
    BY <1>2, <2>1 DEF SaveKeysAndUnseal
  <2>3. Keys' \in {"kept", "lost"}
    BY <2>1, <2>2 DEF Keys
  <2>4. Keys = "inhand"
    BY <2>1 DEF Keys, FilesAreOnce
  <2>5. Answers' \in BOOLEAN
    BY DEF Answers
  <2>6. QED
    BY <2>1, <2>3, <2>4, <2>5 DEF Custody!Settle, Keys
<1>3. QED
  BY <1>1, <1>2

LEMMA SeedingRefines ==
    ASSUME CustodyInv, CheckMarker \/ EnableEngine \/ PutSecret \/ TouchMarker
    PROVE  Custody!Put \/ UNCHANGED Custody!cvars
<1>1. UNCHANGED <<initialized, keysFile, sealed>>
  BY DEF CheckMarker, EnableEngine, PutSecret, TouchMarker, serverDisk, files
<1>2. {pc, pc'} \subseteq {"marker?", "enable", "put", "touch", "serving"}
  BY DEF CheckMarker, EnableEngine, PutSecret, TouchMarker
<1>3. UNCHANGED <<Keys, Answers>>
  BY <1>1, <1>2 DEF Keys, Answers
<1>4. CASE UNCHANGED secrets
  BY <1>3, <1>4, CustodyFrame
<1>5. CASE secrets' # secrets
  <2>1. next \in DOMAIN SecretPaths /\ secrets' = secrets \cup {next} /\ ~sealed
    BY <1>5 DEF CheckMarker, EnableEngine, PutSecret, TouchMarker, serverDisk, Accepts
  <2>2. Answers
    BY <1>2, <2>1 DEF Answers
  <2>3. QED
    BY <1>3, <2>1, <2>2 DEF Custody!Put, Keys
<1>6. QED
  BY <1>4, <1>5

(***************************************************************************)
(* Wherever the container dies and whatever commands fail: the server's    *)
(* keys are handed out once, what was saved stays saved, and a server that *)
(* has stopped without saved keys never opens again.                       *)
(***************************************************************************)
THEOREM EntrypointKeepsCustody == Spec => KeepsCustody
<1>1. Init => CustodyInv /\ Custody!CInit
  <2> SUFFICES ASSUME Init PROVE CustodyInv /\ Custody!CInit
    OBVIOUS
  <2>1. CustodyInv
    BY DEF Init, CustodyInv
  <2>2. Answers = FALSE /\ ~initialized /\ secrets = {}
    BY DEF Init, Answers
  <2>3. QED
    BY <2>1, <2>2 DEF Custody!CInit
<1>2. Init => FilesAreOnce
  BY DEF Init, FilesAreOnce
<1>3. FilesAreOnce /\ [Next]_vars => FilesAreOnce'
  BY FilesStep
<1>4. CustodyInv /\ FilesAreOnce /\ [Next]_vars => [Custody!CNext]_(Custody!cvars)
  <2> SUFFICES ASSUME CustodyInv, FilesAreOnce, [Next]_vars
               PROVE  Custody!CNext \/ UNCHANGED Custody!cvars
    OBVIOUS
  <2>1. CASE UNCHANGED vars
    BY <2>1, CustodyFrame DEF vars, serverDisk, files, Keys, Answers
  <2>2. QED
    BY <2>1, StopsAndStarts, UnsealRefines, InitialisationRefines, SavingRefines, SeedingRefines
       DEF Next, Script, Custody!CNext
<1>5. QED
  BY <1>1, <1>2, <1>3, <1>4, CustodyInvStep, PTL DEF Spec, KeepsCustody, Custody!CSpec

=============================================================================
