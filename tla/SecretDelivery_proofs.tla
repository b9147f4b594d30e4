----------------------- MODULE SecretDelivery_proofs -----------------------
(***************************************************************************)
(* Theorems about SecretDelivery: the types of the task, and the promise   *)
(* that reaches from the entry point script to the task's reads.  What the *)
(* script does is taken from OpenBaoEntrypoint_proofs.                     *)
(***************************************************************************)
EXTENDS SecretDelivery, OpenBaoEntrypoint_proofs

USE SomeSecretAssumption, TaskAssumption, TokenAssumption
USE DEF Hook!Steps

LEMMA PathsArePositive == Len(SecretPaths) \in Nat /\ Len(SecretPaths) >= 1
  OBVIOUS

-----------------------------------------------------------------------------
(***************************************************************************)
(* Type correctness of the task.                                           *)
(***************************************************************************)
LEMMA RaiseTypes ==
    ASSUME TaskTypeOK, Hook!Raise
    PROVE  /\ tries' \in 0..Retries
           /\ step' \in {"get_conn", "failed"}
           /\ reading' = 1 /\ login' = None /\ client' = None
           /\ calm' \in BOOLEAN
<1>1. tries' \in 0..Retries /\ step' \in {"get_conn", "failed"}
  BY DEF TaskTypeOK, Hook!HookTypeOK, Hook!Raise
<1>2. calm' \in BOOLEAN
  BY DEF Hook!Raise, Hook!Well, Promised
<1>3. QED
  BY <1>1, <1>2 DEF Hook!Raise, Hook!NewHook

LEMMA InitTaskTypeOK == DeliveryInit => TaskTypeOK
<1> SUFFICES ASSUME Hook!HookInit PROVE Hook!HookTypeOK
  BY DEF DeliveryInit, TaskTypeOK
<1>1. issued \subseteq Tokens /\ live \subseteq issued
  BY DEF Hook!HookInit
<1>2. calm \in BOOLEAN
  BY DEF Hook!HookInit
<1>3. reading \in 1..Len(SecretPaths) /\ tries \in 0..Retries /\ blips \in 0..MaxBlips
  BY PathsArePositive DEF Hook!HookInit
<1>4. QED
  BY <1>1, <1>2, <1>3 DEF Hook!HookInit, Hook!HookTypeOK

LEMMA AroundTypeOK ==
    ASSUME TaskTypeOK, NEW t \in Tokens, Hook!Invalidate(t) \/ Hook!Rotate(t)
    PROVE  TaskTypeOK'
<1>1. calm' \in BOOLEAN
  BY DEF Hook!Invalidate, Hook!Rotate, Hook!Well, Promised, TaskTypeOK, Hook!HookTypeOK
<1>2. CASE Hook!Invalidate(t)
  BY <1>1, <1>2 DEF Hook!Invalidate, Hook!task, TaskTypeOK, Hook!HookTypeOK
<1>3. CASE Hook!Rotate(t)
  BY <1>1, <1>3 DEF Hook!Rotate, Hook!task, TaskTypeOK, Hook!HookTypeOK
<1>4. QED
  BY <1>2, <1>3

LEMMA LoginTypeOK ==
    ASSUME TaskTypeOK, Hook!Authenticate
    PROVE  TaskTypeOK'
<1> USE DEF TaskTypeOK, Hook!HookTypeOK
<1>1. PICK read \in SUBSET {"method", "credential"} :
        Hook!Readable(read) /\ (Hook!AuthToken(read) \/ Hook!AuthUserpass(read))
  BY DEF Hook!Authenticate
<1>2. step = "authenticate" /\ UNCHANGED <<method, varToken>>
  BY DEF Hook!Authenticate
<1>3. blips' \in 0..MaxBlips
  BY <1>1 DEF Hook!Readable
<1>4. CASE Hook!Raise /\ UNCHANGED <<issued, live>>
  BY <1>2, <1>3, <1>4, RaiseTypes, PathsArePositive
<1>5. ASSUME NEW t \in issued', t # None, Hook!Attempt(t), issued' \subseteq Tokens,
             live' \subseteq issued', issued \subseteq issued'
      PROVE  TaskTypeOK'
  <2>1. calm' \in BOOLEAN
    BY <1>5 DEF Hook!Attempt
  <2>2. /\ login' \in issued' /\ login' # None /\ step' = "verify"
        /\ UNCHANGED <<tries, reading, client>>
    BY <1>5 DEF Hook!Attempt
  <2>3. client' \in issued' \cup {None}
    BY <1>5, <2>2
  <2>4. QED
    BY <1>2, <1>3, <1>5, <2>1, <2>2, <2>3
<1>6. CASE Hook!AuthToken(read) /\ Hook!ResolvedToken(read) # None
                                /\ Hook!Attempt(Hook!ResolvedToken(read))
  <2>1. UNCHANGED <<issued, live>>
    BY <1>6 DEF Hook!AuthToken
  <2>2. Hook!ResolvedToken(read) \in issued'
    BY <1>6, <2>1 DEF Hook!ResolvedToken
  <2>3. QED
    BY <1>5, <1>6, <2>1, <2>2
<1>7. CASE \E t \in Tokens \ issued :
             issued' = issued \cup {t} /\ live' = live \cup {t} /\ Hook!Attempt(t)
  BY <1>5, <1>7
<1>8. QED
  BY <1>1, <1>4, <1>6, <1>7 DEF Hook!AuthToken, Hook!AuthUserpass

LEMMA ReadingTypeOK ==
    ASSUME TaskTypeOK, Hook!Begin \/ Hook!GetConn \/ Hook!Verify \/ Hook!ReadSecret
    PROVE  TaskTypeOK'
<1> USE DEF TaskTypeOK, Hook!HookTypeOK
<1>1. UNCHANGED <<method, varToken, issued, live, blips>>
  BY DEF Hook!Begin, Hook!GetConn, Hook!Verify, Hook!ReadSecret, Hook!identities
<1>2. CASE Hook!Raise
  BY <1>1, <1>2, RaiseTypes, PathsArePositive
<1>3. CASE Hook!Begin
  <2>1. calm' \in BOOLEAN
    BY <1>3 DEF Hook!Begin, Hook!Well, Promised
  <2>2. QED
    BY <1>1, <1>3, <2>1, PathsArePositive DEF Hook!Begin, Hook!NewHook
<1>4. CASE Hook!GetConn /\ ~Hook!Raise
  BY <1>1, <1>4 DEF Hook!GetConn
<1>5. CASE Hook!Verify /\ ~Hook!Raise
  BY <1>1, <1>5 DEF Hook!Verify
<1>6. CASE Hook!ReadSecret /\ ~Hook!Raise
  <2>1. reading' \in 1..Len(SecretPaths)
    BY <1>6, PathsArePositive DEF Hook!ReadSecret
  <2>2. step' \in {"get_conn", "done"} /\ step = "read" /\ UNCHANGED <<tries, login, client, calm>>
    BY <1>6 DEF Hook!ReadSecret
  <2>3. QED
    BY <1>1, <2>1, <2>2
<1>7. QED
  BY <1>2, <1>3, <1>4, <1>5, <1>6

LEMMA NextTaskTypeOK == TaskTypeOK /\ [DeliveryNext]_<<vars, hookVars>> => TaskTypeOK'
<1> SUFFICES ASSUME TaskTypeOK, [DeliveryNext]_<<vars, hookVars>> PROVE TaskTypeOK'
  OBVIOUS
<1>1. CASE Hook!Meanwhile
  <2>1. calm' \in BOOLEAN
    BY <1>1 DEF Hook!Meanwhile, Hook!Well, Promised
  <2>2. QED
    BY <1>1, <2>1 DEF Hook!Meanwhile, Hook!identities, Hook!task, TaskTypeOK, Hook!HookTypeOK
<1>2. CASE Hook!HookNext
  BY <1>2, AroundTypeOK, LoginTypeOK, ReadingTypeOK DEF Hook!HookNext
<1>3. CASE UNCHANGED <<vars, hookVars>>
  BY <1>3 DEF hookVars, TaskTypeOK, Hook!HookTypeOK
<1>4. QED
  BY <1>1, <1>2, <1>3 DEF DeliveryNext

(***************************************************************************)
(* The task keeps its types, and never uses more tries than it has.        *)
(***************************************************************************)
THEOREM TaskTypeCorrect == DeliverySpec => []TaskTypeOK
  BY InitTaskTypeOK, NextTaskTypeOK, PTL DEF DeliverySpec

-----------------------------------------------------------------------------
(***************************************************************************)
(* What a calm try relies on: the server serves and has every secret, the  *)
(* Variables name a credential it accepts, and the token that is about to  *)
(* be verified or used is alive.                                           *)
(***************************************************************************)
CalmIsWell == calm => Hook!Well
CalmTokensLive ==
    calm => (step = "verify" => login \in live) /\ (step = "read" => client \in live)

DeliveryInv == IInv /\ TaskTypeOK /\ CalmIsWell /\ CalmTokensLive

LEMMA PromiseIsKept ==
    ASSUME IInv, Promised
    PROVE  Answers /\ secrets = DOMAIN SecretPaths
<1>1. pc = "serving" /\ Clean
  BY DEF IInv, Promised
<1>2. QED
  BY <1>1 DEF Clean, SeedingIsSound, Answers, Seeded, Stopped, Unsealed

(***************************************************************************)
(* A calm try does not fail, but when a Variable cannot be read.           *)
(***************************************************************************)
NoSurprise == Hook!TryFails => ~calm \/ blips' # blips

LEMMA CalmServer ==
    ASSUME DeliveryInv, calm
    PROVE  Answers /\ \A i \in 1..Len(SecretPaths) : i \in secrets
<1>1. Promised /\ IInv
  BY DEF DeliveryInv, CalmIsWell, Hook!Well
<1>2. QED
  BY <1>1, PromiseIsKept, PathsAreNumbered

LEMMA CalmCredential ==
    ASSUME DeliveryInv, calm, Hook!AuthMethod(method) = "token"
    PROVE  /\ Hook!ResolvedToken({"method", "credential"}) \in live
           /\ Hook!ResolvedToken({"method", "credential"}) # None
<1>1. Hook!ResolvedToken({"method", "credential"}) \in live
  BY DEF DeliveryInv, CalmIsWell, Hook!Well, Hook!Configured, Hook!ResolvedToken
<1>2. QED
  BY <1>1 DEF DeliveryInv, TaskTypeOK, Hook!HookTypeOK

LEMMA LoginDoesNotFail ==
    ASSUME DeliveryInv, calm, Hook!Authenticate, blips' = blips
    PROVE  ~Hook!TryFails /\ step' = "verify" /\ login' \in live'
<1>1. blips \in Nat /\ tries \in Nat
  BY DEF DeliveryInv, TaskTypeOK, Hook!HookTypeOK
<1> DEFINE all == {"method", "credential"}
<1>2. Hook!AuthToken(all) \/ Hook!AuthUserpass(all)
  <2>1. PICK read \in SUBSET all :
          Hook!Readable(read) /\ (Hook!AuthToken(read) \/ Hook!AuthUserpass(read))
    BY DEF Hook!Authenticate
  <2>2. read = all
    BY <1>1, <2>1 DEF Hook!Readable
  <2>3. QED
    BY <2>1, <2>2
<1>3. CASE Hook!AuthToken(all)
  <2>1. Hook!AuthMethod(method) = "token" /\ UNCHANGED live
    BY <1>3 DEF Hook!AuthToken, Hook!ResolvedMethod
  <2>2. Hook!Attempt(Hook!ResolvedToken(all)) /\ Hook!ResolvedToken(all) \in live
    BY <1>3, <2>1, CalmCredential DEF Hook!AuthToken
  <2>3. QED
    BY <1>1, <2>1, <2>2 DEF Hook!Attempt, Hook!TryFails
<1>4. CASE Hook!AuthUserpass(all)
  <2>1. PICK t \in Tokens \ issued :
          live' = live \cup {t} /\ Hook!Attempt(t)
    BY <1>4, CalmServer DEF Hook!AuthUserpass
  <2>2. QED
    BY <1>1, <2>1 DEF Hook!Attempt, Hook!TryFails
<1>5. QED
  BY <1>2, <1>3, <1>4

LEMMA ReadingDoesNotFail ==
    ASSUME DeliveryInv, calm, Hook!GetConn \/ Hook!Verify \/ Hook!ReadSecret
    PROVE  ~Hook!TryFails /\ calm' = calm
           /\ step' # "verify" /\ (step' = "read" => client' \in live')
<1>1. tries \in Nat /\ reading \in 1..Len(SecretPaths)
  BY DEF DeliveryInv, TaskTypeOK, Hook!HookTypeOK
<1>2. Answers /\ \A i \in 1..Len(SecretPaths) : i \in secrets
  BY CalmServer
<1>3. UNCHANGED live
  BY DEF Hook!GetConn, Hook!Verify, Hook!ReadSecret, Hook!identities
<1>4. CASE Hook!GetConn
  <2>1. /\ step' = IF client # None /\ client \in live THEN "read" ELSE "authenticate"
        /\ UNCHANGED <<tries, client, calm>>
    BY <1>2, <1>4 DEF Hook!GetConn
  <2>2. QED
    BY <1>1, <1>3, <2>1 DEF Hook!TryFails
<1>5. CASE Hook!Verify
  <2>1. Hook!Accepted(login)
    BY <1>2, <1>5 DEF Hook!Verify, Hook!Accepted, DeliveryInv, CalmTokensLive
  <2>2. client' = login /\ login \in live /\ step' = "read" /\ UNCHANGED <<tries, calm>>
    BY <1>5, <2>1 DEF Hook!Verify, Hook!Accepted
  <2>3. QED
    BY <1>1, <1>3, <2>2 DEF Hook!TryFails
<1>6. CASE Hook!ReadSecret
  <2>1. Hook!Accepted(client) /\ reading \in secrets
    BY <1>1, <1>2, <1>6 DEF Hook!ReadSecret, Hook!Accepted, DeliveryInv, CalmTokensLive
  <2>2. step' \in {"get_conn", "done"} /\ UNCHANGED <<tries, calm>>
    BY <1>6, <2>1 DEF Hook!ReadSecret
  <2>3. QED
    BY <1>1, <2>2 DEF Hook!TryFails
<1>7. QED
  BY <1>4, <1>5, <1>6

LEMMA HookStep ==
    ASSUME DeliveryInv, Hook!HookNext, UNCHANGED vars
    PROVE  CalmIsWell' /\ CalmTokensLive' /\ NoSurprise
<1> USE DEF NoSurprise
<1>1. Promised' = Promised
  BY DEF Promised, vars, counts
<1>2. tries \in Nat /\ TaskTypeOK
  BY DEF DeliveryInv, TaskTypeOK, Hook!HookTypeOK
<1>3. CASE \E t \in Tokens : Hook!Invalidate(t) \/ Hook!Rotate(t)
  <2>1. PICK t \in Tokens : Hook!Invalidate(t) \/ Hook!Rotate(t)
    BY <1>3
  <2>2. UNCHANGED <<step, tries, login, client>>
    BY <2>1 DEF Hook!Invalidate, Hook!Rotate, Hook!task
  <2>3. calm' => calm /\ Hook!Well'
    BY <2>1, Zenon DEF Hook!Invalidate, Hook!Rotate
  <2>4. calm' => \A x \in live : Hook!InUse(x) => x \in live'
    BY <2>1 DEF Hook!Invalidate, Hook!Rotate
  <2>5. CalmTokensLive'
    BY <2>2, <2>3, <2>4 DEF DeliveryInv, CalmTokensLive, Hook!InUse
  <2>6. QED
    BY <1>2, <2>2, <2>3, <2>5 DEF CalmIsWell, Hook!TryFails
<1>4. ASSUME UNCHANGED <<method, varToken>>, live \subseteq live', Hook!Well
      PROVE  Hook!Well'
  BY <1>1, <1>4 DEF Hook!Well, Hook!Configured
<1>5. CASE Hook!Begin
  <2>1. calm' = Hook!Well /\ step' = "get_conn" /\ UNCHANGED <<tries, method, varToken, live>>
    BY <1>5 DEF Hook!Begin, Hook!identities
  <2>2. QED
    BY <1>2, <1>4, <2>1 DEF CalmIsWell, CalmTokensLive, Hook!TryFails
<1>6. CASE Hook!Authenticate
  <2>1. UNCHANGED <<method, varToken>> /\ live \subseteq live'
    BY <1>6 DEF Hook!Authenticate, Hook!AuthToken, Hook!AuthUserpass
  <2>2. CASE calm /\ blips' = blips
    BY <1>4, <1>6, <2>1, <2>2, LoginDoesNotFail DEF DeliveryInv, CalmIsWell, CalmTokensLive
  <2>3. CASE ~(calm /\ blips' = blips)
    <3>1. NoSurprise
      BY <2>3
    <3>2. \/ ~calm'
          \/ calm' = Hook!Well /\ step' \in {"get_conn", "failed"}
      BY <1>2, <1>6, <2>3, RaiseTypes
         DEF Hook!Authenticate, Hook!AuthToken, Hook!AuthUserpass, Hook!Attempt, Hook!Raise
    <3>3. QED
      BY <1>4, <2>1, <3>1, <3>2 DEF CalmIsWell, CalmTokensLive
  <2>4. QED
    BY <2>2, <2>3
<1>7. CASE Hook!GetConn \/ Hook!Verify \/ Hook!ReadSecret
  <2>1. UNCHANGED <<method, varToken, live>>
    BY <1>7 DEF Hook!GetConn, Hook!Verify, Hook!ReadSecret, Hook!identities
  <2>2. CASE calm
    BY <1>4, <1>7, <2>1, <2>2, ReadingDoesNotFail DEF DeliveryInv, CalmIsWell, CalmTokensLive
  <2>3. CASE ~calm
    <3>1. \/ ~calm'
          \/ calm' = Hook!Well /\ step' \in {"get_conn", "failed"}
      BY <1>2, <1>7, <2>3, RaiseTypes DEF Hook!GetConn, Hook!Verify, Hook!ReadSecret, Hook!Raise
    <3>2. QED
      BY <1>4, <2>1, <2>3, <3>1 DEF CalmIsWell, CalmTokensLive
  <2>4. QED
    BY <2>2, <2>3
<1>8. QED
  BY <1>3, <1>5, <1>6, <1>7 DEF Hook!HookNext

LEMMA DeliveryStep ==
    ASSUME DeliveryInv, [DeliveryNext]_<<vars, hookVars>>
    PROVE  DeliveryInv' /\ NoSurprise
<1>1. IInv' /\ TaskTypeOK'
  BY NextIInv, NextTaskTypeOK DEF DeliveryNext, DeliveryInv
<1>2. tries \in Nat
  BY DEF DeliveryInv, TaskTypeOK, Hook!HookTypeOK
<1>3. CASE Next /\ Hook!Meanwhile
  <2>1. UNCHANGED <<live, step, tries, login, client>>
    BY <1>3 DEF Hook!Meanwhile, Hook!identities, Hook!task
  <2>2. calm' => calm /\ Hook!Well'
    BY <1>3, Zenon DEF Hook!Meanwhile
  <2>3. QED
    BY <1>1, <1>2, <2>1, <2>2
       DEF DeliveryInv, CalmIsWell, CalmTokensLive, NoSurprise, Hook!TryFails
<1>4. CASE UNCHANGED vars /\ Hook!HookNext
  BY <1>1, <1>4, HookStep DEF DeliveryInv
<1>5. CASE UNCHANGED <<vars, hookVars>>
  <2>1. Promised' = Promised
    BY <1>5 DEF Promised, vars, counts
  <2>2. QED
    BY <1>1, <1>2, <1>5, <2>1
       DEF hookVars, DeliveryInv, CalmIsWell, CalmTokensLive, NoSurprise, Hook!TryFails,
           Hook!Well, Hook!Configured
<1>6. QED
  BY <1>3, <1>4, <1>5 DEF DeliveryNext

(***************************************************************************)
(* As long as no command of the script fails, a try during which the       *)
(* container kept serving reads all its secrets, however often the         *)
(* container died before and however tokens came and went: only a Variable *)
(* that cannot be read, or names no live token, and a token that dies      *)
(* between check and use can fail it.                                      *)
(***************************************************************************)
THEOREM ServingSuffices == DeliverySpec => ServingIsEnough
<1>1. DeliveryInit => DeliveryInv
  <2> SUFFICES ASSUME DeliveryInit PROVE DeliveryInv
    OBVIOUS
  <2>1. IInv /\ TaskTypeOK
    BY InitIInv, InitTaskTypeOK DEF DeliveryInit
  <2>2. ~calm
    BY DEF DeliveryInit, Hook!HookInit
  <2>3. QED
    BY <2>1, <2>2 DEF DeliveryInv, CalmIsWell, CalmTokensLive
<1>2. DeliveryInv /\ [DeliveryNext]_<<vars, hookVars>> => DeliveryInv'
  BY DeliveryStep
<1>3. DeliveryInv /\ [DeliveryNext]_<<vars, hookVars>>
        => [Hook!TryFails => ~calm \/ blips' # blips]_(Hook!vars)
  BY DeliveryStep DEF NoSurprise
<1>4. QED
  BY <1>1, <1>2, <1>3, PTL DEF DeliverySpec, ServingIsEnough, Hook!ExpiryIsHealed

=============================================================================
