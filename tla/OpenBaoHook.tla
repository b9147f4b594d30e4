---------------------------- MODULE OpenBaoHook ----------------------------
(***************************************************************************)
(* OpenBaoHook in one Airflow task: the task reads its secrets one after   *)
(* the other through one hook, which logs in when it has no client or the  *)
(* client it has cached is no longer authenticated.                        *)
(*                                                                         *)
(* Credentials are resolved at each login: an Airflow Variable, or the     *)
(* environment when the Variable is not set or cannot be read.  Meanwhile  *)
(* tokens expire or are revoked, the token in the Variable is replaced,    *)
(* and the server comes and goes.  The last three variables are the        *)
(* server's; nothing here changes them (see SecretDelivery).               *)
(***************************************************************************)
EXTENDS Naturals

CONSTANTS
    Methods,    \* what openbao_auth_method may say
    Paths,      \* the secrets the task reads: it starts with 1, up to Paths
    Tokens,     \* the tokens the server may issue
    EnvToken,   \* OPENBAO_TOKEN: one of them, or None
    Retries,    \* "retries" of the task
    MaxBlips,   \* bound: Variables that could not be read
    None

VARIABLES
    method,     \* the Variable openbao_auth_method
    varToken,   \* the Variable openbao_token, or None
    issued,     \* server: tokens it has issued
    live,       \* server: those it still accepts
    step,       \* what the task does next
    tries,      \* retries it has used
    reading,    \* the secret it reads
    login,      \* the token it is about to verify, or None
    client,     \* the token of the cached client, or None
    blips

VARIABLES
    answers,    \* does the server run, unsealed?
    stored,     \* the secrets it holds
    promised    \* is every secret to be had, as far as its operator knows?

(***************************************************************************)
(* No code keeps this: has all been well since the try began?              *)
(***************************************************************************)
VARIABLE calm

identities == <<method, varToken, issued, live>>
task == <<step, tries, reading, login, client>>
server == <<answers, stored, promised>>
vars == <<identities, task, blips, server, calm>>

Steps == {"idle", "get_conn", "authenticate", "verify", "read", "done", "failed"}

(***************************************************************************)
(* The hook knows two methods; anything else counts as "token".            *)
(***************************************************************************)
AuthMethod(raw) == IF raw = "userpass" THEN "userpass" ELSE "token"

(***************************************************************************)
(* The Variables name a credential that the server accepts.                *)
(***************************************************************************)
Configured ==
    AuthMethod(method) = "token" =>
        (IF varToken # None THEN varToken ELSE EnvToken) \in live

Well == promised /\ Configured

HookInit ==
    /\ method \in Methods
    /\ varToken \in Tokens \cup {None}
    /\ issued = {varToken, EnvToken} \ {None}
    /\ live = issued
    /\ step = "idle" /\ tries = 0 /\ reading = 1
    /\ login = None /\ client = None
    /\ blips = 0
    /\ calm = FALSE

-----------------------------------------------------------------------------
(***************************************************************************)
(* What goes on around the task.  A token that dies between a check of it  *)
(* and its use is bad luck, and so is one that the Variables still name.   *)
(***************************************************************************)
InUse(t) == (step = "verify" /\ t = login) \/ (step = "read" /\ t = client)

Invalidate(t) ==
    /\ t \in live
    /\ live' = live \ {t}
    /\ UNCHANGED <<method, varToken, issued, task, blips, server>>
    /\ calm' = (calm /\ Well' /\ ~InUse(t))

Rotate(t) ==
    /\ t \notin issued
    /\ issued' = issued \cup {t} /\ live' = live \cup {t}
    /\ varToken' = t
    /\ UNCHANGED <<method, task, blips, server>>
    /\ calm' = (calm /\ Well')

-----------------------------------------------------------------------------
(***************************************************************************)
(* A try has a hook of its own.                                            *)
(***************************************************************************)
NewHook == reading' = 1 /\ login' = None /\ client' = None

Begin ==
    /\ step = "idle"
    /\ step' = "get_conn"
    /\ calm' = Well
    /\ NewHook
    /\ UNCHANGED <<identities, tries, blips, server>>

Raise_MutantOneTooMany ==
    /\ \/ tries <= Retries /\ tries' = tries + 1 /\ step' = "get_conn"
       \/ tries > Retries /\ UNCHANGED tries /\ step' = "failed"
    /\ calm' = Well
    /\ NewHook

(***************************************************************************)
(* The exception fails the try.                                            *)
(***************************************************************************)
Raise ==
    /\ \/ tries < Retries /\ tries' = tries + 1 /\ step' = "get_conn"
       \/ tries >= Retries /\ UNCHANGED tries /\ step' = "failed"
    /\ calm' = Well
    /\ NewHook

Accepted(t) == answers /\ t \in live

GetConn_MutantUnchecked ==
    /\ step = "get_conn"
    /\ step' = IF client # None THEN "read" ELSE "authenticate"
    /\ UNCHANGED <<identities, tries, reading, login, client, blips, server, calm>>

(***************************************************************************)
(* A lookup of the cached token; that raises when the server is sealed or  *)
(* does not answer.                                                        *)
(***************************************************************************)
GetConn ==
    /\ step = "get_conn"
    /\ \/ /\ client = None \/ answers
          /\ step' = IF client # None /\ client \in live THEN "read" ELSE "authenticate"
          /\ UNCHANGED <<tries, reading, login, client, calm>>
       \/ client # None /\ ~answers /\ Raise
    /\ UNCHANGED <<identities, blips, server>>

(***************************************************************************)
(* _get_var swallows the exception when a Variable cannot be read, and     *)
(* falls back on the environment, which sets no method.                    *)
(***************************************************************************)
Readable(read) ==
    \/ read = {"method", "credential"} /\ UNCHANGED blips
    \/ read # {"method", "credential"} /\ blips < MaxBlips /\ blips' = blips + 1

ResolvedMethod(read) == IF "method" \in read THEN AuthMethod(method) ELSE "token"

ResolvedToken(read) ==
    IF "credential" \in read /\ varToken # None THEN varToken ELSE EnvToken

Attempt(t) ==
    /\ login' = t
    /\ step' = "verify"
    /\ calm' = (calm /\ blips' = blips)
    /\ UNCHANGED <<tries, reading, client>>

AuthToken(read) ==
    /\ ResolvedMethod(read) = "token"
    /\ \/ ResolvedToken(read) # None /\ Attempt(ResolvedToken(read))
       \/ ResolvedToken(read) = None /\ Raise
    /\ UNCHANGED <<issued, live>>

(***************************************************************************)
(* The environment has no password to fall back on.                        *)
(***************************************************************************)
AuthUserpass(read) ==
    /\ ResolvedMethod(read) = "userpass"
    /\ \/ /\ answers /\ "credential" \in read
          /\ \E t \in Tokens \ issued :
              issued' = issued \cup {t} /\ live' = live \cup {t} /\ Attempt(t)
       \/ ~(answers /\ "credential" \in read) /\ Raise /\ UNCHANGED <<issued, live>>

Authenticate ==
    /\ step = "authenticate"
    /\ \E read \in SUBSET {"method", "credential"} :
        Readable(read) /\ (AuthToken(read) \/ AuthUserpass(read))
    /\ UNCHANGED <<method, varToken, server>>

Verify ==
    /\ step = "verify"
    /\ \/ /\ Accepted(login)
          /\ client' = login /\ login' = None
          /\ step' = "read"
          /\ UNCHANGED <<tries, reading, calm>>
       \/ ~Accepted(login) /\ Raise
    /\ UNCHANGED <<identities, blips, server>>

ReadSecret ==
    /\ step = "read"
    /\ \/ /\ Accepted(client) /\ reading \in stored
          /\ IF reading < Paths
             THEN step' = "get_conn" /\ reading' = reading + 1
             ELSE step' = "done" /\ UNCHANGED reading
          /\ UNCHANGED <<tries, login, client, calm>>
       \/ ~(Accepted(client) /\ reading \in stored) /\ Raise
    /\ UNCHANGED <<identities, blips, server>>

-----------------------------------------------------------------------------
HookNext ==
    \/ \E t \in Tokens : Invalidate(t) \/ Rotate(t)
    \/ Begin \/ GetConn \/ Authenticate \/ Verify \/ ReadSecret

(***************************************************************************)
(* The server changes, and the task finds out when it next calls it.       *)
(***************************************************************************)
Meanwhile ==
    /\ UNCHANGED <<identities, task, blips>>
    /\ calm' = (calm /\ Well')

-----------------------------------------------------------------------------
(***************************************************************************)
(* Of the tokens issued some are still accepted; the credentials name      *)
(* issued ones, and there is one to verify exactly when that comes next.   *)
(***************************************************************************)
HookTypeOK ==
    /\ method \in Methods
    /\ issued \subseteq Tokens /\ live \subseteq issued
    /\ {varToken, EnvToken} \subseteq issued \cup {None}
    /\ step \in Steps
    /\ tries \in 0..Retries
    /\ reading \in 1..Paths
    /\ login \in issued \cup {None} /\ (login # None <=> step = "verify")
    /\ client \in issued \cup {None} /\ (step = "read" => client # None)
    /\ blips \in 0..MaxBlips
    /\ calm \in BOOLEAN

TryFails == tries' = tries + 1 \/ (step' = "failed" /\ step # "failed")

(***************************************************************************)
(* "Re-authenticates automatically if the cached client expires": a try    *)
(* never fails when all was well from its beginning, although tokens       *)
(* expired and were replaced between its reads.  What it may stumble over  *)
(* is a server that does not serve, an Airflow Variable that cannot be     *)
(* read or names no live token, and a token that dies between the check    *)
(* and the use of it.                                                      *)
(***************************************************************************)
ExpiryIsHealed == [][TryFails => ~calm \/ blips' # blips]_vars

=============================================================================
