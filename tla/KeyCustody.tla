----------------------------- MODULE KeyCustody -----------------------------
(***************************************************************************)
(* What a store of secrets promises that seals itself whenever it stops    *)
(* and is opened with keys it has handed out once.  While nobody has saved *)
(* the keys they are in hand; from there they are kept or lost, and either *)
(* is final.  Without kept keys a store that closes has closed for good,   *)
(* with the secrets it holds.                                              *)
(***************************************************************************)
CONSTANT Secrets

VARIABLES keys,     \* "none", "inhand", "kept" or "lost"
          open,     \* is the store open?
          secrets   \* the secrets it holds

cvars == <<keys, open, secrets>>

CInit == keys = "none" /\ open = FALSE /\ secrets = {}

(***************************************************************************)
(* The keys are handed out, once; whoever asked may not have heard it.     *)
(***************************************************************************)
Generate ==
    /\ keys = "none" /\ keys' \in {"inhand", "lost"}
    /\ UNCHANGED <<open, secrets>>

(***************************************************************************)
(* The keys in hand also open the store, saved or not.                     *)
(***************************************************************************)
Settle ==
    /\ keys = "inhand" /\ keys' \in {"kept", "lost"}
    /\ open' \in BOOLEAN
    /\ UNCHANGED secrets

OpenUp ==
    /\ keys = "kept"
    /\ ~open /\ open' = TRUE
    /\ UNCHANGED <<keys, secrets>>

(***************************************************************************)
(* Keys that are only in hand are lost with the store that stops.          *)
(***************************************************************************)
Close ==
    /\ open' = FALSE
    /\ keys' = IF keys = "inhand" THEN "lost" ELSE keys
    /\ UNCHANGED secrets

Put ==
    /\ open
    /\ \E secret \in Secrets : secrets' = secrets \cup {secret}
    /\ UNCHANGED <<keys, open>>

CNext == Generate \/ Settle \/ OpenUp \/ Close \/ Put

CSpec == CInit /\ [][CNext]_cvars

=============================================================================
