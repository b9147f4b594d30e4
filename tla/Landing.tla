------------------------------ MODULE Landing ------------------------------
(***************************************************************************)
(* What the ingestion pipeline promises, with no word on how: rows of a    *)
(* source table are copied to an append-only landing area, and a watermark *)
(* is published that a consumer can trust.                                 *)
(*                                                                         *)
(* A version is a row with the value of its checkpoint column.  Sealing a  *)
(* value announces that the pipeline has looked at the source up to there; *)
(* a version that appears at or below a sealed value afterwards is late,   *)
(* and no timestamp-based pipeline can promise it.  Every other version    *)
(* that is current in the source, at or below the watermark, is landed.    *)
(***************************************************************************)
EXTENDS Naturals

CONSTANTS Rows,         \* the primary keys of the source table
          MayWithdraw,  \* may a published watermark be withdrawn?
          None          \* no value

VARIABLES table,      \* row -> its checkpoint column, None when absent
          fetched,    \* versions read from the source and not yet landed
          landed,     \* versions in the landing area
          watermark,  \* the published watermark, None before the first
          sealed,     \* the highest value sealed so far, None before the first
          late        \* versions that appeared at or below a sealed value

lvars == <<table, fetched, landed, watermark, sealed, late>>

Version(row) == <<row, table[row]>>

Current == {Version(row) : row \in {x \in Rows : table[x] # None}}

AtOrBelow(ts, bound) == bound # None /\ ts <= bound

(***************************************************************************)
(* Every version a watermark of c vouches for is landed.                   *)
(***************************************************************************)
Complete(c) ==
    \A row \in Rows :
        /\ table[row] # None
        /\ table[row] <= c
        /\ Version(row) \notin late
        => Version(row) \in landed

LInit ==
    /\ table = [row \in Rows |-> None]
    /\ fetched = {}
    /\ landed = {}
    /\ watermark = None
    /\ sealed = None
    /\ late = {}

(***************************************************************************)
(* The source changes one row on its own.                                  *)
(***************************************************************************)
Change(row) ==
    /\ table'[row] \in Nat \cup {None}
    /\ table' = [table EXCEPT ![row] = table'[row]]
    /\ late' = IF table'[row] # None /\ AtOrBelow(table'[row], sealed)
                 THEN late \cup {<<row, table'[row]>>}
                 ELSE late
    /\ UNCHANGED <<fetched, landed, watermark, sealed>>

(***************************************************************************)
(* A higher value is sealed.                                               *)
(***************************************************************************)
Seal ==
    /\ sealed' \in Nat
    /\ ~AtOrBelow(sealed', sealed)
    /\ UNCHANGED <<table, fetched, landed, watermark, late>>

(***************************************************************************)
(* Current versions are read.                                              *)
(***************************************************************************)
Fetch ==
    /\ fetched' \subseteq fetched \cup Current
    /\ UNCHANGED <<table, landed, watermark, sealed, late>>

(***************************************************************************)
(* Fetched versions are landed, or given up, or current ones are read and  *)
(* landed at once: nothing that was not read from the source lands, and    *)
(* nothing landed goes away.                                               *)
(***************************************************************************)
Land ==
    /\ landed \subseteq landed'
    /\ landed' \subseteq landed \cup fetched \cup Current
    /\ fetched' \subseteq fetched
    /\ UNCHANGED <<table, watermark, sealed, late>>

(***************************************************************************)
(* The watermark moves, forwards or backwards, to a complete sealed value. *)
(***************************************************************************)
Advance ==
    /\ watermark' \in Nat
    /\ AtOrBelow(watermark', sealed)
    /\ Complete(watermark')
    /\ UNCHANGED <<table, fetched, landed, sealed, late>>

(***************************************************************************)
(* There is no watermark any more, so that nothing is vouched for.         *)
(***************************************************************************)
Withdraw ==
    /\ MayWithdraw
    /\ watermark' = None
    /\ UNCHANGED <<table, fetched, landed, sealed, late>>

LNext ==
    \/ \E row \in Rows : Change(row)
    \/ Seal \/ Fetch \/ Land \/ Advance \/ Withdraw

LSpec == LInit /\ [][LNext]_lvars

(***************************************************************************)
(* The promise to the consumer of the watermark.                           *)
(***************************************************************************)
WatermarkComplete == watermark # None => Complete(watermark)

=============================================================================
