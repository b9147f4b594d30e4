--------------------------- MODULE Landing_proofs ---------------------------
(***************************************************************************)
(* What a consumer of the watermark may conclude from Landing alone.       *)
(***************************************************************************)
EXTENDS Landing, TLAPS

(***************************************************************************)
(* The watermark is complete when it moves.  It stays so because it is     *)
(* sealed: what appears at or below it afterwards is late.                 *)
(***************************************************************************)
LInv ==
    /\ table \in [Rows -> Nat \cup {None}]
    /\ sealed \in Nat \cup {None}
    /\ watermark \in Nat \cup {None}
    /\ watermark # None => AtOrBelow(watermark, sealed) /\ Complete(watermark)

LEMMA ChangeKeepsComplete ==
    ASSUME None \notin Nat, LInv, NEW row \in Rows, Change(row)
    PROVE  LInv'
<1>1. table' \in [Rows -> Nat \cup {None}] /\ UNCHANGED <<landed, watermark, sealed>>
  BY DEF LInv, Change
<1>2. ASSUME watermark # None, NEW x \in Rows, table'[x] # None, table'[x] <= watermark,
             Version(x)' \notin late'
      PROVE  Version(x)' \in landed
  <2>1. CASE x = row
    <3>1. table'[x] \in Nat /\ watermark \in Nat /\ sealed \in Nat /\ watermark <= sealed
      BY <1>1, <1>2 DEF LInv, AtOrBelow
    <3>2. AtOrBelow(table'[x], sealed)
      BY <1>2, <3>1 DEF AtOrBelow
    <3>3. Version(x)' \in late'
      BY <1>2, <2>1, <3>2 DEF Change, Version
    <3>4. QED
      BY <1>2, <3>3
  <2>2. CASE x # row
    <3>1. table'[x] = table[x] /\ late \subseteq late'
      BY <2>2 DEF Change, LInv
    <3>2. QED
      BY <1>2, <3>1 DEF LInv, Complete, Version
  <2>3. QED
    BY <2>1, <2>2
<1>3. QED
  BY <1>1, <1>2 DEF LInv, Complete, AtOrBelow

LEMMA StepKeepsComplete ==
    ASSUME None \notin Nat, LInv, [LNext]_lvars
    PROVE  LInv'
<1>1. ASSUME NEW row \in Rows, Change(row) PROVE LInv'
  BY <1>1, ChangeKeepsComplete
<1>2. CASE Seal
  BY <1>2 DEF Seal, LInv, Complete, Version, AtOrBelow
<1>3. CASE Fetch
  BY <1>3 DEF Fetch, LInv, Complete, Version, AtOrBelow
<1>4. CASE Land
  BY <1>4 DEF Land, LInv, Complete, Version, AtOrBelow
<1>5. CASE Advance
  BY <1>5 DEF Advance, LInv, Complete, Version, AtOrBelow
<1>6. CASE Withdraw
  BY <1>6 DEF Withdraw, LInv
<1>7. CASE UNCHANGED lvars
  BY <1>7 DEF lvars, LInv, Complete, Version, AtOrBelow
<1>8. QED
  BY <1>1, <1>2, <1>3, <1>4, <1>5, <1>6, <1>7 DEF LNext

(***************************************************************************)
(* At any moment, every on-time version that is in the source at or below  *)
(* the published watermark is landed.                                      *)
(***************************************************************************)
THEOREM WatermarkIsComplete ==
    ASSUME None \notin Nat
    PROVE  LSpec => []WatermarkComplete
<1>1. LInit => LInv
  BY DEF LInit, LInv
<1>2. LInv => WatermarkComplete
  BY DEF LInv, WatermarkComplete
<1>3. QED
  BY <1>1, <1>2, StepKeepsComplete, PTL DEF LSpec

=============================================================================
