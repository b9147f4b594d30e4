-------------------------- MODULE CheckpointCodec --------------------------
(***************************************************************************)
(* The forms a checkpoint takes on its way from the source's MAX through   *)
(* XCom and the TEXT column of public.checkpoints into the query of the    *)
(* next run.  What a value says is abstracted to a number that orders the  *)
(* values of one column; what kind of value it is is not.                  *)
(*                                                                         *)
(*   raw     what a driver returns: <<"int", n>>, <<"datetime", n>>, or a  *)
(*           string: <<"digits", n>>, <<"iso", n>>, <<"text", n>> for one  *)
(*           that reads as a number, as an ISO date, as neither            *)
(*   parsed  a CheckpointValue: <<"int", n>>, <<"ts", n>> or <<"str", n>>  *)
(*   tagged  the dictionary in XCom: a tag and what JSON keeps             *)
(***************************************************************************)
EXTENDS Naturals

RawKinds == {"int", "datetime", "digits", "iso", "text"}
Raw == RawKinds \X Nat
Checkpoint == {"int", "ts", "str"} \X Nat
Tagged == [t : {"int", "ts", "str"}, v : Raw]

ParseCheckpoint_MutantNoDates(raw) ==
    CASE raw[1] \in {"int", "digits"} -> <<"int", raw[2]>>
      [] raw[1] = "datetime" -> <<"ts", raw[2]>>
      [] raw[1] \in {"iso", "text"} -> <<"str", raw[2]>>

(***************************************************************************)
(* Strings are tried as a number, then as a date, and kept otherwise.      *)
(***************************************************************************)
ParseCheckpoint(raw) ==
    CASE raw[1] \in {"int", "digits"} -> <<"int", raw[2]>>
      [] raw[1] \in {"datetime", "iso"} -> <<"ts", raw[2]>>
      [] raw[1] = "text" -> <<"str", raw[2]>>

(***************************************************************************)
(* isoformat() for a date, the value itself for the others.                *)
(***************************************************************************)
Serialise(value) ==
    [t |-> value[1],
     v |-> CASE value[1] = "int" -> <<"int", value[2]>>
             [] value[1] = "ts" -> <<"iso", value[2]>>
             [] value[1] = "str" -> <<"text", value[2]>>]

(***************************************************************************)
(* int(), fromisoformat() or str(), as the tag says.                       *)
(***************************************************************************)
Deserialise(tagged) == <<tagged.t, tagged.v[2]>>

(***************************************************************************)
(* MetricPushOperator does not deserialise: it saves str() of the "v".     *)
(***************************************************************************)
SavedText(tagged) ==
    IF tagged.v[1] = "int" THEN <<"digits", tagged.v[2]>> ELSE tagged.v

(***************************************************************************)
(* What the next run starts from, when the last one captured raw.          *)
(***************************************************************************)
NextFrom(raw) == ParseCheckpoint(SavedText(Serialise(ParseCheckpoint(raw))))

(***************************************************************************)
(* _format_checkpoint quotes a date and nothing else, so PostgreSQL takes  *)
(* the bound of a window for a number or for a name; only a column of the  *)
(* bound's own type compares with it.                                      *)
(***************************************************************************)
Compares(column, value) ==
    \/ column = "int" /\ value[1] = "int"
    \/ column = "datetime" /\ value[1] = "ts"

=============================================================================
