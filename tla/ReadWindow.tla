---------------------------- MODULE ReadWindow ----------------------------
(***************************************************************************)
(* The pure part of an incremental read: which values of the checkpoint    *)
(* column a run selects, given the window (from, to] that InitOperator     *)
(* resolved, and what the parser keeps of the value it captured.  The read *)
(* adapters disagree with one another about the window, so the kind of     *)
(* source is a parameter:                                                  *)
(*   "sql"        table read over JDBC (PostgreSQL, MySQL)                 *)
(*   "query"      JDBC read with source_config.query set                   *)
(*   "no_column"  any table source without a checkpoint_column             *)
(*   "nosql"      DynamoDB, Cassandra, or MongoDB with a string column:    *)
(*                post-load DataFrame.filter                               *)
(*   "mongodb"    MongoDB with a date or numeric checkpoint column         *)
(***************************************************************************)
EXTENDS Naturals

CONSTANT None      \* Python's None: no checkpoint, no bound, no row

ASSUME NoneAssumption == None \notin Nat

(***************************************************************************)
(* Operators whose names end in _Mutant... are slips the code might have   *)
(* had; they stand before the operator they would replace and nothing uses *)
(* them but the checks that a property notices the slip.                   *)
(***************************************************************************)

(***************************************************************************)
(* The table sources of SourceConfigFactory; KafkaWindow is about topics,  *)
(* FileLanding about paths.                                                *)
(***************************************************************************)
TableKinds == {"sql", "query", "no_column", "nosql", "mongodb"}

(***************************************************************************)
(* NoSQLAdapter and SourceMongoDBAdapter test the bound itself, not        *)
(* whether it is None: the checkpoint 0 counts as "no checkpoint".         *)
(***************************************************************************)
Truthy(v) == v # None /\ v # 0

SqlSelects_MutantStrictUpper(from, to, ts) ==
    \/ from = None
    \/ to = None
    \/ from < to /\ from < ts /\ ts < to

SqlSelects_MutantInclusiveLower(from, to, ts) ==
    \/ from = None
    \/ to = None
    \/ from < to /\ from <= ts /\ ts <= to

(***************************************************************************)
(* The JDBC query: the WHERE clause is only there when both bounds are.    *)
(***************************************************************************)
SqlSelects(from, to, ts) ==
    \/ from = None
    \/ to = None
    \/ from < to /\ from < ts /\ ts <= to

NoSqlSelects_MutantFalsyIsNothing(from, ts) == Truthy(from) /\ from < ts

(***************************************************************************)
(* NoSQLAdapter.read filters on the lower bound only.                      *)
(***************************************************************************)
NoSqlSelects(from, ts) == Truthy(from) => from < ts

(***************************************************************************)
(* The $match stage compares the column with the checkpoint as a quoted    *)
(* string; MongoDB only compares values of one BSON type, so a date or a   *)
(* number is never greater than it and the stage passes no document.       *)
(***************************************************************************)
MongoSelects(from) == ~Truthy(from)

(***************************************************************************)
(* Is a row whose checkpoint column holds ts in what read() returns?       *)
(***************************************************************************)
Selects(kind, from, to, ts) ==
    \/ kind \in {"query", "no_column"}
    \/ kind = "sql" /\ SqlSelects(from, to, ts)
    \/ kind = "nosql" /\ NoSqlSelects(from, ts)
    \/ kind = "mongodb" /\ MongoSelects(from)

ParseCheckpoint_MutantRoundsUp(grain, v) == v + ((grain - (v % grain)) % grain)

(***************************************************************************)
(* _parse_checkpoint applied to the MAX: int(val) drops the fraction of a  *)
(* float or Decimal.  A column of such values is modelled by values in     *)
(* units of 1/grain; integers and datetimes, kept whole, have grain 1.     *)
(***************************************************************************)
ParseCheckpoint(grain, v) == v - (v % grain)

===========================================================================
