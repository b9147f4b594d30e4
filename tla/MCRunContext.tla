---------------------------- MODULE MCRunContext ----------------------------
(***************************************************************************)
(* An instance of RunContext for TLC: two runs of one DAG and one of       *)
(* another, which may come to read the same table.  r1 and r3 are the runs *)
(* of one schedule and have one run_id; that of r2, started by hand, is    *)
(* told from theirs only by what re.sub replaces.                          *)
(***************************************************************************)
EXTENDS RunContext, TLC

CONSTANTS d1, d2, r1, r2, r3, dated, named

MCDags == {d1, d2}
MCRuns == {r1, r2, r3}
MCDagOf == (r1 :> d1) @@ (r2 :> d1) @@ (r3 :> d2)
MCInterval == [r \in MCRuns |-> 1]
MCRunId == (r1 :> "a+b") @@ (r2 :> "a:b") @@ (r3 :> "a+b")
MCSanitised == [id \in {"a+b", "a:b"} |-> "a_b"]
MCSources == {dated, named}
MCColumn == (dated :> "datetime") @@ (named :> "text")
MCMaxRows == (dated :> 2) @@ (named :> 1)
MCContents == {[source |-> dated, counted |-> TRUE], [source |-> named, counted |-> FALSE]}
MCDeployed ==
    (d1 :> [source |-> dated, counted |-> TRUE]) @@ (d2 :> [source |-> named, counted |-> FALSE])

(***************************************************************************)
(* The runs of d1 differ in nothing the code keeps.                        *)
(***************************************************************************)
Symmetry == Permutations({r1, r2})
=============================================================================
