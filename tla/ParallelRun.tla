---------------------------- MODULE ParallelRun ----------------------------
(***************************************************************************)
(* One run of a program that works with a team of threads in one process:  *)
(*   - an in-memory program reads the files of a directory into a store    *)
(*     (FileTeam) and then queries the store (TwoPassFill), which it sees  *)
(*     as rows 0 .. NumRows - 1; which of them match is up to the query;   *)
(*   - the streaming program shares out files and keeps only counts;       *)
(*   - or it shares out the lines of one file in batches (BatchScan).      *)
(***************************************************************************)
EXTENDS FileTeam, TwoPassFill, BatchScan

ASSUME StoreAssumption ==
    \A i \in Inputs : i.engine # "stream" =>
        Len(FlattenSeq([k \in DOMAIN i.files |->
                SelectSeq(IF i.files[k].opens THEN i.files[k].rows ELSE <<>>,
                          LAMBDA r : i.engine = "phase2" \/ r.ok)])) = NumRows

VARIABLE stage      \* "ingest", "query", "batch"

runVars == <<teamVars, vars, batchVars, stage>>

\* The query of a run is not known before its store is.
RunInit ==
    /\ TeamInit
    /\ Init /\ matching = {} /\ share = [r \in Rows |-> 0]
    /\ BatchInit
    /\ \/ stage = "ingest" /\ blank = {}
       \/ stage = "batch" /\ engine = "stream"

Ingest ==
    /\ stage = "ingest"
    /\ TeamNext
    /\ UNCHANGED <<vars, batchVars, stage>>

\* executeOpenMP or executeOpenMP_SoA is called on the store.
BeginQuery ==
    /\ stage = "ingest"
    /\ joined
    /\ engine # "stream"
    /\ stage' = "query"
    /\ matching' \in SUBSET Rows
    /\ share' \in StaticShares
    /\ UNCHANGED <<teamVars, batchVars, pass, seen, countVars, sumVars, fillVars>>

Query ==
    /\ stage = "query"
    /\ Next
    /\ UNCHANGED <<teamVars, batchVars, stage>>

BatchQuery ==
    /\ stage = "batch"
    /\ BatchNext
    /\ UNCHANGED <<teamVars, vars, stage>>

RunNext == Ingest \/ BeginQuery \/ Query \/ BatchQuery

\* Some thread that can go on does: OpenMP's threads are scheduled by the
\* operating system, and they wait for nothing but each other.
RunSpec == RunInit /\ [][RunNext]_runVars /\ WF_runVars(RunNext)

Ended ==
    CASE stage = "ingest" -> engine = "stream" /\ joined
      [] stage = "query" -> pass = "done"
      [] stage = "batch" -> \A t \in Thread : pc[t] = "end"

-----------------------------------------------------------------------------
(* The run ends: no thread is left waiting at a barrier or a join, threads    *)
(* without files and threads without rows included; no file stops it, and no  *)
(* batch is taken for more to come when the file is at its end.               *)
RunEnds == <>Ended
=============================================================================
