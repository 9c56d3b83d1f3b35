----------------------------- MODULE BatchScan -----------------------------
(***************************************************************************)
(* queryFileBatchParallelOMP: a team of threads goes round a loop; in      *)
(* every round the first thread to arrive fills the shared batch from the  *)
(* file, the barriers let the others go on, all share the lines of the     *)
(* batch, and a batch without lines ends the query.  The reader, the batch *)
(* and `done` are not locked: the barriers alone keep a thread from        *)
(* reading a batch while another one fills it.                             *)
(*                                                                         *)
(* A line is blank or not; what the parser and the predicate make of it is *)
(* left out, and `judged` counts how often each line got that far.  The    *)
(* stop flag is null, as in every call of the repository.                  *)
(***************************************************************************)
EXTENDS Naturals, Sequences

CONSTANTS
    NumLines,   \* lines after the header
    BatchSize,
    BatchThreads

ASSUME BatchAssumption ==
    /\ NumLines \in Nat
    /\ BatchSize \in Nat \ {0}
    /\ BatchThreads \in Nat \ {0}

Line == 1 .. NumLines
Thread == 1 .. BatchThreads

VARIABLES
    blank,      \* lines without text; never changes
    position,   \* lines the reader has delivered
    read,       \* lines read for this batch, blank ones included
    batch,      \* the shared lines
    done,
    pc,         \* where each thread is in the loop
    claimed,    \* whether this round's `single` has its thread
    taken,      \* places of the batch that some thread has taken
    judged      \* line -> how often it was scanned

batchVars == <<blank, position, read, batch, done, pc, claimed, taken, judged>>

\* "top" of the loop, "fill"ing the batch, at the barrier that ends `single`,
\* at the test of `done`, in the shared "loop", at the barrier that ends it,
\* at the end of the region.
BatchInit ==
    /\ blank \in SUBSET Line
    /\ position = 0
    /\ read = 0
    /\ batch = <<>>
    /\ done = FALSE
    /\ pc = [t \in Thread |-> "top"]
    /\ claimed = FALSE
    /\ taken = {}
    /\ judged = [l \in Line |-> 0]

-----------------------------------------------------------------------------
\* `single`: the first thread of the round clears the batch and fills it,
\* the others go to the barrier.
Fill(t) ==
    /\ pc[t] = "top"
    /\ ~claimed
    /\ claimed' = TRUE
    /\ batch' = <<>>
    /\ read' = 0
    /\ pc' = [pc EXCEPT ![t] = "fill"]
    /\ UNCHANGED <<blank, position, done, taken, judged>>

PassBy(t) ==
    /\ pc[t] = "top"
    /\ claimed
    /\ pc' = [pc EXCEPT ![t] = "filled"]
    /\ UNCHANGED <<blank, position, read, batch, done, claimed, taken, judged>>

\* MUTANT of ReadLine: a full batch is noticed after one more line is read.
ReadLineDropped(t) ==
    /\ pc[t] = "fill"
    /\ position < NumLines
    /\ position' = position + 1
    /\ IF read < BatchSize
       THEN /\ read' = read + 1
            /\ batch' = IF position' \in blank THEN batch ELSE Append(batch, position')
            /\ UNCHANGED <<done, pc>>
       ELSE /\ done' = (batch = <<>>)
            /\ pc' = [pc EXCEPT ![t] = "filled"]
            /\ UNCHANGED <<read, batch>>
    /\ UNCHANGED <<blank, claimed, taken, judged>>

\* One iteration of the filling loop; a blank line counts as one.
ReadLine(t) ==
    /\ pc[t] = "fill"
    /\ read < BatchSize
    /\ position < NumLines
    /\ position' = position + 1
    /\ read' = read + 1
    /\ batch' = IF position' \in blank THEN batch ELSE Append(batch, position')
    /\ UNCHANGED <<blank, done, pc, claimed, taken, judged>>

\* The loop has run its length or the file has ended.
EndFill(t) ==
    /\ pc[t] = "fill"
    /\ read = BatchSize \/ position = NumLines
    /\ done' = (batch = <<>>)
    /\ pc' = [pc EXCEPT ![t] = "filled"]
    /\ UNCHANGED <<blank, position, read, batch, claimed, taken, judged>>

\* The implied barrier of `single` and the one after it, between which
\* nothing happens.
BarrierAfterSingle ==
    /\ \A t \in Thread : pc[t] = "filled"
    /\ pc' = [t \in Thread |-> "test"]
    /\ taken' = {}
    /\ UNCHANGED <<blank, position, read, batch, done, claimed, judged>>

Test(t) ==
    /\ pc[t] = "test"
    /\ pc' = [pc EXCEPT ![t] = IF done THEN "end" ELSE "loop"]
    /\ UNCHANGED <<blank, position, read, batch, done, claimed, taken, judged>>

\* `omp for`: each place of the batch goes to one thread.
Judge(t, i) ==
    /\ pc[t] = "loop"
    /\ i \in 1 .. Len(batch) \ taken
    /\ taken' = taken \cup {i}
    /\ judged' = [judged EXCEPT ![batch[i]] = @ + 1]
    /\ UNCHANGED <<blank, position, read, batch, done, pc, claimed>>

\* MUTANT of EndLoop: `nowait`, and no barrier at the foot of the loop.
EndLoopNoWait(t) ==
    /\ pc[t] = "loop"
    /\ taken = 1 .. Len(batch)
    /\ pc' = [pc EXCEPT ![t] = "top"]
    /\ claimed' = FALSE
    /\ UNCHANGED <<blank, position, read, batch, done, taken, judged>>

\* A thread comes to the end of its share, whatever schedule divides the
\* places; those not taken yet belong to threads still in the loop.
EndLoop(t) ==
    /\ pc[t] = "loop"
    /\ \/ taken = 1 .. Len(batch)
       \/ \E u \in Thread \ {t} : pc[u] \in {"test", "loop"}
    /\ pc' = [pc EXCEPT ![t] = "looped"]
    /\ UNCHANGED <<blank, position, read, batch, done, claimed, taken, judged>>

\* The implied barrier of `omp for` and the one at the foot of the loop.
BarrierAfterLoop ==
    /\ \A t \in Thread : pc[t] = "looped"
    /\ pc' = [t \in Thread |-> "top"]
    /\ claimed' = FALSE
    /\ UNCHANGED <<blank, position, read, batch, done, taken, judged>>

BatchNext ==
    \/ \E t \in Thread :
           \/ Fill(t) \/ PassBy(t) \/ ReadLine(t) \/ EndFill(t)
           \/ Test(t) \/ EndLoop(t)
           \/ \E i \in 1 .. BatchSize : Judge(t, i)
    \/ BarrierAfterSingle
    \/ BarrierAfterLoop

BatchSpec == BatchInit /\ [][BatchNext]_batchVars

-----------------------------------------------------------------------------
(* While a thread fills the batch no other is in the shared loop or about to  *)
(* test `done`: neither is read while it changes.                             *)
NoReadWhileFilling ==
    (\E t \in Thread : pc[t] = "fill") =>
        \A u \in Thread : pc[u] \in {"top", "fill", "filled"}

(* The batches end at the first one that is blank throughout.                 *)
BlankBatch(k) ==
    \A l \in Line : (k - 1) * BatchSize < l /\ l <= k * BatchSize => l \in blank

Reached ==
    {l \in Line : \A k \in 1 .. NumLines : k * BatchSize < l + BatchSize => ~BlankBatch(k)}

(* The query judges what queryFile judges, every line with text once, up to   *)
(* the first BatchSize consecutive lines, counted from the start in batches,  *)
(* that are all blank; what follows those is not read.                        *)
EachLineJudgedOnce ==
    (\A t \in Thread : pc[t] = "end") =>
        \A l \in Line : judged[l] = IF l \in Reached \ blank THEN 1 ELSE 0
=============================================================================
