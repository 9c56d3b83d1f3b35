------------------------------ MODULE FileTeam ------------------------------
(***************************************************************************)
(* Files shared out to a team of threads, one at a time to whoever is free *)
(* (schedule(dynamic, 1)), in three engines:                               *)
(*   "phase2"  ingestParallelDirectory_OpenMP: every row becomes a record  *)
(*   "phase3"  ingestParallelDirectory_OpenMP_SoA: the rows that are right *)
(*   "stream"  queryFilesParallel: rows are counted, none is kept          *)
(* The ingests fill one vector per file and join them in the order of the  *)
(* files; the streaming query keeps counters per thread and adds them up.  *)
(*                                                                         *)
(* A row parses or not and carries a store-and-forward flag, "" if the     *)
(* column is empty.  ingestOneFile uses one record for all rows of a file, *)
(* and parseRow sets its flag only if the column is not empty; a record is *)
(* not initialised, so that its first flag is what its memory holds.       *)
(***************************************************************************)
EXTENDS Naturals, FiniteSets, SequencesExt

CONSTANTS
    Team,           \* threads
    Memory,         \* what the flag of a new record may be
    Inputs          \* the engines and directories to try

Engines == {"phase2", "phase3", "stream"}

InputRow == [ok : BOOLEAN, flag : {"Y", "N", ""}]

InputFile == [opens : BOOLEAN, rows : Seq(InputRow)]

ASSUME InputAssumption ==
    /\ IsFiniteSet(Team)
    /\ \A i \in Inputs : i.engine \in Engines /\ i.files \in Seq(InputFile)

VARIABLES
    engine, files,
    fresh,          \* file -> the flag in the memory its record gets
    nextFile,       \* the first file no thread has taken
    inHand,         \* thread -> its file; 0 for none
    nextRow,        \* thread -> the row it reads next
    rec,            \* thread -> the flag of the record it uses
    perFile,        \* file -> the records made of it
    perStats,       \* file -> its counts
    part,           \* thread -> its counts
    joined,         \* whether the team is at its end
    store, totals   \* what the call returns

teamVars == <<engine, files, fresh, nextFile, inHand, nextRow, rec, perFile, perStats,
              part, joined, store, totals>>

NoCount == [read |-> 0, failed |-> 0, matched |-> 0]

NoFlag == "none"    \* no record

Plus(c, d) == [read |-> c.read + d.read, failed |-> c.failed + d.failed,
               matched |-> c.matched + d.matched]

Sum(counts) == FoldLeft(Plus, NoCount, counts)

\* What one row adds to the counts; the predicate of "stream" asks for a flag.
CountOf(r) ==
    [read |-> 1, failed |-> IF r.ok THEN 0 ELSE 1,
     matched |-> IF engine = "stream" /\ r.ok /\ r.flag = "Y" THEN 1 ELSE 0]

\* The flag of a record after parseRow: an empty column leaves it alone.
FlagAfter(flag, r) == IF r.flag = "" THEN flag ELSE r.flag

Kept(r) == engine = "phase2" \/ (engine = "phase3" /\ r.ok)

TeamInit ==
    /\ \E i \in Inputs : engine = i.engine /\ files = i.files
    /\ fresh \in [DOMAIN files -> Memory]
    /\ nextFile = 1
    /\ inHand = [t \in Team |-> 0]
    /\ nextRow = [t \in Team |-> 1]
    /\ rec = [t \in Team |-> NoFlag]
    /\ perFile = [f \in DOMAIN files |-> <<>>]
    /\ perStats = [f \in DOMAIN files |-> NoCount]
    /\ part = [t \in Team |-> NoCount]
    /\ joined = FALSE
    /\ store = <<>>
    /\ totals = NoCount

-----------------------------------------------------------------------------
\* MUTANT of TakeFile: a thread goes on with the record of its last file.
TakeFileKeepsRecord(t) ==
    /\ inHand[t] = 0
    /\ nextFile <= Len(files)
    /\ inHand' = [inHand EXCEPT ![t] = nextFile]
    /\ nextRow' = [nextRow EXCEPT ![t] = 1]
    /\ nextFile' = nextFile + 1
    /\ UNCHANGED <<engine, files, fresh, rec, perFile, perStats, part, joined, store, totals>>

\* A free thread takes the next file, with a reader and a record of its own.
TakeFile(t) ==
    /\ inHand[t] = 0
    /\ nextFile <= Len(files)
    /\ inHand' = [inHand EXCEPT ![t] = nextFile]
    /\ nextRow' = [nextRow EXCEPT ![t] = 1]
    /\ rec' = [rec EXCEPT ![t] = fresh[nextFile]]
    /\ nextFile' = nextFile + 1
    /\ UNCHANGED <<engine, files, fresh, perFile, perStats, part, joined, store, totals>>

HasRow(t) ==
    /\ inHand[t] # 0
    /\ files[inHand[t]].opens
    /\ nextRow[t] <= Len(files[inHand[t]].rows)

ReadRow(t) ==
    /\ HasRow(t)
    /\ LET f == inHand[t]
           r == files[f].rows[nextRow[t]]
       IN  /\ rec' = [rec EXCEPT ![t] = FlagAfter(@, r)]
           /\ perFile' = IF Kept(r) THEN [perFile EXCEPT ![f] = Append(@, rec'[t])]
                         ELSE perFile
           /\ perStats' = [perStats EXCEPT ![f] = Plus(@, CountOf(r))]
    /\ nextRow' = [nextRow EXCEPT ![t] = @ + 1]
    /\ UNCHANGED <<engine, files, fresh, nextFile, inHand, part, joined, store, totals>>

\* The end of a file, or a file that does not open: the streaming query adds
\* what queryFile returns to the counters of the thread.
EndFile(t) ==
    /\ inHand[t] # 0
    /\ ~HasRow(t)
    /\ inHand' = [inHand EXCEPT ![t] = 0]
    /\ part' = [part EXCEPT ![t] = Plus(@, perStats[inHand[t]])]
    /\ UNCHANGED <<engine, files, fresh, nextFile, nextRow, rec, perFile, perStats, joined,
                   store, totals>>

\* The end of the parallel region, where what the threads hold ends with it,
\* and the merge behind it.
Join ==
    /\ ~joined
    /\ nextFile = Len(files) + 1
    /\ \A t \in Team : inHand[t] = 0
    /\ joined' = TRUE
    /\ store' = FlattenSeq(perFile)
    /\ totals' = IF engine = "stream" THEN FoldFunction(Plus, NoCount, part)
                 ELSE Sum(perStats)
    /\ rec' = [t \in Team |-> NoFlag]
    /\ part' = [t \in Team |-> NoCount]
    /\ nextRow' = [t \in Team |-> 1]
    /\ UNCHANGED <<engine, files, fresh, nextFile, inHand, perFile, perStats>>

TeamNext ==
    \/ \E t \in Team : TakeFile(t) \/ ReadRow(t) \/ EndFile(t)
    \/ Join

-----------------------------------------------------------------------------
\* ingestSerialDirectory, ingestSerialDirectory_SoA, and queryFiles: file
\* after file, row after row, where the record of the file finds this flag.
SerialFile(f, found) ==
    IF ~f.opens THEN [flag |-> found, records |-> <<>>, count |-> NoCount]
    ELSE FoldLeft(LAMBDA st, r :
                      [flag |-> FlagAfter(st.flag, r),
                       records |-> IF Kept(r) THEN Append(st.records, FlagAfter(st.flag, r))
                                   ELSE st.records,
                       count |-> Plus(st.count, CountOf(r))],
                  [flag |-> found, records |-> <<>>, count |-> NoCount], f.rows)

\* Whatever thread takes which file when, the store holds the records of the
\* serial ingest in its order, each with the flag it gets there if the new
\* records find the same in their memory, and the counts are those of the
\* serial run.  No flag comes from another file.
IngestIsSerial ==
    joined =>
        /\ store = FlattenSeq([k \in DOMAIN files |-> SerialFile(files[k], fresh[k]).records])
        /\ totals = Sum([k \in DOMAIN files |-> SerialFile(files[k], fresh[k]).count])
=============================================================================
