---------------------------- MODULE TwoPassFill ----------------------------
(***************************************************************************)
(* The parallel query of the in-memory engines: executeOpenMP over a       *)
(* vector of records (phase 2) and its twin executeOpenMP_SoA over columns *)
(* (phase 3).  The threads count the matches of their shares, one thread   *)
(* turns the counts into offsets, and the threads pass over the rows again *)
(* and write each match at the next place of their own region, so that the *)
(* result is the one of executeSerial without a lock or a merge.           *)
(*                                                                         *)
(* A row is its index; the filter is the set of the rows that match it.    *)
(* schedule(static) divides the rows into one contiguous share per thread, *)
(* in the order of the threads.  How long the shares are is left open      *)
(* (threads without rows included); the two loops divide the same rows     *)
(* between the same threads and get the same shares.                       *)
(***************************************************************************)
EXTENDS Integers, FiniteSets

CONSTANTS
    NumRows,    \* records of the store
    Threads     \* threads of the team

ASSUME TeamAssumption ==
    /\ NumRows \in Nat
    /\ Threads \in Nat \ {0}

Rows == 0 .. NumRows - 1
Tid == 0 .. Threads - 1
Unwritten == -1     \* what the vector's constructor puts at every place

VARIABLES
    matching,   \* rows the filter accepts; never changes
    share,      \* the thread each row is assigned to; never changes
    pass,       \* "count", "sum", "fill", "done"
    seen,       \* rows the current loop has passed over
    local,      \* each thread's count of matches
    counts,     \* counts[tid], as stored
    ended,      \* threads that have stored their count
    summed,     \* threads whose offset is computed
    offsets, total,
    pos,        \* each thread's next place
    out         \* the result: places 0 .. total - 1

inputVars == <<matching, share>>
countVars == <<local, counts, ended>>
sumVars == <<summed, offsets, total>>
fillVars == <<pos, out>>
vars == <<inputVars, pass, seen, countVars, sumVars, fillVars>>

\* One contiguous share per thread, in the order of the threads.
StaticShares ==
    {f \in [Rows -> Tid] : \A q, r \in Rows : q < r => f[q] <= f[r]}

TypeOK ==
    /\ matching \subseteq Rows
    /\ share \in StaticShares
    /\ pass \in {"count", "sum", "fill", "done"}
    /\ seen \subseteq Rows
    /\ local \in [Tid -> 0 .. NumRows]
    /\ counts \in [Tid -> 0 .. NumRows]
    /\ ended \subseteq Tid
    /\ summed \in 0 .. Threads
    /\ offsets \in [Tid -> 0 .. NumRows]
    /\ total \in 0 .. NumRows
    /\ pos \in [Tid -> 0 .. NumRows]
    /\ out \in [0 .. (IF pass \in {"fill", "done"} THEN total ELSE 0) - 1
                    -> Rows \cup {Unwritten}]

Init ==
    /\ matching \in SUBSET Rows
    /\ share \in StaticShares
    /\ pass = "count"
    /\ seen = {}
    /\ local = [t \in Tid |-> 0]
    /\ counts = [t \in Tid |-> 0]
    /\ ended = {}
    /\ summed = 0
    /\ offsets = [t \in Tid |-> 0]
    /\ total = 0
    /\ pos = [t \in Tid |-> 0]
    /\ out = [p \in 0 .. -1 |-> Unwritten]

\* A thread passes over its share from the first row to the last.
IsNextRow(t, r) ==
    /\ share[r] = t
    /\ r \notin seen
    /\ \A q \in Rows : q < r /\ share[q] = t => q \in seen

-----------------------------------------------------------------------------
\* Pass 1, the loop.
CountRow(t, r) ==
    /\ pass = "count"
    /\ IsNextRow(t, r)
    /\ seen' = seen \cup {r}
    /\ local' = [local EXCEPT ![t] = IF r \in matching THEN @ + 1 ELSE @]
    /\ UNCHANGED <<inputVars, pass, counts, ended, sumVars, fillVars>>

\* MUTANT of StoreCount: a thread without rows leaves the region early.
StoreCountOfRows(t) ==
    /\ pass = "count"
    /\ seen = Rows
    /\ t \notin ended
    /\ \E r \in Rows : share[r] = t
    /\ counts' = [counts EXCEPT ![t] = local[t]]
    /\ ended' = ended \cup {t}
    /\ UNCHANGED <<inputVars, pass, seen, local, sumVars, fillVars>>

\* Pass 1, after the barrier that ends the loop.
StoreCount(t) ==
    /\ pass = "count"
    /\ seen = Rows
    /\ t \notin ended
    /\ counts' = [counts EXCEPT ![t] = local[t]]
    /\ ended' = ended \cup {t}
    /\ UNCHANGED <<inputVars, pass, seen, local, sumVars, fillVars>>

\* The end of the first parallel region joins the threads.
JoinCount ==
    /\ pass = "count"
    /\ ended = Tid
    /\ pass' = "sum"
    /\ UNCHANGED <<inputVars, seen, countVars, sumVars, fillVars>>

\* MUTANT of AddUp: the offset of a thread includes its own count.
AddUpInclusive ==
    /\ pass = "sum"
    /\ summed < Threads
    /\ total' = total + counts[summed]
    /\ offsets' = [offsets EXCEPT ![summed] = total']
    /\ summed' = summed + 1
    /\ UNCHANGED <<inputVars, pass, seen, countVars, fillVars>>

\* Prefix sum offsets, one thread's count at a time.
AddUp ==
    /\ pass = "sum"
    /\ summed < Threads
    /\ offsets' = [offsets EXCEPT ![summed] = total]
    /\ total' = total + counts[summed]
    /\ summed' = summed + 1
    /\ UNCHANGED <<inputVars, pass, seen, countVars, fillVars>>

AllocateFromFront ==
    /\ pass = "sum"
    /\ summed = Threads
    /\ out' = [p \in 0 .. total - 1 |-> Unwritten]
    /\ pos' = [t \in Tid |-> 0]
    /\ pass' = "fill"
    /\ seen' = {}
    /\ UNCHANGED <<inputVars, countVars, sumVars>>

\* The result vector, and the start of the second parallel region, where
\* each thread takes the first place of its region.
Allocate ==
    /\ pass = "sum"
    /\ summed = Threads
    /\ out' = [p \in 0 .. total - 1 |-> Unwritten]
    /\ pos' = offsets
    /\ pass' = "fill"
    /\ seen' = {}
    /\ UNCHANGED <<inputVars, countVars, sumVars>>

\* out[pos++] = r; a place outside the vector is caught by WritesStayInside.
Write(t, r) ==
    IF r \in matching
    THEN /\ out' = [out EXCEPT ![pos[t]] = r]
         /\ pos' = [pos EXCEPT ![t] = @ + 1]
    ELSE UNCHANGED fillVars

\* MUTANT of FillRow: the second loop hands rows to whoever is free.
FillRowDynamic(t, r) ==
    /\ pass = "fill"
    /\ r \notin seen
    /\ \A q \in Rows : q < r => q \in seen
    /\ seen' = seen \cup {r}
    /\ Write(t, r)
    /\ UNCHANGED <<inputVars, pass, countVars, sumVars>>

\* Pass 2, the loop.
FillRow(t, r) ==
    /\ pass = "fill"
    /\ IsNextRow(t, r)
    /\ seen' = seen \cup {r}
    /\ Write(t, r)
    /\ UNCHANGED <<inputVars, pass, countVars, sumVars>>

\* The end of the second parallel region and the return.
Return ==
    /\ pass = "fill"
    /\ seen = Rows
    /\ pass' = "done"
    /\ UNCHANGED <<inputVars, seen, countVars, sumVars, fillVars>>

Next ==
    \/ \E t \in Tid, r \in Rows : CountRow(t, r) \/ FillRow(t, r)
    \/ \E t \in Tid : StoreCount(t)
    \/ JoinCount
    \/ AddUp
    \/ Allocate
    \/ Return

Spec == Init /\ [][Next]_vars /\ WF_vars(Next)

-----------------------------------------------------------------------------
\* Where executeSerial puts a matching row: it appends each match to the
\* rows it has found before it.
Rank(r) == Cardinality({q \in matching : q < r})

(* executeOpenMP returns what executeSerial returns: as many places as there  *)
(* are matches, and every matching row at its place in row order.             *)
ResultIsSerial ==
    pass = "done" =>
        /\ total = Cardinality(matching)
        /\ \A r \in matching : Rank(r) \in DOMAIN out /\ out[Rank(r)] = r

(* A thread about to write a match writes inside the vector, whatever the     *)
(* others have written by then: out[pos++] is unchecked in the code.          *)
WritesStayInside ==
    \A t \in Tid, r \in matching :
        pass = "fill" /\ IsNextRow(t, r) => pos[t] \in DOMAIN out

(* No two writes meet: a place that holds a row keeps it, so the threads need *)
(* no lock for the vector they share.                                         *)
NoPlaceWrittenTwice ==
    [][\A p \in DOMAIN out : out[p] # Unwritten => out'[p] = out[p]]_vars
=============================================================================
