---------------------------- MODULE ServerTables ----------------------------
(***************************************************************************)
(* The tables of the servers, and clients that know their requests by the  *)
(* ids the servers gave them.  A child knows a request by an id of its own *)
(* table, which the parent keeps.  A server that starts again has an empty *)
(* table and counts its ids from q-1 once more, while clients and parents  *)
(* keep the ids they hold.                                                 *)
(*                                                                         *)
(* A call runs to its end before the next: what can come between its steps *)
(* is the subject of RequestCoordinator.  Children are leaves, and no call *)
(* is lost.                                                                *)
(***************************************************************************)
EXTENDS RequestTable

CONSTANTS
    Node,
    Children,       \* node -> its children, in order
    Client,
    Shard,          \* node -> its rows, each as the clients whose queries it matches
    Entries,        \* the nodes the clients may ask, client -> node
    Asked,          \* client -> the chunk size it asks for
    MaxRestarts     \* bound: restarts of all nodes together

ChildrenOf(n) == ToSet(Children[n])

ASSUME TreeAssumption ==
    /\ Children \in [Node -> Seq(Node)]
    /\ \A n \in Node : \A c \in ChildrenOf(n) : Children[c] = <<>> /\ c # n
    /\ Shard \in [Node -> Seq(SUBSET Client)]
    /\ Entries \subseteq [Client -> Node]
    /\ Asked \in [Client -> Nat]

VARIABLES
    table,          \* node -> queryStates_
    nextQuerySeq,   \* node -> nextQuerySeq_
    entry,          \* client -> the node it asks; never changes
    held,           \* client -> its id, 0 before it has one
    got,            \* client -> whose rows it was given
    told,           \* client -> whether it was told that it has them all
    calm,           \* client -> no node behind its entry started again since
    restarts

vars == <<table, nextQuerySeq, entry, held, got, told, calm, restarts>>

\* The part of the system a call changes.
World == [table |-> table, seq |-> nextQuerySeq]

Init ==
    /\ table = [n \in Node |-> <<>>]
    /\ nextQuerySeq = [n \in Node |-> 1]
    /\ entry \in Entries
    /\ held = [c \in Client |-> 0]
    /\ got = [c \in Client |-> {}]
    /\ told = [c \in Client |-> FALSE]
    /\ calm = [c \in Client |-> TRUE]
    /\ restarts = 0

-----------------------------------------------------------------------------
\* MUTANT of EnsureQueryId: the number of requests not at their end serves.
EnsureQueryIdOfOpen(w, n) == ActiveRequests(w.table[n]) + 1

\* ensureQueryId: no caller brings an id of its own.
EnsureQueryId(w, n) == w.seq[n]

\* submitClientQuery and submitSubQuery.
Submitted(w, n, of) ==
    LET id == EnsureQueryId(w, n)
        tab == Created(w.table[n], id, of)
        i == Find(tab, id)
    IN  [table |-> [w.table EXCEPT ![n] =
                        [tab EXCEPT ![i] = WithWorkers([@ EXCEPT !.state = "IN_PROGRESS"],
                                                       {n} \cup ChildrenOf(n))]],
         seq |-> [w.seq EXCEPT ![n] = @ + 1]]

\* The parts of fetchNextExecuteChunks on a window that is used up.
Cleared(w, n, i) ==
    [w EXCEPT !.table[n][i].window = <<>>, !.table[n][i].unread = 0]

WithLocal(w, n, i, maxRows) ==
    [w EXCEPT !.table[n] = WithLocalChunk(@, i, n, Shard[n], maxRows)]

RoundEnded(w, n, i) ==
    [w EXCEPT !.table[n][i].oddRound = ~@,
              !.table[n][i].state = IF AllWorkersCompleted(w.table[n][i])
                                    THEN "COMPLETED" ELSE @]

\* What fetchChunkForRpc takes from the window.
Taken(w, n, i, size) ==
    LET r == w.table[n][i]
        take == Min({size, Len(r.window) - r.unread})
        last == r.unread + take = Len(r.window) /\ AllWorkersCompleted(r)
    IN  [found |-> TRUE,
         done |-> last,
         rows |-> SubSeq(r.window, r.unread + 1, r.unread + take),
         world |-> [w EXCEPT !.table[n][i].unread = @ + take,
                             !.table[n][i].state = IF take > 0 /\ last THEN "COMPLETED" ELSE @]]

\* fetchChunkForRpc; `fetched` is what a round of fetching makes of w.
Answer(w, n, i, size, fetched) ==
    LET r == w.table[n][i]
        nothing == [found |-> i # 0, done |-> TRUE, rows |-> <<>>, world |-> w]
    IN  IF i = 0 THEN nothing
        ELSE IF r.state = "CANCELLED" THEN nothing
        ELSE IF WindowUsedUp(r) /\ ~AllWorkersCompleted(r) THEN Taken(fetched, n, i, size)
        ELSE Taken(w, n, i, size)

\* FetchSubChunk at a child: its rounds ask its own worker only.
AnsweredByLeaf(w, n, id, asked) ==
    LET i == Find(w.table[n], id)
        size == ChooseAdaptiveChunkSize(w.table[n], asked)
    IN  Answer(w, n, i, size, RoundEnded(WithLocal(Cleared(w, n, i), n, i, size), n, i))

\* One child's part of fetchRemoteExecuteChunks.  A child that does not know
\* the id is given up.
WithRemoteChunk(w, n, i, c, maxRows) ==
    LET p == w.table[n][i].progress[c]
        id == IF p.remoteId = 0 THEN EnsureQueryId(w, c) ELSE p.remoteId
        v == IF p.remoteId = 0 THEN Submitted(w, c, w.table[n][i].of) ELSE w
        a == AnsweredByLeaf(v, c, id, ChooseAdaptiveChunkSize(w.table[n], maxRows))
        r == [a.world.table[n][i] EXCEPT !.progress[c].remoteId = id]
    IN  IF p.completed THEN w
        ELSE [a.world EXCEPT !.table[n][i] = Merged(r, c, a.rows, p.next, a.found /\ ~a.done)]

\* fetchNextExecuteChunks: children first in odd rounds, last in even ones.
WithRound(w, n, i, maxRows) ==
    LET Remote(v) == FoldLeft(LAMBDA u, c : WithRemoteChunk(u, n, i, c, maxRows), v, Children[n])
        cleared == Cleared(w, n, i)
    IN  RoundEnded(IF w.table[n][i].oddRound THEN WithLocal(Remote(cleared), n, i, maxRows)
                   ELSE Remote(WithLocal(cleared, n, i, maxRows)), n, i)

\* FetchChunk at a node that may have children.
Answered(w, n, id, asked) ==
    LET i == Find(w.table[n], id)
        size == ChooseAdaptiveChunkSize(w.table[n], asked)
    IN  Answer(w, n, i, size, WithRound(w, n, i, size))

-----------------------------------------------------------------------------
\* SubmitQuery.
SubmitQuery(c) ==
    /\ held[c] = 0
    /\ held' = [held EXCEPT ![c] = EnsureQueryId(World, entry[c])]
    /\ LET w == Submitted(World, entry[c], c)
       IN  table' = w.table /\ nextQuerySeq' = w.seq
    /\ UNCHANGED <<entry, got, told, calm, restarts>>

\* FetchChunk; a client calls again until it is told that it is done.
FetchChunk(c) ==
    /\ held[c] # 0
    /\ ~told[c]
    /\ LET a == Answered(World, entry[c], held[c], Asked[c])
       IN  /\ table' = a.world.table
           /\ nextQuerySeq' = a.world.seq
           /\ got' = [got EXCEPT ![c] = @ \cup ToSet(a.rows)]
           /\ told' = [told EXCEPT ![c] = a.done]
    /\ UNCHANGED <<entry, held, calm, restarts>>

\* CancelQuery, which does not go on to the children.
CancelQuery(c) ==
    /\ held[c] # 0
    /\ ~told[c]
    /\ LET i == Find(table[entry[c]], held[c])
       IN  table' = IF i = 0 THEN table
                    ELSE [table EXCEPT ![entry[c]][i].state = "CANCELLED"]
    /\ UNCHANGED <<nextQuerySeq, entry, held, got, told, calm, restarts>>

\* The server's process ends and is started again.
Restart(n) ==
    /\ restarts < MaxRestarts
    /\ restarts' = restarts + 1
    /\ table' = [table EXCEPT ![n] = <<>>]
    /\ nextQuerySeq' = [nextQuerySeq EXCEPT ![n] = 1]
    /\ calm' = [c \in Client |->
                    calm[c] /\ (held[c] = 0 \/ n \notin {entry[c]} \cup ChildrenOf(entry[c]))]
    /\ UNCHANGED <<entry, held, got, told>>

Next ==
    \/ \E c \in Client : SubmitQuery(c) \/ FetchChunk(c) \/ CancelQuery(c)
    \/ \E n \in Node : Restart(n)

Spec == Init /\ [][Next]_vars

-----------------------------------------------------------------------------
(* Only a restart can hand a client rows of another's query: while no server  *)
(* its request lives on has started again, an id names one request, whatever  *)
(* other clients submit, cancel or finish and whatever ids of an earlier run  *)
(* of a server they still hold.                                               *)
OwnRowsOnly == \A c \in Client : calm[c] => got[c] \subseteq {c}

\* In world v a worker has looked at rows of its shard that it had not in w.
MovesOn(w, v) ==
    \E n \in Node : \E i \in DOMAIN v.table[n] :
        /\ v.table[n][i].progress[n].next > 0
        /\ i \in DOMAIN w.table[n] =>
               w.table[n][i].progress[n].next < v.table[n][i].progress[n].next

(* Requests that are kept for good, cancelled ones that stay open at a child, *)
(* a chunk size that pressure lowers and a scan budget spent on rows that do  *)
(* not match starve no one: whatever the tables have become, the next call of *)
(* a client that is not done brings it rows, or is its last, or takes some    *)
(* worker's cursor over rows it had not looked at, of which there is an end.  *)
EveryCallGetsOn ==
    \A c \in Client : held[c] # 0 /\ ~told[c] =>
        LET a == Answered(World, entry[c], held[c], Asked[c])
        IN  a.done \/ a.rows # <<>> \/ MovesOn(World, a.world)
=============================================================================
