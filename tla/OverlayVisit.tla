---------------------------- MODULE OverlayVisit ----------------------------
(***************************************************************************)
(* Which nodes one client query is sent to.                                *)
(*                                                                         *)
(* Every node that receives the query keeps a request of its own and a     *)
(* list of the nodes the query has visited on the way to it, and asks its  *)
(* overlay children that are not on the list.  What it sends to a child    *)
(* lists, besides, itself and all of its children.  The lists are copied   *)
(* down the overlay and never flow back, so two nodes may work with lists  *)
(* that do not know of each other.                                         *)
(*                                                                         *)
(* This is the abstract specification of the overlay: when a node asks its *)
(* children is left open, and so is when it gives up on one of them.       *)
(***************************************************************************)
EXTENDS Naturals, Sequences

CONSTANTS
    Node,           \* the nodes of the overlay
    Root,           \* the entry node
    Overlays,       \* the sets of edges the nodes' .conf files may give
    MayFail         \* nodes to which an RPC may fail

ASSUME OverlayAssumption ==
    /\ Root \in Node
    /\ Overlays \subseteq [Node -> SUBSET Node]
    /\ MayFail \subseteq Node

\* A request: the chain of nodes it came through, the node that holds it and
\* the visited list it was created with.
Request == [path : Seq(Node), node : Node, visited : SUBSET Node]

VARIABLES
    children,       \* the overlay: the children every node was configured with
    requests,       \* the requests created so far
    asked,          \* pairs <<request, child>> the submit of which was tried
    failed          \* nodes some caller gave up on

vars == <<children, requests, asked, failed>>

TypeOK ==
    /\ children \in [Node -> SUBSET Node]
    /\ requests \subseteq Request
    /\ asked \subseteq requests \X Node
    /\ failed \subseteq Node

RootRequest == [path |-> <<Root>>, node |-> Root, visited |-> {Root}]

\* submitClientQuery at the entry node.
Init ==
    /\ children \in Overlays
    /\ requests = {RootRequest}
    /\ asked = {}
    /\ failed = {}

\* r has still to send the query to its child c.
ToAsk(r, c) ==
    /\ c \in children[r.node]
    /\ c \notin r.visited
    /\ <<r, c>> \notin asked

\* MUTANT: a child learns only of the nodes on its own path.
ForwardedPathOnly(r, c) ==
    [path |-> Append(r.path, c), node |-> c,
     visited |-> r.visited \cup {r.node, c}]

\* MUTANT: a node also marks its children's children as scheduled.
ForwardedTooMuch(r, c) ==
    [path |-> Append(r.path, c), node |-> c,
     visited |-> r.visited \cup {r.node, c} \cup children[r.node]
                 \cup UNION {children[d] : d \in children[r.node] \ {c}}]

\* MUTANT: the list received is not passed on.
ForwardedAfresh(r, c) ==
    [path |-> Append(r.path, c), node |-> c,
     visited |-> {r.node, c} \cup children[r.node]]

\* The request c creates for r: fetchRemoteExecuteChunks marks r's node and
\* all of its children, submitSubQuery marks c.
Forwarded(r, c) ==
    [path |-> Append(r.path, c), node |-> c,
     visited |-> r.visited \cup {r.node, c} \cup children[r.node]]

\* c takes the query.
Ask(r, c) ==
    /\ r \in requests
    /\ ToAsk(r, c)
    /\ asked' = asked \cup {<<r, c>>}
    /\ requests' = requests \cup {Forwarded(r, c)}
    /\ UNCHANGED <<children, failed>>

\* The submit fails before c has taken the query.
AskInVain(r, c) ==
    /\ r \in requests
    /\ ToAsk(r, c) /\ c \in MayFail
    /\ asked' = asked \cup {<<r, c>>}
    /\ failed' = failed \cup {c}
    /\ UNCHANGED <<children, requests>>

\* A later RPC to c fails, or the answer of the submit is lost.
GiveUp(r, c) ==
    /\ <<r, c>> \in asked /\ c \in MayFail
    /\ failed' = failed \cup {c}
    /\ UNCHANGED <<children, requests, asked>>

Next ==
    \E r \in requests, c \in Node : Ask(r, c) \/ AskInVain(r, c) \/ GiveUp(r, c)

Spec == Init /\ [][Next]_vars

-----------------------------------------------------------------------------
Queried == {r.node : r \in requests}

Closed(S) == \A n \in S \cap Node : children[n] \subseteq S

\* The nodes on or below those of S.
Below(S) ==
    {n \in Node : \A T \in SUBSET Node : (S \subseteq T /\ Closed(T)) => n \in T}

Reachable == Below({Root})

\* Nodes that may be missing from the result: those below a failed one.
Excused == Below(failed)

\* No request whose node is not excused has a child left to ask.
Settled ==
    \A r \in requests, c \in Node : ToAsk(r, c) => r.node \in Excused

\* When a query has settled, every node of the overlay was sent it, but for
\* those below a node that failed: no node is left out because a node on
\* another branch believed a third one to be asked already, whatever the
\* shape of the overlay, shared nodes and cycles included.
FullCoverage == Settled => Reachable \subseteq Queried \cup Excused

\* QueryRequest.hpp:94-97: visitedNodeIds "prevents duplicate traversal when
\* the overlay graph has multiple paths": no node holds two requests of one
\* query.
NoDuplicateTraversal ==
    \A q, r \in requests : q.node = r.node => q = r

\* The query cannot reach q but through p.
Dominates(p, q) ==
    \E T \in SUBSET Node :
        /\ Root \in T /\ q \notin T
        /\ \A n \in T \ {p} : children[n] \subseteq T

\* Of two parents of a node the query reaches one through the other: shared
\* nodes are shared by an ancestor and its descendants, not by two branches.
NestedParents ==
    \A p, q, c \in Node :
        (c \in children[p] /\ c \in children[q])
            => p = q \/ Dominates(p, q) \/ Dominates(q, p)

\* Where parents are nested, as in a tree and in the shipped overlay (D and B
\* share E, A and E share G), the visited lists do prevent duplicates.
NestedMeansOnce == NestedParents => NoDuplicateTraversal

\* A query does not come back to a node it has passed, so it ends even in an
\* overlay with a cycle, which no node can see from its own .conf file.
NoNodeTwiceOnAPath ==
    \A r \in requests : \A i, j \in DOMAIN r.path :
        r.path[i] = r.path[j] => i = j
=============================================================================
