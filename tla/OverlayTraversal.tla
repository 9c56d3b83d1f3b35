-------------------------- MODULE OverlayTraversal --------------------------
(***************************************************************************)
(* The traversals of model/OverlayConfig.hpp, and validate.                *)
(***************************************************************************)
EXTENDS OverlayGraph

\* collectDescendantsRecursive: the visited set and the list built so far
\* go through the whole recursion.
RECURSIVE Descend(_, _)
Descend(n, acc) ==
    LET Visit(a, c) ==
            IF c \in a.visited THEN a
            ELSE Descend(c, [visited |-> a.visited \cup {c},
                             out |-> Append(a.out, c)])
    IN  FoldLeft(Visit, acc, ChildrenOf(n))

CollectDescendants(n) == Descend(n, [visited |-> {n}, out |-> <<>>]).out

CollectSubtree(n) == Descend(n, [visited |-> {n}, out |-> <<n>>]).out

RECURSIVE CollectReachable(_, _)
CollectReachable(n, reachable) ==
    IF n \in reachable THEN reachable
    ELSE LET Visit(r, c) == CollectReachable(c, r)
         IN  FoldLeft(Visit, reachable \cup {n}, ChildrenOf(n))

\* MUTANT of HasCycle: a node met again is taken for a cycle, as if the
\* stack were not unwound.
RECURSIVE MeetsAgain(_, _)
MeetsAgain(n, s) ==
    IF n \in s.seen THEN [s EXCEPT !.again = TRUE]
    ELSE LET Visit(a, c) == MeetsAgain(c, a)
         IN  FoldLeft(Visit, [s EXCEPT !.seen = @ \cup {n}], ChildrenOf(n))

HasSharedNode(n) == MeetsAgain(n, [seen |-> {}, again |-> FALSE]).again

\* hasCycle: the answer with the two sets it leaves; once a cycle is found
\* nothing more is visited.
RECURSIVE Search(_, _)
Search(n, s) ==
    IF s.cycle \/ n \in s.stack THEN [s EXCEPT !.cycle = TRUE]
    ELSE IF n \in s.visited THEN s
    ELSE LET Visit(a, c) == IF a.cycle THEN a ELSE Search(c, a)
             below == FoldLeft(Visit,
                          [s EXCEPT !.visited = @ \cup {n}, !.stack = @ \cup {n}],
                          ChildrenOf(n))
         IN  IF below.cycle THEN below ELSE [below EXCEPT !.stack = @ \ {n}]

HasCycle(n) == Search(n, [cycle |-> FALSE, visited |-> {}, stack |-> {}]).cycle

Entries == {n \in DOMAIN nodes : nodes[n].isEntryNode}

Validate ==
    /\ selfNodeId # "" => selfNodeId \in DOMAIN nodes
    /\ Cardinality(Entries) = 1
    /\ \A n \in DOMAIN nodes : IsInjective(nodes[n].ownedFiles)
    /\ \A m, n \in DOMAIN nodes :
           m # n => ToSet(nodes[m].ownedFiles) \cap ToSet(nodes[n].ownedFiles) = {}
    /\ \A n \in DOMAIN children :
           /\ n \in DOMAIN nodes
           /\ ToSet(children[n]) \subseteq DOMAIN nodes
           /\ IsInjective(children[n])
    /\ \A entry \in Entries :
           /\ Cardinality(CollectReachable(entry, {})) = Cardinality(DOMAIN nodes)
           /\ ~HasCycle(entry)

-----------------------------------------------------------------------------
\* Reachability by closed sets of nodes.
IsClosed(S) == \A m \in S, n \in Node : Edge(m, n) => n \in S

Reach(n) == {m \in Node : \A S \in SUBSET Node : n \in S /\ IsClosed(S) => m \in S}

IsAcyclic ==
    \A S \in SUBSET Node \ {{}} : \E m \in S : \A n \in S : ~Edge(m, n)

\* The places where a file is listed.
Listings(f) ==
    UNION {{<<n, k>> : k \in {j \in DOMAIN nodes[n].ownedFiles : nodes[n].ownedFiles[j] = f}} :
              n \in DOMAIN nodes}

(* validate accepts an overlay exactly if it has one entry node from which    *)
(* every node can be reached, no cycle, no node unknown or named twice, and   *)
(* no file listed twice, by two nodes or by one; and if it says which node    *)
(* this is, it knows the node.  Nodes with several parents are accepted.      *)
(* collectDescendants lists every node behind a node once and not the node    *)
(* itself, on overlays with shared nodes and with cycles.                     *)
TraversalsAreExact ==
    /\ Validate <=>
           /\ selfNodeId \in DOMAIN nodes \cup {""}
           /\ \E entry \in Entries : Entries = {entry} /\ Reach(entry) = DOMAIN nodes
           /\ DOMAIN children \subseteq DOMAIN nodes
           /\ \A n \in DOMAIN children : IsInjective(children[n])
           /\ IsAcyclic
           /\ \A f \in File : Cardinality(Listings(f)) <= 1
    /\ \A n \in Node :
           /\ ToSet(CollectDescendants(n)) = Reach(n) \ {n}
           /\ IsInjective(CollectDescendants(n))
           /\ CollectSubtree(n) = <<n>> \o CollectDescendants(n)
=============================================================================
