---------------------------- MODULE OverlayGraph ----------------------------
(***************************************************************************)
(* model/OverlayConfig.hpp: the overlay as a node keeps it and its two     *)
(* indexes.  Its traversals and validate are in OverlayTraversal.          *)
(*                                                                         *)
(* nodes_ and children_ are partial maps; parents_ and fileToOwnerNodeId_  *)
(* are derived from them, the first edge by edge, the second from scratch. *)
(* Adding a node and setting its children are independent: children may    *)
(* name nodes that are not, or not yet, added, and name one twice.  Host   *)
(* and port of a node are left out.                                        *)
(***************************************************************************)
EXTENDS Naturals, Sequences, FiniteSets, Filtering

CONSTANTS
    Node,       \* node ids in use
    File,       \* source files
    Infos,      \* what addNode may say of a node
    ChildLists  \* the child lists setChildren may be given

ASSUME GraphAssumption ==
    /\ Infos \subseteq [isEntryNode : BOOLEAN, ownedFiles : Seq(File)]
    /\ ChildLists \subseteq Seq(Node)

VARIABLES
    selfNodeId, \* "" until it is set
    nodes,      \* id -> info
    children,   \* id -> list of ids
    parents,    \* id -> list of ids; the empty list stands for no entry
    owner       \* file -> id

graphVars == <<selfNodeId, nodes, children, parents, owner>>

PartialMaps(S, T) == UNION {[D -> T] : D \in SUBSET S}

GraphInit ==
    /\ selfNodeId = ""
    /\ nodes = [n \in {} |-> {}]
    /\ children = [n \in {} |-> <<>>]
    /\ parents = [n \in Node |-> <<>>]
    /\ owner = [f \in {} |-> {}]

With(map, key, value) ==
    [x \in DOMAIN map \cup {key} |-> IF x = key THEN value ELSE map[x]]

ChildrenOf(n) == IF n \in DOMAIN children THEN children[n] ELSE <<>>

Owners(f) == {n \in DOMAIN nodes : f \in ToSet(nodes[n].ownedFiles)}

-----------------------------------------------------------------------------
\* MUTANT of RebuildFileOwnershipIndex: without the clear.
AddToFileOwnershipIndex ==
    owner' \in {o \in [DOMAIN owner \cup {f \in File : Owners(f)' # {}} -> Node] :
                   \A f \in DOMAIN o :
                       IF Owners(f)' # {} THEN o[f] \in Owners(f)' ELSE o[f] = owner[f]}

\* The index is cleared and filled again; of several owners of a file the
\* one that the unordered map comes to last stays.
RebuildFileOwnershipIndex ==
    owner' \in {o \in [{f \in File : Owners(f)' # {}} -> Node] :
                   \A f \in DOMAIN o : o[f] \in Owners(f)'}

AddNode(n, info) ==
    /\ nodes' = With(nodes, n, info)
    /\ RebuildFileOwnershipIndex
    /\ UNCHANGED <<selfNodeId, children, parents>>

\* removeIncomingEdge for every child of the old list.
WithoutIncoming(n) ==
    [c \in Node |-> IF c \in ToSet(ChildrenOf(n))
                    THEN Filtered(parents[c], Node \ {n})
                    ELSE parents[c]]

\* addIncomingEdge for every child of the new list, once each.
SetChildren(n, list) ==
    /\ children' = With(children, n, list)
    /\ parents' =
           [c \in Node |->
               LET kept == WithoutIncoming(n)[c]
               IN  IF c \in ToSet(list) /\ n \notin ToSet(kept)
                   THEN Append(kept, n)
                   ELSE kept]
    /\ UNCHANGED <<nodes, owner>>

SetSelfNodeId(n) == selfNodeId' = n

GraphNext ==
    \E n \in Node :
        \/ \E info \in Infos : AddNode(n, info)
        \/ \E list \in ChildLists : SetChildren(n, list) /\ UNCHANGED selfNodeId
        \/ SetSelfNodeId(n) /\ UNCHANGED <<nodes, children, parents, owner>>

GraphSpec == GraphInit /\ [][GraphNext]_graphVars

-----------------------------------------------------------------------------
\* The overlay as a relation.
Edge(m, n) == n \in ToSet(ChildrenOf(m))

(* Both indexes agree with what they are derived from, after any sequence of  *)
(* additions and replacements.  The index of parents is the children lists    *)
(* read backwards, also for lists that name a child twice: every parent of a  *)
(* node, once, and nobody else.  findOwnerOfFile answers a node that owns the *)
(* file now, or nothing if no node does.                                      *)
IndexesAreCurrent ==
    /\ \A c \in Node :
           /\ ToSet(parents[c]) = {p \in Node : Edge(p, c)}
           /\ IsInjective(parents[c])
    /\ \A f \in File :
           IF Owners(f) = {} THEN f \notin DOMAIN owner
           ELSE f \in DOMAIN owner /\ owner[f] \in Owners(f)
=============================================================================
