------------------------- MODULE OverlayVisitProofs -------------------------
(***************************************************************************)
(* Proofs about OverlayVisit, for every set of nodes, finite or not, and   *)
(* every overlay.                                                          *)
(***************************************************************************)
EXTENDS OverlayVisit, SequenceTheorems, TLAPS

-----------------------------------------------------------------------------
\* The nodes below S contain S and are closed under the edges.
LEMMA BelowContains == ASSUME NEW S \in SUBSET Node PROVE S \subseteq Below(S)
BY DEF Below

LEMMA BelowIsClosed ==
    ASSUME TypeOK, NEW S, NEW n \in Below(S), NEW c \in children[n]
    PROVE  c \in Below(S)
<1>1. n \in Node /\ c \in Node
  BY DEF Below, TypeOK
<1>2. ASSUME NEW T \in SUBSET Node, S \subseteq T, Closed(T) PROVE c \in T
  <2>1. n \in T
    BY <1>2 DEF Below
  <2>2. QED
    BY <1>1, <1>2, <2>1 DEF Closed
<1>3. QED
  BY <1>1, <1>2 DEF Below

LEMMA BelowIsLeast ==
    ASSUME NEW S, NEW T \in SUBSET Node, S \subseteq T, Closed(T)
    PROVE  Below(S) \subseteq T
BY DEF Below

\* More failed nodes excuse more.
LEMMA BelowIsMonotonic ==
    ASSUME NEW S, NEW S2, S \subseteq S2 PROVE Below(S) \subseteq Below(S2)
BY DEF Below

-----------------------------------------------------------------------------
\* The inductive invariant.

\* A node on the visited list of some request was sent the query, is excused,
\* or is still to be asked by some request.
VisitedIsTakenCareOf ==
    \A r \in requests : \A v \in r.visited :
        \/ v \in Queried
        \/ v \in failed
        \/ \E q \in requests : ToAsk(q, v)

\* A child that was asked was sent the query or has failed.
AskedIsTakenCareOf ==
    \A r \in requests, c \in Node :
        <<r, c>> \in asked => c \in Queried \cup failed

\* The visited list of a request holds the nodes it came through.
PathIsVisited ==
    \A r \in requests : /\ r.node \in r.visited /\ Root \in r.visited
                        /\ \A i \in DOMAIN r.path : r.path[i] \in r.visited

\* Every request but the first was created by a caller that asked its node.
HasCaller ==
    \A q \in requests : q # RootRequest =>
        \E r \in requests : <<r, q.node>> \in asked

\* A request asks its own node's children that it did not find on its list.
AskedAreUnvisitedChildren ==
    \A r \in requests, c \in Node :
        <<r, c>> \in asked => c \in children[r.node] /\ c \notin r.visited

\* A query that has left a set of nodes closed but for p has passed p, and p
\* has put its children on the list.
ListsRememberThePath ==
    \A r \in requests, p \in Node, T \in SUBSET Node :
        (Root \in T /\ \A n \in T \ {p} : children[n] \subseteq T)
            => r.node \in T \/ children[p] \subseteq r.visited

OverlayInv ==
    /\ TypeOK
    /\ RootRequest \in requests
    /\ VisitedIsTakenCareOf
    /\ AskedIsTakenCareOf
    /\ PathIsVisited
    /\ NoNodeTwiceOnAPath
    /\ HasCaller
    /\ AskedAreUnvisitedChildren
    /\ ListsRememberThePath

USE OverlayAssumption

LEMMA InitOverlayInv == Init => OverlayInv
<1> SUFFICES ASSUME Init PROVE OverlayInv
  OBVIOUS
<1>0. /\ requests = {RootRequest} /\ asked = {} /\ failed = {}
      /\ children \in [Node -> SUBSET Node] /\ Root \in Node
      /\ RootRequest.node = Root /\ RootRequest.visited = {Root}
      /\ RootRequest.path = <<Root>>
  BY DEF Init, RootRequest
<1>1. TypeOK
  <2>1. <<Root>> \in Seq(Node)
    BY <1>0
  <2>2. RootRequest \in Request
    BY <1>0, <2>1 DEF RootRequest, Request
  <2>3. QED
    BY <1>0, <2>2 DEF TypeOK
<1>2. VisitedIsTakenCareOf /\ AskedIsTakenCareOf
  BY <1>0 DEF VisitedIsTakenCareOf, AskedIsTakenCareOf, Queried
<1>3. DOMAIN <<Root>> = {1} /\ <<Root>>[1] = Root
  OBVIOUS
<1>4. PathIsVisited /\ NoNodeTwiceOnAPath
  BY <1>0, <1>3 DEF PathIsVisited, NoNodeTwiceOnAPath
<1>5. HasCaller /\ AskedAreUnvisitedChildren /\ ListsRememberThePath
  BY <1>0 DEF HasCaller, AskedAreUnvisitedChildren, ListsRememberThePath
<1>6. QED
  BY <1>0, <1>1, <1>2, <1>4, <1>5 DEF OverlayInv

\* The request a child creates.
LEMMA ForwardedFacts ==
    ASSUME TypeOK, NEW r \in requests, NEW c \in Node
    PROVE  /\ Forwarded(r, c) \in Request
           /\ Forwarded(r, c).node = c
           /\ Forwarded(r, c).visited
                = r.visited \cup {r.node, c} \cup children[r.node]
           /\ Forwarded(r, c).path = Append(r.path, c)
           /\ r.path \in Seq(Node) /\ r.node \in Node
           /\ r.visited \subseteq Node /\ children[r.node] \subseteq Node
<1>1. /\ r.path \in Seq(Node) /\ r.node \in Node /\ r.visited \subseteq Node
  BY DEF TypeOK, Request
<1>2. children[r.node] \subseteq Node
  BY <1>1 DEF TypeOK
<1>3. Append(r.path, c) \in Seq(Node)
  BY <1>1, AppendProperties
<1>4. QED
  BY <1>1, <1>2, <1>3 DEF Forwarded, Request

\* A path is extended by a node that is not on it.
LEMMA PathGrows ==
    ASSUME NEW s \in Seq(Node), NEW V, NEW c \in Node, c \notin V,
           \A i \in DOMAIN s : s[i] \in V,
           \A i, j \in DOMAIN s : s[i] = s[j] => i = j
    PROVE  LET t == Append(s, c)
           IN  /\ \A i \in DOMAIN t : t[i] \in V \cup {c}
               /\ \A i, j \in DOMAIN t : t[i] = t[j] => i = j
<1> DEFINE t == Append(s, c)
<1>1. /\ DOMAIN s = 1 .. Len(s) /\ Len(s) \in Nat
      /\ DOMAIN t = 1 .. Len(s) + 1
      /\ \A i \in 1 .. Len(s) : t[i] = s[i]
      /\ t[Len(s) + 1] = c
  OBVIOUS
<1> HIDE DEF t
<1>2. \A i \in DOMAIN t : i \in 1 .. Len(s) \/ i = Len(s) + 1
  BY <1>1
<1>3. \A i \in DOMAIN t : t[i] \in V \cup {c}
  BY <1>1, <1>2
<1>4. \A i, j \in DOMAIN t : t[i] = t[j] => i = j
  BY <1>1, <1>2
<1>5. QED
  BY <1>3, <1>4 DEF t

LEMMA NextOverlayInv == OverlayInv /\ [Next]_vars => OverlayInv'
<1> SUFFICES ASSUME OverlayInv, [Next]_vars PROVE OverlayInv'
  OBVIOUS
<1>0. /\ TypeOK /\ RootRequest \in requests /\ VisitedIsTakenCareOf
      /\ AskedIsTakenCareOf /\ PathIsVisited /\ NoNodeTwiceOnAPath
      /\ HasCaller /\ AskedAreUnvisitedChildren /\ ListsRememberThePath
  BY DEF OverlayInv
<1>1. ASSUME NEW r \in requests, NEW c \in Node, Ask(r, c) PROVE OverlayInv'
  <2> DEFINE f == Forwarded(r, c)
  <2>1. /\ c \in children[r.node] /\ c \notin r.visited /\ <<r, c>> \notin asked
        /\ asked' = asked \cup {<<r, c>>} /\ requests' = requests \cup {f}
        /\ children' = children /\ failed' = failed
    BY <1>1 DEF Ask, ToAsk
  <2>2. /\ f \in Request /\ f.node = c /\ f.path = Append(r.path, c)
        /\ f.visited = r.visited \cup {r.node, c} \cup children[r.node]
        /\ r.path \in Seq(Node) /\ r.node \in Node /\ r.visited \subseteq Node
        /\ children[r.node] \subseteq Node
    BY <1>0, ForwardedFacts
  <2> HIDE DEF f
  <2>3. TypeOK'
    BY <1>0, <2>1, <2>2 DEF TypeOK
  <2>4. RootRequest \in requests'
    BY <1>0, <2>1
  <2>5. Queried' = Queried \cup {c}
    BY <2>1, <2>2 DEF Queried
  <2>7. ASSUME NEW q \in requests, NEW v \in Node, ToAsk(q, v), v # c
        PROVE  ToAsk(q, v)'
    BY <2>1, <2>7 DEF ToAsk
  <2>8. VisitedIsTakenCareOf'
    <3> SUFFICES ASSUME NEW q \in requests', NEW v \in q.visited
                 PROVE  \/ v \in Queried' \/ v \in failed'
                        \/ \E p \in requests' : ToAsk(p, v)'
      BY DEF VisitedIsTakenCareOf
    <3>1. v \in Node
      BY <2>3 DEF TypeOK, Request
    <3>2. ASSUME NEW p \in requests, v \in p.visited
          PROVE  \/ v \in Queried' \/ v \in failed'
                 \/ \E p2 \in requests' : ToAsk(p2, v)'
      BY <1>0, <2>1, <2>5, <2>7, <3>1, <3>2 DEF VisitedIsTakenCareOf
    <3>3. CASE v = r.node \/ v = c
      BY <2>5, <3>3 DEF Queried
    <3>4. CASE v \in children[r.node] /\ v \notin r.visited /\ v # c
      <4>1. CASE <<r, v>> \in asked
        BY <1>0, <2>1, <2>5, <3>1, <4>1 DEF AskedIsTakenCareOf
      <4>2. CASE <<r, v>> \notin asked
        <5>1. ToAsk(r, v)
          BY <3>4, <4>2 DEF ToAsk
        <5>2. QED
          BY <2>1, <2>7, <3>1, <3>4, <5>1
      <4>3. QED
        BY <4>1, <4>2
    <3>5. QED
      BY <2>1, <2>2, <3>2, <3>3, <3>4
  <2>9. AskedIsTakenCareOf'
    <3> SUFFICES ASSUME NEW q \in requests', NEW d \in Node, <<q, d>> \in asked'
                 PROVE  d \in Queried' \cup failed'
      BY DEF AskedIsTakenCareOf
    <3>1. CASE <<q, d>> = <<r, c>>
      BY <2>5, <3>1
    <3>2. CASE <<q, d>> \in asked
      <4>1. q \in requests
        BY <1>0, <3>2 DEF TypeOK
      <4>2. QED
        BY <1>0, <2>1, <2>5, <3>2, <4>1 DEF AskedIsTakenCareOf
    <3>3. QED
      BY <2>1, <3>1, <3>2
  <2>10. PathIsVisited' /\ NoNodeTwiceOnAPath'
    <3>1. /\ \A i \in DOMAIN r.path : r.path[i] \in r.visited
          /\ \A i, j \in DOMAIN r.path : r.path[i] = r.path[j] => i = j
          /\ Root \in r.visited
      BY <1>0 DEF PathIsVisited, NoNodeTwiceOnAPath
    <3>2. /\ \A i \in DOMAIN f.path : f.path[i] \in r.visited \cup {c}
          /\ \A i, j \in DOMAIN f.path : f.path[i] = f.path[j] => i = j
      BY <2>1, <2>2, <3>1, PathGrows
    <3>3. f.node \in f.visited /\ Root \in f.visited
          /\ \A i \in DOMAIN f.path : f.path[i] \in f.visited
      BY <2>2, <3>1, <3>2
    <3>4. QED
      BY <1>0, <2>1, <3>2, <3>3 DEF PathIsVisited, NoNodeTwiceOnAPath
  <2>11. HasCaller'
    BY <1>0, <2>1, <2>2 DEF HasCaller
  <2>12. AskedAreUnvisitedChildren'
    <3> SUFFICES ASSUME NEW q \in requests', NEW d \in Node, <<q, d>> \in asked'
                 PROVE  d \in children[q.node] /\ d \notin q.visited
      BY <2>1 DEF AskedAreUnvisitedChildren
    <3>1. CASE <<q, d>> = <<r, c>>
      BY <2>1, <3>1
    <3>2. CASE <<q, d>> \in asked
      <4>1. q \in requests
        BY <1>0, <3>2 DEF TypeOK
      <4>2. QED
        BY <1>0, <3>2, <4>1 DEF AskedAreUnvisitedChildren
    <3>3. QED
      BY <2>1, <3>1, <3>2
  <2>13. ListsRememberThePath'
    <3> SUFFICES ASSUME NEW q \in requests', NEW p \in Node,
                        NEW T \in SUBSET Node, Root \in T,
                        \A n \in T \ {p} : children[n] \subseteq T
                 PROVE  q.node \in T \/ children[p] \subseteq q.visited
      BY <2>1 DEF ListsRememberThePath
    <3>1. ASSUME NEW s \in requests
          PROVE  s.node \in T \/ children[p] \subseteq s.visited
      BY <1>0 DEF ListsRememberThePath
    <3>2. CASE q = f
      <4>1. CASE r.node = p
        BY <2>2, <3>2, <4>1
      <4>2. CASE r.node # p /\ r.node \in T
        BY <2>1, <2>2, <3>2, <4>2
      <4>3. CASE children[p] \subseteq r.visited
        BY <2>2, <3>2, <4>3
      <4>4. QED
        BY <3>1, <4>1, <4>2, <4>3
    <3>3. QED
      BY <2>1, <3>1, <3>2
  <2>14. QED
    BY <2>3, <2>4, <2>8, <2>9, <2>10, <2>11, <2>12, <2>13
       DEF OverlayInv, RootRequest
<1>2. ASSUME NEW r \in requests, NEW c \in Node, AskInVain(r, c)
      PROVE  OverlayInv'
  <2>1. /\ c \in children[r.node] /\ c \notin r.visited /\ <<r, c>> \notin asked
        /\ asked' = asked \cup {<<r, c>>} /\ requests' = requests
        /\ children' = children /\ failed' = failed \cup {c}
    BY <1>2 DEF AskInVain, ToAsk
  <2>2. Queried' = Queried
    BY <2>1 DEF Queried
  <2>3. TypeOK'
    BY <1>0, <2>1 DEF TypeOK
  <2>4. VisitedIsTakenCareOf'
    <3> SUFFICES ASSUME NEW q \in requests, NEW v \in q.visited, v # c
                 PROVE  \/ v \in Queried \/ v \in failed
                        \/ \E p \in requests : ToAsk(p, v)'
      BY <2>1, <2>2 DEF VisitedIsTakenCareOf
    <3>1. ASSUME NEW p \in requests, ToAsk(p, v) PROVE ToAsk(p, v)'
      BY <2>1, <3>1 DEF ToAsk
    <3>2. QED
      BY <1>0, <3>1 DEF VisitedIsTakenCareOf
  <2>5. AskedIsTakenCareOf'
    BY <1>0, <2>1, <2>2 DEF AskedIsTakenCareOf
  <2>6. AskedAreUnvisitedChildren'
    BY <1>0, <2>1 DEF AskedAreUnvisitedChildren
  <2>7. HasCaller'
    BY <1>0, <2>1 DEF HasCaller, RootRequest
  <2>8. PathIsVisited' /\ NoNodeTwiceOnAPath' /\ ListsRememberThePath'
        /\ RootRequest \in requests'
    BY <1>0, <2>1 DEF PathIsVisited, NoNodeTwiceOnAPath, ListsRememberThePath
  <2>9. QED
    BY <2>3, <2>4, <2>5, <2>6, <2>7, <2>8 DEF OverlayInv, RootRequest
<1>3. ASSUME NEW r \in requests, NEW c \in Node, GiveUp(r, c) PROVE OverlayInv'
  <2>1. /\ failed' = failed \cup {c}
        /\ UNCHANGED <<children, requests, asked>>
    BY <1>3 DEF GiveUp
  <2>2. QED
    BY <1>0, <2>1
       DEF OverlayInv, TypeOK, VisitedIsTakenCareOf, AskedIsTakenCareOf,
           PathIsVisited, NoNodeTwiceOnAPath, HasCaller, RootRequest,
           AskedAreUnvisitedChildren, ListsRememberThePath, Queried, ToAsk
<1>4. CASE UNCHANGED vars
  BY <1>0, <1>4
     DEF vars, OverlayInv, TypeOK, VisitedIsTakenCareOf, AskedIsTakenCareOf,
         PathIsVisited, NoNodeTwiceOnAPath, HasCaller, RootRequest,
         AskedAreUnvisitedChildren, ListsRememberThePath, Queried, ToAsk
<1>5. QED
  BY <1>1, <1>2, <1>3, <1>4 DEF Next

LEMMA OverlayInvHolds == Spec => []OverlayInv
BY InitOverlayInv, NextOverlayInv, PTL DEF Spec

-----------------------------------------------------------------------------
\* Type correctness.
THEOREM OverlayTypeOK == Spec => []TypeOK
<1>1. OverlayInv => TypeOK
  BY DEF OverlayInv
<1>2. QED
  BY <1>1, OverlayInvHolds, PTL

\* A settled query has reached every node that is reachable and not below a
\* failed one.
LEMMA SettledCovers == OverlayInv => FullCoverage
<1> SUFFICES ASSUME OverlayInv, Settled
             PROVE  Reachable \subseteq Queried \cup Excused
  BY DEF FullCoverage
<1> DEFINE T == Queried \cup Excused
<1>1. TypeOK /\ RootRequest \in requests /\ failed \subseteq Node
  BY DEF OverlayInv, TypeOK
<1>2. Queried \subseteq Node /\ Excused \subseteq Node
  BY <1>1 DEF TypeOK, Request, Queried, Excused, Below
<1>3. failed \subseteq Excused
  BY <1>1, BelowContains DEF Excused
<1>4. ASSUME NEW q \in requests, NEW v \in Node, ToAsk(q, v)
      PROVE  v \in Excused
  <2>1. q.node \in Excused /\ v \in children[q.node]
    BY <1>4 DEF Settled, ToAsk
  <2>2. QED
    BY <1>1, <2>1, BelowIsClosed DEF Excused
<1>5. ASSUME NEW r \in requests, NEW c \in children[r.node] PROVE c \in T
  <2>1. r.node \in Node /\ c \in Node
    BY <1>1 DEF TypeOK, Request
  <2>2. CASE c \in r.visited
    BY <1>3, <1>4, <2>1, <2>2 DEF OverlayInv, VisitedIsTakenCareOf
  <2>3. CASE <<r, c>> \in asked
    BY <1>3, <2>1, <2>3 DEF OverlayInv, AskedIsTakenCareOf
  <2>4. CASE c \notin r.visited /\ <<r, c>> \notin asked
    BY <1>4, <2>1, <2>4 DEF ToAsk
  <2>5. QED
    BY <2>2, <2>3, <2>4
<1>6. ASSUME NEW n \in T, NEW c \in children[n] PROVE c \in T
  <2>1. CASE n \in Queried
    <3>1. PICK r \in requests : r.node = n
      BY <2>1 DEF Queried
    <3>2. QED
      BY <1>5, <3>1
  <2>2. CASE n \in Excused
    BY <1>1, <2>2, BelowIsClosed DEF Excused
  <2>3. QED
    BY <2>1, <2>2
<1>7. Closed(T) /\ T \in SUBSET Node
  BY <1>2, <1>6 DEF Closed
<1>8. {Root} \subseteq T
  BY <1>1 DEF RootRequest, Queried
<1>9. QED
  BY <1>7, <1>8, BelowIsLeast DEF Reachable

\* Full coverage on every overlay, shared nodes and cycles included.
THEOREM OverlayFullCoverage == Spec => []FullCoverage
BY SettledCovers, OverlayInvHolds, PTL

\* A query never comes back to a node it has passed, in any overlay.
THEOREM OverlayNoNodeTwice == Spec => []NoNodeTwiceOnAPath
<1>1. OverlayInv => NoNodeTwiceOnAPath
  BY DEF OverlayInv
<1>2. QED
  BY <1>1, OverlayInvHolds, PTL

\* Two requests of different nodes never ask the same child, if the parents
\* of that child are nested.
LEMMA OneAsker ==
    ASSUME OverlayInv, NestedParents,
           NEW r \in requests, NEW q \in requests, NEW c \in Node,
           c \in children[r.node], c \notin r.visited, <<q, c>> \in asked
    PROVE  r.node = q.node
<1>1. TypeOK /\ r.node \in Node /\ q.node \in Node
  BY DEF OverlayInv, TypeOK, Request
<1>2. c \in children[q.node] /\ c \notin q.visited
  BY DEF OverlayInv, AskedAreUnvisitedChildren
<1>3. ASSUME NEW a \in requests, NEW b \in Node, Dominates(b, a.node),
             c \in children[b], c \notin a.visited
      PROVE  FALSE
  <2>1. PICK T \in SUBSET Node :
          /\ Root \in T /\ a.node \notin T
          /\ \A n \in T \ {b} : children[n] \subseteq T
    BY <1>3 DEF Dominates
  <2>2. children[b] \subseteq a.visited
    BY <2>1 DEF OverlayInv, ListsRememberThePath
  <2>3. QED
    BY <1>3, <2>2
<1>4. r.node = q.node \/ Dominates(r.node, q.node) \/ Dominates(q.node, r.node)
  BY <1>1, <1>2 DEF NestedParents
<1>5. QED
  BY <1>1, <1>2, <1>3, <1>4

LEMMA InitNested == Init => NestedMeansOnce
BY DEF Init, NestedMeansOnce, NoDuplicateTraversal

LEMMA NextNested == OverlayInv /\ NestedMeansOnce /\ [Next]_vars => NestedMeansOnce'
<1> SUFFICES ASSUME OverlayInv, NestedMeansOnce, [Next]_vars, NestedParents'
             PROVE  NoDuplicateTraversal'
  BY DEF NestedMeansOnce
<1>1. children' = children
  BY DEF Next, Ask, AskInVain, GiveUp, vars
<1>2. NestedParents /\ NoDuplicateTraversal
  BY <1>1 DEF NestedParents, Dominates, NestedMeansOnce
<1>3. ASSUME NEW r \in requests, NEW c \in Node, Ask(r, c)
      PROVE  NoDuplicateTraversal'
  <2>1. /\ c \in children[r.node] /\ c \notin r.visited
        /\ <<r, c>> \notin asked
        /\ requests' = requests \cup {Forwarded(r, c)}
        /\ Forwarded(r, c).node = c
    BY <1>3, ForwardedFacts DEF Ask, ToAsk, OverlayInv
  <2>2. ASSUME NEW q \in requests, q.node = c PROVE FALSE
    <3>1. c # Root
      BY <2>1 DEF OverlayInv, PathIsVisited
    <3>2. q # RootRequest
      BY <2>2, <3>1 DEF RootRequest
    <3>3. PICK s \in requests : <<s, c>> \in asked
      BY <2>2, <3>2 DEF OverlayInv, HasCaller
    <3>4. r.node = s.node
      BY <1>2, <2>1, <3>3, OneAsker
    <3>5. r = s
      BY <1>2, <3>4 DEF NoDuplicateTraversal
    <3>6. QED
      BY <2>1, <3>3, <3>5
  <2>3. QED
    BY <1>2, <2>1, <2>2 DEF NoDuplicateTraversal
<1>4. CASE requests' = requests
  BY <1>2, <1>4 DEF NoDuplicateTraversal
<1>5. QED
  BY <1>3, <1>4 DEF Next, AskInVain, GiveUp, vars

\* Where parents are nested no node is sent a query twice.
THEOREM OverlayNestedMeansOnce == Spec => []NestedMeansOnce
BY InitNested, NextNested, OverlayInvHolds, PTL DEF Spec
=============================================================================
