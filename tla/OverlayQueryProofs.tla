------------------------- MODULE OverlayQueryProofs -------------------------
(***************************************************************************)
(* Proofs about OverlayQuery, for every overlay, every supply and chunk    *)
(* size, and every choice of failures, late answers and crashes.           *)
(*                                                                         *)
(* What OverlayVisitProofs proves about the visited lists is used here     *)
(* through the refinement mapping of OverlayQuery!Visit (V below).         *)
(***************************************************************************)
EXTENDS OverlayQuery, SequenceTheorems, WellFoundedInduction, TLAPS

V == INSTANCE OverlayVisitProofs WITH
    Overlays <- {VisitChildren}, children <- VisitChildren,
    requests <- VisitRequests, asked <- VisitAsked

-----------------------------------------------------------------------------
\* The inductive invariant.

Status == {"new", "submitted", "completed"}

OutWorker(p) == Worker(p) \ {NodeOf(p)}

\* The types of the fields of request p.
RequestTypeOK(p) ==
    /\ p \in Seq(Node) /\ p # <<>>
    /\ visited[p] \subseteq Node /\ NodeOf(p) \in visited[p]
    /\ DOMAIN progress[p] = Worker(p)
    /\ \A w \in Worker(p) : progress[p][w] \in Status
    /\ progress[p][NodeOf(p)] # "new"
    /\ window[p] \in Seq(Row)
    /\ left[p] \in 0 .. Supply[NodeOf(p)]
    /\ oddRound[p] \in BOOLEAN
    /\ plan[p] \in Seq(Node)

TypeOK ==
    /\ <<Root>> \in Request
    /\ DOMAIN progress = Request /\ DOMAIN window = Request
    /\ DOMAIN left = Request /\ DOMAIN oddRound = Request
    /\ DOMAIN plan = Request
    /\ \A p \in Request : RequestTypeOK(p)
    /\ serving \subseteq Request /\ awaited \subseteq serving
    /\ failed \subseteq MayFail /\ down \subseteq MayCrash
    /\ out \in Seq(Row) /\ told \in BOOLEAN

\* The requests form a tree: a child holds one from the moment its caller has
\* submitted to it; where the submit failed it holds none.
TreeInv ==
    /\ \A p \in Request, c \in Node :
           Append(p, c) \in Request => c \in OutWorker(p) /\ progress[p][c] # "new"
    /\ \A q \in Request :
           q # <<Root>> => \E p \in Request, c \in Node : q = Append(p, c)
    /\ \A p \in Request : \A c \in OutWorker(p) :
           progress[p][c] = "submitted" => Append(p, c) \in Request

\* A caller that waits has its child at the head of its plan; a handler runs
\* on unheard only where the caller counts its node as completed.
CallInv ==
    /\ \A p \in Request, c \in Node :
           Append(p, c) \in awaited =>
               /\ p \in serving /\ plan[p] # <<>> /\ Head(plan[p]) = c
               /\ progress[p][c] = "submitted"
    /\ \A p \in Request, c \in Node :
           Append(p, c) \in serving \ awaited => progress[p][c] = "completed"
    /\ <<Root>> \in serving => <<Root>> \in awaited

\* Nothing is left in or below request p that its caller may still get.
Done(p) == window[p] = <<>> /\ AllWorkersCompleted(p)

\* A worker counts as completed only when it has nothing left, or failed.
DoneInv ==
    /\ \A p \in Request : progress[p][NodeOf(p)] = "completed" => left[p] = 0
    /\ \A p \in Request : \A c \in OutWorker(p) :
           progress[p][c] = "completed" =>
               c \in failed \/ (Append(p, c) \in Request /\ Done(Append(p, c)))
    /\ told => Done(<<Root>>)

\* q is p or one of the requests p came through.
Above(q, p) == Len(q) <= Len(p) /\ \A i \in 1 .. Len(q) : q[i] = p[i]

RowsOf(s) == {s[i] : i \in DOMAIN s}

\* The rows the local worker of p has handed over.
Fetched(p) ==
    {<<NodeOf(p), i>> : i \in 1 .. Supply[NodeOf(p)] - left[p]}

\* A request on the way from p to the client is excused or can never answer.
CutOff(p) ==
    \E q \in Request : /\ Above(q, p)
                       /\ \/ NodeOf(q) \in failed
                          \/ NodeOf(q) \in down /\ ~Done(q)

\* Every row a local worker handed over has reached the client or waits in a
\* window on the way to it, if that way is intact.
CustodyInv ==
    \A p \in Request : CutOff(p) \/
        \A r \in Fetched(p) :
            \/ r \in RowsOf(out)
            \/ \E q \in Request : Above(q, p) /\ r \in RowsOf(window[q])

Distinct(s) == \A i, j \in DOMAIN s : s[i] = s[j] => i = j

\* Some local worker has handed row r over.
Sourced(r) == \E p \in Request : r \in Fetched(p)

\* Rows come from local workers only.
SourceInv ==
    /\ \A r \in RowsOf(out) : Sourced(r)
    /\ \A q \in Request : \A r \in RowsOf(window[q]) : Sourced(r)

\* No row is at two places.
OnePlaceInv ==
    /\ Distinct(out)
    /\ \A q \in Request : /\ Distinct(window[q])
                          /\ RowsOf(window[q]) \cap RowsOf(out) = {}
    /\ \A p, q \in Request :
           p # q => RowsOf(window[p]) \cap RowsOf(window[q]) = {}

USE OverlayQueryAssumption

-----------------------------------------------------------------------------
\* Paths.

LEMMA NodeOfAppend ==
    ASSUME NEW p \in Seq(Node), NEW c \in Node
    PROVE  /\ Append(p, c) \in Seq(Node) /\ Append(p, c) # <<>>
           /\ Len(Append(p, c)) = Len(p) + 1 /\ Len(p) \in Nat
           /\ \A i \in 1 .. Len(p) : Append(p, c)[i] = p[i]
           /\ NodeOf(Append(p, c)) = c
           /\ Append(p, c) # p
<1>1. /\ Append(p, c) \in Seq(Node) /\ Append(p, c) # <<>>
      /\ Len(Append(p, c)) = Len(p) + 1 /\ Len(p) \in Nat
      /\ \A i \in 1 .. Len(p) : Append(p, c)[i] = p[i]
      /\ Append(p, c)[Len(p) + 1] = c
  <2>1. Append(p, c) # <<>>
    BY AppendProperties
  <2>2. QED
    BY <2>1
<1>2. Append(p, c) # p
  BY <1>1
<1>3. QED
  BY <1>1, <1>2 DEF NodeOf, Last

LEMMA FrontOfAppend ==
    ASSUME NEW p \in Seq(Node), NEW c \in Node
    PROVE  Front(Append(p, c)) = p
<1> DEFINE q == Append(p, c)
<1>1. /\ q \in Seq(Node) /\ Len(q) = Len(p) + 1 /\ Len(p) \in Nat
      /\ \A i \in 1 .. Len(p) : q[i] = p[i]
  BY NodeOfAppend
<1> HIDE DEF q
<1>2. \A i \in 1 .. Len(p) : q[i] \in Node
  BY <1>1, ElementOfSeq
<1>3. /\ SubSeq(q, 1, Len(p)) \in Seq(Node)
      /\ Len(SubSeq(q, 1, Len(p))) = Len(p)
      /\ \A i \in 1 .. Len(p) : SubSeq(q, 1, Len(p))[i] = q[i]
  BY <1>1, <1>2, SubSeqProperties
<1>4. SubSeq(q, 1, Len(p)) = p
  BY <1>1, <1>3, SeqEqual
<1>5. Len(q) - 1 = Len(p)
  BY <1>1
<1>6. QED
  BY <1>4, <1>5 DEF Front, q

LEMMA AppendIsInjective ==
    ASSUME NEW p \in Seq(Node), NEW q \in Seq(Node), NEW c \in Node, NEW d \in Node,
           Append(p, c) = Append(q, d)
    PROVE  p = q /\ c = d
<1>1. Front(Append(p, c)) = p /\ Front(Append(q, d)) = q
  BY FrontOfAppend
<1>2. NodeOf(Append(p, c)) = c /\ NodeOf(Append(q, d)) = d
  BY NodeOfAppend
<1>3. QED
  BY <1>1, <1>2

LEMMA RootPath ==
    /\ <<Root>> \in Seq(Node) /\ <<Root>> # <<>> /\ Len(<<Root>>) = 1
    /\ NodeOf(<<Root>>) = Root
    /\ \A p \in Seq(Node), c \in Node : p # <<>> => Append(p, c) # <<Root>>
<1>1. /\ <<Root>> \in Seq(Node) /\ <<Root>> # <<>> /\ Len(<<Root>>) = 1
      /\ NodeOf(<<Root>>) = Root
  BY DEF NodeOf, Last
<1>2. ASSUME NEW p \in Seq(Node), NEW c \in Node, p # <<>>
      PROVE  Append(p, c) # <<Root>>
  <2>1. Len(Append(p, c)) = Len(p) + 1 /\ Len(p) \in Nat
    BY <1>2, NodeOfAppend
  <2>2. Len(p) # 0
    BY <1>2, EmptySeq
  <2>3. Len(Append(p, c)) # 1
    BY <2>1, <2>2
  <2>4. QED
    BY <1>1, <2>3
<1>3. QED
  BY <1>1, <1>2

LEMMA NodeOfIsNode ==
    ASSUME NEW p \in Seq(Node), p # <<>> PROVE NodeOf(p) \in Node
<1>1. Len(p) \in 1 .. Len(p)
  BY EmptySeq, LenProperties
<1>2. QED
  BY <1>1, ElementOfSeq DEF NodeOf, Last

LEMMA ChildrenAreNodes ==
    ASSUME NEW n \in Node
    PROVE  ChildrenOf(n) \subseteq Node /\ n \notin ChildrenOf(n)
<1>1. Overlay[n] \in Seq(Node)
  OBVIOUS
<1>2. ChildrenOf(n) = {Overlay[n][i] : i \in DOMAIN Overlay[n]}
  BY DEF ChildrenOf, ToSet
<1>3. \A i \in DOMAIN Overlay[n] : Overlay[n][i] \in Node
  BY <1>1
<1>4. QED
  BY <1>2, <1>3

\* The requests on the way to q's child.
LEMMA AboveFacts ==
    ASSUME NEW p \in Seq(Node)
    PROVE  /\ Above(p, p)
           /\ \A q \in Seq(Node), c \in Node :
                  Above(Append(q, c), p) => Above(q, p)
           /\ \A q \in Seq(Node), c \in Node :
                  Above(q, Append(p, c)) => q = Append(p, c) \/ Above(q, p)
<1>0. Len(p) \in Nat
  BY LenProperties
<1>1. Above(p, p)
  BY <1>0 DEF Above
<1>2. ASSUME NEW q \in Seq(Node), NEW c \in Node, Above(Append(q, c), p)
      PROVE  Above(q, p)
  <2>1. /\ Len(Append(q, c)) = Len(q) + 1 /\ Len(q) \in Nat
        /\ \A i \in 1 .. Len(q) : Append(q, c)[i] = q[i]
    BY NodeOfAppend
  <2>2. /\ Len(q) + 1 <= Len(p)
        /\ \A i \in 1 .. Len(q) + 1 : Append(q, c)[i] = p[i]
    BY <1>2, <2>1 DEF Above
  <2>3. Len(q) <= Len(p)
    BY <1>0, <2>1, <2>2
  <2>4. ASSUME NEW i \in 1 .. Len(q) PROVE q[i] = p[i]
    <3>1. i \in 1 .. Len(q) + 1
      BY <2>1
    <3>2. QED
      BY <2>1, <2>2, <3>1
  <2>5. QED
    BY <2>3, <2>4 DEF Above
<1>3. ASSUME NEW q \in Seq(Node), NEW c \in Node, Above(q, Append(p, c)),
             ~Above(q, p)
      PROVE  q = Append(p, c)
  <2>1. /\ Append(p, c) \in Seq(Node) /\ Len(Append(p, c)) = Len(p) + 1
        /\ \A i \in 1 .. Len(p) : Append(p, c)[i] = p[i]
    BY NodeOfAppend
  <2>2. /\ Len(q) \in Nat /\ Len(q) <= Len(p) + 1
        /\ \A i \in 1 .. Len(q) : q[i] = Append(p, c)[i]
    BY <1>3, <2>1, LenProperties DEF Above
  <2>3. Len(q) = Len(p) + 1
    <3>1. CASE Len(q) <= Len(p)
      <4>1. ASSUME NEW i \in 1 .. Len(q) PROVE q[i] = p[i]
        <5>1. i \in 1 .. Len(p)
          BY <1>0, <2>2, <3>1
        <5>2. QED
          BY <2>1, <2>2, <5>1
      <4>2. QED
        BY <1>3, <3>1, <4>1 DEF Above
    <3>2. QED
      BY <1>0, <2>2, <3>1
  <2>4. QED
    BY <2>1, <2>2, <2>3, SeqEqual
<1>4. QED
  BY <1>1, <1>2, <1>3

-----------------------------------------------------------------------------
\* Updates of the tables of requests.

LEMMA FieldChanges ==
    ASSUME NEW f, NEW p \in DOMAIN f, NEW c \in DOMAIN f[p], NEW e
    PROVE  LET g == [f EXCEPT ![p][c] = e]
           IN  /\ DOMAIN g = DOMAIN f /\ DOMAIN g[p] = DOMAIN f[p]
               /\ g[p][c] = e
               /\ \A w \in DOMAIN f[p] \ {c} : g[p][w] = f[p][w]
               /\ \A q \in DOMAIN f \ {p} : g[q] = f[q]
OBVIOUS

-----------------------------------------------------------------------------
\* What the types and the call structure say of one request.

BaseInv == TypeOK /\ TreeInv /\ CallInv

LEMMA RequestFacts ==
    ASSUME TypeOK, NEW p \in Request
    PROVE  /\ p \in Seq(Node) /\ p # <<>> /\ NodeOf(p) \in Node
           /\ NodeOf(p) \in Worker(p) /\ Worker(p) \subseteq Node
           /\ OutWorker(p) = ChildrenOf(NodeOf(p)) \ visited[p]
           /\ DOMAIN progress[p] = Worker(p)
           /\ \A c \in Node : /\ Append(p, c) \in Seq(Node) \ {<<>>, p, <<Root>>}
                              /\ NodeOf(Append(p, c)) = c
                              /\ Front(Append(p, c)) = p
<1>1. p \in Seq(Node) /\ p # <<>> /\ NodeOf(p) \in visited[p]
      /\ DOMAIN progress[p] = Worker(p)
  BY DEF TypeOK, RequestTypeOK
<1>2. NodeOf(p) \in Node
  BY <1>1, NodeOfIsNode
<1>3. ChildrenOf(NodeOf(p)) \subseteq Node
  BY <1>2, ChildrenAreNodes
<1>4. \A c \in Node : /\ Append(p, c) \in Seq(Node) \ {<<>>, p, <<Root>>}
                      /\ NodeOf(Append(p, c)) = c
                      /\ Front(Append(p, c)) = p
  BY <1>1, NodeOfAppend, FrontOfAppend, RootPath
<1>5. QED
  BY <1>1, <1>2, <1>3, <1>4 DEF Worker, OutWorker

LEMMA SiblingFacts ==
    ASSUME TypeOK, NEW p \in Request, NEW q \in Request, NEW c \in Node, NEW d \in Node,
           Append(p, c) = Append(q, d)
    PROVE  p = q /\ c = d
<1>1. Front(Append(p, c)) = p /\ NodeOf(Append(p, c)) = c
  BY RequestFacts
<1>2. Front(Append(q, d)) = q /\ NodeOf(Append(q, d)) = d
  BY RequestFacts
<1>3. QED
  BY <1>1, <1>2

\* A handler whose turn it is waits for no child.
LEMMA TurnFacts ==
    ASSUME BaseInv, NEW p \in Request, NEW w, Turn(p, w)
    PROVE  /\ p \in serving /\ NodeOf(p) \notin down
           /\ plan[p] \in Seq(Node) /\ plan[p] # <<>> /\ Head(plan[p]) = w
           /\ Tail(plan[p]) \in Seq(Node)
           /\ w \in Node
           /\ \A c \in Node : Append(p, c) \notin awaited
<1>1. /\ p \in serving /\ NodeOf(p) \notin down
      /\ plan[p] # <<>> /\ Head(plan[p]) = w
      /\ \A c \in Worker(p) : Append(p, c) \notin awaited
  BY DEF Turn
<1>2. plan[p] \in Seq(Node)
  BY DEF BaseInv, TypeOK, RequestTypeOK
<1>3. Tail(plan[p]) \in Seq(Node) /\ w \in Node
  BY <1>1, <1>2, HeadTailProperties
<1>4. ASSUME NEW c \in Node, Append(p, c) \in awaited PROVE FALSE
  <2>1. Append(p, c) \in Request
    BY <1>4 DEF BaseInv, TypeOK
  <2>2. c \in Worker(p)
    BY <2>1 DEF BaseInv, TreeInv, OutWorker
  <2>3. QED
    BY <1>1, <1>4, <2>2
<1>5. QED
  BY <1>1, <1>2, <1>3, <1>4

\* Taking the head off the plan of p.
LEMMA AdvanceFacts ==
    ASSUME TypeOK, NEW p \in Request, plan[p] # <<>>, Advance(p)
    PROVE  /\ DOMAIN plan' = Request
           /\ \A q \in Request : plan'[q] \in Seq(Node)
           /\ \A q \in Request \ {p} : plan'[q] = plan[q]
<1>1. plan' = [plan EXCEPT ![p] = Tail(plan[p])] /\ DOMAIN plan = Request
  BY DEF Advance, TypeOK
<1>2. \A q \in Request : plan[q] \in Seq(Node)
  BY DEF TypeOK, RequestTypeOK
<1>3. Tail(plan[p]) \in Seq(Node)
  BY <1>2, HeadTailProperties
<1>4. QED
  BY <1>1, <1>2, <1>3

LEMMA EnterFacts ==
    ASSUME TypeOK, NEW p \in Request, Enter(p)
    PROVE  /\ serving' = serving \cup {p} /\ awaited' = awaited \cup {p}
           /\ DOMAIN plan' = Request /\ DOMAIN oddRound' = Request
           /\ \A q \in Request : plan'[q] \in Seq(Node) /\ oddRound'[q] \in BOOLEAN
           /\ \A q \in Request \ {p} : plan'[q] = plan[q]
<1> DEFINE self == <<NodeOf(p)>>
           others == Overlay[NodeOf(p)]
           fresh == IF window[p] # <<>> \/ AllWorkersCompleted(p) THEN <<>>
                    ELSE IF oddRound[p] THEN others \o self ELSE self \o others
           odd == IF window[p] # <<>> \/ AllWorkersCompleted(p)
                  THEN oddRound[p] ELSE ~oddRound[p]
<1>1. /\ serving' = serving \cup {p} /\ awaited' = awaited \cup {p}
      /\ plan' = [plan EXCEPT ![p] = fresh]
      /\ oddRound' = [oddRound EXCEPT ![p] = odd]
  BY DEF Enter
<1>2. fresh \in Seq(Node)
  <2>1. self \in Seq(Node) /\ others \in Seq(Node)
    BY RequestFacts
  <2>2. others \o self \in Seq(Node) /\ self \o others \in Seq(Node)
    BY <2>1, ConcatProperties
  <2>3. <<>> \in Seq(Node)
    OBVIOUS
  <2> HIDE DEF self, others
  <2>4. QED
    BY <2>2, <2>3
<1>3. odd \in BOOLEAN
  BY DEF TypeOK, RequestTypeOK
<1> HIDE DEF fresh, odd
<1>4. /\ DOMAIN plan = Request /\ DOMAIN oddRound = Request
      /\ \A q \in Request : plan[q] \in Seq(Node) /\ oddRound[q] \in BOOLEAN
  BY DEF TypeOK, RequestTypeOK
<1>5. QED
  BY <1>1, <1>2, <1>3, <1>4

-----------------------------------------------------------------------------
\* The types and the call structure are kept by every step.

\* Progress only moves on from "new", and to "submitted" only with a request.
LEMMA TreeKept ==
    ASSUME TreeInv, visited' = visited,
           \A p \in Request : \A c \in OutWorker(p) :
               /\ progress[p][c] # "new" => progress'[p][c] # "new"
               /\ progress'[p][c] = "submitted" => progress[p][c] = "submitted"
    PROVE  TreeInv'
<1>1. Request' = Request /\ \A p \in Request : OutWorker(p)' = OutWorker(p)
  BY DEF Request, OutWorker, Worker
<1>2. \A p \in Request, c \in Node :
          Append(p, c) \in Request => c \in OutWorker(p) /\ progress'[p][c] # "new"
  BY DEF TreeInv
<1>3. \A p \in Request : \A c \in OutWorker(p) :
          progress'[p][c] = "submitted" => Append(p, c) \in Request
  BY DEF TreeInv
<1>4. QED
  BY <1>1, <1>2, <1>3 DEF TreeInv

LEMMA EnterKeepsBase ==
    ASSUME BaseInv, NEW p \in Request, Enter(p), p \notin serving,
           UNCHANGED <<visited, progress, window, left, failed, down, out, told>>,
           \/ p = <<Root>>
           \/ \E r \in Request, c \in Node :
                  /\ p = Append(r, c) /\ r \in serving
                  /\ plan[r] # <<>> /\ Head(plan[r]) = c
                  /\ progress[r][c] = "submitted"
    PROVE  BaseInv'
<1>0. TypeOK /\ TreeInv /\ CallInv
  BY DEF BaseInv
<1>1. /\ serving' = serving \cup {p} /\ awaited' = awaited \cup {p}
      /\ DOMAIN plan' = Request /\ DOMAIN oddRound' = Request
      /\ \A q \in Request : plan'[q] \in Seq(Node) /\ oddRound'[q] \in BOOLEAN
      /\ \A q \in Request \ {p} : plan'[q] = plan[q]
  BY <1>0, EnterFacts
<1>2. TypeOK'
  BY <1>0, <1>1 DEF TypeOK, RequestTypeOK, Request, Worker
<1>3. TreeInv'
  BY <1>0, TreeKept
<1>4. Request' = Request
  BY DEF Request
<1>5. ASSUME NEW r \in Request, NEW c \in Node, Append(r, c) \in awaited'
      PROVE  /\ r \in serving' /\ plan'[r] # <<>> /\ Head(plan'[r]) = c
             /\ progress'[r][c] = "submitted"
  <2>1. /\ r \in serving /\ plan[r] # <<>> /\ Head(plan[r]) = c
        /\ progress[r][c] = "submitted"
    <3>1. CASE Append(r, c) \in awaited
      BY <1>0, <3>1 DEF CallInv
    <3>2. CASE Append(r, c) = p
      <4>1. p # <<Root>>
        BY <1>0, <3>2, RequestFacts
      <4>2. PICK r2 \in Request, c2 \in Node :
                  /\ p = Append(r2, c2) /\ r2 \in serving
                  /\ plan[r2] # <<>> /\ Head(plan[r2]) = c2
                  /\ progress[r2][c2] = "submitted"
        BY <4>1
      <4>3. r2 = r /\ c2 = c
        <5>1. Append(r2, c2) = Append(r, c)
          BY <3>2, <4>2
        <5>2. QED
          BY <1>0, <5>1, SiblingFacts
      <4>4. QED
        BY <4>2, <4>3
    <3>3. QED
      BY <1>1, <1>5, <3>1, <3>2
  <2>2. r # p
    BY <2>1
  <2>3. QED
    BY <1>1, <2>1, <2>2
<1>6. CallInv'
  BY <1>0, <1>1, <1>4, <1>5 DEF CallInv
<1>7. QED
  BY <1>2, <1>3, <1>6 DEF BaseInv

LEMMA ClientCallsKeepsBase ==
    ASSUME BaseInv, ClientCalls
    PROVE  /\ BaseInv'
           /\ <<Root>> \in Request /\ <<Root>> \notin serving /\ Enter(<<Root>>)
           /\ UNCHANGED <<visited, progress, window, left, failed, down, out, told>>
<1>1. /\ <<Root>> \in Request /\ <<Root>> \notin serving /\ Enter(<<Root>>)
      /\ UNCHANGED <<visited, progress, window, left, failed, down, out, told>>
  BY DEF ClientCalls, BaseInv, TypeOK, CallInv
<1>2. QED
  BY <1>1, EnterKeepsBase

LEMMA CallChildKeepsBase ==
    ASSUME BaseInv, NEW p \in Request, NEW c \in Worker(p), CallChild(p, c)
    PROVE  /\ BaseInv'
           /\ Append(p, c) \in Request /\ Append(p, c) \notin serving
           /\ Enter(Append(p, c))
           /\ UNCHANGED <<visited, progress, window, left, failed, down, out, told>>
<1>1. /\ Turn(p, c) /\ c # NodeOf(p) /\ progress[p][c] = "submitted"
      /\ Enter(Append(p, c))
      /\ UNCHANGED <<visited, progress, window, left, failed, down, out, told>>
  BY DEF CallChild
<1>2. c \in OutWorker(p)
  BY <1>1 DEF OutWorker
<1>3. Append(p, c) \in Request
  BY <1>1, <1>2 DEF BaseInv, TreeInv
<1>4. /\ c \in Node /\ Append(p, c) \notin awaited
      /\ p \in serving /\ plan[p] # <<>> /\ Head(plan[p]) = c
  BY <1>1, TurnFacts
<1>5. Append(p, c) \notin serving
  BY <1>1, <1>4 DEF BaseInv, CallInv
<1>6. QED
  BY <1>1, <1>3, <1>4, <1>5, EnterKeepsBase

\* A step that takes the head off the plan of p while p waits for no child.
LEMMA AdvanceKeepsCalls ==
    ASSUME TypeOK, CallInv, NEW p \in Request, plan[p] # <<>>, Advance(p),
           \A c \in Node : Append(p, c) \notin awaited',
           visited' = visited, serving' \subseteq serving, awaited' \subseteq awaited,
           <<Root>> \in serving' => <<Root>> \in awaited',
           \A r \in Request, c \in Node :
               Append(r, c) \in awaited' =>
                   /\ r \in serving' /\ progress'[r][c] = "submitted",
           \A r \in Request, c \in Node :
               Append(r, c) \in serving' \ awaited' => progress'[r][c] = "completed"
    PROVE  CallInv'
<1>1. Request' = Request
  BY DEF Request
<1>2. \A q \in Request \ {p} : plan'[q] = plan[q]
  BY AdvanceFacts
<1>3. ASSUME NEW r \in Request, NEW c \in Node, Append(r, c) \in awaited'
      PROVE  plan'[r] # <<>> /\ Head(plan'[r]) = c
  <2>1. r # p /\ Append(r, c) \in awaited
    BY <1>3
  <2>2. plan[r] # <<>> /\ Head(plan[r]) = c
    BY <2>1 DEF CallInv
  <2>3. QED
    BY <1>2, <2>1, <2>2
<1>4. QED
  BY <1>1, <1>3 DEF CallInv

LEMMA SkipKeepsBase ==
    ASSUME BaseInv, NEW p \in Request, NEW w, Turn(p, w), Advance(p),
           UNCHANGED <<requestVars, serving, awaited, failed, down, out, told>>
    PROVE  BaseInv'
<1>0. TypeOK /\ TreeInv /\ CallInv
  BY DEF BaseInv
<1>1. UNCHANGED <<visited, progress, window, left, oddRound, serving, awaited,
                  failed, down, out, told>>
  BY DEF requestVars
<1>2. plan[p] # <<>> /\ \A c \in Node : Append(p, c) \notin awaited
  BY TurnFacts
<1>3. TypeOK'
  BY <1>0, <1>1, <1>2, AdvanceFacts DEF TypeOK, RequestTypeOK, Request, Worker
<1>4. TreeInv'
  BY <1>0, <1>1, TreeKept
<1>5. CallInv'
  <2>1. /\ <<Root>> \in serving => <<Root>> \in awaited
        /\ \A r \in Request, c \in Node :
               /\ Append(r, c) \in awaited =>
                      r \in serving /\ progress[r][c] = "submitted"
               /\ Append(r, c) \in serving \ awaited => progress[r][c] = "completed"
    BY <1>0 DEF CallInv
  <2>2. QED
    BY <1>0, <1>1, <1>2, <2>1, AdvanceKeepsCalls
<1>6. QED
  BY <1>3, <1>4, <1>5 DEF BaseInv

\* The rows the local worker of p hands over next.
LocalBatch(p) ==
    [i \in 1 .. AtMost(ChunkSize, left[p]) |->
        <<NodeOf(p), Supply[NodeOf(p)] - left[p] + i>>]

LEMMA FetchLocalFacts ==
    ASSUME BaseInv, NEW p \in Request, FetchLocal(p)
    PROVE  /\ Turn(p, NodeOf(p)) /\ Advance(p)
           /\ progress[p][NodeOf(p)] # "completed"
           /\ AtMost(ChunkSize, left[p]) \in 0 .. left[p]
           /\ LocalBatch(p) \in Seq(Row)
           /\ DOMAIN window' = Request /\ DOMAIN left' = Request
           /\ DOMAIN progress' = Request /\ DOMAIN progress'[p] = Worker(p)
           /\ window'[p] = window[p] \o LocalBatch(p)
           /\ left'[p] = left[p] - AtMost(ChunkSize, left[p])
           /\ progress'[p][NodeOf(p)] \in {"submitted", "completed"}
           /\ progress'[p][NodeOf(p)] = "completed" => left'[p] = 0
           /\ \A w \in OutWorker(p) : progress'[p][w] = progress[p][w]
           /\ \A q \in Request \ {p} : /\ window'[q] = window[q]
                                       /\ left'[q] = left[q]
                                       /\ progress'[q] = progress[q]
           /\ UNCHANGED <<visited, oddRound, serving, awaited, failed, down, out,
                          told>>
<1> DEFINE n == NodeOf(p)
           k == AtMost(ChunkSize, left[p])
           mark == IF k = ChunkSize THEN progress[p][n] ELSE "completed"
<1>1. /\ Turn(p, n) /\ Advance(p) /\ progress[p][n] # "completed"
      /\ window' = [window EXCEPT ![p] = window[p] \o LocalBatch(p)]
      /\ left' = [left EXCEPT ![p] = left[p] - k]
      /\ progress' = [progress EXCEPT ![p][n] = mark]
      /\ UNCHANGED <<visited, oddRound, serving, awaited, failed, down, out, told>>
  BY DEF FetchLocal, LocalBatch
<1>2. /\ n \in Node /\ left[p] \in Nat /\ left[p] <= Supply[n]
      /\ Supply[n] \in Nat
      /\ progress[p][n] \in Status \ {"new"} /\ n \in Worker(p)
      /\ DOMAIN progress[p] = Worker(p)
      /\ DOMAIN window = Request /\ DOMAIN left = Request /\ DOMAIN progress = Request
  <2>1. /\ n \in Node /\ n \in Worker(p) /\ DOMAIN progress[p] = Worker(p)
    BY RequestFacts DEF BaseInv
  <2>2. /\ RequestTypeOK(p)
        /\ DOMAIN window = Request /\ DOMAIN left = Request /\ DOMAIN progress = Request
    BY DEF BaseInv, TypeOK
  <2>3. Supply[n] \in Nat
    BY <2>1
  <2>4. left[p] \in 0 .. Supply[n] /\ progress[p][n] \in Status \ {"new"}
    BY <2>1, <2>2 DEF RequestTypeOK
  <2>5. QED
    BY <2>1, <2>2, <2>3, <2>4
<1>3. k \in 0 .. left[p] /\ (k # ChunkSize => left[p] - k = 0) /\ ChunkSize \in Nat
  BY <1>2 DEF AtMost
<1> HIDE DEF k
<1>4. LocalBatch(p) \in Seq(Row)
  <2>1. ASSUME NEW i \in 1 .. k PROVE <<n, Supply[n] - left[p] + i>> \in Row
    <3>1. Supply[n] - left[p] + i \in Nat \ {0}
      BY <1>2, <1>3
    <3>2. QED
      BY <1>2, <3>1 DEF Row
  <2>2. [i \in 1 .. k |-> <<n, Supply[n] - left[p] + i>>] \in Seq(Row)
    BY <1>3, <2>1
  <2>3. QED
    BY <2>2 DEF LocalBatch, k
<1>5. mark \in {"submitted", "completed"} /\ (mark = "completed" => left[p] - k = 0)
  BY <1>1, <1>2, <1>3 DEF Status
<1> HIDE DEF mark, n
<1>6. /\ DOMAIN progress' = Request /\ DOMAIN progress'[p] = Worker(p)
      /\ progress'[p][n] = mark
      /\ \A w \in Worker(p) \ {n} : progress'[p][w] = progress[p][w]
      /\ \A q \in Request \ {p} : progress'[q] = progress[q]
  BY <1>1, <1>2
<1>7. /\ DOMAIN window' = Request /\ DOMAIN left' = Request
      /\ window'[p] = window[p] \o LocalBatch(p) /\ left'[p] = left[p] - k
      /\ \A q \in Request \ {p} : window'[q] = window[q] /\ left'[q] = left[q]
  BY <1>1, <1>2
<1>8. \A w \in OutWorker(p) : progress'[p][w] = progress[p][w]
  BY <1>6 DEF OutWorker, n
<1>9. QED
  BY <1>1, <1>3, <1>4, <1>5, <1>6, <1>7, <1>8 DEF n, k

LEMMA FetchLocalKeepsBase ==
    ASSUME BaseInv, NEW p \in Request, FetchLocal(p) PROVE BaseInv'
<1>0. TypeOK /\ TreeInv /\ CallInv
  BY DEF BaseInv
<1>1. /\ plan[p] # <<>> /\ Advance(p) /\ \A c \in Node : Append(p, c) \notin awaited
  BY FetchLocalFacts, TurnFacts
<1>2. UNCHANGED <<visited, oddRound, serving, awaited, failed, down, out, told>>
  BY FetchLocalFacts
<1>3. TypeOK'
  <2>1. /\ DOMAIN progress' = Request /\ DOMAIN window' = Request
        /\ DOMAIN left' = Request /\ DOMAIN plan' = Request
        /\ \A q \in Request : plan'[q] \in Seq(Node)
    BY <1>0, <1>1, FetchLocalFacts, AdvanceFacts
  <2>2. /\ DOMAIN progress'[p] = Worker(p)
        /\ \A w \in Worker(p) : progress'[p][w] \in Status
        /\ progress'[p][NodeOf(p)] # "new"
        /\ window'[p] \in Seq(Row) /\ left'[p] \in 0 .. Supply[NodeOf(p)]
    <3>1. /\ window[p] \in Seq(Row) /\ left[p] \in 0 .. Supply[NodeOf(p)]
          /\ Supply[NodeOf(p)] \in Nat
          /\ \A w \in Worker(p) : progress[p][w] \in Status
      BY <1>0, RequestFacts DEF TypeOK, RequestTypeOK
    <3>2. window'[p] \in Seq(Row)
      <4>1. LocalBatch(p) \in Seq(Row) /\ window'[p] = window[p] \o LocalBatch(p)
        BY FetchLocalFacts
      <4>2. QED
        BY <3>1, <4>1, ConcatProperties
    <3>3. left'[p] \in 0 .. Supply[NodeOf(p)]
      BY <3>1, FetchLocalFacts
    <3>4. \A w \in Worker(p) : progress'[p][w] \in Status
      BY <3>1, FetchLocalFacts DEF OutWorker, Status
    <3>5. QED
      BY <3>2, <3>3, <3>4, FetchLocalFacts
  <2>3. \A q \in Request \ {p} : /\ window'[q] = window[q]
                                 /\ left'[q] = left[q]
                                 /\ progress'[q] = progress[q]
    BY FetchLocalFacts
  <2>4. Request' = Request /\ \A q \in Request : Worker(q)' = Worker(q)
    BY <1>2 DEF Request, Worker
  <2>5. ASSUME NEW q \in Request PROVE RequestTypeOK(q)'
    <3>1. RequestTypeOK(q)
      BY <1>0 DEF TypeOK
    <3>2. QED
      BY <1>2, <2>1, <2>2, <2>3, <2>4, <3>1 DEF RequestTypeOK
  <2>6. QED
    BY <1>0, <1>2, <2>1, <2>4, <2>5 DEF TypeOK
<1>4. TreeInv'
  <2>1. \A q \in Request : \A c \in OutWorker(q) : progress'[q][c] = progress[q][c]
    BY FetchLocalFacts
  <2>2. QED
    BY <1>0, <1>2, <2>1, TreeKept
<1>5. CallInv'
  <2>1. ASSUME NEW r \in Request, NEW c \in Node, Append(r, c) \in serving
        PROVE  progress'[r][c] = progress[r][c]
    <3>1. c \in OutWorker(r)
      BY <1>0, <2>1 DEF TypeOK, TreeInv
    <3>2. QED
      BY <3>1, FetchLocalFacts
  <2>2. <<Root>> \in serving => <<Root>> \in awaited
    BY <1>0 DEF CallInv
  <2>4. ASSUME NEW r \in Request, NEW c \in Node
        PROVE  /\ Append(r, c) \in awaited =>
                      r \in serving /\ progress'[r][c] = "submitted"
               /\ Append(r, c) \in serving \ awaited => progress'[r][c] = "completed"
    <3>1. Append(r, c) \in awaited => Append(r, c) \in serving
      BY <1>0 DEF TypeOK
    <3>2. /\ Append(r, c) \in awaited =>
                 r \in serving /\ progress[r][c] = "submitted"
          /\ Append(r, c) \in serving \ awaited => progress[r][c] = "completed"
      BY <1>0 DEF CallInv
    <3>3. Append(r, c) \in serving => progress'[r][c] = progress[r][c]
      BY <2>1
    <3>4. QED
      BY <3>1, <3>2, <3>3
  <2>3. QED
    BY <1>0, <1>1, <1>2, <2>2, <2>4, AdvanceKeepsCalls
<1>6. QED
  BY <1>3, <1>4, <1>5 DEF BaseInv

\* A request has a child request only if it exists itself.
LEMMA NoGrandchild ==
    ASSUME TypeOK, TreeInv, NEW q \in Seq(Node), q # <<>>, q \notin Request,
           NEW d \in Node
    PROVE  Append(q, d) \notin Request
<1>1. SUFFICES ASSUME Append(q, d) \in Request PROVE FALSE
  OBVIOUS
<1>2. Append(q, d) # <<Root>>
  BY RootPath
<1>3. PICK r \in Request, e \in Node : Append(q, d) = Append(r, e)
  BY <1>1, <1>2 DEF TreeInv
<1>4. r \in Seq(Node)
  BY RequestFacts
<1>5. Front(Append(q, d)) = q /\ Front(Append(r, e)) = r
  BY <1>4, FrontOfAppend
<1>6. QED
  BY <1>3, <1>5

\* What the submit to c changes.
SubmitEffect(p, c) ==
    /\ p \in serving /\ NodeOf(p) \notin down
    /\ c \in Node /\ c \in OutWorker(p) /\ c \notin down
    /\ progress[p][c] = "new"
    /\ Append(p, c) \notin Request
    /\ Request' = Request \cup {Append(p, c)}
    /\ DOMAIN progress' = Request' /\ DOMAIN window' = Request'
    /\ DOMAIN left' = Request' /\ DOMAIN oddRound' = Request'
    /\ DOMAIN plan' = Request'
    /\ visited'[Append(p, c)] = Forwarded(p, c)
    /\ progress'[Append(p, c)] = NewProgress(c, Forwarded(p, c))
    /\ window'[Append(p, c)] = <<>> /\ left'[Append(p, c)] = Supply[c]
    /\ oddRound'[Append(p, c)] = FALSE /\ plan'[Append(p, c)] = <<>>
    /\ \A r \in Request :
           /\ visited'[r] = visited[r] /\ window'[r] = window[r]
           /\ left'[r] = left[r] /\ oddRound'[r] = oddRound[r]
           /\ plan'[r] = plan[r]
    /\ \A r \in Request \ {p} : progress'[r] = progress[r]
    /\ DOMAIN progress'[p] = Worker(p)
    /\ progress'[p][c] = "submitted"
    /\ \A w \in Worker(p) \ {c} : progress'[p][w] = progress[p][w]
    /\ UNCHANGED <<serving, awaited, failed, down, out, told>>

LEMMA SubmitFacts ==
    ASSUME BaseInv, NEW p \in Request, NEW c \in Worker(p), SubmitToChild(p, c)
    PROVE  SubmitEffect(p, c)
<1> DEFINE q == Append(p, c)
           moved == [progress EXCEPT ![p][c] = "submitted"]
<1>0. TypeOK /\ TreeInv
  BY DEF BaseInv
<1>1. /\ Turn(p, c) /\ c # NodeOf(p) /\ progress[p][c] = "new" /\ c \notin down
      /\ visited' = Extended(visited, q, Forwarded(p, c))
      /\ progress' = Extended(moved, q, NewProgress(c, Forwarded(p, c)))
      /\ window' = Extended(window, q, <<>>)
      /\ left' = Extended(left, q, Supply[c])
      /\ oddRound' = Extended(oddRound, q, FALSE)
      /\ plan' = Extended(plan, q, <<>>)
      /\ UNCHANGED <<serving, awaited, failed, down, out, told>>
  BY DEF SubmitToChild
<1>2. /\ c \in Node /\ c \in OutWorker(p) /\ p \in serving /\ NodeOf(p) \notin down
  BY <1>1, TurnFacts DEF OutWorker
<1>3. q \notin Request
  BY <1>0, <1>1, <1>2 DEF TreeInv
<1>5. /\ DOMAIN progress = Request /\ DOMAIN window = Request
      /\ DOMAIN left = Request /\ DOMAIN oddRound = Request /\ DOMAIN plan = Request
      /\ DOMAIN progress[p] = Worker(p) /\ DOMAIN visited = Request
  BY <1>0, RequestFacts DEF TypeOK, Request
<1>6. /\ DOMAIN moved = Request /\ DOMAIN moved[p] = Worker(p)
      /\ moved[p][c] = "submitted"
      /\ \A w \in Worker(p) \ {c} : moved[p][w] = progress[p][w]
      /\ \A r \in Request \ {p} : moved[r] = progress[r]
  BY <1>5, FieldChanges
<1> HIDE DEF moved, q
<1>7. /\ DOMAIN progress' = Request \cup {q}
      /\ progress'[q] = NewProgress(c, Forwarded(p, c))
      /\ \A r \in Request : progress'[r] = moved[r]
  BY <1>1, <1>3, <1>6 DEF Extended
<1>8. /\ DOMAIN visited' = Request \cup {q} /\ visited'[q] = Forwarded(p, c)
      /\ \A r \in Request : visited'[r] = visited[r]
  BY <1>1, <1>3, <1>5 DEF Extended
<1>9. /\ DOMAIN window' = Request \cup {q} /\ window'[q] = <<>>
      /\ \A r \in Request : window'[r] = window[r]
      /\ DOMAIN left' = Request \cup {q} /\ left'[q] = Supply[c]
      /\ \A r \in Request : left'[r] = left[r]
  BY <1>1, <1>3, <1>5 DEF Extended
<1>10. /\ DOMAIN oddRound' = Request \cup {q} /\ oddRound'[q] = FALSE
       /\ \A r \in Request : oddRound'[r] = oddRound[r]
       /\ DOMAIN plan' = Request \cup {q} /\ plan'[q] = <<>>
       /\ \A r \in Request : plan'[r] = plan[r]
  BY <1>1, <1>3, <1>5 DEF Extended
<1>11. Request' = Request \cup {q}
  BY <1>8 DEF Request
<1>12. /\ \A r \in Request \ {p} : progress'[r] = progress[r]
       /\ DOMAIN progress'[p] = Worker(p)
       /\ progress'[p][c] = "submitted"
       /\ \A w \in Worker(p) \ {c} : progress'[p][w] = progress[p][w]
  BY <1>6, <1>7
<1>14. /\ progress[p][c] = "new" /\ c \notin down
       /\ UNCHANGED <<serving, awaited, failed, down, out, told>>
  BY <1>1
<1>15. QED
  BY <1>2, <1>3, <1>7, <1>8, <1>9, <1>10, <1>11, <1>12, <1>14 DEF q, SubmitEffect

LEMMA SubmitKeepsBase ==
    ASSUME BaseInv, NEW p \in Request, NEW c \in Worker(p), SubmitToChild(p, c)
    PROVE  BaseInv'
<1> DEFINE q == Append(p, c)
<1>0. TypeOK /\ TreeInv /\ CallInv
  BY DEF BaseInv
<1>e. SubmitEffect(p, c)
  BY SubmitFacts
<1>1. /\ c \in Node /\ c \in OutWorker(p) /\ progress[p][c] = "new"
      /\ q \notin Request /\ Request' = Request \cup {q}
      /\ \A r \in Request : visited'[r] = visited[r]
      /\ UNCHANGED <<serving, awaited, failed, down, out, told>>
  BY <1>e DEF SubmitEffect
<1>2. q \in Seq(Node) /\ q # <<>> /\ q # <<Root>> /\ NodeOf(q) = c
  BY <1>0, <1>1, RequestFacts
<1>a. /\ DOMAIN progress'[p] = Worker(p) /\ progress'[p][c] = "submitted"
      /\ \A w \in Worker(p) \ {c} : progress'[p][w] = progress[p][w]
      /\ \A r \in Request \ {p} : progress'[r] = progress[r]
  BY <1>e DEF SubmitEffect
<1>b. \A d \in Node : Append(q, d) \notin Request
  BY <1>0, <1>1, <1>2, NoGrandchild
<1>3. /\ p \in Seq(Node) /\ visited[p] \subseteq Node /\ NodeOf(p) \in Node
  BY <1>0, RequestFacts DEF TypeOK, RequestTypeOK
<1>4. Forwarded(p, c) \subseteq Node /\ c \in Forwarded(p, c)
  BY <1>1, <1>3, ChildrenAreNodes DEF Forwarded
<1>5. \A r \in Request : Worker(r)' = Worker(r) /\ OutWorker(r)' = OutWorker(r)
  BY <1>1 DEF Worker, OutWorker
<1>6. Worker(q)' = {c} \cup (ChildrenOf(c) \ Forwarded(p, c))
  <2>1. visited'[q] = Forwarded(p, c)
    BY <1>e DEF SubmitEffect
  <2>2. QED
    BY <1>2, <2>1 DEF Worker
<1>7. RequestTypeOK(q)'
  <2>1. /\ visited'[q] = Forwarded(p, c)
        /\ progress'[q] = NewProgress(c, Forwarded(p, c))
        /\ window'[q] = <<>> /\ left'[q] = Supply[c]
        /\ oddRound'[q] = FALSE /\ plan'[q] = <<>>
    BY <1>e DEF SubmitEffect
  <2>2. /\ DOMAIN progress'[q] = Worker(q)'
        /\ \A w \in Worker(q)' : progress'[q][w] \in Status
        /\ progress'[q][c] # "new"
    BY <1>6, <2>1 DEF NewProgress, Status
  <2>3. left'[q] \in 0 .. Supply[c]
    BY <1>1, <2>1
  <2>4. window'[q] \in Seq(Row) /\ plan'[q] \in Seq(Node)
    BY <2>1
  <2> HIDE DEF q
  <2>5. QED
    BY <1>2, <1>4, <2>1, <2>2, <2>3, <2>4 DEF RequestTypeOK
<1>8. ASSUME NEW r \in Request PROVE RequestTypeOK(r)'
  <2>1. /\ window'[r] = window[r] /\ left'[r] = left[r]
        /\ oddRound'[r] = oddRound[r] /\ plan'[r] = plan[r]
        /\ visited'[r] = visited[r]
    BY <1>e DEF SubmitEffect
  <2>2. RequestTypeOK(r)
    BY <1>0 DEF TypeOK
  <2>3. /\ DOMAIN progress'[r] = Worker(r)
        /\ \A w \in Worker(r) : progress'[r][w] \in Status
        /\ progress'[r][NodeOf(r)] # "new"
    <3>1. CASE r = p
      <4>1. NodeOf(p) \in Worker(p)
        BY DEF Worker
      <4>2. QED
        BY <1>a, <2>2, <3>1, <4>1 DEF RequestTypeOK, Status
    <3>2. CASE r # p
      BY <1>a, <2>2, <3>2 DEF RequestTypeOK
    <3>3. QED
      BY <3>1, <3>2
  <2>4. QED
    BY <1>5, <2>1, <2>2, <2>3 DEF RequestTypeOK
<1>9. TypeOK'
  <2>1. /\ DOMAIN progress' = Request' /\ DOMAIN window' = Request'
        /\ DOMAIN left' = Request' /\ DOMAIN oddRound' = Request'
        /\ DOMAIN plan' = Request'
    BY <1>e DEF SubmitEffect
  <2> HIDE DEF q
  <2>2. QED
    BY <1>0, <1>1, <1>7, <1>8, <2>1 DEF TypeOK
\* No status but that of c at p changes.
<1>10. ASSUME NEW r \in Request, NEW d \in OutWorker(r), progress'[r][d] # progress[r][d]
       PROVE  r = p /\ d = c
  BY <1>10, <1>a DEF OutWorker
<1>11. progress'[p][c] = "submitted"
  BY <1>e DEF SubmitEffect
<1>12. \A d \in Node : Append(q, d) \notin Request /\ Append(q, d) # q
  BY <1>2, <1>b, NodeOfAppend
<1>13. \A r \in Request, d \in Node : Append(r, d) = q => r = p /\ d = c
  BY <1>0, <1>1, <1>3, SiblingFacts
<1>14. TreeInv'
  <2>1. ASSUME NEW r \in Request', NEW d \in Node, Append(r, d) \in Request'
        PROVE  d \in OutWorker(r)' /\ progress'[r][d] # "new"
    <3>1. r \in Request
      BY <1>1, <1>12, <2>1
    <3>2. CASE Append(r, d) = q
      BY <1>1, <1>5, <1>11, <1>13, <3>1, <3>2
    <3>3. CASE Append(r, d) \in Request
      <4>1. d \in OutWorker(r) /\ progress[r][d] # "new"
        BY <1>0, <3>1, <3>3 DEF TreeInv
      <4>2. QED
        BY <1>5, <1>10, <1>11, <3>1, <4>1
    <3>4. QED
      BY <1>1, <2>1, <3>2, <3>3
  <2>2. ASSUME NEW r \in Request', r # <<Root>>
        PROVE  \E s \in Request', d \in Node : r = Append(s, d)
    <3>1. CASE r = q
      BY <1>1, <3>1
    <3>2. CASE r \in Request
      BY <1>0, <1>1, <2>2, <3>2 DEF TreeInv
    <3>3. QED
      BY <1>1, <3>1, <3>2
  <2>3. ASSUME NEW r \in Request', NEW d \in OutWorker(r)',
               progress'[r][d] = "submitted"
        PROVE  Append(r, d) \in Request'
    <3>1. CASE r = q
      <4>1. OutWorker(q)' = (ChildrenOf(c) \ Forwarded(p, c)) \ {c}
        BY <1>2, <1>6 DEF OutWorker
      <4>2. progress'[q] = NewProgress(c, Forwarded(p, c))
        BY <1>e DEF SubmitEffect
      <4>3. progress'[q][d] = "new"
        BY <3>1, <4>1, <4>2 DEF NewProgress
      <4>4. QED
        BY <2>3, <3>1, <4>3
    <3>2. CASE r \in Request
      <4>1. d \in OutWorker(r)
        BY <1>5, <3>2
      <4>2. CASE r = p /\ d = c
        BY <1>1, <4>2
      <4>3. CASE progress[r][d] = "submitted"
        BY <1>0, <1>1, <3>2, <4>1, <4>3 DEF TreeInv
      <4>4. QED
        BY <1>10, <2>3, <3>2, <4>1, <4>2, <4>3
    <3>3. QED
      BY <1>1, <3>1, <3>2
  <2> HIDE DEF q
  <2>4. QED
    BY <2>1, <2>2, <2>3 DEF TreeInv
<1>15. CallInv'
  <2>1. ASSUME NEW r \in Request', NEW d \in Node, Append(r, d) \in serving
        PROVE  r \in Request /\ progress'[r][d] = progress[r][d]
               /\ plan'[r] = plan[r]
    <3>1. Append(r, d) \in Request
      BY <1>0, <2>1 DEF TypeOK
    <3>2. r \in Request
      BY <1>1, <1>12, <3>1
    <3>3. d \in OutWorker(r)
      BY <1>0, <3>1, <3>2 DEF TreeInv
    <3>4. ~(r = p /\ d = c)
      BY <1>1, <3>1
    <3>5. plan'[r] = plan[r]
      BY <1>e, <3>2 DEF SubmitEffect
    <3>6. QED
      BY <1>10, <3>2, <3>3, <3>4, <3>5
  <2>2. ASSUME NEW r \in Request', NEW d \in Node
        PROVE  /\ Append(r, d) \in awaited' =>
                      /\ r \in serving' /\ plan'[r] # <<>> /\ Head(plan'[r]) = d
                      /\ progress'[r][d] = "submitted"
               /\ Append(r, d) \in serving' \ awaited' =>
                      progress'[r][d] = "completed"
    <3>1. Append(r, d) \in awaited => Append(r, d) \in serving
      BY <1>0 DEF TypeOK
    <3>2. CASE Append(r, d) \notin serving
      BY <1>1, <3>1, <3>2
    <3>3. CASE Append(r, d) \in serving
      <4>1. r \in Request /\ progress'[r][d] = progress[r][d] /\ plan'[r] = plan[r]
        BY <2>1, <3>3
      <4>2. /\ Append(r, d) \in awaited =>
                   /\ r \in serving /\ plan[r] # <<>> /\ Head(plan[r]) = d
                   /\ progress[r][d] = "submitted"
            /\ Append(r, d) \in serving \ awaited => progress[r][d] = "completed"
        BY <1>0, <4>1 DEF CallInv
      <4>3. QED
        BY <1>1, <4>1, <4>2
    <3>4. QED
      BY <3>2, <3>3
  <2>3. <<Root>> \in serving' => <<Root>> \in awaited'
    BY <1>0, <1>1 DEF CallInv
  <2> HIDE DEF q
  <2>4. QED
    BY <2>2, <2>3 DEF CallInv
<1>16. QED
  BY <1>9, <1>14, <1>15 DEF BaseInv

\* What an answer takes from the window and what it leaves.
TakenEffect(p) ==
    /\ window[p] \in Seq(Row) /\ Taken(p) \in Seq(Row) /\ Rest(p) \in Seq(Row)
    /\ Len(Taken(p)) \in 0 .. Len(window[p]) /\ Len(window[p]) \in Nat
    /\ Len(Rest(p)) = Len(window[p]) - Len(Taken(p))
    /\ \A i \in 1 .. Len(Taken(p)) : Taken(p)[i] = window[p][i]
    /\ \A i \in 1 .. Len(Rest(p)) : Rest(p)[i] = window[p][Len(Taken(p)) + i]

LEMMA TakenFacts ==
    ASSUME TypeOK, NEW p \in Request PROVE TakenEffect(p)
<1> DEFINE s == window[p]
           k == AtMost(ChunkSize, Len(s))
<1>1. s \in Seq(Row)
  BY DEF TypeOK, RequestTypeOK
<1>2. Len(s) \in Nat /\ \A i \in 1 .. Len(s) : s[i] \in Row
  BY <1>1, LenProperties, ElementOfSeq
<1>3. k \in 0 .. Len(s)
  BY <1>2 DEF AtMost
<1> HIDE DEF k, s
<1>4. /\ SubSeq(s, 1, k) \in Seq(Row) /\ Len(SubSeq(s, 1, k)) = k
      /\ \A i \in 1 .. k : SubSeq(s, 1, k)[i] = s[i]
  <2>1. \A i \in 1 .. k : s[i] \in Row
    BY <1>2, <1>3
  <2>2. 1 \in Int /\ k \in Int
    BY <1>3
  <2>3. SubSeq(s, 1, k) = [i \in 1 .. k |-> s[i]]
    BY <1>1, <1>3
  <2>4. QED
    BY <1>3, <2>1, <2>3
<1>5. /\ SubSeq(s, k + 1, Len(s)) \in Seq(Row)
      /\ Len(SubSeq(s, k + 1, Len(s))) = Len(s) - k
      /\ \A i \in 1 .. Len(s) - k : SubSeq(s, k + 1, Len(s))[i] = s[k + i]
  <2>1. \A i \in 1 .. Len(s) - k : k + i \in 1 .. Len(s)
    BY <1>2, <1>3
  <2>2. SubSeq(s, k + 1, Len(s)) = [i \in 1 .. Len(s) - k |-> s[k + i]]
    BY <1>1, <1>2, <1>3
  <2>3. Len(s) - k \in Nat
    BY <1>2, <1>3
  <2> DEFINE m == Len(s) - k
             t == [i \in 1 .. m |-> s[k + i]]
  <2>4. \A i \in 1 .. m : s[k + i] \in Row
    BY <1>2, <2>1
  <2>5. m \in Nat
    BY <2>3
  <2> HIDE DEF m
  <2>6. t \in Seq(Row) /\ Len(t) = m /\ \A i \in 1 .. m : t[i] = s[k + i]
    BY <2>4, <2>5
  <2>7. QED
    BY <2>2, <2>6 DEF m
<1>6. Taken(p) = SubSeq(s, 1, k)
  BY DEF Taken, s, k
<1>7. Rest(p) = SubSeq(s, k + 1, Len(s))
  BY <1>4, <1>6 DEF Rest, s
<1>8. QED
  BY <1>1, <1>2, <1>3, <1>4, <1>5, <1>6, <1>7 DEF TakenEffect, s

GiveUpEffect(p, c) ==
    /\ p \in serving /\ NodeOf(p) \notin down
    /\ c \in Node /\ c \in OutWorker(p) /\ c \in MayFail
    /\ progress[p][c] # "completed"
    /\ plan[p] # <<>> /\ Advance(p)
    /\ DOMAIN progress' = Request /\ DOMAIN progress'[p] = Worker(p)
    /\ progress'[p][c] = "completed"
    /\ \A w \in Worker(p) \ {c} : progress'[p][w] = progress[p][w]
    /\ \A r \in Request \ {p} : progress'[r] = progress[r]
    /\ \A d \in Node : Append(p, d) \notin awaited'
    /\ awaited' = awaited \ {Append(p, c)} /\ failed' = failed \cup {c}
    /\ UNCHANGED <<visited, window, left, oddRound, serving, down, out, told>>

LEMMA GiveUpFacts ==
    ASSUME BaseInv, NEW p \in Request, NEW c, GiveUp(p, c)
    PROVE  GiveUpEffect(p, c)
<1>0. TypeOK /\ CallInv
  BY DEF BaseInv
<1>1. /\ p \in serving /\ NodeOf(p) \notin down
      /\ plan[p] # <<>> /\ Head(plan[p]) = c
      /\ c \in OutWorker(p) /\ progress[p][c] # "completed" /\ c \in MayFail
      /\ progress' = [progress EXCEPT ![p][c] = "completed"]
      /\ awaited' = awaited \ {Append(p, c)} /\ failed' = failed \cup {c}
      /\ Advance(p)
      /\ UNCHANGED <<visited, window, left, oddRound, serving, down, out, told>>
  BY DEF GiveUp, Busy, OutWorker
<1>2. c \in Node
  BY <1>1
<1>3. ASSUME NEW d \in Node PROVE Append(p, d) \notin awaited'
  <2>1. Append(p, d) \in awaited => d = c
    BY <1>0, <1>1 DEF CallInv
  <2>2. QED
    BY <1>1, <2>1
<1>4. DOMAIN progress = Request /\ DOMAIN progress[p] = Worker(p) /\ c \in Worker(p)
  BY <1>0, <1>1, RequestFacts DEF TypeOK, OutWorker
<1>5. /\ DOMAIN progress' = Request /\ DOMAIN progress'[p] = Worker(p)
      /\ progress'[p][c] = "completed"
      /\ \A w \in Worker(p) \ {c} : progress'[p][w] = progress[p][w]
      /\ \A r \in Request \ {p} : progress'[r] = progress[r]
  BY <1>1, <1>4
<1>6. QED
  BY <1>1, <1>2, <1>3, <1>5 DEF GiveUpEffect

LEMMA GiveUpKeepsBase ==
    ASSUME BaseInv, NEW p \in Request, NEW c, GiveUp(p, c)
    PROVE  BaseInv'
<1>0. TypeOK /\ TreeInv /\ CallInv
  BY DEF BaseInv
<1>e. GiveUpEffect(p, c)
  BY GiveUpFacts
<1>1. /\ plan[p] # <<>> /\ Advance(p)
      /\ \A d \in Node : Append(p, d) \notin awaited'
      /\ c \in OutWorker(p) /\ c \in Node /\ c \in MayFail
      /\ awaited' = awaited \ {Append(p, c)} /\ failed' = failed \cup {c}
      /\ UNCHANGED <<visited, window, left, oddRound, serving, down, out, told>>
  BY <1>e DEF GiveUpEffect
<1>2. /\ DOMAIN progress' = Request /\ DOMAIN progress'[p] = Worker(p)
      /\ progress'[p][c] = "completed"
      /\ \A w \in Worker(p) \ {c} : progress'[p][w] = progress[p][w]
      /\ \A r \in Request \ {p} : progress'[r] = progress[r]
  BY <1>e DEF GiveUpEffect
<1>3. Request' = Request /\ \A q \in Request : Worker(q)' = Worker(q)
  BY <1>1 DEF Request, Worker
<1>4. TypeOK'
  <2>1. ASSUME NEW q \in Request PROVE RequestTypeOK(q)'
    <3>1. RequestTypeOK(q) /\ plan'[q] \in Seq(Node)
      BY <1>0, <1>1, AdvanceFacts DEF TypeOK
    <3>2. /\ DOMAIN progress'[q] = Worker(q)
          /\ \A w \in Worker(q) : progress'[q][w] \in Status
          /\ progress'[q][NodeOf(q)] # "new"
      <4>1. CASE q = p
        <5>1. NodeOf(p) \in Worker(p) /\ NodeOf(p) # c
          BY <1>1 DEF Worker, OutWorker
        <5>2. QED
          BY <1>2, <3>1, <4>1, <5>1 DEF RequestTypeOK, Status
      <4>2. CASE q # p
        BY <1>2, <3>1, <4>2 DEF RequestTypeOK
      <4>3. QED
        BY <4>1, <4>2
    <3>3. QED
      BY <1>1, <1>3, <3>1, <3>2 DEF RequestTypeOK
  <2>2. DOMAIN plan' = Request
    BY <1>0, <1>1, AdvanceFacts
  <2>3. QED
    BY <1>0, <1>1, <1>2, <1>3, <2>1, <2>2 DEF TypeOK
<1>5. TreeInv'
  <2>1. \A r \in Request : \A d \in OutWorker(r) :
            progress'[r][d] = progress[r][d] \/ progress'[r][d] = "completed"
    BY <1>2 DEF OutWorker
  <2>2. QED
    BY <1>0, <1>1, <2>1, TreeKept
<1>6. CallInv'
  <2>1. ASSUME NEW r \in Request, NEW d \in Node
        PROVE  /\ Append(r, d) \in awaited' =>
                      r \in serving' /\ progress'[r][d] = "submitted"
               /\ Append(r, d) \in serving' \ awaited' =>
                      progress'[r][d] = "completed"
    <3>1. Append(r, d) \in awaited => Append(r, d) \in serving
      BY <1>0 DEF TypeOK
    <3>2. Append(r, d) \in serving => d \in OutWorker(r)
      BY <1>0 DEF TypeOK, TreeInv
    <3>3. /\ Append(r, d) \in awaited =>
                 r \in serving /\ progress[r][d] = "submitted"
          /\ Append(r, d) \in serving \ awaited => progress[r][d] = "completed"
      BY <1>0 DEF CallInv
    <3>4. CASE r = p /\ d = c
      BY <1>1, <1>2, <3>4
    <3>5. CASE ~(r = p /\ d = c)
      <4>1. Append(r, d) # Append(p, c)
        BY <1>0, <1>1, <3>5, SiblingFacts
      <4>2. d \in OutWorker(r) => progress'[r][d] = progress[r][d]
        BY <1>2, <3>5 DEF OutWorker
      <4>3. QED
        BY <1>1, <3>1, <3>2, <3>3, <4>1, <4>2
    <3>6. QED
      BY <3>4, <3>5
  <2>2. <<Root>> \in serving' => <<Root>> \in awaited'
    <3>1. <<Root>> # Append(p, c)
      BY <1>0, <1>1, RequestFacts
    <3>2. QED
      BY <1>0, <1>1, <3>1 DEF CallInv
  <2>3. QED
    BY <1>0, <1>1, <2>1, <2>2, AdvanceKeepsCalls
<1>7. QED
  BY <1>4, <1>5, <1>6 DEF BaseInv

\* An answer that no request of the overlay merges.
LEMMA OutwardAnswerKeepsBase ==
    ASSUME BaseInv, NEW q \in Request, Answering(q),
           window' = [window EXCEPT ![q] = Rest(q)],
           serving' = serving \ {q}, awaited' = awaited \ {q},
           UNCHANGED <<visited, progress, left, oddRound, plan, failed, down>>,
           out' \in Seq(Row), told' \in BOOLEAN
    PROVE  BaseInv'
<1>0. TypeOK /\ TreeInv /\ CallInv
  BY DEF BaseInv
<1>1. Request' = Request /\ \A r \in Request : Worker(r)' = Worker(r)
  BY DEF Request, Worker
<1>2. Rest(q) \in Seq(Row) /\ DOMAIN window = Request
  BY <1>0, TakenFacts DEF TakenEffect, TypeOK
<1>3. ASSUME NEW r \in Request PROVE RequestTypeOK(r)'
  <2>1. RequestTypeOK(r)
    BY <1>0 DEF TypeOK
  <2>2. window'[r] \in Seq(Row)
    BY <1>2, <2>1 DEF RequestTypeOK
  <2>3. QED
    BY <1>1, <2>1, <2>2 DEF RequestTypeOK
<1>4. TypeOK'
  BY <1>0, <1>1, <1>2, <1>3 DEF TypeOK
<1>5. TreeInv'
  BY <1>0, TreeKept
<1>6. CallInv'
  <2>1. plan[q] = <<>>
    BY DEF Answering
  <2>2. QED
    BY <1>0, <1>1, <2>1 DEF CallInv
<1>7. QED
  BY <1>4, <1>5, <1>6 DEF BaseInv

LEMMA AnswerClientKeepsBase ==
    ASSUME BaseInv, AnswerClient PROVE BaseInv'
<1>1. <<Root>> \in Request /\ TypeOK
  BY DEF BaseInv, TypeOK
<1>2. Taken(<<Root>>) \in Seq(Row)
  BY <1>1, TakenFacts DEF TakenEffect
<1>3. /\ Answering(<<Root>>)
      /\ out' = out \o Taken(<<Root>>) /\ told' = IsDone(<<Root>>)
      /\ window' = [window EXCEPT ![<<Root>>] = Rest(<<Root>>)]
      /\ serving' = serving \ {<<Root>>} /\ awaited' = awaited \ {<<Root>>}
      /\ UNCHANGED <<visited, progress, left, oddRound, plan, failed, down>>
  BY DEF AnswerClient
<1>4. out' \in Seq(Row)
  <2>1. out \in Seq(Row)
    BY <1>1 DEF TypeOK
  <2>2. QED
    BY <1>2, <1>3, <2>1, ConcatProperties
<1>5. told' \in BOOLEAN
  BY <1>3 DEF IsDone, AllWorkersCompleted
<1>6. QED
  BY <1>1, <1>3, <1>4, <1>5, OutwardAnswerKeepsBase

LEMMA AnswerNobodyKeepsBase ==
    ASSUME BaseInv, NEW q \in Request, AnswerNobody(q) PROVE BaseInv'
<1>1. /\ Answering(q)
      /\ window' = [window EXCEPT ![q] = Rest(q)]
      /\ serving' = serving \ {q} /\ awaited' = awaited \ {q}
      /\ UNCHANGED <<visited, progress, left, oddRound, plan, failed, down, out,
                     told>>
  BY DEF AnswerNobody
<1>2. out' \in Seq(Row) /\ told' \in BOOLEAN
  BY <1>1 DEF BaseInv, TypeOK
<1>3. QED
  BY <1>1, <1>2, OutwardAnswerKeepsBase

\* What the answer of child c changes.
MergeEffect(p, c) ==
    /\ c \in Node /\ c \in OutWorker(p)
    /\ Append(p, c) \in Request /\ Append(p, c) # p
    /\ Append(p, c) \in awaited /\ Answering(Append(p, c))
    /\ NodeOf(p) \notin down /\ p \in serving
    /\ plan[p] # <<>> /\ Head(plan[p]) = c /\ plan[Append(p, c)] = <<>>
    /\ Advance(p)
    /\ \A d \in Node : Append(p, d) \notin awaited'
    /\ DOMAIN window' = Request /\ DOMAIN progress' = Request
    /\ DOMAIN progress'[p] = Worker(p)
    /\ window'[p] = window[p] \o Taken(Append(p, c))
    /\ window'[Append(p, c)] = Rest(Append(p, c))
    /\ \A r \in Request \ {p, Append(p, c)} : window'[r] = window[r]
    /\ progress[p][c] = "submitted"
    /\ progress'[p][c] = IF IsDone(Append(p, c)) THEN "completed" ELSE "submitted"
    /\ \A w \in Worker(p) \ {c} : progress'[p][w] = progress[p][w]
    /\ \A r \in Request \ {p} : progress'[r] = progress[r]
    /\ serving' = serving \ {Append(p, c)} /\ awaited' = awaited \ {Append(p, c)}
    /\ UNCHANGED <<visited, left, oddRound, failed, down, out, told>>

LEMMA AnswerCallerFacts ==
    ASSUME BaseInv, NEW p \in Request, NEW c \in Worker(p), AnswerCaller(p, c)
    PROVE  MergeEffect(p, c)
<1> DEFINE q == Append(p, c)
<1>0. TypeOK /\ TreeInv /\ CallInv
  BY DEF BaseInv
<1>1. /\ q \in awaited /\ NodeOf(p) \notin down /\ Answering(q)
      /\ window' = [window EXCEPT ![p] = window[p] \o Taken(q), ![q] = Rest(q)]
      /\ progress' = [progress EXCEPT ![p][c] =
                          IF IsDone(q) THEN "completed" ELSE progress[p][c]]
      /\ serving' = serving \ {q} /\ awaited' = awaited \ {q}
      /\ Advance(p)
      /\ UNCHANGED <<visited, left, oddRound, failed, down, out, told>>
  BY DEF AnswerCaller
<1>2. c \in Node /\ q \in Request /\ q # p /\ plan[q] = <<>>
  BY <1>0, <1>1, RequestFacts DEF TypeOK, Answering
<1>3. /\ c \in OutWorker(p) /\ p \in serving /\ progress[p][c] = "submitted"
      /\ plan[p] # <<>> /\ Head(plan[p]) = c
  BY <1>0, <1>1, <1>2 DEF TreeInv, CallInv
<1>4. ASSUME NEW d \in Node PROVE Append(p, d) \notin awaited'
  <2>1. Append(p, d) \in awaited => d = c
    BY <1>0, <1>3 DEF CallInv
  <2>2. QED
    BY <1>1, <2>1
<1>5. /\ DOMAIN progress = Request /\ DOMAIN progress[p] = Worker(p)
      /\ DOMAIN window = Request
  BY <1>0, RequestFacts DEF TypeOK
<1> HIDE DEF q
<1>6. /\ DOMAIN progress' = Request /\ DOMAIN progress'[p] = Worker(p)
      /\ progress'[p][c] = IF IsDone(q) THEN "completed" ELSE "submitted"
      /\ \A w \in Worker(p) \ {c} : progress'[p][w] = progress[p][w]
      /\ \A r \in Request \ {p} : progress'[r] = progress[r]
  BY <1>1, <1>3, <1>5
<1>7. /\ DOMAIN window' = Request
      /\ window'[p] = window[p] \o Taken(q) /\ window'[q] = Rest(q)
      /\ \A r \in Request \ {p, q} : window'[r] = window[r]
  BY <1>1, <1>2, <1>5
<1>8. QED
  BY <1>1, <1>2, <1>3, <1>4, <1>6, <1>7 DEF q, MergeEffect

LEMMA AnswerCallerKeepsBase ==
    ASSUME BaseInv, NEW p \in Request, NEW c \in Worker(p), AnswerCaller(p, c)
    PROVE  BaseInv'
<1> DEFINE q == Append(p, c)
<1>0. TypeOK /\ TreeInv /\ CallInv
  BY DEF BaseInv
<1>e. MergeEffect(p, c)
  BY AnswerCallerFacts
<1>1. /\ c \in Node /\ c \in OutWorker(p) /\ q \in Request /\ q # p
      /\ plan[p] # <<>> /\ plan[q] = <<>> /\ Advance(p)
      /\ \A d \in Node : Append(p, d) \notin awaited'
      /\ serving' = serving \ {q} /\ awaited' = awaited \ {q}
      /\ UNCHANGED <<visited, left, oddRound, failed, down, out, told>>
  BY <1>e DEF MergeEffect
<1>2. /\ DOMAIN progress' = Request /\ DOMAIN progress'[p] = Worker(p)
      /\ progress[p][c] = "submitted" /\ progress'[p][c] \in {"submitted", "completed"}
      /\ \A w \in Worker(p) \ {c} : progress'[p][w] = progress[p][w]
      /\ \A r \in Request \ {p} : progress'[r] = progress[r]
  BY <1>e DEF MergeEffect
<1>3. Request' = Request /\ \A r \in Request : Worker(r)' = Worker(r)
  BY <1>1 DEF Request, Worker
<1>4. /\ DOMAIN window' = Request
      /\ window'[p] = window[p] \o Taken(q) /\ window'[q] = Rest(q)
      /\ \A r \in Request \ {p, q} : window'[r] = window[r]
  BY <1>e DEF MergeEffect
<1>5. ASSUME NEW r \in Request PROVE window'[r] \in Seq(Row)
  <2>1. window[r] \in Seq(Row) /\ window[p] \in Seq(Row)
    BY <1>0 DEF TypeOK, RequestTypeOK
  <2>2. Taken(q) \in Seq(Row) /\ Rest(q) \in Seq(Row)
    BY <1>0, <1>1, TakenFacts DEF TakenEffect
  <2>3. window[p] \o Taken(q) \in Seq(Row)
    BY <2>1, <2>2, ConcatProperties
  <2>4. QED
    BY <1>4, <2>1, <2>2, <2>3
<1>6. TypeOK'
  <2>1. ASSUME NEW r \in Request PROVE RequestTypeOK(r)'
    <3>1. RequestTypeOK(r) /\ plan'[r] \in Seq(Node)
      BY <1>0, <1>1, AdvanceFacts DEF TypeOK
    <3>2. /\ DOMAIN progress'[r] = Worker(r)
          /\ \A w \in Worker(r) : progress'[r][w] \in Status
          /\ progress'[r][NodeOf(r)] # "new"
      <4>1. CASE r = p
        <5>1. NodeOf(p) \in Worker(p) /\ NodeOf(p) # c
          BY <1>1 DEF Worker, OutWorker
        <5>2. QED
          BY <1>2, <3>1, <4>1, <5>1 DEF RequestTypeOK, Status
      <4>2. CASE r # p
        BY <1>2, <3>1, <4>2 DEF RequestTypeOK
      <4>3. QED
        BY <4>1, <4>2
    <3>3. QED
      BY <1>1, <1>3, <1>5, <3>1, <3>2 DEF RequestTypeOK
  <2>2. DOMAIN plan' = Request
    BY <1>0, <1>1, AdvanceFacts
  <2> HIDE DEF q
  <2>3. QED
    BY <1>0, <1>1, <1>2, <1>3, <1>4, <2>1, <2>2 DEF TypeOK
<1>7. TreeInv'
  <2>1. \A r \in Request : \A d \in OutWorker(r) :
            \/ progress'[r][d] = progress[r][d]
            \/ progress'[r][d] = "completed"
    BY <1>2 DEF OutWorker
  <2>2. QED
    BY <1>0, <1>1, <2>1, TreeKept
<1>8. CallInv'
  <2>1. ASSUME NEW r \in Request, NEW d \in Node
        PROVE  /\ Append(r, d) \in awaited' =>
                      r \in serving' /\ progress'[r][d] = "submitted"
               /\ Append(r, d) \in serving' \ awaited' =>
                      progress'[r][d] = "completed"
    <3>1. Append(r, d) \in awaited => Append(r, d) \in serving
      BY <1>0 DEF TypeOK
    <3>2. Append(r, d) \in serving => d \in OutWorker(r)
      BY <1>0 DEF TypeOK, TreeInv
    <3>3. /\ Append(r, d) \in awaited =>
                 r \in serving /\ plan[r] # <<>> /\ progress[r][d] = "submitted"
          /\ Append(r, d) \in serving \ awaited => progress[r][d] = "completed"
      BY <1>0 DEF CallInv
    <3>4. CASE r = p /\ d = c
      BY <1>1, <3>4
    <3>5. CASE ~(r = p /\ d = c)
      <4>1. d \in OutWorker(r) => progress'[r][d] = progress[r][d]
        BY <1>2, <3>5 DEF OutWorker
      <4>2. QED
        BY <1>1, <3>1, <3>2, <3>3, <4>1
    <3>6. QED
      BY <3>4, <3>5
  <2>2. <<Root>> \in serving' => <<Root>> \in awaited'
    BY <1>0, <1>1 DEF CallInv
  <2>3. serving' \subseteq serving /\ awaited' \subseteq awaited
    BY <1>1
  <2>4. QED
    BY <1>0, <1>1, <2>1, <2>2, <2>3, AdvanceKeepsCalls
<1>9. QED
  BY <1>6, <1>7, <1>8 DEF BaseInv

LEMMA InitFacts ==
    ASSUME Init
    PROVE  /\ Request = {<<Root>>} /\ NodeOf(<<Root>>) = Root /\ Root \in Node
           /\ DOMAIN progress = Request /\ DOMAIN window = Request
           /\ DOMAIN left = Request /\ DOMAIN oddRound = Request
           /\ DOMAIN plan = Request
           /\ visited[<<Root>>] = {Root}
           /\ progress[<<Root>>] = NewProgress(Root, {Root})
           /\ window[<<Root>>] = <<>> /\ left[<<Root>>] = Supply[Root]
           /\ oddRound[<<Root>>] = FALSE /\ plan[<<Root>>] = <<>>
           /\ Worker(<<Root>>) = {Root} \cup (ChildrenOf(Root) \ {Root})
           /\ serving = {} /\ awaited = {} /\ failed = {} /\ down = {}
           /\ out = <<>> /\ told = FALSE
BY RootPath DEF Init, Request, Worker

LEMMA InitBase == Init => BaseInv
<1> SUFFICES ASSUME Init PROVE BaseInv
  OBVIOUS
<1>1. /\ Request = {<<Root>>} /\ NodeOf(<<Root>>) = Root /\ Root \in Node
      /\ DOMAIN progress = Request /\ DOMAIN window = Request
      /\ DOMAIN left = Request /\ DOMAIN oddRound = Request
      /\ DOMAIN plan = Request
      /\ serving = {} /\ awaited = {} /\ failed = {} /\ down = {}
      /\ out = <<>> /\ told = FALSE
  BY InitFacts
<1>2. RequestTypeOK(<<Root>>)
  <2>1. /\ visited[<<Root>>] = {Root}
        /\ progress[<<Root>>] = NewProgress(Root, {Root})
        /\ window[<<Root>>] = <<>> /\ left[<<Root>>] = Supply[Root]
        /\ oddRound[<<Root>>] = FALSE /\ plan[<<Root>>] = <<>>
        /\ Worker(<<Root>>) = {Root} \cup (ChildrenOf(Root) \ {Root})
    BY InitFacts
  <2>2. /\ DOMAIN progress[<<Root>>] = Worker(<<Root>>)
        /\ \A w \in Worker(<<Root>>) : progress[<<Root>>][w] \in Status
        /\ progress[<<Root>>][Root] # "new"
    BY <2>1 DEF NewProgress, Status
  <2>3. left[<<Root>>] \in 0 .. Supply[Root]
    BY <1>1, <2>1
  <2>4. window[<<Root>>] \in Seq(Row) /\ plan[<<Root>>] \in Seq(Node)
    BY <2>1
  <2>5. QED
    BY <1>1, <2>1, <2>2, <2>3, <2>4, RootPath DEF RequestTypeOK
<1>3. TypeOK
  <2>1. out \in Seq(Row)
    BY <1>1
  <2>2. QED
    BY <1>1, <1>2, <2>1 DEF TypeOK
<1>4. TreeInv
  <2>1. \A c \in Node : Append(<<Root>>, c) \notin Request
    BY <1>1, RootPath
  <2>2. \A c \in OutWorker(<<Root>>) : progress[<<Root>>][c] = "new"
    BY InitFacts DEF OutWorker, NewProgress
  <2>3. QED
    BY <1>1, <2>1, <2>2 DEF TreeInv
<1>5. CallInv
  BY <1>1 DEF CallInv
<1>6. QED
  BY <1>3, <1>4, <1>5 DEF BaseInv

LEMMA CrashKeepsBase ==
    ASSUME BaseInv, NEW n \in MayCrash, Crash(n)
    PROVE  /\ BaseInv'
           /\ down' = down \cup {n}
           /\ UNCHANGED <<visited, progress, window, left, oddRound, plan, serving,
                          awaited, failed, out, told>>
<1>1. /\ down' = down \cup {n}
      /\ UNCHANGED <<visited, progress, window, left, oddRound, plan, serving,
                     awaited, failed, out, told>>
  BY DEF Crash, requestVars, callVars
<1>2. TypeOK'
  BY <1>1 DEF BaseInv, TypeOK, RequestTypeOK, Request, Worker
<1>3. TreeInv'
  BY <1>1, TreeKept DEF BaseInv
<1>4. CallInv'
  BY <1>1 DEF BaseInv, CallInv, Request
<1>5. QED
  BY <1>1, <1>2, <1>3, <1>4 DEF BaseInv

LEMMA StutterKeepsBase == BaseInv /\ UNCHANGED vars => BaseInv'
<1> SUFFICES ASSUME BaseInv, UNCHANGED vars PROVE BaseInv'
  OBVIOUS
<1>1. UNCHANGED <<visited, progress, window, left, oddRound, plan, serving,
                  awaited, failed, down, out, told>>
  BY DEF vars, requestVars, callVars
<1>2. TypeOK'
  BY <1>1 DEF BaseInv, TypeOK, RequestTypeOK, Request, Worker
<1>3. TreeInv'
  BY <1>1, TreeKept DEF BaseInv
<1>4. CallInv'
  BY <1>1 DEF BaseInv, CallInv, Request
<1>5. QED
  BY <1>2, <1>3, <1>4 DEF BaseInv

\* The cases a proof about a step of the system goes through.
SkipStep(p) ==
    \E w : /\ Turn(p, w) /\ Advance(p)
           /\ UNCHANGED <<visited, progress, window, left, oddRound, serving,
                          awaited, failed, down, out, told>>

LEMMA StepCases ==
    ASSUME Next
    PROVE  \/ ClientCalls
           \/ AnswerClient
           \/ \E n \in MayCrash : Crash(n)
           \/ \E p \in Request :
                  \/ FetchLocal(p)
                  \/ SkipStep(p)
                  \/ \E c \in Worker(p) : \/ SubmitToChild(p, c)
                                          \/ CallChild(p, c)
                                          \/ AnswerCaller(p, c)
                  \/ AnswerNobody(p)
                  \/ \E c : GiveUp(p, c)
<1>1. \A w : \A p \in Request : SkipVisited(p, w) \/ SkipCompleted(p, w) => SkipStep(p)
  BY DEF SkipVisited, SkipCompleted, SkipStep, requestVars
<1>2. QED
  BY <1>1 DEF Next, HandlerStep

LEMMA NextBase == BaseInv /\ [Next]_vars => BaseInv'
<1> SUFFICES ASSUME BaseInv, [Next]_vars PROVE BaseInv'
  OBVIOUS
<1>1. CASE UNCHANGED vars
  BY <1>1, StutterKeepsBase
<1>2. CASE ClientCalls
  BY <1>2, ClientCallsKeepsBase
<1>3. CASE AnswerClient
  BY <1>3, AnswerClientKeepsBase
<1>4. CASE \E n \in MayCrash : Crash(n)
  BY <1>4, CrashKeepsBase
<1>5. ASSUME NEW p \in Request, FetchLocal(p) PROVE BaseInv'
  BY <1>5, FetchLocalKeepsBase
<1>6. ASSUME NEW p \in Request, SkipStep(p) PROVE BaseInv'
  BY <1>6, SkipKeepsBase DEF SkipStep, requestVars
<1>7. ASSUME NEW p \in Request, NEW c \in Worker(p),
             SubmitToChild(p, c) \/ CallChild(p, c) \/ AnswerCaller(p, c)
      PROVE  BaseInv'
  BY <1>7, SubmitKeepsBase, CallChildKeepsBase, AnswerCallerKeepsBase
<1>8. ASSUME NEW p \in Request, AnswerNobody(p) \/ \E c : GiveUp(p, c)
      PROVE  BaseInv'
  BY <1>8, AnswerNobodyKeepsBase, GiveUpKeepsBase
<1>9. QED
  BY <1>1, <1>2, <1>3, <1>4, <1>5, <1>6, <1>7, <1>8, StepCases

-----------------------------------------------------------------------------
\* A call reaches a request only when no handler of an earlier one runs for it.
LEMMA CallsFindNoHandler ==
    ASSUME BaseInv, [Next]_vars, NEW p \in Request, p \notin awaited, p \in awaited'
    PROVE  p \notin serving
<1>1. CASE UNCHANGED vars
  BY <1>1 DEF vars, callVars
<1>2. CASE ClientCalls
  BY <1>2, ClientCallsKeepsBase DEF Enter
<1>3. CASE AnswerClient
  BY <1>3 DEF AnswerClient
<1>4. CASE \E n \in MayCrash : Crash(n)
  BY <1>4, CrashKeepsBase
<1>5. ASSUME NEW q \in Request, FetchLocal(q) PROVE FALSE
  BY <1>5, FetchLocalFacts
<1>6. ASSUME NEW q \in Request, SkipStep(q) PROVE FALSE
  BY <1>6 DEF SkipStep
<1>7. ASSUME NEW q \in Request, NEW c \in Worker(q), SubmitToChild(q, c) PROVE FALSE
  BY <1>7 DEF SubmitToChild
<1>8. ASSUME NEW q \in Request, NEW c \in Worker(q), CallChild(q, c)
      PROVE  p \notin serving
  BY <1>8, CallChildKeepsBase DEF Enter
<1>9. ASSUME NEW q \in Request, NEW c \in Worker(q), AnswerCaller(q, c) PROVE FALSE
  BY <1>9 DEF AnswerCaller
<1>10. ASSUME NEW q \in Request, AnswerNobody(q) PROVE FALSE
  BY <1>10 DEF AnswerNobody
<1>11. ASSUME NEW q \in Request, NEW c, GiveUp(q, c) PROVE FALSE
  BY <1>11 DEF GiveUp
<1>12. QED
  BY <1>1, <1>2, <1>3, <1>4, <1>5, <1>6, <1>7, <1>8, <1>9, <1>10, <1>11, StepCases

\* The rows and the progress of a request have no lock and need none: on every
\* overlay, whatever fails, a call reaches a request only when no handler of an
\* earlier one runs for it (one fetchChunkForRpc per request at a time).
THEOREM OneHandlerAlways == Spec => OneHandlerPerRequest
<1>1. BaseInv /\ [Next]_vars
          => [\A p \in Request : (p \notin awaited /\ p \in awaited') => p \notin serving]_vars
  BY CallsFindNoHandler
<1>2. QED
  BY <1>1, InitBase, NextBase, PTL DEF Spec, OneHandlerPerRequest

-----------------------------------------------------------------------------
\* The refinement of OverlayVisit.

LEMMA VisitAssumption == V!OverlayAssumption
<1>1. \A n \in Node : ChildrenOf(n) \subseteq Node
  BY ChildrenAreNodes
<1>2. VisitChildren \in [Node -> SUBSET Node]
  BY <1>1 DEF VisitChildren
<1>3. QED
  BY <1>2 DEF V!OverlayAssumption

\* When the tables of OverlayVisit hold what.
AskedMeans ==
    \A x : x \in VisitAsked <=>
        \E p \in Request : \E c \in OutWorker(p) :
            progress[p][c] # "new" /\ x = <<VisitRequest(p), c>>

LEMMA AskedIs == AskedMeans
BY DEF AskedMeans, VisitAsked, OutWorker

LEMMA AskedAt ==
    ASSUME NEW p \in Request, NEW c
    PROVE  <<VisitRequest(p), c>> \in VisitAsked <=>
               c \in OutWorker(p) /\ progress[p][c] # "new"
<1>1. \A d : \A r \in Request : <<VisitRequest(p), c>> = <<VisitRequest(r), d>>
          => p = r /\ c = d
  BY DEF VisitRequest
<1>2. QED
  BY <1>1, AskedIs DEF AskedMeans

LEMMA VisitRequestFacts ==
    ASSUME TypeOK, NEW p \in Request
    PROVE  /\ VisitRequest(p) \in VisitRequests
           /\ VisitRequest(p).path = p /\ VisitRequest(p).node = NodeOf(p)
           /\ VisitRequest(p).visited = visited[p]
           /\ VisitChildren[NodeOf(p)] = ChildrenOf(NodeOf(p))
<1>1. NodeOf(p) \in Node
  BY RequestFacts
<1>2. QED
  BY <1>1 DEF VisitRequest, VisitRequests, VisitChildren

\* The children p has still to ask are those OverlayVisit says.
LEMMA ToAskMeans ==
    ASSUME TypeOK, NEW p \in Request, NEW c
    PROVE  V!ToAsk(VisitRequest(p), c) <=>
               c \in OutWorker(p) /\ progress[p][c] = "new"
<1>1. /\ VisitRequest(p).node = NodeOf(p) /\ VisitRequest(p).visited = visited[p]
      /\ VisitChildren[NodeOf(p)] = ChildrenOf(NodeOf(p))
      /\ OutWorker(p) = ChildrenOf(NodeOf(p)) \ visited[p]
  BY VisitRequestFacts, RequestFacts
<1>2. <<VisitRequest(p), c>> \in VisitAsked <=>
          c \in OutWorker(p) /\ progress[p][c] # "new"
  BY AskedAt
<1>3. QED
  BY <1>1, <1>2 DEF V!ToAsk

\* A step that asks no child the first time.
LEMMA VisitStutters ==
    ASSUME visited' = visited,
           \A p \in Request : \A c \in OutWorker(p) :
               progress'[p][c] = "new" <=> progress[p][c] = "new"
    PROVE  UNCHANGED <<VisitChildren, VisitRequests, VisitAsked>>
<1>1. /\ Request' = Request /\ \A p \in Request : OutWorker(p)' = OutWorker(p)
      /\ \A p \in Request : VisitRequest(p)' = VisitRequest(p)
  BY DEF Request, OutWorker, Worker, VisitRequest
<1>2. VisitRequests' = VisitRequests
  BY <1>1 DEF VisitRequests
<1>3. AskedMeans /\ AskedMeans'
  BY AskedIs, PTL
<1>5. VisitAsked' = VisitAsked
  <2>1. ASSUME NEW x \in VisitAsked' PROVE x \in VisitAsked
    <3>1. PICK p \in Request : \E c \in OutWorker(p) :
              progress'[p][c] # "new" /\ x = <<VisitRequest(p)', c>>
      BY <1>1, <1>3 DEF AskedMeans
    <3>2. PICK c \in OutWorker(p) :
              progress[p][c] # "new" /\ x = <<VisitRequest(p), c>>
      BY <1>1, <3>1
    <3>3. QED
      BY <1>3, <3>2 DEF AskedMeans
  <2>2. ASSUME NEW x \in VisitAsked PROVE x \in VisitAsked'
    <3>1. PICK p \in Request : \E c \in OutWorker(p) :
              progress[p][c] # "new" /\ x = <<VisitRequest(p), c>>
      BY <1>3 DEF AskedMeans
    <3>2. PICK c \in OutWorker(p) :
              progress'[p][c] # "new" /\ x = <<VisitRequest(p)', c>>
      BY <1>1, <3>1
    <3>3. p \in Request' /\ c \in OutWorker(p)'
      BY <1>1
    <3>4. QED
      BY <1>3, <3>2, <3>3 DEF AskedMeans
  <2>3. QED
    BY <2>1, <2>2
<1>6. VisitChildren' = VisitChildren
  BY DEF VisitChildren
<1>7. QED
  BY <1>2, <1>5, <1>6

LEMMA SubmitIsAsk ==
    ASSUME BaseInv, NEW p \in Request, NEW c \in Worker(p), SubmitToChild(p, c)
    PROVE  V!Ask(VisitRequest(p), c) /\ c \in Node
<1> DEFINE q == Append(p, c)
<1>0. TypeOK
  BY DEF BaseInv
<1>e. SubmitEffect(p, c)
  BY SubmitFacts
<1>1. /\ c \in Node /\ c \in OutWorker(p) /\ progress[p][c] = "new"
      /\ q \notin Request /\ Request' = Request \cup {q}
      /\ visited'[q] = Forwarded(p, c)
      /\ \A r \in Request : visited'[r] = visited[r]
      /\ failed' = failed
  BY <1>e DEF SubmitEffect
<1>2. /\ progress'[q] = NewProgress(c, Forwarded(p, c))
      /\ progress'[p][c] = "submitted"
      /\ \A w \in Worker(p) \ {c} : progress'[p][w] = progress[p][w]
      /\ \A r \in Request \ {p} : progress'[r] = progress[r]
  BY <1>e DEF SubmitEffect
<1>3. NodeOf(q) = c
  BY <1>0, <1>1, RequestFacts
<1>4. VisitRequest(q)' = V!Forwarded(VisitRequest(p), c)
  <2>1. /\ VisitRequest(p).path = p /\ VisitRequest(p).node = NodeOf(p)
        /\ VisitRequest(p).visited = visited[p]
        /\ VisitChildren[NodeOf(p)] = ChildrenOf(NodeOf(p))
    BY <1>0, VisitRequestFacts
  <2>2. VisitRequest(q)' = [path |-> q, node |-> c, visited |-> Forwarded(p, c)]
    BY <1>1, <1>3 DEF VisitRequest
  <2>3. V!Forwarded(VisitRequest(p), c)
            = [path |-> q, node |-> c,
               visited |-> visited[p] \cup {NodeOf(p), c} \cup ChildrenOf(NodeOf(p))]
    BY <2>1 DEF V!Forwarded
  <2>4. QED
    BY <2>2, <2>3 DEF Forwarded
<1>5. \A r \in Request : VisitRequest(r)' = VisitRequest(r)
  BY <1>1 DEF VisitRequest
<1>6. VisitRequests' = VisitRequests \cup {V!Forwarded(VisitRequest(p), c)}
  <2>1. VisitRequests' = {VisitRequest(r)' : r \in Request'}
    BY DEF VisitRequests
  <2>2. VisitRequests = {VisitRequest(r) : r \in Request}
    BY DEF VisitRequests
  <2> HIDE DEF q
  <2>3. \A x : x \in VisitRequests' <=>
            x \in VisitRequests \/ x = V!Forwarded(VisitRequest(p), c)
    BY <1>1, <1>4, <1>5, <2>1, <2>2
  <2>4. QED
    BY <2>3
<1>7. \A r \in Request : Worker(r)' = Worker(r) /\ OutWorker(r)' = OutWorker(r)
  BY <1>1 DEF Worker, OutWorker
<1>8. \A d \in OutWorker(q)' : progress'[q][d] = "new"
  <2>1. OutWorker(q)' = (ChildrenOf(c) \ Forwarded(p, c)) \ {c}
    BY <1>1, <1>3 DEF OutWorker, Worker
  <2>2. QED
    BY <1>2, <2>1 DEF NewProgress
<1>9. AskedMeans /\ AskedMeans'
  BY AskedIs, PTL
<1>10. \A x : x \in VisitAsked' <=> x \in VisitAsked \cup {<<VisitRequest(p), c>>}
  <2>1. ASSUME NEW x, x \in VisitAsked' PROVE x \in VisitAsked \cup {<<VisitRequest(p), c>>}
    <3>1. PICK r \in Request' : \E d \in OutWorker(r)' :
              progress'[r][d] # "new" /\ x = <<VisitRequest(r)', d>>
      BY <1>9, <2>1 DEF AskedMeans
    <3>2. PICK d \in OutWorker(r)' :
              progress'[r][d] # "new" /\ x = <<VisitRequest(r)', d>>
      BY <3>1
    <3>3. r \in Request
      BY <1>1, <1>8, <3>2
    <3>4. d \in OutWorker(r) /\ x = <<VisitRequest(r), d>>
      BY <1>5, <1>7, <3>2, <3>3
    <3>5. CASE r = p /\ d = c
      BY <3>4, <3>5
    <3>6. CASE ~(r = p /\ d = c)
      <4>1. progress[r][d] # "new"
        BY <1>2, <3>2, <3>3, <3>4, <3>6 DEF OutWorker
      <4>2. QED
        BY <1>9, <3>3, <3>4, <4>1 DEF AskedMeans
    <3>7. QED
      BY <3>5, <3>6
  <2>2. ASSUME NEW x, x \in VisitAsked PROVE x \in VisitAsked'
    <3>1. PICK r \in Request : \E d \in OutWorker(r) :
              progress[r][d] # "new" /\ x = <<VisitRequest(r), d>>
      BY <1>9, <2>2 DEF AskedMeans
    <3>2. PICK d \in OutWorker(r) :
              progress[r][d] # "new" /\ x = <<VisitRequest(r), d>>
      BY <3>1
    <3>3. progress'[r][d] # "new"
      BY <1>2, <3>2 DEF OutWorker
    <3>4. r \in Request' /\ d \in OutWorker(r)' /\ x = <<VisitRequest(r)', d>>
      BY <1>1, <1>5, <1>7, <3>2
    <3>5. QED
      BY <1>9, <3>3, <3>4 DEF AskedMeans
  <2>3. <<VisitRequest(p), c>> \in VisitAsked'
    <3>1. p \in Request' /\ c \in OutWorker(p)' /\ VisitRequest(p)' = VisitRequest(p)
      BY <1>1, <1>5, <1>7
    <3>2. progress'[p][c] # "new"
      BY <1>2
    <3>3. QED
      BY <1>9, <3>1, <3>2 DEF AskedMeans
  <2>4. QED
    BY <2>1, <2>2, <2>3
<1>11. VisitAsked' = VisitAsked \cup {<<VisitRequest(p), c>>}
  <2>1. \A x \in VisitAsked' : x \in VisitAsked \cup {<<VisitRequest(p), c>>}
    BY <1>10
  <2>2. \A x \in VisitAsked \cup {<<VisitRequest(p), c>>} : x \in VisitAsked'
    BY <1>10
  <2>3. QED
    BY <2>1, <2>2
<1>12. V!ToAsk(VisitRequest(p), c) /\ VisitRequest(p) \in VisitRequests
  BY <1>0, <1>1, ToAskMeans, VisitRequestFacts
<1>13. VisitChildren' = VisitChildren
  BY DEF VisitChildren
<1>14. QED
  BY <1>1, <1>6, <1>11, <1>12, <1>13 DEF V!Ask

LEMMA GiveUpIsGiveUp ==
    ASSUME BaseInv, NEW p \in Request, NEW c, GiveUp(p, c)
    PROVE  /\ c \in Node /\ VisitRequest(p) \in VisitRequests
           /\ V!AskInVain(VisitRequest(p), c) \/ V!GiveUp(VisitRequest(p), c)
<1>0. TypeOK
  BY DEF BaseInv
<1>e. GiveUpEffect(p, c)
  BY GiveUpFacts
<1>1. /\ c \in Node /\ c \in OutWorker(p) /\ c \in MayFail
      /\ failed' = failed \cup {c} /\ visited' = visited
      /\ progress'[p][c] = "completed"
      /\ \A w \in Worker(p) \ {c} : progress'[p][w] = progress[p][w]
      /\ \A r \in Request \ {p} : progress'[r] = progress[r]
  BY <1>e DEF GiveUpEffect
<1>2. VisitRequest(p) \in VisitRequests /\ VisitChildren' = VisitChildren
  BY <1>0, VisitRequestFacts DEF VisitChildren
<1>3. CASE progress[p][c] # "new"
  <2>1. UNCHANGED <<VisitChildren, VisitRequests, VisitAsked>>
    <3>1. \A r \in Request : \A d \in OutWorker(r) :
              progress'[r][d] = "new" <=> progress[r][d] = "new"
      BY <1>1, <1>3 DEF OutWorker
    <3>2. QED
      BY <1>1, <3>1, VisitStutters
  <2>2. <<VisitRequest(p), c>> \in VisitAsked
    BY <1>1, <1>3, AskedAt
  <2>3. QED
    BY <1>1, <1>2, <2>1, <2>2 DEF V!GiveUp
<1>4. CASE progress[p][c] = "new"
  <2>1. /\ Request' = Request
        /\ \A r \in Request : OutWorker(r)' = OutWorker(r)
        /\ \A r \in Request : VisitRequest(r)' = VisitRequest(r)
    BY <1>1 DEF Request, OutWorker, Worker, VisitRequest
  <2>2. VisitRequests' = VisitRequests
    BY <2>1 DEF VisitRequests
  <2>3. AskedMeans /\ AskedMeans'
    BY AskedIs, PTL
  <2>4. VisitAsked' = VisitAsked \cup {<<VisitRequest(p), c>>}
    <3>1. ASSUME NEW x \in VisitAsked'
          PROVE  x \in VisitAsked \cup {<<VisitRequest(p), c>>}
      <4>1. PICK r \in Request : \E d \in OutWorker(r) :
                progress'[r][d] # "new" /\ x = <<VisitRequest(r), d>>
        BY <2>1, <2>3 DEF AskedMeans
      <4>2. PICK d \in OutWorker(r) :
                progress'[r][d] # "new" /\ x = <<VisitRequest(r), d>>
        BY <4>1
      <4>3. CASE r = p /\ d = c
        BY <4>2, <4>3
      <4>4. CASE ~(r = p /\ d = c)
        <5>1. progress[r][d] # "new"
          BY <1>1, <4>2, <4>4 DEF OutWorker
        <5>2. QED
          BY <2>3, <4>2, <5>1 DEF AskedMeans
      <4>5. QED
        BY <4>3, <4>4
    <3>2. ASSUME NEW x \in VisitAsked PROVE x \in VisitAsked'
      <4>1. PICK r \in Request : \E d \in OutWorker(r) :
                progress[r][d] # "new" /\ x = <<VisitRequest(r), d>>
        BY <2>3 DEF AskedMeans
      <4>2. PICK d \in OutWorker(r) :
                progress[r][d] # "new" /\ x = <<VisitRequest(r), d>>
        BY <4>1
      <4>3. progress'[r][d] # "new"
        BY <1>1, <4>2 DEF OutWorker
      <4>4. r \in Request' /\ d \in OutWorker(r)' /\ x = <<VisitRequest(r)', d>>
        BY <2>1, <4>2
      <4>5. QED
        BY <2>3, <4>3, <4>4 DEF AskedMeans
    <3>3. <<VisitRequest(p), c>> \in VisitAsked'
      <4>1. p \in Request' /\ c \in OutWorker(p)' /\ VisitRequest(p)' = VisitRequest(p)
        BY <1>1, <2>1
      <4>2. progress'[p][c] # "new"
        BY <1>1
      <4>3. QED
        BY <2>3, <4>1, <4>2 DEF AskedMeans
    <3>4. QED
      BY <3>1, <3>2, <3>3
  <2>5. V!ToAsk(VisitRequest(p), c)
    BY <1>0, <1>1, <1>4, ToAskMeans
  <2>6. QED
    BY <1>1, <1>2, <2>2, <2>4, <2>5 DEF V!AskInVain
<1>5. QED
  BY <1>1, <1>2, <1>3, <1>4

LEMMA InitVisit == Init => V!Init
<1> SUFFICES ASSUME Init PROVE V!Init
  OBVIOUS
<1>1. /\ Request = {<<Root>>} /\ NodeOf(<<Root>>) = Root
      /\ visited[<<Root>>] = {Root} /\ failed = {}
      /\ progress[<<Root>>] = NewProgress(Root, {Root})
      /\ Worker(<<Root>>) = {Root} \cup (ChildrenOf(Root) \ {Root})
  BY InitFacts
<1>2. VisitRequests = {V!RootRequest}
  BY <1>1 DEF VisitRequests, VisitRequest, V!RootRequest
<1>3. \A c \in OutWorker(<<Root>>) : progress[<<Root>>][c] = "new"
  BY <1>1 DEF OutWorker, NewProgress
<1>4. \A x : x \notin VisitAsked
  BY <1>1, <1>3, AskedIs DEF AskedMeans
<1>5. VisitAsked = {}
  BY <1>4
<1>6. QED
  BY <1>1, <1>2, <1>5 DEF V!Init

LEMMA NextVisit == BaseInv /\ [Next]_vars => [V!Next]_V!vars
<1> SUFFICES ASSUME BaseInv, [Next]_vars PROVE [V!Next]_V!vars
  OBVIOUS
<1>0. TypeOK
  BY DEF BaseInv
<1>a. ASSUME visited' = visited, failed' = failed,
             \A p \in Request : \A c \in OutWorker(p) :
                 progress'[p][c] = "new" <=> progress[p][c] = "new"
      PROVE  UNCHANGED V!vars
  BY <1>a, VisitStutters DEF V!vars
<1>1. CASE UNCHANGED vars
  BY <1>1, <1>a DEF vars, requestVars
<1>2. CASE ClientCalls
  BY <1>2, <1>a DEF ClientCalls
<1>3. CASE AnswerClient
  BY <1>3, <1>a DEF AnswerClient
<1>4. CASE \E n \in MayCrash : Crash(n)
  BY <1>4, <1>a, CrashKeepsBase
<1>5. ASSUME NEW p \in Request, FetchLocal(p) PROVE UNCHANGED V!vars
  <2>1. /\ visited' = visited /\ failed' = failed
        /\ \A w \in OutWorker(p) : progress'[p][w] = progress[p][w]
        /\ \A q \in Request \ {p} : progress'[q] = progress[q]
    BY <1>5, FetchLocalFacts
  <2>2. QED
    BY <2>1, <1>a
<1>6. ASSUME NEW p \in Request, SkipStep(p) PROVE UNCHANGED V!vars
  BY <1>6, <1>a DEF SkipStep
<1>7. ASSUME NEW p \in Request, NEW c \in Worker(p), SubmitToChild(p, c)
      PROVE  V!Next
  BY <1>0, <1>7, SubmitIsAsk, VisitRequestFacts DEF V!Next
<1>8. ASSUME NEW p \in Request, NEW c \in Worker(p), CallChild(p, c)
      PROVE  UNCHANGED V!vars
  BY <1>8, <1>a DEF CallChild
<1>9. ASSUME NEW p \in Request, NEW c \in Worker(p), AnswerCaller(p, c)
      PROVE  UNCHANGED V!vars
  <2>1. MergeEffect(p, c)
    BY <1>9, AnswerCallerFacts
  <2>2. /\ visited' = visited /\ failed' = failed
        /\ progress[p][c] = "submitted" /\ progress'[p][c] # "new"
        /\ \A w \in Worker(p) \ {c} : progress'[p][w] = progress[p][w]
        /\ \A r \in Request \ {p} : progress'[r] = progress[r]
    BY <2>1 DEF MergeEffect
  <2>3. \A r \in Request : \A d \in OutWorker(r) :
            progress'[r][d] = "new" <=> progress[r][d] = "new"
    BY <2>2 DEF OutWorker
  <2>4. QED
    BY <2>2, <2>3, <1>a
<1>10. ASSUME NEW p \in Request, AnswerNobody(p) PROVE UNCHANGED V!vars
  BY <1>10, <1>a DEF AnswerNobody
<1>11. ASSUME NEW p \in Request, NEW c, GiveUp(p, c) PROVE V!Next
  BY <1>11, GiveUpIsGiveUp DEF V!Next
<1>12. QED
  BY <1>1, <1>2, <1>3, <1>4, <1>5, <1>6, <1>7, <1>8, <1>9, <1>10, <1>11, StepCases

\* The overlay's requests and submits are those of OverlayVisit, for every
\* overlay: late answers, crashes and handlers that run on unheard send the
\* query nowhere OverlayVisit would not.
THEOREM QueryImplementsVisit == Spec => ImplementsVisit
<1>1. Init => Visit!Init
  BY InitVisit DEF V!Init, Visit!Init, V!RootRequest, Visit!RootRequest
<1>2. BaseInv /\ [Next]_vars => [Visit!Next]_Visit!vars
  BY NextVisit DEF V!Next, V!Ask, V!AskInVain, V!GiveUp, V!ToAsk, V!Forwarded, V!vars,
     Visit!Next, Visit!Ask, Visit!AskInVain, Visit!GiveUp, Visit!ToAsk,
     Visit!Forwarded, Visit!vars
<1>3. QED
  BY <1>1, <1>2, InitBase, NextBase, PTL DEF Spec, ImplementsVisit, Visit!Spec

-----------------------------------------------------------------------------
\* Completion.

\* What a step leaves of request p.
Keeps(p) ==
    /\ p \in Request' /\ Worker(p)' = Worker(p) /\ visited'[p] = visited[p]
    /\ \A w \in Worker(p) :
           progress[p][w] = "completed" => progress'[p][w] = "completed"
    /\ Done(p) => window'[p] = <<>>
    /\ NodeOf(p) \in down => progress'[p] = progress[p] /\ window'[p] = window[p]

LEMMA QuietKeeps ==
    ASSUME NEW p \in Request, UNCHANGED <<visited, progress, window>>
    PROVE  Keeps(p)
BY DEF Keeps, Request, Worker, Done

LEMMA OutwardAnswerKeeps ==
    ASSUME BaseInv, NEW p \in Request, NEW q \in Request, Answering(q),
           window' = [window EXCEPT ![q] = Rest(q)],
           visited' = visited, progress' = progress
    PROVE  Keeps(p)
<1>1. /\ DOMAIN window = Request /\ NodeOf(q) \notin down
      /\ p \in Request' /\ Worker(p)' = Worker(p)
  BY DEF BaseInv, TypeOK, Answering, Request, Worker
<1>2. window[q] = <<>> => Rest(q) = <<>>
  <2>1. TakenEffect(q)
    BY TakenFacts DEF BaseInv
  <2>2. QED
    BY <2>1 DEF TakenEffect
<1>3. QED
  BY <1>1, <1>2 DEF Keeps, Done

LEMMA FetchLocalKeeps ==
    ASSUME BaseInv, NEW p \in Request, NEW q \in Request, FetchLocal(q)
    PROVE  Keeps(p)
<1>1. /\ NodeOf(q) \notin down /\ progress[q][NodeOf(q)] # "completed"
      /\ visited' = visited
      /\ \A w \in OutWorker(q) : progress'[q][w] = progress[q][w]
      /\ \A r \in Request \ {q} : window'[r] = window[r] /\ progress'[r] = progress[r]
  BY FetchLocalFacts, TurnFacts
<1>2. p \in Request' /\ Worker(p)' = Worker(p) /\ NodeOf(q) \in Worker(q)
  BY <1>1 DEF Request, Worker
<1>3. QED
  BY <1>1, <1>2 DEF Keeps, Done, AllWorkersCompleted, OutWorker

LEMMA SubmitKeeps ==
    ASSUME BaseInv, NEW p \in Request, NEW q \in Request, NEW c \in Worker(q),
           SubmitToChild(q, c)
    PROVE  Keeps(p)
<1>e. SubmitEffect(q, c)
  BY SubmitFacts
<1>1. /\ NodeOf(q) \notin down /\ progress[q][c] = "new"
      /\ p \in Request' /\ visited'[p] = visited[p] /\ window'[p] = window[p]
      /\ \A w \in Worker(q) \ {c} : progress'[q][w] = progress[q][w]
      /\ \A r \in Request \ {q} : progress'[r] = progress[r]
  BY <1>e DEF SubmitEffect
<1>2. Worker(p)' = Worker(p)
  BY <1>1 DEF Worker
<1>3. QED
  BY <1>1, <1>2 DEF Keeps, Done

LEMMA GiveUpKeeps ==
    ASSUME BaseInv, NEW p \in Request, NEW q \in Request, NEW c, GiveUp(q, c)
    PROVE  Keeps(p)
<1>e. GiveUpEffect(q, c)
  BY GiveUpFacts
<1>1. /\ NodeOf(q) \notin down /\ progress'[q][c] = "completed"
      /\ visited' = visited /\ window' = window
      /\ \A w \in Worker(q) \ {c} : progress'[q][w] = progress[q][w]
      /\ \A r \in Request \ {q} : progress'[r] = progress[r]
  BY <1>e DEF GiveUpEffect
<1>2. p \in Request' /\ Worker(p)' = Worker(p)
  BY <1>1 DEF Request, Worker
<1>3. QED
  BY <1>1, <1>2 DEF Keeps, Done

LEMMA AnswerCallerKeeps ==
    ASSUME BaseInv, NEW p \in Request, NEW q \in Request, NEW c \in Worker(q),
           AnswerCaller(q, c)
    PROVE  Keeps(p)
<1> DEFINE s == Append(q, c)
<1>e. MergeEffect(q, c)
  BY AnswerCallerFacts
<1>1. /\ NodeOf(q) \notin down /\ progress[q][c] = "submitted"
      /\ s \in Request /\ s # q /\ Answering(s) /\ visited' = visited
      /\ window'[s] = Rest(s)
      /\ \A r \in Request \ {q, s} : window'[r] = window[r]
  BY <1>e DEF MergeEffect
<1>2. /\ \A w \in Worker(q) \ {c} : progress'[q][w] = progress[q][w]
      /\ \A r \in Request \ {q} : progress'[r] = progress[r]
  BY <1>e DEF MergeEffect
<1>3. window[s] = <<>> => Rest(s) = <<>>
  <2>1. TakenEffect(s)
    BY <1>1, TakenFacts DEF BaseInv
  <2>2. QED
    BY <2>1 DEF TakenEffect
<1>4. NodeOf(s) \notin down
  BY <1>1 DEF Answering
<1>5. p \in Request' /\ Worker(p)' = Worker(p)
  BY <1>1 DEF Request, Worker
<1>6. ~Done(q)
  BY <1>1 DEF Done, AllWorkersCompleted
<1> HIDE DEF s
<1>7. CASE p = q
  BY <1>1, <1>2, <1>5, <1>6, <1>7 DEF Keeps
<1>8. CASE p = s
  BY <1>1, <1>2, <1>3, <1>4, <1>5, <1>8 DEF Keeps, Done
<1>9. CASE p \notin {q, s}
  BY <1>1, <1>2, <1>5, <1>9 DEF Keeps, Done
<1>10. QED
  BY <1>7, <1>8, <1>9

LEMMA NextKeeps ==
    ASSUME BaseInv, [Next]_vars, NEW p \in Request PROVE Keeps(p)
<1>1. CASE UNCHANGED vars
  BY <1>1, QuietKeeps DEF vars, requestVars
<1>2. CASE ClientCalls
  BY <1>2, QuietKeeps DEF ClientCalls
<1>3. CASE AnswerClient
  <2>1. <<Root>> \in Request
    BY DEF BaseInv, TypeOK
  <2>2. QED
    BY <1>3, <2>1, OutwardAnswerKeeps DEF AnswerClient
<1>4. CASE \E n \in MayCrash : Crash(n)
  BY <1>4, CrashKeepsBase, QuietKeeps
<1>5. ASSUME NEW q \in Request, FetchLocal(q) PROVE Keeps(p)
  BY <1>5, FetchLocalKeeps
<1>6. ASSUME NEW q \in Request, SkipStep(q) PROVE Keeps(p)
  BY <1>6, QuietKeeps DEF SkipStep
<1>7. ASSUME NEW q \in Request, NEW c \in Worker(q), SubmitToChild(q, c)
      PROVE  Keeps(p)
  BY <1>7, SubmitKeeps
<1>8. ASSUME NEW q \in Request, NEW c \in Worker(q), CallChild(q, c)
      PROVE  Keeps(p)
  BY <1>8, QuietKeeps DEF CallChild
<1>9. ASSUME NEW q \in Request, NEW c \in Worker(q), AnswerCaller(q, c)
      PROVE  Keeps(p)
  BY <1>9, AnswerCallerKeeps
<1>10. ASSUME NEW q \in Request, AnswerNobody(q) PROVE Keeps(p)
  BY <1>10, OutwardAnswerKeeps DEF AnswerNobody
<1>11. ASSUME NEW q \in Request, NEW c, GiveUp(q, c) PROVE Keeps(p)
  BY <1>11, GiveUpKeeps
<1>12. QED
  BY <1>1, <1>2, <1>3, <1>4, <1>5, <1>6, <1>7, <1>8, <1>9, <1>10, <1>11, StepCases

\* What is done stays done.
LEMMA DoneStays ==
    ASSUME BaseInv, [Next]_vars, NEW p \in Request, Done(p)
    PROVE  p \in Request' /\ Done(p)'
BY NextKeeps DEF Keeps, Done, AllWorkersCompleted

\* It is enough to look at the workers a step completes.
LEMMA CompletionsKeepDone ==
    ASSUME BaseInv, DoneInv, [Next]_vars, failed \subseteq failed',
           told' => told \/ Done(<<Root>>)',
           \A p \in Request' :
               progress'[p][NodeOf(p)] = "completed" =>
                   \/ p \in Request /\ progress[p][NodeOf(p)] = "completed"
                      /\ left'[p] = left[p]
                   \/ left'[p] = 0,
           \A p \in Request' : \A c \in OutWorker(p)' :
               progress'[p][c] = "completed" =>
                   \/ p \in Request /\ progress[p][c] = "completed"
                   \/ c \in failed'
                   \/ Append(p, c) \in Request' /\ Done(Append(p, c))'
    PROVE  DoneInv'
<1>1. \A p \in Request' : progress'[p][NodeOf(p)] = "completed" => left'[p] = 0
  BY DEF DoneInv
<1>2. ASSUME NEW p \in Request', NEW c \in OutWorker(p)',
             progress'[p][c] = "completed"
      PROVE  c \in failed' \/ (Append(p, c) \in Request' /\ Done(Append(p, c))')
  <2>1. CASE p \in Request /\ progress[p][c] = "completed"
    <3>1. Worker(p)' = Worker(p)
      BY <2>1, NextKeeps DEF Keeps
    <3>2. c \in OutWorker(p)
      BY <3>1 DEF OutWorker
    <3>3. c \in failed \/ (Append(p, c) \in Request /\ Done(Append(p, c)))
      BY <2>1, <3>2 DEF DoneInv
    <3>4. QED
      BY <3>3, DoneStays
  <2>2. QED
    BY <1>2, <2>1
<1>3. told' => Done(<<Root>>)'
  <2>1. <<Root>> \in Request
    BY DEF BaseInv, TypeOK
  <2>2. told => Done(<<Root>>)'
    BY <2>1, DoneStays DEF DoneInv
  <2>3. QED
    BY <2>2
<1>4. QED
  BY <1>1, <1>2, <1>3 DEF DoneInv

LEMMA QuietKeepsDone ==
    ASSUME BaseInv, DoneInv, [Next]_vars,
           UNCHANGED <<visited, progress, left>>, failed' = failed,
           told' => told \/ Done(<<Root>>)'
    PROVE  DoneInv'
<1>1. Request' = Request
  BY DEF Request
<1>2. QED
  BY <1>1, CompletionsKeepDone

\* An answer that says "done" leaves its request done.
LEMMA IsDoneMeansDone ==
    ASSUME NEW p \in Request, IsDone(p), window'[p] = Rest(p),
           visited'[p] = visited[p], progress'[p] = progress[p]
    PROVE  Done(p)'
BY DEF IsDone, Done, AllWorkersCompleted, Worker

LEMMA NextDone == BaseInv /\ DoneInv /\ [Next]_vars => DoneInv'
<1> SUFFICES ASSUME BaseInv, DoneInv, [Next]_vars PROVE DoneInv'
  OBVIOUS
<1>0. TypeOK /\ <<Root>> \in Request /\ DOMAIN window = Request
  BY DEF BaseInv, TypeOK
<1>1. CASE UNCHANGED vars
  BY <1>1, QuietKeepsDone DEF vars, requestVars
<1>2. CASE ClientCalls
  BY <1>2, QuietKeepsDone DEF ClientCalls
<1>3. CASE AnswerClient
  <2>1. /\ UNCHANGED <<visited, progress, left>> /\ failed' = failed
        /\ window'[<<Root>>] = Rest(<<Root>>) /\ told' = IsDone(<<Root>>)
    BY <1>0, <1>3 DEF AnswerClient
  <2>2. told' => Done(<<Root>>)'
    BY <1>0, <2>1, IsDoneMeansDone
  <2>3. QED
    BY <2>1, <2>2, QuietKeepsDone
<1>4. CASE \E n \in MayCrash : Crash(n)
  BY <1>4, CrashKeepsBase, QuietKeepsDone
<1>5. ASSUME NEW q \in Request, FetchLocal(q) PROVE DoneInv'
  <2>1. /\ progress'[q][NodeOf(q)] = "completed" => left'[q] = 0
        /\ \A w \in OutWorker(q) : progress'[q][w] = progress[q][w]
        /\ \A r \in Request \ {q} : /\ left'[r] = left[r]
                                    /\ progress'[r] = progress[r]
        /\ visited' = visited /\ failed' = failed /\ told' = told
    BY <1>5, FetchLocalFacts
  <2>2. Request' = Request /\ \A p \in Request : OutWorker(p)' = OutWorker(p)
    BY <2>1 DEF Request, OutWorker, Worker
  <2>3. \A p \in Request' : \A c \in OutWorker(p)' : progress'[p][c] = progress[p][c]
    BY <2>1, <2>2
  <2>4. \A p \in Request' :
            progress'[p][NodeOf(p)] = "completed" =>
                \/ progress[p][NodeOf(p)] = "completed" /\ left'[p] = left[p]
                \/ left'[p] = 0
    BY <2>1, <2>2
  <2>5. QED
    BY <2>1, <2>2, <2>3, <2>4, CompletionsKeepDone
<1>6. ASSUME NEW q \in Request, SkipStep(q) PROVE DoneInv'
  BY <1>6, QuietKeepsDone DEF SkipStep
<1>7. ASSUME NEW q \in Request, NEW c \in Worker(q), SubmitToChild(q, c)
      PROVE  DoneInv'
  <2> DEFINE s == Append(q, c)
  <2>e. SubmitEffect(q, c)
    BY <1>7, SubmitFacts
  <2>1. /\ progress'[s] = NewProgress(c, Forwarded(q, c))
        /\ progress'[q][c] = "submitted" /\ c \in OutWorker(q) /\ c \in Node
        /\ \A w \in Worker(q) \ {c} : progress'[q][w] = progress[q][w]
        /\ \A r \in Request \ {q} : progress'[r] = progress[r]
    BY <2>e DEF SubmitEffect
  <2>2. /\ s \notin Request /\ Request' = Request \cup {s}
        /\ \A r \in Request : visited'[r] = visited[r] /\ left'[r] = left[r]
        /\ visited'[s] = Forwarded(q, c)
        /\ UNCHANGED <<failed, told>>
    BY <2>e DEF SubmitEffect
  <2>3. NodeOf(s) = c
    BY <1>0, <2>1, RequestFacts
  <2>4. Worker(s)' = {c} \cup (ChildrenOf(c) \ Forwarded(q, c))
    BY <2>2, <2>3 DEF Worker
  <2>5. \A w \in Worker(s)' : progress'[s][w] # "completed"
    BY <2>1, <2>4 DEF NewProgress
  <2>6. \A p \in Request : Worker(p)' = Worker(p) /\ NodeOf(p) \in Worker(p)
    BY <2>2 DEF Worker
  <2>7. c # NodeOf(q)
    BY <2>1 DEF OutWorker
  <2>8. ASSUME NEW p \in Request', NEW w \in Worker(p)', progress'[p][w] = "completed"
        PROVE  p \in Request /\ progress[p][w] = "completed"
    <3>1. p \in Request /\ w \in Worker(p)
      BY <2>2, <2>5, <2>6, <2>8
    <3>2. QED
      BY <2>1, <2>8, <3>1
  <2>9. ASSUME NEW p \in Request'
        PROVE  /\ NodeOf(p) \in Worker(p)' /\ OutWorker(p)' \subseteq Worker(p)'
    BY DEF Worker, OutWorker
  <2>10. \A p \in Request : left'[p] = left[p]
    BY <2>2
  <2> HIDE DEF s
  <2>11. QED
    BY <2>2, <2>8, <2>9, <2>10, CompletionsKeepDone
<1>8. ASSUME NEW q \in Request, NEW c \in Worker(q), CallChild(q, c)
      PROVE  DoneInv'
  BY <1>8, QuietKeepsDone DEF CallChild
<1>9. ASSUME NEW q \in Request, NEW c \in Worker(q), AnswerCaller(q, c)
      PROVE  DoneInv'
  <2> DEFINE s == Append(q, c)
  <2>e. MergeEffect(q, c)
    BY <1>9, AnswerCallerFacts
  <2>1. /\ s \in Request /\ s # q /\ window'[s] = Rest(s) /\ c \in OutWorker(q)
        /\ UNCHANGED <<visited, left, failed, told>>
    BY <2>e DEF MergeEffect
  <2>2. /\ progress'[q][c] = IF IsDone(s) THEN "completed" ELSE "submitted"
        /\ \A w \in Worker(q) \ {c} : progress'[q][w] = progress[q][w]
        /\ \A r \in Request \ {q} : progress'[r] = progress[r]
    BY <2>e DEF MergeEffect
  <2>3. Request' = Request /\ \A p \in Request : Worker(p)' = Worker(p)
    BY <2>1 DEF Request, Worker
  <2>4. progress'[q][c] = "completed" => Done(s)'
    BY <2>1, <2>2, IsDoneMeansDone
  <2>5. ASSUME NEW p \in Request', NEW w \in Worker(p)', progress'[p][w] = "completed"
        PROVE  progress[p][w] = "completed" \/ (p = q /\ w = c)
    BY <2>2, <2>3, <2>5
  <2>6. ASSUME NEW p \in Request'
        PROVE  NodeOf(p) \in Worker(p)' /\ OutWorker(p)' \subseteq Worker(p)'
    BY DEF Worker, OutWorker
  <2>7. c # NodeOf(q)
    BY <2>1 DEF OutWorker
  <2>8. \A p \in Request' :
            progress'[p][NodeOf(p)] = "completed" =>
                p \in Request /\ progress[p][NodeOf(p)] = "completed"
                /\ left'[p] = left[p]
    BY <2>1, <2>3, <2>5, <2>6, <2>7
  <2>9. \A p \in Request' : \A w \in OutWorker(p)' :
            progress'[p][w] = "completed" =>
                \/ p \in Request /\ progress[p][w] = "completed"
                \/ Append(p, w) \in Request' /\ Done(Append(p, w))'
    <3>1. ASSUME NEW p \in Request', NEW w \in OutWorker(p)',
                 progress'[p][w] = "completed"
          PROVE  \/ p \in Request /\ progress[p][w] = "completed"
                 \/ Append(p, w) \in Request' /\ Done(Append(p, w))'
      <4>1. CASE p = q /\ w = c
        BY <2>1, <2>3, <2>4, <3>1, <4>1
      <4>2. QED
        BY <2>3, <2>5, <2>6, <3>1, <4>1
    <3>2. QED
      BY <3>1
  <2> HIDE DEF s
  <2>10. QED
    BY <2>1, <2>8, <2>9, CompletionsKeepDone
<1>10. ASSUME NEW q \in Request, AnswerNobody(q) PROVE DoneInv'
  BY <1>10, QuietKeepsDone DEF AnswerNobody
<1>11. ASSUME NEW q \in Request, NEW c, GiveUp(q, c) PROVE DoneInv'
  <2>e. GiveUpEffect(q, c)
    BY <1>11, GiveUpFacts
  <2>1. /\ c \in OutWorker(q) /\ failed' = failed \cup {c}
        /\ UNCHANGED <<visited, left, told>>
        /\ \A w \in Worker(q) \ {c} : progress'[q][w] = progress[q][w]
        /\ \A r \in Request \ {q} : progress'[r] = progress[r]
    BY <2>e DEF GiveUpEffect
  <2>2. Request' = Request /\ \A p \in Request : Worker(p)' = Worker(p)
    BY <2>1 DEF Request, Worker
  <2>3. ASSUME NEW p \in Request', NEW w \in Worker(p)', progress'[p][w] = "completed"
        PROVE  progress[p][w] = "completed" \/ (p = q /\ w = c)
    BY <2>1, <2>2, <2>3
  <2>4. ASSUME NEW p \in Request'
        PROVE  NodeOf(p) \in Worker(p)' /\ OutWorker(p)' \subseteq Worker(p)'
    BY DEF Worker, OutWorker
  <2>5. c # NodeOf(q)
    BY <2>1 DEF OutWorker
  <2>6. \A p \in Request' :
            progress'[p][NodeOf(p)] = "completed" =>
                p \in Request /\ progress[p][NodeOf(p)] = "completed"
                /\ left'[p] = left[p]
    BY <2>1, <2>2, <2>3, <2>4, <2>5
  <2>7. \A p \in Request' : \A w \in OutWorker(p)' :
            progress'[p][w] = "completed" =>
                (p \in Request /\ progress[p][w] = "completed") \/ w \in failed'
    BY <2>1, <2>2, <2>3, <2>4
  <2>8. QED
    BY <2>1, <2>6, <2>7, CompletionsKeepDone
<1>12. QED
  BY <1>1, <1>2, <1>3, <1>4, <1>5, <1>6, <1>7, <1>8, <1>9, <1>10, <1>11, StepCases

LEMMA InitDone == Init => DoneInv
<1> SUFFICES ASSUME Init PROVE DoneInv
  OBVIOUS
<1>1. /\ Request = {<<Root>>} /\ NodeOf(<<Root>>) = Root /\ told = FALSE
      /\ progress[<<Root>>] = NewProgress(Root, {Root})
      /\ Worker(<<Root>>) = {Root} \cup (ChildrenOf(Root) \ {Root})
  BY InitFacts
<1>2. \A w \in Worker(<<Root>>) : progress[<<Root>>][w] # "completed"
  BY <1>1 DEF NewProgress
<1>3. QED
  BY <1>1, <1>2 DEF DoneInv, OutWorker

-----------------------------------------------------------------------------
\* Rows of sequences.

LEMMA RowsOfConcat ==
    ASSUME NEW s \in Seq(Row), NEW t \in Seq(Row)
    PROVE  RowsOf(s \o t) = RowsOf(s) \cup RowsOf(t)
<1>1. /\ s \o t \in Seq(Row) /\ Len(s \o t) = Len(s) + Len(t)
      /\ \A i \in 1 .. Len(s) + Len(t) :
             (s \o t)[i] = IF i <= Len(s) THEN s[i] ELSE t[i - Len(s)]
  BY ConcatProperties
<1>2. /\ Len(s) \in Nat /\ Len(t) \in Nat
      /\ DOMAIN s = 1 .. Len(s) /\ DOMAIN t = 1 .. Len(t)
      /\ DOMAIN (s \o t) = 1 .. Len(s) + Len(t)
  BY <1>1, LenProperties
<1> DEFINE u == s \o t
<1> HIDE DEF u
<1>3. \A i \in DOMAIN u : u[i] \in RowsOf(s) \cup RowsOf(t)
  <2>1. ASSUME NEW i \in DOMAIN u PROVE u[i] \in RowsOf(s) \cup RowsOf(t)
    <3>1. CASE i <= Len(s)
      BY <1>1, <1>2, <3>1 DEF RowsOf, u
    <3>2. CASE ~(i <= Len(s))
      <4>1. i - Len(s) \in 1 .. Len(t)
        BY <1>2, <3>2 DEF u
      <4>2. u[i] = t[i - Len(s)]
        BY <1>1, <1>2, <3>2 DEF u
      <4>3. QED
        BY <1>2, <4>1, <4>2 DEF RowsOf
    <3>3. QED
      BY <3>1, <3>2
  <2>2. QED
    BY <2>1
<1>4. \A i \in 1 .. Len(s) : i \in DOMAIN u /\ u[i] = s[i]
  BY <1>1, <1>2 DEF u
<1>5. \A i \in 1 .. Len(t) : Len(s) + i \in DOMAIN u /\ u[Len(s) + i] = t[i]
  <2>1. ASSUME NEW i \in 1 .. Len(t)
        PROVE  Len(s) + i \in DOMAIN u /\ u[Len(s) + i] = t[i]
    <3>1. /\ Len(s) + i \in 1 .. Len(s) + Len(t) /\ ~(Len(s) + i <= Len(s))
          /\ (Len(s) + i) - Len(s) = i
      BY <1>2
    <3>2. QED
      BY <1>1, <1>2, <3>1 DEF u
  <2>2. QED
    BY <2>1
<1>6. RowsOf(s) \subseteq RowsOf(u)
  BY <1>2, <1>4 DEF RowsOf
<1>7. RowsOf(t) \subseteq RowsOf(u)
  BY <1>2, <1>5 DEF RowsOf
<1>8. RowsOf(u) \subseteq RowsOf(s) \cup RowsOf(t)
  BY <1>3 DEF RowsOf
<1>9. QED
  BY <1>6, <1>7, <1>8 DEF u

\* An answer splits the window.
LEMMA RowsOfWindow ==
    ASSUME TypeOK, NEW p \in Request
    PROVE  RowsOf(window[p]) = RowsOf(Taken(p)) \cup RowsOf(Rest(p))
<1> DEFINE s == window[p]
           t == Taken(p)
           u == Rest(p)
<1>1. /\ s \in Seq(Row) /\ t \in Seq(Row) /\ u \in Seq(Row)
      /\ Len(t) \in 0 .. Len(s) /\ Len(s) \in Nat /\ Len(u) = Len(s) - Len(t)
      /\ \A i \in 1 .. Len(t) : t[i] = s[i]
      /\ \A i \in 1 .. Len(u) : u[i] = s[Len(t) + i]
  BY TakenFacts DEF TakenEffect
<1> HIDE DEF s, t, u
<1>2. /\ DOMAIN s = 1 .. Len(s) /\ DOMAIN t = 1 .. Len(t) /\ DOMAIN u = 1 .. Len(u)
  BY <1>1, LenProperties
<1>3. ASSUME NEW i \in 1 .. Len(s) PROVE s[i] \in RowsOf(t) \cup RowsOf(u)
  <2>1. CASE i <= Len(t)
    <3>1. i \in 1 .. Len(t)
      BY <1>1, <2>1
    <3>2. t[i] = s[i]
      BY <1>1, <3>1
    <3>3. QED
      BY <1>2, <3>1, <3>2 DEF RowsOf
  <2>2. CASE ~(i <= Len(t))
    <3>1. i - Len(t) \in 1 .. Len(u) /\ Len(t) + (i - Len(t)) = i
      BY <1>1, <2>2
    <3>2. u[i - Len(t)] = s[i]
      BY <1>1, <3>1
    <3>3. QED
      BY <1>2, <3>1, <3>2 DEF RowsOf
  <2>3. QED
    BY <2>1, <2>2
<1>4. \A i \in 1 .. Len(t) : i \in 1 .. Len(s)
  BY <1>1
<1>5. \A i \in 1 .. Len(u) : Len(t) + i \in 1 .. Len(s)
  BY <1>1
<1>6. RowsOf(t) \subseteq RowsOf(s) /\ RowsOf(u) \subseteq RowsOf(s)
  <2>1. \A i \in DOMAIN t : t[i] \in RowsOf(s)
    BY <1>1, <1>2, <1>4 DEF RowsOf
  <2>2. \A i \in DOMAIN u : u[i] \in RowsOf(s)
    <3>1. ASSUME NEW i \in 1 .. Len(u) PROVE u[i] \in RowsOf(s)
      <4>1. u[i] = s[Len(t) + i] /\ Len(t) + i \in 1 .. Len(s)
        BY <1>1, <1>5
      <4>2. QED
        BY <1>2, <4>1 DEF RowsOf
    <3>2. QED
      BY <1>2, <3>1
  <2>3. QED
    BY <2>1, <2>2 DEF RowsOf
<1>7. RowsOf(s) \subseteq RowsOf(t) \cup RowsOf(u)
  BY <1>2, <1>3 DEF RowsOf
<1>8. QED
  BY <1>6, <1>7 DEF s, t, u

-----------------------------------------------------------------------------
\* Where the rows are.

Held(p, r) ==
    \/ r \in RowsOf(out)
    \/ \E q \in Request : Above(q, p) /\ r \in RowsOf(window[q])

LEMMA FailuresGrow ==
    ASSUME [Next]_vars PROVE failed \subseteq failed' /\ down \subseteq down'
BY DEF Next, HandlerStep, ClientCalls, AnswerClient, Crash, FetchLocal, SkipVisited,
       SkipCompleted, SubmitToChild, CallChild, AnswerCaller, AnswerNobody, GiveUp,
       vars

LEMMA CutOffStays ==
    ASSUME BaseInv, [Next]_vars, NEW p \in Request, CutOff(p)
    PROVE  CutOff(p)'
<1>1. PICK q \in Request : /\ Above(q, p)
                           /\ \/ NodeOf(q) \in failed
                              \/ NodeOf(q) \in down /\ ~Done(q)
  BY DEF CutOff
<1>2. failed \subseteq failed' /\ down \subseteq down'
  BY FailuresGrow
<1>3. Keeps(q)
  BY NextKeeps
<1>4. q \in Request'
  BY <1>3 DEF Keeps
<1>5. CASE NodeOf(q) \in failed
  BY <1>1, <1>2, <1>4, <1>5 DEF CutOff
<1>6. CASE NodeOf(q) \in down /\ ~Done(q)
  <2>1. ~Done(q)'
    BY <1>3, <1>6 DEF Keeps, Done, AllWorkersCompleted
  <2>2. QED
    BY <1>1, <1>2, <1>4, <1>6, <2>1 DEF CutOff
<1>7. QED
  BY <1>1, <1>5, <1>6

\* A step that leaves the rows where they are, or adds to them.
LEMMA HeldStays ==
    ASSUME NEW p \in Request, NEW r, Held(p, r),
           Request \subseteq Request', RowsOf(out) \subseteq RowsOf(out)',
           \A q \in Request : RowsOf(window[q]) \subseteq RowsOf(window[q])'
    PROVE  Held(p, r)'
BY DEF Held

\* A row comes from a local worker into the window of its own request.
LEMMA FetchLocalFetches ==
    ASSUME BaseInv, NEW q \in Request, FetchLocal(q)
    PROVE  /\ RowsOf(window'[q]) = RowsOf(window[q]) \cup RowsOf(LocalBatch(q))
           /\ Fetched(q)' = Fetched(q) \cup RowsOf(LocalBatch(q))
           /\ Fetched(q) \cap RowsOf(LocalBatch(q)) = {}
<1> DEFINE n == NodeOf(q)
           k == AtMost(ChunkSize, left[q])
<1>1. /\ k \in 0 .. left[q] /\ left'[q] = left[q] - k
      /\ LocalBatch(q) \in Seq(Row) /\ window'[q] = window[q] \o LocalBatch(q)
  BY FetchLocalFacts
<1>2. window[q] \in Seq(Row) /\ left[q] \in 0 .. Supply[n]
  BY DEF BaseInv, TypeOK, RequestTypeOK
<1>3. n \in Node /\ Supply[n] \in Nat
  <2>1. n \in Node
    BY RequestFacts DEF BaseInv
  <2>2. QED
    BY <2>1
<1>4. RowsOf(LocalBatch(q)) = {<<n, Supply[n] - left[q] + i>> : i \in 1 .. k}
  BY DEF RowsOf, LocalBatch
<1> HIDE DEF k
<1>5. RowsOf(window'[q]) = RowsOf(window[q]) \cup RowsOf(LocalBatch(q))
  BY <1>1, <1>2, RowsOfConcat
<1>6. Fetched(q) = {<<n, i>> : i \in 1 .. Supply[n] - left[q]}
  BY DEF Fetched
<1>7. Fetched(q)' = {<<n, i>> : i \in 1 .. Supply[n] - left'[q]}
  BY DEF Fetched
<1>a. Supply[n] - left[q] \in Nat /\ k \in Nat
      /\ Supply[n] - left'[q] = (Supply[n] - left[q]) + k
  BY <1>1, <1>2, <1>3
<1> DEFINE m == Supply[n] - left[q]
           m2 == Supply[n] - left'[q]
<1> HIDE DEF m, m2, n
<1>b. m \in Nat /\ m2 = m + k /\ k \in Nat
  BY <1>a DEF m, m2
<1>8. {<<n, i>> : i \in 1 .. m2}
          = {<<n, i>> : i \in 1 .. m} \cup {<<n, m + i>> : i \in 1 .. k}
  <2>1. ASSUME NEW i \in 1 .. m2
        PROVE  <<n, i>> \in {<<n, j>> : j \in 1 .. m} \cup {<<n, m + j>> : j \in 1 .. k}
    <3>1. CASE i \in 1 .. m
      BY <3>1
    <3>2. CASE i \notin 1 .. m
      <4>1. i - m \in 1 .. k /\ m + (i - m) = i
        BY <1>b, <3>2
      <4>2. QED
        BY <4>1
    <3>3. QED
      BY <3>1, <3>2
  <2>2. \A i \in 1 .. m : i \in 1 .. m2
    BY <1>b
  <2>3. \A i \in 1 .. k : m + i \in 1 .. m2
    BY <1>b
  <2>4. QED
    BY <2>1, <2>2, <2>3
<1>9. {<<n, i>> : i \in 1 .. m} \cap {<<n, m + i>> : i \in 1 .. k} = {}
  BY <1>b
<1>10. QED
  BY <1>4, <1>5, <1>6, <1>7, <1>8, <1>9 DEF m, m2

LEMMA NextFetched ==
    ASSUME BaseInv, [Next]_vars, NEW p \in Request', NEW r \in Fetched(p)'
    PROVE  \/ p \in Request /\ r \in Fetched(p)
           \/ r \in RowsOf(window'[p])
<1>a. ASSUME UNCHANGED <<visited, left>> PROVE p \in Request /\ r \in Fetched(p)
  BY <1>a DEF Request, Fetched
<1>1. CASE UNCHANGED vars
  BY <1>1, <1>a DEF vars, requestVars
<1>2. CASE ClientCalls
  BY <1>2, <1>a DEF ClientCalls
<1>3. CASE AnswerClient
  BY <1>3, <1>a DEF AnswerClient
<1>4. CASE \E n \in MayCrash : Crash(n)
  BY <1>4, <1>a, CrashKeepsBase
<1>5. ASSUME NEW q \in Request, FetchLocal(q)
      PROVE  (p \in Request /\ r \in Fetched(p)) \/ r \in RowsOf(window'[p])
  <2>1. /\ visited' = visited
        /\ \A s \in Request \ {q} : left'[s] = left[s]
    BY <1>5, FetchLocalFacts
  <2>2. p \in Request
    BY <2>1 DEF Request
  <2>3. CASE p = q
    BY <1>5, <2>3, FetchLocalFetches
  <2>4. CASE p # q
    BY <2>1, <2>2, <2>4 DEF Fetched
  <2>5. QED
    BY <2>3, <2>4
<1>6. ASSUME NEW q \in Request, SkipStep(q) PROVE p \in Request /\ r \in Fetched(p)
  BY <1>6, <1>a DEF SkipStep
<1>7. ASSUME NEW q \in Request, NEW c \in Worker(q), SubmitToChild(q, c)
      PROVE  p \in Request /\ r \in Fetched(p)
  <2>1. SubmitEffect(q, c)
    BY <1>7, SubmitFacts
  <2>2. /\ Request' = Request \cup {Append(q, c)} /\ c \in Node
        /\ left'[Append(q, c)] = Supply[c]
        /\ \A s \in Request : left'[s] = left[s]
    BY <2>1 DEF SubmitEffect
  <2>3. NodeOf(Append(q, c)) = c
    BY <2>2, RequestFacts DEF BaseInv
  <2>4. Fetched(Append(q, c))' = {}
    BY <2>2, <2>3 DEF Fetched
  <2>5. p \in Request
    BY <2>2, <2>4
  <2>6. QED
    BY <2>2, <2>5 DEF Fetched
<1>8. ASSUME NEW q \in Request, NEW c \in Worker(q), CallChild(q, c)
      PROVE  p \in Request /\ r \in Fetched(p)
  BY <1>8, <1>a DEF CallChild
<1>9. ASSUME NEW q \in Request, NEW c \in Worker(q), AnswerCaller(q, c)
      PROVE  p \in Request /\ r \in Fetched(p)
  BY <1>9, <1>a DEF AnswerCaller
<1>10. ASSUME NEW q \in Request, AnswerNobody(q) PROVE p \in Request /\ r \in Fetched(p)
  BY <1>10, <1>a DEF AnswerNobody
<1>11. ASSUME NEW q \in Request, NEW c, GiveUp(q, c)
       PROVE  p \in Request /\ r \in Fetched(p)
  BY <1>11, <1>a DEF GiveUp
<1>12. QED
  BY <1>1, <1>2, <1>3, <1>4, <1>5, <1>6, <1>7, <1>8, <1>9, <1>10, <1>11, StepCases

\* Where an answer's rows go.
LEMMA AnswerClientMoves ==
    ASSUME BaseInv, AnswerClient
    PROVE  LET p == <<Root>>
           IN  /\ p \in Request /\ visited' = visited
               /\ RowsOf(out') = RowsOf(out) \cup RowsOf(Taken(p))
               /\ window'[p] = Rest(p)
               /\ RowsOf(window[p]) = RowsOf(Taken(p)) \cup RowsOf(Rest(p))
               /\ \A q \in Request \ {p} : window'[q] = window[q]
<1> DEFINE p == <<Root>>
<1>1. p \in Request /\ TypeOK /\ DOMAIN window = Request /\ out \in Seq(Row)
  BY DEF BaseInv, TypeOK
<1>2. /\ out' = out \o Taken(p) /\ visited' = visited
      /\ window' = [window EXCEPT ![p] = Rest(p)]
  BY DEF AnswerClient
<1>3. Taken(p) \in Seq(Row)
  BY <1>1, TakenFacts DEF TakenEffect
<1>4. RowsOf(out') = RowsOf(out) \cup RowsOf(Taken(p))
  BY <1>1, <1>2, <1>3, RowsOfConcat
<1>5. RowsOf(window[p]) = RowsOf(Taken(p)) \cup RowsOf(Rest(p))
  BY <1>1, RowsOfWindow
<1> HIDE DEF p
<1>6. window'[p] = Rest(p) /\ \A q \in Request \ {p} : window'[q] = window[q]
  BY <1>1, <1>2
<1>7. QED
  BY <1>1, <1>2, <1>4, <1>5, <1>6 DEF p

LEMMA AnswerCallerMoves ==
    ASSUME BaseInv, NEW p \in Request, NEW c \in Worker(p), AnswerCaller(p, c)
    PROVE  LET q == Append(p, c)
           IN  /\ c \in Node /\ q \in Request /\ q # p
               /\ visited' = visited /\ out' = out
               /\ RowsOf(window'[p]) = RowsOf(window[p]) \cup RowsOf(Taken(q))
               /\ window'[q] = Rest(q)
               /\ RowsOf(window[q]) = RowsOf(Taken(q)) \cup RowsOf(Rest(q))
               /\ \A s \in Request \ {p, q} : window'[s] = window[s]
<1> DEFINE q == Append(p, c)
<1>e. MergeEffect(p, c)
  BY AnswerCallerFacts
<1>1. /\ c \in Node /\ q \in Request /\ q # p /\ visited' = visited /\ out' = out
      /\ window'[p] = window[p] \o Taken(q) /\ window'[q] = Rest(q)
      /\ \A s \in Request \ {p, q} : window'[s] = window[s]
  BY <1>e DEF MergeEffect
<1>2. TypeOK /\ window[p] \in Seq(Row)
  BY DEF BaseInv, TypeOK, RequestTypeOK
<1>3. Taken(q) \in Seq(Row)
  BY <1>1, <1>2, TakenFacts DEF TakenEffect
<1>4. RowsOf(window'[p]) = RowsOf(window[p]) \cup RowsOf(Taken(q))
  BY <1>1, <1>2, <1>3, RowsOfConcat
<1>5. RowsOf(window[q]) = RowsOf(Taken(q)) \cup RowsOf(Rest(q))
  BY <1>1, <1>2, RowsOfWindow
<1>6. QED
  BY <1>1, <1>4, <1>5

\* An answer nobody gets loses rows only where the way to the client is cut.
LEMMA LostRowsAreCutOff ==
    ASSUME BaseInv, DoneInv, NEW q \in Request, AnswerNobody(q), window[q] # <<>>
    PROVE  \/ NodeOf(q) \in failed
           \/ \E p \in Request, c \in Node :
                  q = Append(p, c) /\ NodeOf(p) \in down /\ ~Done(p)
<1>1. /\ q # <<Root>> /\ q \in serving
      /\ q \notin awaited \/ NodeOf(Front(q)) \in down
  BY DEF AnswerNobody, Answering
<1>2. TypeOK /\ TreeInv /\ CallInv
  BY DEF BaseInv
<1>3. PICK p \in Request, c \in Node : q = Append(p, c)
  BY <1>1, <1>2 DEF TreeInv
<1>4. c \in OutWorker(p) /\ NodeOf(q) = c /\ Front(q) = p
  BY <1>2, <1>3, RequestFacts DEF TreeInv
<1>5. CASE q \notin awaited
  <2>1. progress[p][c] = "completed"
    BY <1>1, <1>2, <1>3, <1>5 DEF CallInv
  <2>2. c \in failed \/ Done(q)
    BY <1>3, <1>4, <2>1 DEF DoneInv
  <2>3. QED
    BY <1>4, <2>2 DEF Done
<1>6. CASE q \in awaited
  <2>1. NodeOf(p) \in down
    BY <1>1, <1>4, <1>6
  <2>2. progress[p][c] = "submitted"
    BY <1>2, <1>3, <1>6 DEF CallInv
  <2>3. ~Done(p)
    BY <1>4, <2>2 DEF Done, AllWorkersCompleted, OutWorker
  <2>4. QED
    BY <1>3, <2>1, <2>3
<1>7. QED
  BY <1>5, <1>6

LEMMA NextHeld ==
    ASSUME BaseInv, DoneInv, [Next]_vars, NEW p \in Request, NEW r, Held(p, r),
           ~CutOff(p)
    PROVE  Held(p, r)'
<1>0. TypeOK /\ DOMAIN window = Request /\ p \in Seq(Node)
  BY RequestFacts DEF BaseInv, TypeOK
<1>a. ASSUME UNCHANGED <<visited, window, out>> PROVE Held(p, r)'
  BY <1>a, HeldStays DEF Request
<1>1. CASE UNCHANGED vars
  BY <1>1, <1>a DEF vars, requestVars
<1>2. CASE ClientCalls
  BY <1>2, <1>a DEF ClientCalls
<1>3. CASE AnswerClient
  <2>1. /\ <<Root>> \in Request /\ visited' = visited
        /\ RowsOf(out') = RowsOf(out) \cup RowsOf(Taken(<<Root>>))
        /\ window'[<<Root>>] = Rest(<<Root>>)
        /\ RowsOf(window[<<Root>>])
               = RowsOf(Taken(<<Root>>)) \cup RowsOf(Rest(<<Root>>))
        /\ \A q \in Request \ {<<Root>>} : window'[q] = window[q]
    BY <1>3, AnswerClientMoves
  <2>2. Request' = Request
    BY <2>1 DEF Request
  <2>3. CASE r \in RowsOf(out)
    BY <2>1, <2>3 DEF Held
  <2>4. ASSUME NEW q \in Request, Above(q, p), r \in RowsOf(window[q])
        PROVE  Held(p, r)'
    <3>1. r \in RowsOf(out') \/ r \in RowsOf(window'[q])
      BY <2>1, <2>4
    <3>2. QED
      BY <2>2, <2>4, <3>1 DEF Held
  <2>5. QED
    BY <2>3, <2>4 DEF Held
<1>4. CASE \E n \in MayCrash : Crash(n)
  BY <1>4, <1>a, CrashKeepsBase
<1>5. ASSUME NEW q \in Request, FetchLocal(q) PROVE Held(p, r)'
  <2>1. /\ visited' = visited /\ out' = out
        /\ \A s \in Request \ {q} : window'[s] = window[s]
    BY <1>5, FetchLocalFacts
  <2>2. RowsOf(window[q]) \subseteq RowsOf(window'[q])
    BY <1>5, FetchLocalFetches
  <2>3. ASSUME NEW s \in Request PROVE RowsOf(window[s]) \subseteq RowsOf(window[s])'
    <3>1. CASE s = q
      BY <2>2, <3>1
    <3>2. CASE s # q
      BY <2>1, <3>2
    <3>3. QED
      BY <3>1, <3>2
  <2>4. QED
    BY <2>1, <2>3, HeldStays DEF Request
<1>6. ASSUME NEW q \in Request, SkipStep(q) PROVE Held(p, r)'
  BY <1>6, <1>a DEF SkipStep
<1>7. ASSUME NEW q \in Request, NEW c \in Worker(q), SubmitToChild(q, c)
      PROVE  Held(p, r)'
  <2>1. SubmitEffect(q, c)
    BY <1>7, SubmitFacts
  <2>2. /\ Request \subseteq Request' /\ out' = out
        /\ \A s \in Request : window'[s] = window[s]
    BY <2>1 DEF SubmitEffect
  <2>3. QED
    BY <2>2, HeldStays
<1>8. ASSUME NEW q \in Request, NEW c \in Worker(q), CallChild(q, c)
      PROVE  Held(p, r)'
  BY <1>8, <1>a DEF CallChild
<1>9. ASSUME NEW q \in Request, NEW c \in Worker(q), AnswerCaller(q, c)
      PROVE  Held(p, r)'
  <2> DEFINE s == Append(q, c)
  <2>1. /\ c \in Node /\ s \in Request /\ s # q /\ visited' = visited /\ out' = out
        /\ RowsOf(window'[q]) = RowsOf(window[q]) \cup RowsOf(Taken(s))
        /\ window'[s] = Rest(s)
        /\ RowsOf(window[s]) = RowsOf(Taken(s)) \cup RowsOf(Rest(s))
        /\ \A t \in Request \ {q, s} : window'[t] = window[t]
    BY <1>9, AnswerCallerMoves
  <2>2. Request' = Request
    BY <2>1 DEF Request
  <2>3. CASE r \in RowsOf(out)
    BY <2>1, <2>3 DEF Held
  <2>4. Above(s, p) => Above(q, p)
    <3>1. q \in Seq(Node)
      BY <1>0, RequestFacts
    <3>2. QED
      BY <1>0, <2>1, <3>1, AboveFacts
  <2> HIDE DEF s
  <2>5. ASSUME NEW t \in Request, Above(t, p), r \in RowsOf(window[t])
        PROVE  Held(p, r)'
    <3>1. CASE t = s
      <4>1. r \in RowsOf(window'[s]) \/ r \in RowsOf(window'[q])
        BY <2>1, <2>5, <3>1
      <4>2. QED
        BY <2>1, <2>2, <2>4, <2>5, <3>1, <4>1 DEF Held
    <3>2. CASE t # s
      <4>1. r \in RowsOf(window'[t])
        BY <2>1, <2>5, <3>2
      <4>2. QED
        BY <2>2, <2>5, <4>1 DEF Held
    <3>3. QED
      BY <3>1, <3>2
  <2>6. QED
    BY <2>3, <2>5 DEF Held
<1>10. ASSUME NEW q \in Request, AnswerNobody(q) PROVE Held(p, r)'
  <2>1. /\ visited' = visited /\ out' = out
        /\ \A t \in Request \ {q} : window'[t] = window[t]
    BY <1>0, <1>10 DEF AnswerNobody
  <2>2. Request' = Request
    BY <2>1 DEF Request
  <2>3. CASE r \in RowsOf(out)
    BY <2>1, <2>3 DEF Held
  <2>4. ASSUME NEW t \in Request, Above(t, p), r \in RowsOf(window[t])
        PROVE  Held(p, r)'
    <3>1. CASE t = q
      <4>1. window[q] # <<>>
        BY <2>4, <3>1 DEF RowsOf
      <4>2. CASE NodeOf(q) \in failed
        BY <1>0, <2>4, <3>1, <4>2 DEF CutOff
      <4>3. ASSUME NEW s \in Request, NEW c \in Node, q = Append(s, c),
                   NodeOf(s) \in down, ~Done(s)
            PROVE  FALSE
        <5>1. s \in Seq(Node)
          BY <1>0, RequestFacts
        <5>2. Above(s, p)
          BY <1>0, <2>4, <3>1, <4>3, <5>1, AboveFacts
        <5>3. QED
          BY <4>3, <5>2 DEF CutOff
      <4>4. QED
        BY <1>10, <4>1, <4>2, <4>3, LostRowsAreCutOff DEF CutOff
    <3>2. CASE t # q
      <4>1. r \in RowsOf(window'[t])
        BY <2>1, <2>4, <3>2
      <4>2. QED
        BY <2>2, <2>4, <4>1 DEF Held
    <3>3. QED
      BY <3>1, <3>2
  <2>5. QED
    BY <2>3, <2>4 DEF Held
<1>11. ASSUME NEW q \in Request, NEW c, GiveUp(q, c) PROVE Held(p, r)'
  BY <1>11, <1>a DEF GiveUp
<1>12. QED
  BY <1>1, <1>2, <1>3, <1>4, <1>5, <1>6, <1>7, <1>8, <1>9, <1>10, <1>11, StepCases

LEMMA NextCustody ==
    BaseInv /\ DoneInv /\ CustodyInv /\ [Next]_vars => CustodyInv'
<1> SUFFICES ASSUME BaseInv, DoneInv, CustodyInv, [Next]_vars,
                    NEW p \in Request', ~CutOff(p)', NEW r \in Fetched(p)'
             PROVE  Held(p, r)'
  BY DEF CustodyInv, Held
<1>1. CASE p \in Request /\ r \in Fetched(p)
  <2>1. ~CutOff(p)
    BY <1>1, CutOffStays
  <2>2. Held(p, r)
    BY <1>1, <2>1 DEF CustodyInv, Held
  <2>3. QED
    BY <1>1, <2>1, <2>2, NextHeld
<1>2. CASE r \in RowsOf(window'[p])
  <2>1. BaseInv'
    BY NextBase
  <2>2. p \in Seq(Node)
    BY <2>1 DEF BaseInv, TypeOK, RequestTypeOK
  <2>3. Above(p, p)
    BY <2>2, AboveFacts
  <2>4. QED
    BY <1>2, <2>3 DEF Held
<1>3. QED
  BY <1>1, <1>2, NextFetched

LEMMA InitCustody == Init => CustodyInv
<1> SUFFICES ASSUME Init PROVE CustodyInv
  OBVIOUS
<1>1. /\ Request = {<<Root>>} /\ left[<<Root>>] = Supply[Root]
      /\ NodeOf(<<Root>>) = Root /\ Root \in Node
  BY InitFacts
<1>2. Fetched(<<Root>>) = {}
  BY <1>1 DEF Fetched
<1>3. QED
  BY <1>1, <1>2 DEF CustodyInv

-----------------------------------------------------------------------------
\* The client has everything when it is told "done".

VisitInv == V!OverlayInv /\ V!NestedMeansOnce

LEMMA InitVisitInv == Init => VisitInv
BY InitVisit, VisitAssumption, V!InitOverlayInv, V!InitNested DEF VisitInv

LEMMA NextVisitInv == BaseInv /\ VisitInv /\ [Next]_vars => VisitInv'
BY NextVisit, VisitAssumption, V!NextOverlayInv, V!NextNested DEF VisitInv

LEMMA LeastNat ==
    ASSUME NEW T \in SUBSET Nat, T # {}
    PROVE  \E n \in T : \A m \in T : n <= m
<1> DEFINE R == OpToRel(<, Nat)
<1>1. IsWellFoundedOn(R, Nat)
  BY NatLessThanWellFounded
<1>2. \A m, n \in Nat : <<m, n>> \in R <=> m < n
  BY DEF OpToRel
<1> HIDE DEF R
<1>3. PICK n \in T : \A m \in T : ~(<<m, n>> \in R)
  BY <1>1, WFMin
<1>4. ASSUME NEW m \in T PROVE n <= m
  <2>1. m \in Nat /\ n \in Nat /\ ~(m < n)
    BY <1>2, <1>3
  <2>2. QED
    BY <2>1
<1>5. QED
  BY <1>4

\* Done, with every request it came through, and none of their nodes failed.
AllDone(p) == \A q \in Request : Above(q, p) => Done(q) /\ NodeOf(q) \notin failed

\* From the client's request downwards, all that is not excused is done.
LEMMA DoneGoesDown ==
    ASSUME BaseInv, DoneInv, V!OverlayInv, told,
           NEW p \in Request, NodeOf(p) \notin V!Excused
    PROVE  AllDone(p)
<1> DEFINE Bad == {Len(q) : q \in {r \in Request : NodeOf(r) \notin V!Excused
                                                   /\ ~AllDone(r)}}
<1>0. TypeOK /\ TreeInv /\ \A q \in Request : q \in Seq(Node) /\ q # <<>>
  BY RequestFacts DEF BaseInv
<1>1. SUFFICES ASSUME Bad # {} PROVE FALSE
  OBVIOUS
<1>2. Bad \in SUBSET Nat
  BY <1>0
<1>3. PICK n \in Bad : \A m \in Bad : n <= m
  <2> HIDE DEF Bad
  <2>1. QED
    BY <1>1, <1>2, LeastNat
<1>4. PICK q \in Request : /\ Len(q) = n /\ NodeOf(q) \notin V!Excused
                           /\ ~AllDone(q)
  OBVIOUS
<1>5. failed \subseteq V!Excused
  <2>1. failed \subseteq Node
    BY <1>0 DEF TypeOK
  <2>2. failed \subseteq V!Below(failed)
    BY <2>1, VisitAssumption, V!BelowContains
  <2>3. QED
    BY <2>2 DEF V!Excused
<1>6. CASE q = <<Root>>
  <2>1. \A s \in Request : Above(s, <<Root>>) => s = <<Root>>
    <3>1. ASSUME NEW s \in Request, Above(s, <<Root>>) PROVE s = <<Root>>
      <4>1. s \in Seq(Node) /\ Len(s) # 0 /\ Len(s) \in Nat
        BY <1>0, EmptySeq, LenProperties
      <4>2. Len(s) <= 1 /\ \A i \in 1 .. Len(s) : s[i] = <<Root>>[i]
        BY <3>1, RootPath DEF Above
      <4>3. Len(s) = 1
        BY <4>1, <4>2
      <4>4. Len(s) = Len(<<Root>>) /\ <<Root>> \in Seq(Node)
        BY <4>3, RootPath
      <4>5. QED
        BY <4>1, <4>2, <4>4, SeqEqual
    <3>2. QED
      BY <3>1
  <2>2. Done(<<Root>>)
    BY DEF DoneInv
  <2>3. QED
    BY <1>4, <1>5, <1>6, <2>1, <2>2 DEF AllDone
<1>7. CASE q # <<Root>>
  <2>1. PICK r \in Request, c \in Node : q = Append(r, c)
    BY <1>0, <1>7 DEF TreeInv
  <2>2. c \in OutWorker(r) /\ NodeOf(q) = c /\ Len(q) = Len(r) + 1 /\ Len(r) \in Nat
    <3>1. c \in OutWorker(r) /\ NodeOf(q) = c
      BY <1>0, <2>1, RequestFacts DEF TreeInv
    <3>2. Len(q) = Len(r) + 1 /\ Len(r) \in Nat
      BY <1>0, <2>1, NodeOfAppend
    <3>3. QED
      BY <3>1, <3>2
  <2>3. c \in VisitChildren[NodeOf(r)]
    <3>1. VisitChildren[NodeOf(r)] = ChildrenOf(NodeOf(r))
      BY <1>0, VisitRequestFacts
    <3>2. OutWorker(r) = ChildrenOf(NodeOf(r)) \ visited[r]
      BY <1>0, RequestFacts
    <3>3. QED
      BY <2>2, <3>1, <3>2
  <2>4. NodeOf(r) \notin V!Excused
    <3>1. ASSUME NodeOf(r) \in V!Below(failed) PROVE c \in V!Below(failed)
      <4>1. V!TypeOK
        BY DEF V!OverlayInv
      <4>2. QED
        BY <2>3, <3>1, <4>1, VisitAssumption, V!BelowIsClosed
    <3>2. QED
      BY <1>4, <2>2, <3>1 DEF V!Excused
  <2>5. AllDone(r)
    <3>1. ASSUME ~AllDone(r) PROVE Len(r) \in Bad
      BY <2>4, <3>1
    <3> HIDE DEF Bad
    <3>2. QED
      BY <1>3, <1>4, <2>2, <3>1
  <2>6. Done(r)
    <3>1. Above(r, r)
      BY <1>0, AboveFacts
    <3>2. QED
      BY <2>5, <3>1 DEF AllDone
  <2>7. progress[r][c] = "completed"
    BY <2>2, <2>6 DEF Done, AllWorkersCompleted, OutWorker
  <2>8. Done(q) /\ NodeOf(q) \notin failed
    <3>1. c \notin failed
      BY <1>4, <1>5, <2>2
    <3>2. QED
      BY <2>1, <2>2, <2>7, <3>1 DEF DoneInv
  <2>9. \A s \in Request : Above(s, q) => s = q \/ Above(s, r)
    BY <1>0, <2>1, AboveFacts
  <2>10. AllDone(q)
    BY <2>5, <2>8, <2>9 DEF AllDone
  <2>11. QED
    BY <1>4, <2>10
<1>8. QED
  BY <1>6, <1>7

CoverInv == BaseInv /\ VisitInv /\ DoneInv /\ CustodyInv

LEMMA CoverInvCovers == CoverInv => DoneMeansCovered
<1> SUFFICES ASSUME BaseInv, VisitInv, DoneInv, CustodyInv, told,
                    NEW n \in V!Reachable \ V!Excused, NEW i \in 1 .. Supply[n]
             PROVE  \E k \in DOMAIN out : out[k] = <<n, i>>
  <2>1. Visit!Reachable = V!Reachable /\ Visit!Excused = V!Excused
    BY DEF Visit!Reachable, V!Reachable, Visit!Excused, V!Excused, Visit!Below, V!Below,
       Visit!Closed, V!Closed
  <2>2. QED
    BY <2>1 DEF CoverInv, DoneMeansCovered
<1>0. TypeOK /\ V!OverlayInv
  BY DEF BaseInv, VisitInv
<1>1. V!Settled
  <2>1. ASSUME NEW r \in VisitRequests, NEW c \in Node, V!ToAsk(r, c)
        PROVE  r.node \in V!Excused
    <3>1. PICK p \in Request : r = VisitRequest(p)
      BY DEF VisitRequests
    <3>2. r.node = NodeOf(p)
      BY <1>0, <3>1, VisitRequestFacts
    <3>3. c \in OutWorker(p) /\ progress[p][c] = "new"
      BY <1>0, <2>1, <3>1, ToAskMeans
    <3>4. ASSUME NodeOf(p) \notin V!Excused PROVE FALSE
      <4>1. AllDone(p)
        BY <1>0, <3>4, DoneGoesDown
      <4>2. Above(p, p)
        BY <1>0, RequestFacts, AboveFacts
      <4>3. Done(p)
        BY <4>1, <4>2 DEF AllDone
      <4>4. QED
        BY <3>3, <4>3 DEF Done, AllWorkersCompleted, OutWorker
    <3>5. QED
      BY <3>2, <3>4
  <2>2. QED
    BY <2>1 DEF V!Settled
<1>2. n \in V!Queried
  <2>1. V!FullCoverage
    BY <1>0, VisitAssumption, V!SettledCovers
  <2>2. QED
    BY <1>1, <2>1 DEF V!FullCoverage
<1>3. PICK p \in Request : NodeOf(p) = n
  <2>1. PICK r \in VisitRequests : r.node = n
    BY <1>2 DEF V!Queried
  <2>2. PICK p \in Request : r = VisitRequest(p)
    BY DEF VisitRequests
  <2>3. QED
    BY <1>0, <2>1, <2>2, VisitRequestFacts
<1>4. AllDone(p) /\ Done(p)
  <2>1. AllDone(p)
    BY <1>0, <1>3, DoneGoesDown
  <2>2. Above(p, p)
    BY <1>0, RequestFacts, AboveFacts
  <2>3. QED
    BY <2>1, <2>2 DEF AllDone
<1>5. <<n, i>> \in Fetched(p)
  <2>1. progress[p][NodeOf(p)] = "completed"
    BY <1>4 DEF Done, AllWorkersCompleted, Worker
  <2>2. left[p] = 0
    BY <2>1 DEF DoneInv
  <2>3. Supply[n] \in Nat
    BY <1>0, <1>3, RequestFacts
  <2>4. QED
    BY <1>3, <2>2, <2>3 DEF Fetched
<1>6. ~CutOff(p)
  BY <1>4 DEF AllDone, CutOff
<1>7. <<n, i>> \in RowsOf(out)
  <2>1. \A q \in Request : Above(q, p) => RowsOf(window[q]) = {}
    BY <1>4 DEF AllDone, Done, RowsOf
  <2>2. QED
    BY <1>5, <1>6, <2>1 DEF CustodyInv
<1>8. QED
  BY <1>7 DEF RowsOf

LEMMA CoverInvHolds == Spec => []CoverInv
<1>1. Init => CoverInv
  BY InitBase, InitVisitInv, InitDone, InitCustody DEF CoverInv
<1>2. CoverInv /\ [Next]_vars => CoverInv'
  BY NextBase, NextVisitInv, NextDone, NextCustody DEF CoverInv
<1>3. QED
  BY <1>1, <1>2, PTL DEF Spec

\* When the client is told "done" it has every row of every node it can reach,
\* but for those on or below a node some caller gave up on: on every overlay,
\* for all supplies and chunk sizes, whatever late answers, dead handlers and
\* crashes there were (handleQueryDone, mergeChunk, markWorkerCompleted).
THEOREM DoneMeansCoveredAlways == Spec => []DoneMeansCovered
BY CoverInvHolds, CoverInvCovers, PTL

-----------------------------------------------------------------------------
\* No row is at two places.

LEMMA DistinctConcat ==
    ASSUME NEW s \in Seq(Row), NEW t \in Seq(Row), Distinct(s), Distinct(t),
           RowsOf(s) \cap RowsOf(t) = {}
    PROVE  Distinct(s \o t)
<1>1. /\ s \o t \in Seq(Row) /\ Len(s \o t) = Len(s) + Len(t)
      /\ \A i \in 1 .. Len(s) + Len(t) :
             (s \o t)[i] = IF i <= Len(s) THEN s[i] ELSE t[i - Len(s)]
  BY ConcatProperties
<1>2. /\ Len(s) \in Nat /\ Len(t) \in Nat
      /\ DOMAIN s = 1 .. Len(s) /\ DOMAIN t = 1 .. Len(t)
      /\ DOMAIN (s \o t) = 1 .. Len(s) + Len(t)
  BY <1>1, LenProperties
<1> DEFINE u == s \o t
<1> HIDE DEF u
<1>3. ASSUME NEW i \in DOMAIN u, i <= Len(s)
      PROVE  i \in DOMAIN s /\ u[i] = s[i] /\ u[i] \in RowsOf(s)
  BY <1>1, <1>2, <1>3 DEF u, RowsOf
<1>4. ASSUME NEW i \in DOMAIN u, ~(i <= Len(s))
      PROVE  i - Len(s) \in DOMAIN t /\ u[i] = t[i - Len(s)] /\ u[i] \in RowsOf(t)
  <2>1. i - Len(s) \in 1 .. Len(t) /\ i \in 1 .. Len(s) + Len(t)
    BY <1>2, <1>4 DEF u
  <2>2. u[i] = t[i - Len(s)]
    BY <1>1, <1>4, <2>1 DEF u
  <2>3. QED
    BY <1>2, <2>1, <2>2 DEF RowsOf
<1>5. ASSUME NEW i \in DOMAIN u, NEW j \in DOMAIN u, u[i] = u[j] PROVE i = j
  <2>1. CASE i <= Len(s) /\ j <= Len(s)
    BY <1>3, <1>5, <2>1 DEF Distinct
  <2>2. CASE ~(i <= Len(s)) /\ ~(j <= Len(s))
    <3>1. i - Len(s) = j - Len(s)
      BY <1>4, <1>5, <2>2 DEF Distinct
    <3>2. i \in Nat /\ j \in Nat
      BY <1>2 DEF u
    <3>3. QED
      BY <1>2, <3>1, <3>2
  <2>3. CASE i <= Len(s) /\ ~(j <= Len(s))
    BY <1>3, <1>4, <1>5, <2>3
  <2>4. CASE ~(i <= Len(s)) /\ j <= Len(s)
    BY <1>3, <1>4, <1>5, <2>4
  <2>5. QED
    BY <2>1, <2>2, <2>3, <2>4
<1>6. QED
  BY <1>5 DEF Distinct, u

LEMMA DistinctWindow ==
    ASSUME TypeOK, NEW p \in Request, Distinct(window[p])
    PROVE  /\ Distinct(Taken(p)) /\ Distinct(Rest(p))
           /\ RowsOf(Taken(p)) \cap RowsOf(Rest(p)) = {}
<1> DEFINE s == window[p]
           t == Taken(p)
           u == Rest(p)
<1>1. /\ s \in Seq(Row) /\ t \in Seq(Row) /\ u \in Seq(Row)
      /\ Len(t) \in 0 .. Len(s) /\ Len(s) \in Nat /\ Len(u) = Len(s) - Len(t)
      /\ \A i \in 1 .. Len(t) : t[i] = s[i]
      /\ \A i \in 1 .. Len(u) : u[i] = s[Len(t) + i]
  BY TakenFacts DEF TakenEffect
<1>2. \A i, j \in DOMAIN s : s[i] = s[j] => i = j
  BY DEF Distinct
<1> HIDE DEF s, t, u
<1>3. /\ DOMAIN s = 1 .. Len(s) /\ DOMAIN t = 1 .. Len(t) /\ DOMAIN u = 1 .. Len(u)
  BY <1>1, LenProperties
<1>4. \A i \in DOMAIN t : i \in DOMAIN s /\ t[i] = s[i] /\ i <= Len(t)
  BY <1>1, <1>3
<1>5. ASSUME NEW i \in DOMAIN u
      PROVE  Len(t) + i \in DOMAIN s /\ u[i] = s[Len(t) + i] /\ Len(t) + i > Len(t)
             /\ i \in Nat
  <2>1. i \in 1 .. Len(u)
    BY <1>3
  <2>2. u[i] = s[Len(t) + i]
    BY <1>1, <2>1
  <2>3. Len(t) + i \in 1 .. Len(s) /\ Len(t) + i > Len(t) /\ i \in Nat
    BY <1>1, <2>1
  <2>4. QED
    BY <1>3, <2>2, <2>3
<1>6. Distinct(t)
  BY <1>2, <1>4 DEF Distinct
<1>7. Distinct(u)
  <2>1. ASSUME NEW i \in DOMAIN u, NEW j \in DOMAIN u, u[i] = u[j] PROVE i = j
    <3>1. Len(t) + i = Len(t) + j
      BY <1>2, <1>5, <2>1
    <3>2. QED
      BY <1>1, <1>5, <3>1
  <2>2. QED
    BY <2>1 DEF Distinct
<1>8. RowsOf(t) \cap RowsOf(u) = {}
  <2>1. ASSUME NEW i \in DOMAIN t, NEW j \in DOMAIN u, t[i] = u[j] PROVE FALSE
    <3>1. i = Len(t) + j
      BY <1>2, <1>4, <1>5, <2>1
    <3>2. QED
      BY <1>1, <1>4, <1>5, <3>1
  <2>2. QED
    BY <2>1 DEF RowsOf
<1>9. QED
  BY <1>6, <1>7, <1>8 DEF t, u, s

LEMMA DistinctBatch ==
    ASSUME BaseInv, NEW q \in Request, FetchLocal(q) PROVE Distinct(LocalBatch(q))
<1> DEFINE n == NodeOf(q)
           k == AtMost(ChunkSize, left[q])
           m == Supply[n] - left[q]
<1>1. k \in 0 .. left[q]
  BY FetchLocalFacts
<1>2. n \in Node /\ left[q] \in 0 .. Supply[n]
  BY RequestFacts DEF BaseInv, TypeOK, RequestTypeOK
<1>3. m \in Int
  BY <1>2
<1>4. LocalBatch(q) = [i \in 1 .. k |-> <<n, m + i>>]
  BY DEF LocalBatch
<1> HIDE DEF n, k, m
<1>5. QED
  BY <1>3, <1>4 DEF Distinct

LEMMA FetchedStays ==
    ASSUME BaseInv, [Next]_vars, NEW p \in Request
    PROVE  p \in Request' /\ Fetched(p) \subseteq Fetched(p)'
<1>0. p \in Request'
  BY NextKeeps DEF Keeps
<1>a. left'[p] = left[p] => Fetched(p) \subseteq Fetched(p)'
  BY DEF Fetched
<1>1. CASE UNCHANGED vars
  BY <1>0, <1>1, <1>a DEF vars, requestVars
<1>2. CASE ClientCalls
  BY <1>0, <1>2, <1>a DEF ClientCalls
<1>3. CASE AnswerClient
  BY <1>0, <1>3, <1>a DEF AnswerClient
<1>4. CASE \E n \in MayCrash : Crash(n)
  BY <1>0, <1>4, <1>a, CrashKeepsBase
<1>5. ASSUME NEW q \in Request, FetchLocal(q) PROVE Fetched(p) \subseteq Fetched(p)'
  <2>1. \A r \in Request \ {q} : left'[r] = left[r]
    BY <1>5, FetchLocalFacts
  <2>2. CASE p = q
    BY <1>5, <2>2, FetchLocalFetches
  <2>3. CASE p # q
    BY <2>1, <2>3, <1>a
  <2>4. QED
    BY <2>2, <2>3
<1>6. ASSUME NEW q \in Request, SkipStep(q) PROVE Fetched(p) \subseteq Fetched(p)'
  BY <1>6, <1>a DEF SkipStep
<1>7. ASSUME NEW q \in Request, NEW c \in Worker(q), SubmitToChild(q, c)
      PROVE  Fetched(p) \subseteq Fetched(p)'
  BY <1>7, <1>a, SubmitFacts DEF SubmitEffect
<1>8. ASSUME NEW q \in Request, NEW c \in Worker(q), CallChild(q, c)
      PROVE  Fetched(p) \subseteq Fetched(p)'
  BY <1>8, <1>a DEF CallChild
<1>9. ASSUME NEW q \in Request, NEW c \in Worker(q), AnswerCaller(q, c)
      PROVE  Fetched(p) \subseteq Fetched(p)'
  BY <1>9, <1>a DEF AnswerCaller
<1>10. ASSUME NEW q \in Request, AnswerNobody(q) PROVE Fetched(p) \subseteq Fetched(p)'
  BY <1>10, <1>a DEF AnswerNobody
<1>11. ASSUME NEW q \in Request, NEW c, GiveUp(q, c)
       PROVE  Fetched(p) \subseteq Fetched(p)'
  BY <1>11, <1>a DEF GiveUp
<1>12. QED
  BY <1>0, <1>1, <1>2, <1>3, <1>4, <1>5, <1>6, <1>7, <1>8, <1>9, <1>10, <1>11,
     StepCases

\* A row after a step was somewhere before it, or its own local worker has just
\* handed it over.
Placed(r) == r \in RowsOf(out) \/ \E q \in Request : r \in RowsOf(window[q])

LEMMA NextPlaced ==
    ASSUME BaseInv, [Next]_vars
    PROVE  /\ \A r \in RowsOf(out') : Placed(r)
           /\ \A q \in Request' : \A r \in RowsOf(window'[q]) :
                  Placed(r) \/ r \in Fetched(q)'
<1> DEFINE Goal == /\ \A r \in RowsOf(out') : Placed(r)
                   /\ \A q \in Request' : \A r \in RowsOf(window'[q]) :
                          Placed(r) \/ r \in Fetched(q)'
<1>0. DOMAIN window = Request
  BY DEF BaseInv, TypeOK
<1>a. ASSUME UNCHANGED <<visited, window, out>> PROVE Goal
  BY <1>a DEF Placed, Request
<1> SUFFICES Goal
  OBVIOUS
<1> HIDE DEF Goal
<1>1. CASE UNCHANGED vars
  BY <1>1, <1>a DEF vars, requestVars
<1>2. CASE ClientCalls
  BY <1>2, <1>a DEF ClientCalls
<1>3. CASE AnswerClient
  <2>1. /\ <<Root>> \in Request /\ visited' = visited
        /\ RowsOf(out') = RowsOf(out) \cup RowsOf(Taken(<<Root>>))
        /\ window'[<<Root>>] = Rest(<<Root>>)
        /\ RowsOf(window[<<Root>>])
               = RowsOf(Taken(<<Root>>)) \cup RowsOf(Rest(<<Root>>))
        /\ \A q \in Request \ {<<Root>>} : window'[q] = window[q]
    BY <1>3, AnswerClientMoves
  <2>2. \A r \in RowsOf(out') : Placed(r)
    BY <2>1 DEF Placed
  <2>3. \A q \in Request' : \A r \in RowsOf(window'[q]) : Placed(r)
    BY <2>1 DEF Placed, Request
  <2>4. QED
    BY <2>2, <2>3 DEF Goal
<1>4. CASE \E n \in MayCrash : Crash(n)
  BY <1>4, <1>a, CrashKeepsBase
<1>5. ASSUME NEW q \in Request, FetchLocal(q) PROVE Goal
  <2>1. /\ visited' = visited /\ out' = out
        /\ \A s \in Request \ {q} : window'[s] = window[s]
    BY <1>5, FetchLocalFacts
  <2>2. /\ RowsOf(window'[q]) = RowsOf(window[q]) \cup RowsOf(LocalBatch(q))
        /\ Fetched(q)' = Fetched(q) \cup RowsOf(LocalBatch(q))
    BY <1>5, FetchLocalFetches
  <2>3. \A r \in RowsOf(window'[q]) : Placed(r) \/ r \in Fetched(q)'
    BY <2>2 DEF Placed
  <2>4. \A s \in Request' : \A r \in RowsOf(window'[s]) : Placed(r) \/ r \in Fetched(s)'
    BY <2>1, <2>3 DEF Placed, Request
  <2>5. \A r \in RowsOf(out') : Placed(r)
    BY <2>1 DEF Placed
  <2>6. QED
    BY <2>4, <2>5 DEF Goal
<1>6. ASSUME NEW q \in Request, SkipStep(q) PROVE Goal
  BY <1>6, <1>a DEF SkipStep
<1>7. ASSUME NEW q \in Request, NEW c \in Worker(q), SubmitToChild(q, c) PROVE Goal
  <2>1. SubmitEffect(q, c)
    BY <1>7, SubmitFacts
  <2>2. /\ Request' = Request \cup {Append(q, c)} /\ out' = out
        /\ window'[Append(q, c)] = <<>>
        /\ \A s \in Request : window'[s] = window[s]
    BY <2>1 DEF SubmitEffect
  <2>3. RowsOf(window'[Append(q, c)]) = {}
    BY <2>2 DEF RowsOf
  <2>4. QED
    BY <2>2, <2>3 DEF Goal, Placed
<1>8. ASSUME NEW q \in Request, NEW c \in Worker(q), CallChild(q, c) PROVE Goal
  BY <1>8, <1>a DEF CallChild
<1>9. ASSUME NEW q \in Request, NEW c \in Worker(q), AnswerCaller(q, c) PROVE Goal
  <2> DEFINE s == Append(q, c)
  <2>1. /\ s \in Request /\ s # q /\ visited' = visited /\ out' = out
        /\ RowsOf(window'[q]) = RowsOf(window[q]) \cup RowsOf(Taken(s))
        /\ window'[s] = Rest(s)
        /\ RowsOf(window[s]) = RowsOf(Taken(s)) \cup RowsOf(Rest(s))
        /\ \A t \in Request \ {q, s} : window'[t] = window[t]
    BY <1>9, AnswerCallerMoves
  <2> HIDE DEF s
  <2>2. Request' = Request
    BY <2>1 DEF Request
  <2>3. \A r \in RowsOf(window'[q]) \cup RowsOf(window'[s]) : Placed(r)
    BY <2>1 DEF Placed
  <2>4. \A t \in Request : \A r \in RowsOf(window'[t]) : Placed(r)
    BY <2>1, <2>3 DEF Placed
  <2>5. \A r \in RowsOf(out') : Placed(r)
    BY <2>1 DEF Placed
  <2>6. QED
    BY <2>2, <2>4, <2>5 DEF Goal
<1>10. ASSUME NEW q \in Request, AnswerNobody(q) PROVE Goal
  <2>1. /\ visited' = visited /\ out' = out /\ window'[q] = Rest(q)
        /\ \A t \in Request \ {q} : window'[t] = window[t]
    BY <1>0, <1>10 DEF AnswerNobody
  <2>2. RowsOf(window[q]) = RowsOf(Taken(q)) \cup RowsOf(Rest(q))
    BY RowsOfWindow DEF BaseInv
  <2>3. \A t \in Request : \A r \in RowsOf(window'[t]) : Placed(r)
    BY <2>1, <2>2 DEF Placed
  <2>4. QED
    BY <2>1, <2>3 DEF Goal, Placed, Request
<1>11. ASSUME NEW q \in Request, NEW c, GiveUp(q, c) PROVE Goal
  BY <1>11, <1>a DEF GiveUp
<1>12. QED
  BY <1>1, <1>2, <1>3, <1>4, <1>5, <1>6, <1>7, <1>8, <1>9, <1>10, <1>11, StepCases

LEMMA NextSource == BaseInv /\ SourceInv /\ [Next]_vars => SourceInv'
<1> SUFFICES ASSUME BaseInv, SourceInv, [Next]_vars PROVE SourceInv'
  OBVIOUS
<1>1. \A r : Sourced(r) => Sourced(r)'
  BY FetchedStays DEF Sourced
<1>2. \A r : Placed(r) => Sourced(r)
  BY DEF Placed, SourceInv
<1>3. \A q \in Request' : \A r \in Fetched(q)' : Sourced(r)'
  BY DEF Sourced
<1>4. QED
  BY <1>1, <1>2, <1>3, NextPlaced DEF SourceInv

\* The rows of the next chunk are nowhere yet, where a node holds one request.
LEMMA BatchIsNew ==
    ASSUME BaseInv, VisitInv, V!NestedParents, SourceInv,
           NEW q \in Request, FetchLocal(q), NEW r \in RowsOf(LocalBatch(q))
    PROVE  ~Placed(r)
<1>1. SUFFICES ASSUME Placed(r) PROVE FALSE
  OBVIOUS
<1>2. PICK p \in Request : r \in Fetched(p)
  BY <1>1 DEF Placed, SourceInv, Sourced
<1>3. PICK i \in Nat : r = <<NodeOf(p), i>>
  BY <1>2 DEF Fetched
<1>4. r[1] = NodeOf(q)
  BY DEF RowsOf, LocalBatch
<1>5. NodeOf(p) = NodeOf(q)
  BY <1>3, <1>4
<1>6. p = q
  <2>1. V!NoDuplicateTraversal
    BY DEF VisitInv, V!NestedMeansOnce
  <2>2. /\ VisitRequest(p) \in VisitRequests /\ VisitRequest(q) \in VisitRequests
        /\ VisitRequest(p).node = VisitRequest(q).node
        /\ VisitRequest(p).path = p /\ VisitRequest(q).path = q
    BY <1>5, VisitRequestFacts DEF BaseInv
  <2>3. VisitRequest(p) = VisitRequest(q)
    BY <2>1, <2>2 DEF V!NoDuplicateTraversal
  <2>4. QED
    BY <2>2, <2>3
<1>7. Fetched(q) \cap RowsOf(LocalBatch(q)) = {}
  BY FetchLocalFetches
<1>8. QED
  BY <1>2, <1>6, <1>7

LEMMA NextOnePlace ==
    ASSUME BaseInv, VisitInv, V!NestedParents, SourceInv, OnePlaceInv, [Next]_vars
    PROVE  OnePlaceInv'
<1>0. TypeOK /\ DOMAIN window = Request /\ out \in Seq(Row)
      /\ \A q \in Request : window[q] \in Seq(Row)
  BY DEF BaseInv, TypeOK, RequestTypeOK
<1>p. /\ Distinct(out)
      /\ \A q \in Request : /\ Distinct(window[q])
                            /\ RowsOf(window[q]) \cap RowsOf(out) = {}
      /\ \A p, q \in Request :
             p # q => RowsOf(window[p]) \cap RowsOf(window[q]) = {}
  BY DEF OnePlaceInv
<1>a. ASSUME UNCHANGED <<visited, window, out>> PROVE OnePlaceInv'
  <2>1. Request' = Request
    BY <1>a DEF Request
  <2>2. QED
    BY <1>a, <1>p, <2>1 DEF OnePlaceInv
<1>1. CASE UNCHANGED vars
  BY <1>1, <1>a DEF vars, requestVars
<1>2. CASE ClientCalls
  BY <1>2, <1>a DEF ClientCalls
<1>3. CASE AnswerClient
  <2> DEFINE p == <<Root>>
  <2>1. /\ p \in Request /\ visited' = visited
        /\ RowsOf(out') = RowsOf(out) \cup RowsOf(Taken(p))
        /\ window'[p] = Rest(p)
        /\ RowsOf(window[p]) = RowsOf(Taken(p)) \cup RowsOf(Rest(p))
        /\ \A q \in Request \ {p} : window'[q] = window[q]
    BY <1>3, AnswerClientMoves
  <2>2. out' = out \o Taken(p)
    BY <1>3 DEF AnswerClient
  <2> HIDE DEF p
  <2>3. /\ Distinct(Taken(p)) /\ Distinct(Rest(p))
        /\ RowsOf(Taken(p)) \cap RowsOf(Rest(p)) = {}
    BY <1>0, <1>p, <2>1, DistinctWindow
  <2>4. Distinct(out')
    <3>1. RowsOf(out) \cap RowsOf(Taken(p)) = {}
      BY <1>p, <2>1
    <3>2. Taken(p) \in Seq(Row)
      BY <1>0, <2>1, TakenFacts DEF TakenEffect
    <3>3. QED
      BY <1>0, <1>p, <2>2, <2>3, <3>1, <3>2, DistinctConcat
  <2>5. Request' = Request
    BY <2>1 DEF Request
  <2>6. ASSUME NEW q \in Request
        PROVE  Distinct(window'[q]) /\ RowsOf(window'[q]) \cap RowsOf(out') = {}
    BY <1>p, <2>1, <2>3, <2>6
  <2>7. \A q, s \in Request :
            q # s => RowsOf(window'[q]) \cap RowsOf(window'[s]) = {}
    BY <1>p, <2>1
  <2>8. QED
    BY <2>4, <2>5, <2>6, <2>7 DEF OnePlaceInv
<1>4. CASE \E n \in MayCrash : Crash(n)
  BY <1>4, <1>a, CrashKeepsBase
<1>5. ASSUME NEW q \in Request, FetchLocal(q) PROVE OnePlaceInv'
  <2>1. /\ visited' = visited /\ out' = out /\ LocalBatch(q) \in Seq(Row)
        /\ window'[q] = window[q] \o LocalBatch(q)
        /\ \A s \in Request \ {q} : window'[s] = window[s]
    BY <1>5, FetchLocalFacts
  <2>2. RowsOf(window'[q]) = RowsOf(window[q]) \cup RowsOf(LocalBatch(q))
    BY <1>5, FetchLocalFetches
  <2>3. \A r \in RowsOf(LocalBatch(q)) : ~Placed(r)
    BY <1>5, BatchIsNew
  <2>4. /\ RowsOf(LocalBatch(q)) \cap RowsOf(out) = {}
        /\ \A s \in Request : RowsOf(LocalBatch(q)) \cap RowsOf(window[s]) = {}
    BY <2>3 DEF Placed
  <2>5. Distinct(window'[q])
    <3>1. Distinct(LocalBatch(q))
      BY <1>5, DistinctBatch
    <3>2. QED
      BY <1>0, <1>p, <2>1, <2>4, <3>1, DistinctConcat
  <2>6. Request' = Request
    BY <2>1 DEF Request
  <2>7. \A s \in Request :
            Distinct(window'[s]) /\ RowsOf(window'[s]) \cap RowsOf(out') = {}
    BY <1>p, <2>1, <2>2, <2>4, <2>5
  <2>8. \A s, t \in Request :
            s # t => RowsOf(window'[s]) \cap RowsOf(window'[t]) = {}
    BY <1>p, <2>1, <2>2, <2>4
  <2>9. QED
    BY <1>p, <2>1, <2>6, <2>7, <2>8 DEF OnePlaceInv
<1>6. ASSUME NEW q \in Request, SkipStep(q) PROVE OnePlaceInv'
  BY <1>6, <1>a DEF SkipStep
<1>7. ASSUME NEW q \in Request, NEW c \in Worker(q), SubmitToChild(q, c)
      PROVE  OnePlaceInv'
  <2>1. SubmitEffect(q, c)
    BY <1>7, SubmitFacts
  <2>2. /\ Request' = Request \cup {Append(q, c)} /\ out' = out
        /\ window'[Append(q, c)] = <<>>
        /\ \A s \in Request : window'[s] = window[s]
    BY <2>1 DEF SubmitEffect
  <2>3. RowsOf(window'[Append(q, c)]) = {} /\ Distinct(window'[Append(q, c)])
    BY <2>2 DEF RowsOf, Distinct
  <2>4. \A s \in Request' :
            Distinct(window'[s]) /\ RowsOf(window'[s]) \cap RowsOf(out') = {}
    BY <1>p, <2>2, <2>3
  <2>5. \A s, t \in Request' :
            s # t => RowsOf(window'[s]) \cap RowsOf(window'[t]) = {}
    BY <1>p, <2>2, <2>3
  <2>6. QED
    BY <1>p, <2>2, <2>4, <2>5 DEF OnePlaceInv
<1>8. ASSUME NEW q \in Request, NEW c \in Worker(q), CallChild(q, c)
      PROVE  OnePlaceInv'
  BY <1>8, <1>a DEF CallChild
<1>9. ASSUME NEW q \in Request, NEW c \in Worker(q), AnswerCaller(q, c)
      PROVE  OnePlaceInv'
  <2> DEFINE s == Append(q, c)
  <2>1. /\ s \in Request /\ s # q /\ visited' = visited /\ out' = out
        /\ RowsOf(window'[q]) = RowsOf(window[q]) \cup RowsOf(Taken(s))
        /\ window'[s] = Rest(s)
        /\ RowsOf(window[s]) = RowsOf(Taken(s)) \cup RowsOf(Rest(s))
        /\ \A t \in Request \ {q, s} : window'[t] = window[t]
    BY <1>9, AnswerCallerMoves
  <2>2. window'[q] = window[q] \o Taken(s)
    BY <1>9, AnswerCallerFacts DEF MergeEffect
  <2> HIDE DEF s
  <2>3. /\ Distinct(Taken(s)) /\ Distinct(Rest(s))
        /\ RowsOf(Taken(s)) \cap RowsOf(Rest(s)) = {}
    BY <1>0, <1>p, <2>1, DistinctWindow
  <2>4. Distinct(window'[q])
    <3>1. RowsOf(window[q]) \cap RowsOf(Taken(s)) = {}
      BY <1>p, <2>1
    <3>2. Taken(s) \in Seq(Row)
      BY <1>0, <2>1, TakenFacts DEF TakenEffect
    <3>3. QED
      BY <1>0, <1>p, <2>2, <2>3, <3>1, <3>2, DistinctConcat
  <2>5. Request' = Request
    BY <2>1 DEF Request
  <2>6. ASSUME NEW t \in Request
        PROVE  Distinct(window'[t]) /\ RowsOf(window'[t]) \cap RowsOf(out') = {}
    <3>1. CASE t = q
      BY <1>p, <2>1, <2>4, <3>1
    <3>2. CASE t = s
      BY <1>p, <2>1, <2>3, <3>2
    <3>3. CASE t \notin {q, s}
      BY <1>p, <2>1, <3>3
    <3>4. QED
      BY <3>1, <3>2, <3>3
  <2>7. RowsOf(window'[q]) \cap RowsOf(window'[s]) = {}
    BY <1>p, <2>1, <2>3
  <2>8. ASSUME NEW t \in Request \ {q, s}
        PROVE  /\ RowsOf(window'[q]) \cap RowsOf(window'[t]) = {}
               /\ RowsOf(window'[s]) \cap RowsOf(window'[t]) = {}
    BY <1>p, <2>1, <2>8
  <2>9. \A t, u \in Request \ {q, s} :
            t # u => RowsOf(window'[t]) \cap RowsOf(window'[u]) = {}
    BY <1>p, <2>1
  <2>10. ASSUME NEW t \in Request, NEW u \in Request, t # u
         PROVE  RowsOf(window'[t]) \cap RowsOf(window'[u]) = {}
    <3>1. CASE t \notin {q, s} /\ u \notin {q, s}
      BY <2>9, <2>10, <3>1
    <3>2. CASE t \notin {q, s} /\ u \in {q, s}
      BY <2>8, <3>2
    <3>3. CASE t \in {q, s} /\ u \notin {q, s}
      BY <2>8, <3>3
    <3>4. CASE t \in {q, s} /\ u \in {q, s}
      <4>1. RowsOf(window'[s]) \cap RowsOf(window'[q]) = {}
        BY <2>7
      <4>2. (t = q /\ u = s) \/ (t = s /\ u = q)
        BY <2>10, <3>4
      <4>3. QED
        BY <2>7, <4>1, <4>2
    <3>5. QED
      BY <3>1, <3>2, <3>3, <3>4
  <2>11. QED
    BY <1>p, <2>1, <2>5, <2>6, <2>10 DEF OnePlaceInv
<1>10. ASSUME NEW q \in Request, AnswerNobody(q) PROVE OnePlaceInv'
  <2>1. /\ visited' = visited /\ out' = out /\ window'[q] = Rest(q)
        /\ \A t \in Request \ {q} : window'[t] = window[t]
    BY <1>0, <1>10 DEF AnswerNobody
  <2>2. RowsOf(window[q]) = RowsOf(Taken(q)) \cup RowsOf(Rest(q))
    BY <1>0, RowsOfWindow
  <2>3. Distinct(Rest(q))
    BY <1>0, <1>p, DistinctWindow
  <2>4. Request' = Request
    BY <2>1 DEF Request
  <2>5. \A t \in Request :
            Distinct(window'[t]) /\ RowsOf(window'[t]) \cap RowsOf(out') = {}
    BY <1>p, <2>1, <2>2, <2>3
  <2>6. \A t, u \in Request :
            t # u => RowsOf(window'[t]) \cap RowsOf(window'[u]) = {}
    BY <1>p, <2>1, <2>2
  <2>7. QED
    BY <1>p, <2>1, <2>4, <2>5, <2>6 DEF OnePlaceInv
<1>11. ASSUME NEW q \in Request, NEW c, GiveUp(q, c) PROVE OnePlaceInv'
  BY <1>11, <1>a DEF GiveUp
<1>12. QED
  BY <1>1, <1>2, <1>3, <1>4, <1>5, <1>6, <1>7, <1>8, <1>9, <1>10, <1>11, StepCases

PlaceInv == SourceInv /\ (V!NestedParents => OnePlaceInv)

LEMMA InitPlace == Init => PlaceInv
<1> SUFFICES ASSUME Init PROVE PlaceInv
  OBVIOUS
<1>1. Request = {<<Root>>} /\ window[<<Root>>] = <<>> /\ out = <<>>
  BY InitFacts
<1>2. RowsOf(out) = {} /\ RowsOf(window[<<Root>>]) = {}
  BY <1>1 DEF RowsOf
<1>3. Distinct(out) /\ Distinct(window[<<Root>>])
  BY <1>1 DEF Distinct
<1>4. QED
  BY <1>1, <1>2, <1>3 DEF PlaceInv, SourceInv, OnePlaceInv

LEMMA NextPlace == BaseInv /\ VisitInv /\ PlaceInv /\ [Next]_vars => PlaceInv'
<1>1. VisitChildren' = VisitChildren
  BY DEF VisitChildren
<1>2. V!NestedParents' <=> V!NestedParents
  BY <1>1 DEF V!NestedParents, V!Dominates
<1>3. QED
  BY <1>2, NextSource, NextOnePlace DEF PlaceInv

\* On an overlay with nested parents no row reaches the client twice, late
\* answers and handlers that run on unheard included: what the visited lists
\* are for (QueryRequest.hpp:94-97), said of the rows.
THEOREM NoRowTwiceEver == Spec => []NoRowTwice
<1>1. BaseInv /\ VisitInv /\ PlaceInv => NoRowTwice
  <2>1. Visit!NestedParents <=> V!NestedParents
    BY DEF Visit!NestedParents, V!NestedParents, Visit!Dominates, V!Dominates
  <2>2. QED
    BY <2>1 DEF NoRowTwice, PlaceInv, OnePlaceInv, Distinct
<1>2. Init => BaseInv /\ VisitInv /\ PlaceInv
  BY InitBase, InitVisitInv, InitPlace
<1>3. BaseInv /\ VisitInv /\ PlaceInv /\ [Next]_vars
          => (BaseInv /\ VisitInv /\ PlaceInv)'
  BY NextBase, NextVisitInv, NextPlace
<1>4. QED
  BY <1>1, <1>2, <1>3, PTL DEF Spec
=============================================================================
