---------------------------- MODULE ProbeProofs ----------------------------
(***************************************************************************)
(* Proofs about Probe, for every overlay, cyclic ones included, every TTL, *)
(* any set of nodes that may crash and any number of crashes.              *)
(*                                                                         *)
(* A handler has settled the peers it will not call any more and does not  *)
(* wait for.  Its reply so far is exact for the walks that go on with a    *)
(* settled peer, and what a walk that starts with a peer it has still to   *)
(* call leads to was never touched; so a reply that is nested in that of   *)
(* the caller makes one more peer of the caller exact.                     *)
(***************************************************************************)
EXTENDS Probe, SequenceTheorems, TLAPS

\* Walk v begins with walk w; it goes beyond w; it does so to a peer in P.
Begins(w, v) == Len(w) <= Len(v) /\ \A i \in 1 .. Len(w) : v[i] = w[i]
GoesOn(w, v, P) == Begins(w, v) /\ Len(w) < Len(v) /\ v[Len(w) + 1] \in P

\* The peers a handler calls, and those it is through with.
Hops(w) == IF ttl[w] > 0 THEN Fanout(At(w)) ELSE {}
Settled(w) == Hops(w) \ (left[w] \cup asking[w])

Fresh(v) == v \notin active /\ asking[v] = {} /\ heard[v] = {} /\ failed[v] = {}

TypeOK ==
    /\ up \subseteq Node /\ Node \ up \subseteq MayCrash
    /\ crashes \in Nat
    /\ active \subseteq Walks
    /\ ttl \in [Walks -> Nat]
    /\ left \in [Walks -> SUBSET Node] /\ asking \in [Walks -> SUBSET Node]
    /\ heard \in [Walks -> SUBSET Walks] /\ failed \in [Walks -> SUBSET Walks]
    /\ client \in {"idle", "waiting", "answered", "refused"}

\* The ttl counts the hops left, and a peer is still to be called, or the
\* handler waits for it, or it is settled.
Handled(w) ==
    /\ ttl[w] + Len(w) = TTL + 1
    /\ left[w] \subseteq Hops(w)
    /\ asking[w] \subseteq Hops(w) \ left[w]
    /\ \A p, q \in asking[w] : p = q

HandlerInv == \A w \in active : Handled(w)

\* Walks through a peer that is still to be called have no handler yet.
FreshInv ==
    /\ client = "idle" => \A v \in Walks : Fresh(v)
    /\ \A w \in active, v \in Walks : GoesOn(w, v, left[w]) => Fresh(v)

\* The reply of a handler is exact for the settled peers.
Exact(w) ==
    /\ \A v \in failed[w] : GoesOn(w, v, Settled(w)) /\ At(v) \in MayCrash
    /\ \A v \in Walks :
           v \in heard[w] <=> /\ GoesOn(w, v, Settled(w))
                              /\ \A u \in failed[w] : ~Begins(u, v)

ReplyInv == \A w \in active : Exact(w)

\* A call whose handler is gone was made to a node that may crash.
BrokenInv ==
    \A w \in active : \A p \in asking[w] : w \o <<p>> \notin active => p \in MayCrash

AnswerInv == client = "answered" => <<Start>> \notin active /\ ReplyIsComplete

ProbeInv == TypeOK /\ HandlerInv /\ FreshInv /\ ReplyInv /\ BrokenInv /\ AnswerInv

\* Without a crash each handler is waited for along its walk.
ChainInv ==
    crashes = 0 =>
        /\ \A v, w \in active : Begins(v, w) \/ Begins(w, v)
        /\ \A v \in active, w \in Walks :
               Begins(w, v) /\ Len(w) < Len(v) =>
                   w \in active /\ v[Len(w) + 1] \in asking[w]

-----------------------------------------------------------------------------
\* Walks.
LEMMA WalkIsSequence ==
    ASSUME NEW w
    PROVE  w \in Walks <=>
             /\ w \in Seq(Node) /\ Len(w) \in 1 .. TTL + 1
             /\ w[1] = Start
             /\ \A i \in 1 .. Len(w) - 1 : w[i + 1] \in Fanout(w[i])
<1>1. TTL \in Nat
  BY ProbeAssumption
<1>2. ASSUME w \in UNION {[1 .. k -> Node] : k \in 1 .. TTL + 1}
      PROVE  w \in Seq(Node) /\ Len(w) \in 1 .. TTL + 1
  <2>1. PICK k \in 1 .. TTL + 1 : w \in [1 .. k -> Node]
    BY <1>2
  <2>2. QED
    BY <1>1, <2>1
<1>3. ASSUME w \in Seq(Node), Len(w) \in 1 .. TTL + 1
      PROVE  w \in UNION {[1 .. k -> Node] : k \in 1 .. TTL + 1}
  <2>1. w \in [1 .. Len(w) -> Node]
    BY <1>3
  <2>2. QED
    BY <1>3, <2>1
<1>4. QED
  BY <1>2, <1>3 DEF Walks

LEMMA TheFirstWalk ==
    <<Start>> \in Walks /\ Len(<<Start>>) = 1 /\ At(<<Start>>) = Start
<1>1. <<Start>> \in Seq(Node) /\ TTL \in Nat
  BY ProbeAssumption
<1>2. Len(<<Start>>) = 1 /\ <<Start>>[1] = Start /\ 1 \in 1 .. TTL + 1
  BY <1>1
<1>3. \A i \in 1 .. Len(<<Start>>) - 1 : <<Start>>[i + 1] \in Fanout(<<Start>>[i])
  BY <1>2
<1>4. QED
  BY <1>1, <1>2, <1>3, WalkIsSequence DEF At

\* One hop more.
LEMMA WalkOn ==
    ASSUME NEW w \in Walks, NEW p \in Fanout(At(w)), Len(w) <= TTL
    PROVE  /\ w \o <<p>> \in Walks
           /\ Len(w \o <<p>>) = Len(w) + 1
           /\ At(w \o <<p>>) = p
           /\ Begins(w, w \o <<p>>)
           /\ (w \o <<p>>)[Len(w) + 1] = p
<1>1. w \in Seq(Node) /\ Len(w) \in Nat /\ Len(w) >= 1 /\ w[1] = Start
  BY WalkIsSequence
<1>2. p \in Node /\ TTL \in Nat
  BY <1>1, ProbeAssumption DEF Fanout, At
<1> DEFINE v == w \o <<p>>
<1>3. /\ v \in Seq(Node) /\ Len(v) = Len(w) + 1
      /\ v[Len(w) + 1] = p
      /\ \A i \in 1 .. Len(w) : v[i] = w[i]
  BY <1>1, <1>2
<1>4. ASSUME NEW i \in 1 .. Len(v) - 1
      PROVE  v[i + 1] \in Fanout(v[i])
  <2>1. CASE i = Len(w)
    BY <2>1, <1>1, <1>3 DEF At
  <2>2. CASE i # Len(w)
    <3>1. i \in 1 .. Len(w) - 1 /\ i + 1 \in 1 .. Len(w) /\ i \in 1 .. Len(w)
      BY <2>2, <1>1, <1>3
    <3>2. QED
      BY <3>1, <1>3, WalkIsSequence
  <2>3. QED
    BY <2>1, <2>2
<1>5. v[1] = Start /\ Len(v) \in 1 .. TTL + 1
  BY <1>1, <1>2, <1>3
<1>6. v \in Walks
  BY <1>3, <1>4, <1>5, WalkIsSequence
<1>7. QED
  BY <1>1, <1>3, <1>6 DEF Begins, At

\* The front of a walk is a walk.
LEMMA WalkCut ==
    ASSUME NEW w \in Walks, NEW k \in 1 .. Len(w)
    PROVE  /\ SubSeq(w, 1, k) \in Walks
           /\ Len(SubSeq(w, 1, k)) = k
           /\ Begins(SubSeq(w, 1, k), w)
<1>1. w \in Seq(Node) /\ Len(w) \in 1 .. TTL + 1 /\ w[1] = Start /\ TTL \in Nat
  BY WalkIsSequence, ProbeAssumption
<1> DEFINE v == SubSeq(w, 1, k)
<1>2. /\ v \in Seq(Node) /\ Len(v) = k
      /\ \A i \in 1 .. k : v[i] = w[i]
  BY <1>1
<1>3. Len(v) \in 1 .. TTL + 1 /\ v[1] = Start
  BY <1>1, <1>2
<1>4. ASSUME NEW i \in 1 .. Len(v) - 1
      PROVE  v[i + 1] \in Fanout(v[i])
  <2>1. i \in 1 .. Len(w) - 1 /\ i + 1 \in 1 .. k /\ i \in 1 .. k
    BY <1>1, <1>2
  <2>2. QED
    BY <2>1, <1>2, WalkIsSequence
<1>5. v \in Walks
  BY <1>2, <1>3, <1>4, WalkIsSequence
<1>6. QED
  BY <1>1, <1>2, <1>5 DEF Begins

\* Walks of one length that begin alike are one walk.
LEMMA WalkEqual ==
    ASSUME NEW v \in Walks, NEW w \in Walks, Begins(v, w), Len(w) <= Len(v)
    PROVE  v = w
<1>1. v \in Seq(Node) /\ w \in Seq(Node)
  BY WalkIsSequence
<1>2. Len(v) = Len(w)
  BY <1>1 DEF Begins
<1>3. QED
  BY <1>1, <1>2, SeqEqual DEF Begins

LEMMA WalkLen ==
    ASSUME NEW w \in Walks
    PROVE  /\ Len(w) \in Nat /\ Len(w) >= 1 /\ Len(w) <= TTL + 1
           /\ At(w) \in Node /\ TTL \in Nat
           /\ Begins(w, w)
<1>1. w \in Seq(Node) /\ Len(w) \in 1 .. TTL + 1 /\ TTL \in Nat
  BY WalkIsSequence, ProbeAssumption
<1>2. QED
  BY <1>1 DEF At, Begins

\* The caller's walk, and the last hop of the walk it has led to.
LEMMA WalkBack ==
    ASSUME NEW w \in Walks, Len(w) > 1
    PROVE  /\ Front(w) \in Walks
           /\ Len(w) = Len(Front(w)) + 1
           /\ Begins(Front(w), w)
           /\ At(w) = w[Len(Front(w)) + 1]
           /\ w = Front(w) \o <<At(w)>>
<1>1. w \in Seq(Node) /\ Len(w) \in Nat /\ Len(w) - 1 \in 1 .. Len(w)
  BY WalkLen, WalkIsSequence
<1>2. /\ Front(w) \in Walks
      /\ Len(Front(w)) = Len(w) - 1
      /\ Begins(Front(w), w)
  BY <1>1, WalkCut DEF Front
<1>3. At(w) = w[Len(Front(w)) + 1]
  BY <1>1, <1>2 DEF At
<1> DEFINE v == Front(w) \o <<At(w)>>
<1>4. Front(w) \in Seq(Node) /\ At(w) \in Node
  BY <1>2, WalkIsSequence, WalkLen
<1>5. /\ v \in Seq(Node) /\ Len(v) = Len(w)
      /\ v[Len(w)] = At(w)
      /\ \A i \in 1 .. Len(w) - 1 : v[i] = Front(w)[i]
  BY <1>1, <1>2, <1>4
<1>6. \A i \in 1 .. Len(w) : v[i] = w[i]
  BY <1>1, <1>2, <1>5 DEF At, Begins
<1>7. v = w
  BY <1>1, <1>5, <1>6, SeqEqual
<1>8. QED
  BY <1>1, <1>2, <1>3, <1>7

\* A walk goes on with a peer where it begins with the walk to that peer.
LEMMA GoesOnOne ==
    ASSUME NEW w \in Walks, NEW p, NEW v \in Walks
    PROVE  /\ GoesOn(w, v, {p}) <=> Begins(w \o <<p>>, v)
           /\ Begins(w \o <<p>>, v) => w \o <<p>> \in Walks
<1>1. w \in Seq(Node) /\ v \in Seq(Node) /\ Len(w) \in Nat /\ Len(v) \in Nat
  BY WalkLen, WalkIsSequence
<1> DEFINE x == w \o <<p>>
<1>2. /\ Len(x) = Len(w) + 1
      /\ x[Len(w) + 1] = p
      /\ \A i \in 1 .. Len(w) : x[i] = w[i]
  <2>1. w \in Seq(Node \cup {p}) /\ <<p>> \in Seq(Node \cup {p})
    BY <1>1
  <2>2. QED
    BY <1>1, <2>1
<1>3. GoesOn(w, v, {p}) => Begins(x, v)
  BY <1>1, <1>2 DEF GoesOn, Begins
<1>4. ASSUME Begins(x, v) PROVE GoesOn(w, v, {p}) /\ x \in Walks
  <2>1. GoesOn(w, v, {p})
    BY <1>1, <1>2, <1>4 DEF GoesOn, Begins
  <2>2. p \in Fanout(At(w)) /\ Len(w) <= TTL
    <3>1. v[Len(w) + 1] = p /\ v[Len(w)] = At(w) /\ Len(w) \in 1 .. Len(v) - 1
      BY <2>1, WalkLen DEF GoesOn, Begins, At
    <3>2. Len(v) <= TTL + 1 /\ TTL \in Nat
      BY WalkLen
    <3>3. QED
      BY <1>1, <3>1, <3>2, WalkIsSequence
  <2>3. QED
    BY <2>1, <2>2, WalkOn
<1>5. QED
  BY <1>3, <1>4

\* Beginnings of one walk are beginnings of each other.
LEMMA BeginsOrder ==
    ASSUME NEW u \in Walks, NEW v \in Walks, NEW w \in Walks
    PROVE  /\ Begins(u, v) /\ Begins(v, w) => Begins(u, w)
           /\ Begins(u, w) /\ Begins(v, w) /\ Len(u) <= Len(v) => Begins(u, v)
           /\ Begins(u, w) /\ Begins(v, w) => Begins(u, v) \/ Begins(v, u)
           /\ Begins(u, v) /\ Len(u) < Len(v) => v # u
<1>1. Len(u) \in Nat /\ Len(v) \in Nat /\ Len(w) \in Nat
  BY WalkLen
<1>2. Begins(u, v) /\ Begins(v, w) => Begins(u, w)
  BY <1>1 DEF Begins
<1>3. ASSUME Begins(u, w), Begins(v, w), Len(u) <= Len(v) PROVE Begins(u, v)
  BY <1>1, <1>3 DEF Begins
<1>4. ASSUME Begins(u, w), Begins(v, w), Len(v) <= Len(u) PROVE Begins(v, u)
  BY <1>1, <1>4 DEF Begins
<1>5. QED
  BY <1>1, <1>2, <1>3, <1>4

-----------------------------------------------------------------------------
\* Handlers.
LEMMA HopsAreNodes ==
    ASSUME NEW w \in Walks
    PROVE  Hops(w) \subseteq Fanout(At(w)) /\ Hops(w) \subseteq Node
<1>1. At(w) \in Node
  BY WalkLen
<1>2. QED
  BY <1>1, ProbeAssumption DEF Hops, Fanout

\* The walk to a peer that a handler calls.
LEMMA PeerWalk ==
    ASSUME TypeOK, HandlerInv, NEW w \in active, NEW p \in left[w] \cup asking[w]
    PROVE  /\ p \in Node /\ p \in Hops(w) /\ ttl[w] \in Nat /\ ttl[w] > 0
           /\ w \o <<p>> \in Walks
           /\ Len(w \o <<p>>) = Len(w) + 1 /\ w \o <<p>> # w
           /\ At(w \o <<p>>) = p
           /\ Begins(w, w \o <<p>>) /\ (w \o <<p>>)[Len(w) + 1] = p
           /\ w \o <<p>> # <<Start>>
<1>1. w \in Walks /\ Handled(w) /\ ttl[w] \in Nat
  BY DEF TypeOK, HandlerInv
<1>2. p \in Hops(w)
  BY <1>1 DEF Handled
<1>3. p \in Fanout(At(w)) /\ p \in Node
  BY <1>1, <1>2, HopsAreNodes
<1>4. ttl[w] > 0
  BY <1>2 DEF Hops
<1>5. Len(w) <= TTL /\ Len(w) \in Nat /\ Len(w) >= 1
  BY <1>1, <1>4, WalkLen DEF Handled
<1>6. /\ w \o <<p>> \in Walks
      /\ Len(w \o <<p>>) = Len(w) + 1
      /\ At(w \o <<p>>) = p
      /\ Begins(w, w \o <<p>>) /\ (w \o <<p>>)[Len(w) + 1] = p
  BY <1>1, <1>3, <1>5, WalkOn
<1>7. w \o <<p>> # w /\ w \o <<p>> # <<Start>>
  BY <1>5, <1>6, TheFirstWalk
<1>8. QED
  BY <1>1, <1>2, <1>3, <1>4, <1>6, <1>7

\* One more peer is settled because the call of it failed.
LEMMA PeerFails ==
    ASSUME TypeOK, HandlerInv, ReplyInv,
           NEW w \in active, NEW p \in left[w] \cup asking[w], p \in MayCrash,
           Settled(w)' = Settled(w) \cup {p},
           failed'[w] = failed[w] \cup {w \o <<p>>}, heard'[w] = heard[w]
    PROVE  Exact(w)'
<1> DEFINE x == w \o <<p>>
<1>1. w \in Walks /\ Exact(w) /\ failed[w] \subseteq Walks
  BY DEF TypeOK, ReplyInv
<1>2. x \in Walks /\ At(x) = p /\ Len(x) = Len(w) + 1 /\ Begins(w, x) /\ x[Len(w) + 1] = p
  BY PeerWalk
<1>3. Len(w) < Len(x)
  BY <1>1, <1>2, WalkLen
<1>4. p \notin Settled(w)
  BY DEF Settled
<1>5. ASSUME NEW v \in failed'[w]
      PROVE  GoesOn(w, v, Settled(w)') /\ At(v) \in MayCrash
  BY <1>1, <1>2, <1>3, <1>5 DEF Exact, GoesOn
<1>6. ASSUME NEW v \in Walks
      PROVE  v \in heard'[w] <=> /\ GoesOn(w, v, Settled(w)')
                                 /\ \A u \in failed'[w] : ~Begins(u, v)
  <2>1. GoesOn(w, v, {p}) <=> Begins(x, v)
    BY <1>1, GoesOnOne
  <2>2. GoesOn(w, v, Settled(w)') <=> GoesOn(w, v, Settled(w)) \/ Begins(x, v)
    BY <2>1 DEF GoesOn
  <2>3. ~(GoesOn(w, v, Settled(w)) /\ Begins(x, v))
    BY <1>4, <2>1 DEF GoesOn
  <2>4. v \in heard[w] <=> /\ GoesOn(w, v, Settled(w))
                           /\ \A u \in failed[w] : ~Begins(u, v)
    BY <1>1 DEF Exact
  <2>5. (\A u \in failed'[w] : ~Begins(u, v))
          <=> (\A u \in failed[w] : ~Begins(u, v)) /\ ~Begins(x, v)
    OBVIOUS
  <2>6. QED
    BY <2>2, <2>3, <2>4, <2>5
<1>7. QED
  BY <1>5, <1>6 DEF Exact, GoesOn, Begins, At

\* A handler without a peer left is exact for all walks through its node.
LEMMA AllSettled ==
    ASSUME TypeOK, HandlerInv, ReplyInv,
           NEW w \in active, left[w] = {}, asking[w] = {}, NEW v \in Walks
    PROVE  /\ v \in heard[w] <=> /\ Begins(w, v) /\ v # w
                                 /\ \A u \in failed[w] : ~Begins(u, v)
           /\ w \notin failed[w]
           /\ \A u \in failed[w] : u \in Walks /\ Begins(w, u) /\ At(u) \in MayCrash
<1>1. w \in Walks /\ Exact(w) /\ Handled(w) /\ failed[w] \subseteq Walks /\ ttl[w] \in Nat
  BY DEF TypeOK, ReplyInv, HandlerInv
<1>2. Len(w) \in Nat /\ Len(v) \in Nat /\ Len(v) <= TTL + 1 /\ Len(w) >= 1 /\ TTL \in Nat
  BY <1>1, WalkLen
<1>3. Settled(w) = Hops(w)
  BY DEF Settled
<1>4. ASSUME Begins(w, v), v # w PROVE GoesOn(w, v, Hops(w))
  <2>1. Len(w) < Len(v)
    BY <1>1, <1>2, <1>4, WalkEqual DEF Begins
  <2>2. ttl[w] > 0
    BY <1>1, <1>2, <2>1 DEF Handled
  <2>3. v[Len(w)] = At(w) /\ Len(w) \in 1 .. Len(v) - 1
    BY <1>2, <1>4, <2>1 DEF Begins, At
  <2>4. v[Len(w) + 1] \in Fanout(At(w))
    BY <2>3, WalkIsSequence
  <2>5. QED
    BY <1>4, <2>1, <2>2, <2>4 DEF GoesOn, Hops
<1>5. GoesOn(w, v, Hops(w)) => Begins(w, v) /\ v # w
  BY <1>2 DEF GoesOn
<1>6. ~GoesOn(w, w, Hops(w))
  BY <1>2 DEF GoesOn
<1>7. QED
  BY <1>1, <1>3, <1>4, <1>5, <1>6 DEF Exact, GoesOn

\* One more peer is settled because its reply was nested in the handler's.
LEMMA PeerAnswers ==
    ASSUME TypeOK, HandlerInv, ReplyInv,
           NEW c \in active, NEW p \in asking[c], NEW w \in active, w = c \o <<p>>,
           left[w] = {}, asking[w] = {},
           Settled(c)' = Settled(c) \cup {p},
           heard'[c] = heard[c] \cup {w} \cup heard[w],
           failed'[c] = failed[c] \cup failed[w]
    PROVE  Exact(c)'
<1>1. /\ c \in Walks /\ Exact(c) /\ failed[c] \subseteq Walks
      /\ w \in Walks /\ failed[w] \subseteq Walks
  BY DEF TypeOK, ReplyInv
<1>2. p \notin Settled(c)
  BY DEF Settled
<1>3. \A v \in Walks : GoesOn(c, v, {p}) <=> Begins(w, v)
  BY <1>1, GoesOnOne
<1>4. ASSUME NEW v \in failed'[c]
      PROVE  GoesOn(c, v, Settled(c)') /\ At(v) \in MayCrash
  <2>1. CASE v \in failed[c]
    BY <2>1, <1>1 DEF Exact, GoesOn
  <2>2. CASE v \in failed[w]
    <3>1. v \in Walks /\ Begins(w, v) /\ At(v) \in MayCrash
      BY <2>2, <1>1, AllSettled
    <3>2. GoesOn(c, v, {p})
      BY <3>1, <1>3
    <3>3. QED
      BY <3>1, <3>2 DEF GoesOn
  <2>3. QED
    BY <1>4, <2>1, <2>2
<1>5. ASSUME NEW v \in Walks
      PROVE  v \in heard'[c] <=> /\ GoesOn(c, v, Settled(c)')
                                 /\ \A u \in failed'[c] : ~Begins(u, v)
  <2>1. v \in heard[c] <=> /\ GoesOn(c, v, Settled(c))
                           /\ \A u \in failed[c] : ~Begins(u, v)
    BY <1>1 DEF Exact
  <2>2. v \in heard[w] <=> /\ Begins(w, v) /\ v # w
                           /\ \A u \in failed[w] : ~Begins(u, v)
    BY AllSettled
  <2>3. GoesOn(c, v, Settled(c)') <=> GoesOn(c, v, Settled(c)) \/ Begins(w, v)
    BY <1>3 DEF GoesOn
  <2>4. ~(GoesOn(c, v, Settled(c)) /\ Begins(w, v))
    BY <1>2, <1>3 DEF GoesOn
  <2>5. CASE Begins(w, v)
    <3>1. ASSUME NEW u \in failed[c] PROVE ~Begins(u, v)
      <4>1. GoesOn(c, u, Settled(c)) /\ u \in Walks
        BY <3>1, <1>1 DEF Exact
      <4>2. Begins(u, v) => GoesOn(c, v, Settled(c))
        <5>1. Len(c) \in Nat /\ Len(u) \in Nat /\ Len(v) \in Nat
          BY <1>1, <4>1, WalkLen
        <5>2. QED
          BY <4>1, <5>1 DEF GoesOn, Begins
      <4>3. QED
        BY <4>2, <2>4, <2>5
    <3>2. ASSUME NEW u \in failed[w] PROVE ~Begins(u, w)
      <4>1. u \in Walks /\ Begins(w, u) /\ u # w
        BY <3>2, <1>1, AllSettled
      <4>2. Begins(u, w) => Len(u) <= Len(w)
        BY DEF Begins
      <4>3. QED
        BY <4>1, <4>2, <1>1, WalkEqual
    <3>3. QED
      BY <2>1, <2>2, <2>3, <2>4, <2>5, <3>1, <3>2
  <2>6. CASE ~Begins(w, v)
    <3>1. v # w
      BY <2>6, <1>1, WalkLen
    <3>2. ASSUME NEW u \in failed[w] PROVE ~Begins(u, v)
      <4>1. u \in Walks /\ Begins(w, u)
        BY <3>2, <1>1, AllSettled
      <4>2. QED
        BY <4>1, <2>6, <1>1, BeginsOrder
    <3>3. QED
      BY <2>1, <2>2, <2>3, <2>6, <3>1, <3>2
  <2>7. QED
    BY <2>5, <2>6
<1>6. QED
  BY <1>4, <1>5 DEF Exact, GoesOn, Begins, At

\* What a step leaves alone.
LEMMA HandlerStays ==
    ASSUME NEW w, ttl'[w] = ttl[w], left'[w] = left[w], asking'[w] = asking[w]
    PROVE  /\ Handled(w) => Handled(w)'
           /\ Settled(w)' = Settled(w) /\ Hops(w)' = Hops(w)
           /\ heard'[w] = heard[w] /\ failed'[w] = failed[w] /\ Exact(w) => Exact(w)'
BY DEF Handled, Settled, Hops, Exact, GoesOn, Begins, At

LEMMA AnswerStays ==
    ASSUME TypeOK, AnswerInv, client' = "answered" => client = "answered",
           <<Start>> \notin active => /\ <<Start>> \notin active'
                                      /\ heard'[<<Start>>] = heard[<<Start>>]
                                      /\ failed'[<<Start>>] = failed[<<Start>>]
    PROVE  AnswerInv'
BY DEF AnswerInv, ReplyIsComplete

-----------------------------------------------------------------------------
LEMMA ProbeInit == Init => ProbeInv
<1> SUFFICES ASSUME Init PROVE ProbeInv
  OBVIOUS
<1> USE DEF Init
<1>1. TypeOK
  BY ProbeAssumption DEF TypeOK
<1>2. HandlerInv /\ ReplyInv /\ BrokenInv /\ AnswerInv
  BY DEF HandlerInv, ReplyInv, BrokenInv, AnswerInv
<1>3. FreshInv
  BY DEF FreshInv, Fresh
<1>4. QED
  BY <1>1, <1>2, <1>3 DEF ProbeInv

\* The first handler: nothing is settled and nothing was heard.
LEMMA ProbeClient ==
    ASSUME ProbeInv, ClientProbes
    PROVE  ProbeInv'
<1> USE DEF ProbeInv
<1>1. client = "idle" /\ active = {} /\ \A v \in Walks : Fresh(v)
  BY DEF ClientProbes, FreshInv, TypeOK, Fresh
<1>2. UNCHANGED <<up, crashes, asking, heard, failed>>
  BY DEF ClientProbes
<1>3. CASE Start \notin up
  <2>1. UNCHANGED <<active, ttl, left>> /\ client' = "refused"
    BY <1>3 DEF ClientProbes
  <2>2. TypeOK'
    BY <2>1, <1>2 DEF TypeOK
  <2>3. QED
    BY <2>1, <2>2, <1>1 DEF HandlerInv, FreshInv, ReplyInv, BrokenInv, AnswerInv
<1>4. CASE Start \in up
  <2> DEFINE w == <<Start>>
  <2>1. w \in Walks /\ Len(w) = 1 /\ At(w) = Start /\ TTL \in Nat /\ Start \in Node
    BY TheFirstWalk, ProbeAssumption
  <2>2. /\ client' = "waiting"
        /\ active' = {w}
        /\ ttl' = [ttl EXCEPT ![w] = TTL]
        /\ left' = [left EXCEPT ![w] = IF TTL > 0 THEN Fanout(Start) ELSE {}]
    BY <1>1, <1>4, <2>1 DEF ClientProbes, Handle
  <2>3. ttl'[w] = TTL /\ left'[w] = Hops(w)'
    BY <2>1, <2>2 DEF TypeOK, Hops, At
  <2>4. asking'[w] = {} /\ heard'[w] = {} /\ failed'[w] = {}
    BY <1>1, <1>2, <2>1 DEF Fresh
  <2>5. TypeOK'
    <3>1. left'[w] \subseteq Node
      BY <2>1, <2>2, ProbeAssumption DEF TypeOK, Fanout
    <3>2. QED
      BY <3>1, <2>1, <2>2, <1>2 DEF TypeOK
  <2>6. HandlerInv'
    <3>1. Handled(w)'
      BY <2>1, <2>3, <2>4 DEF Handled
    <3>2. QED
      BY <3>1, <2>2 DEF HandlerInv
  <2>7. ReplyInv'
    <3>1. Settled(w)' = {}
      BY <2>3 DEF Settled
    <3>2. Exact(w)'
      BY <3>1, <2>4 DEF Exact, GoesOn
    <3>3. QED
      BY <3>2, <2>2 DEF ReplyInv
  <2>8. FreshInv'
    <3> SUFFICES ASSUME NEW v \in Walks, GoesOn(w, v, left'[w]) PROVE Fresh(v)'
      BY <2>2 DEF FreshInv, GoesOn, Begins
    <3>1. v # w
      BY <2>1, WalkLen DEF GoesOn
    <3>2. QED
      BY <3>1, <1>1, <1>2, <2>2 DEF Fresh
  <2>9. BrokenInv' /\ AnswerInv'
    BY <2>2, <2>4 DEF BrokenInv, AnswerInv
  <2>10. QED
    BY <2>5, <2>6, <2>7, <2>8, <2>9
<1>5. QED
  BY <1>3, <1>4

LEMMA ProbeCall ==
    ASSUME ProbeInv, NEW w \in active, NEW p \in Node, CallPeer(w, p)
    PROVE  ProbeInv'
<1> USE DEF ProbeInv
<1> DEFINE x == w \o <<p>>
<1>1. /\ w \in Walks /\ p \in left[w] /\ asking[w] = {} /\ p \in up
      /\ Handled(w) /\ Exact(w)
  BY DEF CallPeer, TypeOK, HandlerInv, ReplyInv
<1>2. /\ p \in Node /\ p \in Hops(w) /\ ttl[w] \in Nat /\ ttl[w] > 0
      /\ x \in Walks /\ Len(x) = Len(w) + 1 /\ x # w /\ At(x) = p
      /\ Begins(w, x) /\ x[Len(w) + 1] = p /\ x # <<Start>>
  BY <1>1, PeerWalk
<1> HIDE DEF x
<1>3. Len(w) \in Nat /\ Len(x) \in Nat
  BY <1>1, <1>2, WalkLen
<1>4. GoesOn(w, x, left[w]) /\ Fresh(x)
  BY <1>1, <1>2, <1>3 DEF FreshInv, GoesOn
<1>5. /\ active' = active \cup {x}
      /\ asking' = [asking EXCEPT ![w] = {p}]
      /\ ttl' = [ttl EXCEPT ![x] = ttl[w] - 1]
      /\ left' = [left EXCEPT ![w] = @ \ {p},
                              ![x] = IF ttl[w] > 1 THEN Fanout(p) ELSE {}]
      /\ UNCHANGED <<up, crashes, heard, failed, client>>
  BY DEF CallPeer, x
<1>6. /\ asking'[w] = {p} /\ left'[w] = left[w] \ {p} /\ ttl'[w] = ttl[w]
      /\ asking'[x] = {} /\ ttl'[x] = ttl[w] - 1
      /\ left'[x] = IF ttl[w] > 1 THEN Fanout(p) ELSE {}
      /\ \A u \in Walks \ {w, x} : /\ ttl'[u] = ttl[u] /\ left'[u] = left[u]
                                   /\ asking'[u] = asking[u]
  BY <1>1, <1>2, <1>4, <1>5 DEF TypeOK, Fresh
<1>7. TypeOK'
  <2>1. Fanout(p) \subseteq Node
    BY ProbeAssumption DEF Fanout
  <2>2. /\ left[w] \ {p} \subseteq Node
        /\ (IF ttl[w] > 1 THEN Fanout(p) ELSE {}) \subseteq Node
    BY <1>1, <2>1 DEF TypeOK
  <2>3. ttl[w] - 1 \in Nat
    BY <1>2
  <2>4. ttl' \in [Walks -> Nat] /\ left' \in [Walks -> SUBSET Node]
    BY <1>5, <2>2, <2>3 DEF TypeOK
  <2>5. asking' \in [Walks -> SUBSET Node] /\ active' \subseteq Walks
    BY <1>2, <1>5 DEF TypeOK
  <2>6. QED
    BY <2>4, <2>5, <1>5 DEF TypeOK
<1>8. /\ Hops(w)' = Hops(w) /\ Settled(w)' = Settled(w)
      /\ Hops(x)' = left'[x] /\ Settled(x)' = {}
  <2>1. Hops(w)' = Hops(w)
    BY <1>6 DEF Hops, At
  <2>2. left[w] \cup asking[w] = left'[w] \cup asking'[w]
    BY <1>1, <1>6
  <2>3. Settled(w)' = Settled(w)
    BY <2>1, <2>2 DEF Settled
  <2>4. Hops(x)' = left'[x]
    BY <1>2, <1>6 DEF Hops, At
  <2>5. QED
    BY <2>1, <2>3, <2>4 DEF Settled
<1>9. HandlerInv'
  <2>1. Handled(w)'
    BY <1>1, <1>2, <1>6, <1>8 DEF Handled
  <2>2. Handled(x)'
    <3>1. ttl'[x] + Len(x) = TTL + 1
      BY <1>1, <1>2, <1>3, <1>6, ProbeAssumption DEF Handled
    <3>2. QED
      BY <3>1, <1>6, <1>8 DEF Handled
  <2>3. ASSUME NEW u \in active, u \notin {w, x} PROVE Handled(u)'
    BY <2>3, <1>6, HandlerStays DEF HandlerInv, TypeOK
  <2>4. QED
    BY <2>1, <2>2, <2>3, <1>5 DEF HandlerInv
<1>10. ReplyInv'
  <2>1. Exact(w)'
    BY <1>1, <1>5, <1>8 DEF Exact, GoesOn, Begins, At
  <2>2. Exact(x)'
    BY <1>4, <1>5, <1>8 DEF Exact, GoesOn, Fresh
  <2>3. ASSUME NEW u \in active, u \notin {w, x} PROVE Exact(u)'
    BY <2>3, <1>5, <1>6, HandlerStays DEF ReplyInv, TypeOK
  <2>4. QED
    BY <2>1, <2>2, <2>3, <1>5 DEF ReplyInv
<1>11. FreshInv'
  <2>1. client' # "idle"
    BY <1>5 DEF FreshInv, Fresh, TypeOK
  <2>2. ASSUME NEW v \in Walks, Fresh(v), v # x PROVE Fresh(v)'
    <3>1. v # w
      BY <2>2 DEF Fresh
    <3>2. QED
      BY <2>2, <3>1, <1>5, <1>6 DEF Fresh
  <2>3. ASSUME NEW u \in active', NEW v \in Walks, GoesOn(u, v, left'[u])
        PROVE  Fresh(v)'
    <3>1. CASE u = w
      <4>1. GoesOn(w, v, left[w]) /\ v # x
        BY <2>3, <3>1, <1>2, <1>6 DEF GoesOn
      <4>2. QED
        BY <4>1, <2>2 DEF FreshInv
    <3>2. CASE u = x
      <4>1. GoesOn(w, v, {p}) /\ v # x
        BY <2>3, <3>2, <1>1, <1>3, GoesOnOne DEF GoesOn, x
      <4>2. GoesOn(w, v, left[w])
        BY <4>1, <1>1 DEF GoesOn
      <4>3. QED
        BY <4>1, <4>2, <2>2 DEF FreshInv
    <3>3. CASE u \notin {w, x}
      <4>1. u \in active /\ u \in Walks /\ left'[u] = left[u]
        BY <3>3, <1>5, <1>6 DEF TypeOK
      <4>2. Fresh(v) /\ Len(u) \in Nat
        BY <4>1, <2>3, WalkLen DEF FreshInv
      <4>3. v # x
        <5> SUFFICES ASSUME v = x PROVE FALSE
          OBVIOUS
        <5>1. Len(u) <= Len(w) /\ Begins(u, w)
          BY <2>3, <1>1, <1>2, <1>3, <4>1, <4>2, BeginsOrder DEF GoesOn
        <5>2. Len(u) < Len(w)
          BY <5>1, <3>3, <4>1, <4>2, <1>1, <1>3, WalkEqual
        <5>3. w[Len(u) + 1] = x[Len(u) + 1]
          BY <5>2, <1>2, <1>3, <4>2 DEF Begins
        <5>4. GoesOn(u, w, left[u])
          BY <5>1, <5>2, <5>3, <2>3, <4>1 DEF GoesOn
        <5>5. QED
          BY <5>4, <4>1, <1>1 DEF FreshInv, Fresh
      <4>4. QED
        BY <4>2, <4>3, <2>2
    <3>4. QED
      BY <3>1, <3>2, <3>3
  <2>4. QED
    BY <2>1, <2>3 DEF FreshInv, GoesOn, Begins
<1>12. BrokenInv'
  <2> SUFFICES ASSUME NEW u \in active', NEW q \in asking'[u], u \o <<q>> \notin active'
               PROVE  q \in MayCrash
    BY <1>5 DEF BrokenInv
  <2>1. u # w
    BY <1>5, <1>6 DEF x
  <2>2. u # x
    BY <1>6
  <2>3. u \in active /\ u \in Walks /\ q \in asking[u] /\ u \o <<q>> \notin active
    BY <2>1, <2>2, <1>5, <1>6 DEF TypeOK
  <2>4. QED
    BY <2>3 DEF BrokenInv
<1>13. AnswerInv'
  <2>1. <<Start>> \notin active => <<Start>> \notin active'
    BY <1>2, <1>5
  <2>2. QED
    BY <2>1, <1>5, AnswerStays
<1>14. QED
  BY <1>7, <1>9, <1>10, <1>11, <1>12, <1>13

\* A call fails, of a peer that is down or of one whose handler is gone.
LEMMA ProbeFail ==
    ASSUME ProbeInv, NEW w \in active, NEW p \in left[w] \cup asking[w],
           p \in MayCrash, asking[w] \subseteq {p},
           left' = [left EXCEPT ![w] = @ \ {p}],
           asking' = [asking EXCEPT ![w] = {}],
           failed' = [failed EXCEPT ![w] = @ \cup {w \o <<p>>}],
           UNCHANGED <<up, crashes, active, ttl, heard, client>>
    PROVE  ProbeInv'
<1> USE DEF ProbeInv
<1>1. w \in Walks /\ w \o <<p>> \in Walks /\ p \in Hops(w) /\ Handled(w)
  BY PeerWalk DEF TypeOK, HandlerInv
<1>2. /\ asking'[w] = {} /\ left'[w] = left[w] \ {p} /\ ttl'[w] = ttl[w]
      /\ failed'[w] = failed[w] \cup {w \o <<p>>}
      /\ \A u \in Walks \ {w} : /\ ttl'[u] = ttl[u] /\ left'[u] = left[u]
                                /\ asking'[u] = asking[u] /\ failed'[u] = failed[u]
  BY <1>1 DEF TypeOK
<1>3. TypeOK'
  <2>1. left[w] \ {p} \subseteq Node /\ failed[w] \cup {w \o <<p>>} \subseteq Walks
    BY <1>1 DEF TypeOK
  <2>2. QED
    BY <2>1 DEF TypeOK
<1>4. Hops(w)' = Hops(w)
  BY <1>2 DEF Hops, At
<1>5. Settled(w)' = Settled(w) \cup {p}
  BY <1>1, <1>2, <1>4 DEF Settled, Handled
<1>6. HandlerInv'
  <2>1. Handled(w)'
    BY <1>1, <1>2, <1>4 DEF Handled
  <2>2. ASSUME NEW u \in active, u # w PROVE Handled(u)'
    BY <2>2, <1>2, HandlerStays DEF HandlerInv, TypeOK
  <2>3. QED
    BY <2>1, <2>2 DEF HandlerInv
<1>7. ReplyInv'
  <2>1. Exact(w)'
    BY <1>2, <1>5, PeerFails
  <2>2. ASSUME NEW u \in active, u # w PROVE Exact(u)'
    BY <2>2, <1>2, HandlerStays DEF ReplyInv, TypeOK
  <2>3. QED
    BY <2>1, <2>2 DEF ReplyInv
<1>8. FreshInv'
  <2>1. client' # "idle"
    BY <1>1 DEF FreshInv, Fresh
  <2>2. ASSUME NEW v \in Walks, Fresh(v) PROVE Fresh(v)'
    <3>1. v # w
      BY <2>2 DEF Fresh
    <3>2. QED
      BY <2>2, <3>1, <1>2 DEF Fresh
  <2>3. ASSUME NEW u \in active, NEW v \in Walks, GoesOn(u, v, left'[u])
        PROVE  GoesOn(u, v, left[u])
    <3>1. left'[u] \subseteq left[u]
      BY <1>2 DEF TypeOK
    <3>2. QED
      BY <2>3, <3>1 DEF GoesOn
  <2>4. QED
    BY <2>1, <2>2, <2>3 DEF FreshInv, GoesOn, Begins
<1>9. BrokenInv'
  <2>1. \A u \in active : asking'[u] \subseteq asking[u]
    BY <1>2 DEF TypeOK
  <2>2. QED
    BY <2>1 DEF BrokenInv
<1>10. AnswerInv'
  <2>1. <<Start>> \notin active => failed'[<<Start>>] = failed[<<Start>>]
    BY <1>2, TheFirstWalk
  <2>2. QED
    BY <2>1, AnswerStays
<1>11. QED
  BY <1>3, <1>6, <1>7, <1>8, <1>9, <1>10

LEMMA ProbePeerIsDown ==
    ASSUME ProbeInv, NEW w \in active, NEW p \in Node, PeerIsDown(w, p)
    PROVE  ProbeInv'
<1>1. w \in Walks /\ asking[w] = {} /\ p \in left[w] /\ p \in MayCrash
  BY DEF PeerIsDown, ProbeInv, TypeOK
<1>2. asking' = [asking EXCEPT ![w] = {}]
  BY <1>1 DEF PeerIsDown, ProbeInv, TypeOK
<1>3. QED
  BY <1>1, <1>2, ProbeFail DEF PeerIsDown

LEMMA ProbeCallBreaks ==
    ASSUME ProbeInv, NEW w \in active, NEW p \in Node, CallBreaks(w, p)
    PROVE  ProbeInv'
<1>1. w \in Walks /\ Handled(w) /\ p \in asking[w] /\ p \in MayCrash
  BY DEF CallBreaks, ProbeInv, TypeOK, HandlerInv, BrokenInv
<1>2. asking[w] \subseteq {p} /\ p \notin left[w]
  BY <1>1 DEF Handled
<1>3. left' = [left EXCEPT ![w] = @ \ {p}]
  <2>1. left[w] = left[w] \ {p}
    BY <1>2
  <2>2. QED
    BY <2>1, <1>1 DEF CallBreaks, ProbeInv, TypeOK
<1>4. QED
  BY <1>1, <1>2, <1>3, ProbeFail DEF CallBreaks

\* A handler ends: its caller, if it still runs and waits, has one more peer
\* settled, and the client gets a reply that is exact.
LEMMA ProbeReply ==
    ASSUME ProbeInv, NEW w \in active, Reply(w)
    PROVE  ProbeInv'
<1> USE DEF ProbeInv
<1> DEFINE c == Front(w)
           p == At(w)
<1>1. w \in Walks /\ left[w] = {} /\ asking[w] = {} /\ Len(w) \in Nat /\ Len(w) >= 1
  BY WalkLen DEF Reply, TypeOK
<1>2. active' = active \ {w} /\ UNCHANGED <<up, crashes, ttl, left>>
  BY DEF Reply
<1>3. client' = IF w = <<Start>> THEN "answered" ELSE client
  BY DEF Reply
<1>4. w = <<Start>> => ~(Len(w) > 1)
  <2>1. ~(Len(<<Start>>) > 1)
    BY TheFirstWalk
  <2>2. QED
    BY <2>1, Zenon
<1>5. ASSUME IsAwaited(w)
      PROVE  /\ c \in active /\ c \in Walks /\ p \in asking[c] /\ c # w
             /\ w = c \o <<p>> /\ Handled(c) /\ w # <<Start>>
  <2>1. c \in active /\ Len(w) > 1 /\ p \in asking[c]
    BY <1>5 DEF IsAwaited
  <2>2. c \in Walks /\ Len(w) = Len(c) + 1 /\ w = c \o <<p>> /\ Len(c) \in Nat
    BY <1>1, <2>1, WalkBack, WalkLen
  <2>3. w # <<Start>>
    BY <2>1, <1>4
  <2>4. QED
    BY <2>1, <2>2, <2>3 DEF HandlerInv
<1> HIDE DEF c, p
<1>6. /\ IsAwaited(w) =>
             /\ asking' = [asking EXCEPT ![c] = @ \ {p}]
             /\ heard' = [heard EXCEPT ![c] = @ \cup {w} \cup heard[w]]
             /\ failed' = [failed EXCEPT ![c] = @ \cup failed[w]]
      /\ ~IsAwaited(w) => UNCHANGED <<asking, heard, failed>>
  BY DEF Reply, c, p
<1>7. \A u \in active : ~(IsAwaited(w) /\ u = c) =>
          asking'[u] = asking[u] /\ heard'[u] = heard[u] /\ failed'[u] = failed[u]
  BY <1>5, <1>6 DEF TypeOK
<1>8. ASSUME IsAwaited(w)
      PROVE  /\ asking'[c] = {}
             /\ heard'[c] = heard[c] \cup {w} \cup heard[w]
             /\ failed'[c] = failed[c] \cup failed[w]
             /\ Hops(c)' = Hops(c) /\ Settled(c)' = Settled(c) \cup {p}
  <2>1. asking'[c] = asking[c] \ {p} /\ asking[c] = {p}
    BY <1>5, <1>6, <1>8 DEF TypeOK, Handled
  <2>2. Hops(c)' = Hops(c)
    BY <1>2 DEF Hops, At
  <2>3. Settled(c)' = Settled(c) \cup {p}
    BY <1>2, <1>5, <1>8, <2>1, <2>2 DEF Settled, Handled
  <2>4. QED
    BY <2>1, <2>2, <2>3, <1>5, <1>6, <1>8 DEF TypeOK
<1>9. TypeOK'
  <2>1. CASE IsAwaited(w)
    <3>1. asking' \in [Walks -> SUBSET Node]
      <4>1. asking[c] \ {p} \subseteq Node
        BY <2>1, <1>5 DEF TypeOK
      <4>2. QED
        BY <4>1, <2>1, <1>6 DEF TypeOK
    <3>2. heard[c] \cup {w} \cup heard[w] \subseteq Walks
      BY <2>1, <1>1, <1>5 DEF TypeOK
    <3>3. failed[c] \cup failed[w] \subseteq Walks
      BY <2>1, <1>1, <1>5 DEF TypeOK
    <3>4. heard' \in [Walks -> SUBSET Walks] /\ failed' \in [Walks -> SUBSET Walks]
      BY <2>1, <1>6, <3>2, <3>3 DEF TypeOK
    <3>5. QED
      BY <3>1, <3>4, <1>2, <1>3 DEF TypeOK
  <2>2. CASE ~IsAwaited(w)
    BY <2>2, <1>2, <1>3, <1>6 DEF TypeOK
  <2>3. QED
    BY <2>1, <2>2
<1>10. HandlerInv'
  <2>1. ASSUME IsAwaited(w) PROVE Handled(c)'
    BY <2>1, <1>2, <1>5, <1>8 DEF Handled
  <2>2. ASSUME NEW u \in active, ~(IsAwaited(w) /\ u = c) PROVE Handled(u)'
    BY <2>2, <1>2, <1>7, HandlerStays DEF HandlerInv
  <2>3. QED
    BY <2>1, <2>2, <1>2 DEF HandlerInv
<1>11. ReplyInv'
  <2>1. ASSUME IsAwaited(w) PROVE Exact(c)'
    BY <2>1, <1>1, <1>5, <1>8, PeerAnswers
  <2>2. ASSUME NEW u \in active, ~(IsAwaited(w) /\ u = c) PROVE Exact(u)'
    BY <2>2, <1>2, <1>7, HandlerStays DEF ReplyInv
  <2>3. QED
    BY <2>1, <2>2, <1>2 DEF ReplyInv
<1>12. FreshInv'
  <2>1. client' # "idle"
    BY <1>1, <1>3 DEF FreshInv, Fresh
  <2>2. ASSUME NEW v \in Walks, Fresh(v) PROVE Fresh(v)'
    <3>1. ~(IsAwaited(w) /\ v = c)
      BY <2>2, <1>5 DEF Fresh
    <3>2. asking'[v] = asking[v] /\ heard'[v] = heard[v] /\ failed'[v] = failed[v]
      BY <2>2, <3>1, <1>5, <1>6 DEF TypeOK
    <3>3. QED
      BY <2>2, <3>2, <1>2 DEF Fresh
  <2>3. QED
    BY <2>1, <2>2, <1>2 DEF FreshInv, GoesOn, Begins
<1>13. BrokenInv'
  <2> SUFFICES ASSUME NEW u \in active', NEW q \in asking'[u], u \o <<q>> \notin active'
               PROVE  q \in MayCrash
    BY <1>2 DEF BrokenInv
  <2>1. u \in active /\ u \in Walks /\ q \in asking[u]
    BY <1>2, <1>7, <1>8 DEF TypeOK
  <2>2. CASE u \o <<q>> \notin active
    BY <2>1, <2>2 DEF BrokenInv
  <2>3. CASE u \o <<q>> = w
    <3>1. Len(w) = Len(u) + 1 /\ At(w) = q /\ Len(u) \in Nat /\ Len(u) >= 1
      BY <2>1, <2>3, PeerWalk, WalkLen
    <3>2. Begins(u, w) /\ Len(w) > 1
      <4>1. Begins(u, u \o <<q>>)
        BY <2>1, PeerWalk
      <4>2. Len(w) > 1
        BY <3>1
      <4>3. Begins(u, w)
        BY <4>1, <2>3, Zenon
      <4>4. QED
        BY <4>2, <4>3
    <3>3. u = c
      <4>1. c \in Walks /\ Len(w) = Len(c) + 1 /\ Begins(c, w) /\ Len(c) \in Nat
        BY <1>1, <3>2, WalkBack, WalkLen DEF c
      <4>2. Begins(u, c)
        BY <4>1, <3>1, <3>2, <2>1, <1>1, BeginsOrder
      <4>3. QED
        BY <4>1, <4>2, <3>1, <2>1, WalkEqual
    <3>4. IsAwaited(w)
      BY <2>1, <3>1, <3>2, <3>3 DEF IsAwaited, c
    <3>5. QED
      BY <3>3, <3>4, <1>8
  <2>4. QED
    BY <2>2, <2>3, <1>2
<1>14. AnswerInv'
  <2>1. CASE w = <<Start>>
    <3>1. ~IsAwaited(w)
      BY <2>1, <1>5
    <3>2. heard' = heard /\ failed' = failed /\ w \notin active'
      BY <3>1, <1>2, <1>6
    <3>3. ASSUME NEW v \in Walks
          PROVE  v \in heard[w] <=> /\ v # w
                                    /\ \A k \in 1 .. Len(v) : SubSeq(v, 1, k) \notin failed[w]
      <4>1. v \in heard[w] <=> /\ Begins(w, v) /\ v # w
                               /\ \A u \in failed[w] : ~Begins(u, v)
        BY <1>1, AllSettled
      <4>2. Begins(w, v)
        <5>1. v[1] = Start /\ Len(v) >= 1 /\ Len(w) = 1 /\ w[1] = Start
          BY <2>1, WalkIsSequence, TheFirstWalk
        <5>2. QED
          BY <5>1 DEF Begins
      <4>3. ASSUME NEW u \in failed[w], Begins(u, v)
            PROVE  \E k \in 1 .. Len(v) : SubSeq(v, 1, k) \in failed[w]
        <5>1. u \in Walks /\ Len(u) \in 1 .. Len(v)
          BY <4>3, <1>1, WalkLen DEF TypeOK, Begins
        <5>2. /\ SubSeq(v, 1, Len(u)) \in Walks /\ Len(SubSeq(v, 1, Len(u))) = Len(u)
              /\ Begins(SubSeq(v, 1, Len(u)), v)
          BY <5>1, WalkCut
        <5>3. Len(u) <= Len(SubSeq(v, 1, Len(u)))
          BY <5>1, <5>2
        <5>4. Begins(u, SubSeq(v, 1, Len(u)))
          BY <5>1, <5>2, <5>3, <4>3, BeginsOrder
        <5>5. u = SubSeq(v, 1, Len(u))
          <6>1. Len(SubSeq(v, 1, Len(u))) <= Len(u)
            BY <5>1, <5>2
          <6>2. QED
            BY <6>1, <5>1, <5>2, <5>4, WalkEqual
        <5>6. QED
          BY <5>1, <5>5
      <4>4. ASSUME NEW k \in 1 .. Len(v), SubSeq(v, 1, k) \in failed[w]
            PROVE  \E u \in failed[w] : Begins(u, v)
        BY <4>4, WalkCut
      <4>5. QED
        BY <4>1, <4>2, <4>3, <4>4
    <3>4. ReplyIsComplete'
      <4>1. heard[w] \subseteq Walks
        BY <1>1 DEF TypeOK
      <4>2. \A v \in failed[w] : At(v) \in MayCrash
        BY <1>1, AllSettled
      <4>3. heard[w] = {v \in Walks \ {w} :
                          \A k \in 1 .. Len(v) : SubSeq(v, 1, k) \notin failed[w]}
        BY <3>3, <4>1
      <4>4. QED
        BY <4>2, <4>3, <3>2, <2>1 DEF ReplyIsComplete, At
    <3>5. QED
      BY <2>1, <3>2, <3>4 DEF AnswerInv
  <2>2. CASE w # <<Start>>
    <3>1. <<Start>> \notin active => /\ heard'[<<Start>>] = heard[<<Start>>]
                                     /\ failed'[<<Start>>] = failed[<<Start>>]
      BY <1>5, <1>6, TheFirstWalk DEF TypeOK
    <3>2. QED
      BY <2>2, <3>1, <1>2, <1>3, AnswerStays
  <2>3. QED
    BY <2>1, <2>2
<1>15. QED
  BY <1>9, <1>10, <1>11, <1>12, <1>13, <1>14

LEMMA ProbeCrash ==
    ASSUME ProbeInv, NEW n \in Node, Crash(n)
    PROVE  ProbeInv'
<1> USE DEF ProbeInv
<1>1. /\ n \in MayCrash
      /\ up' = up \ {n} /\ crashes' = crashes + 1
      /\ active' = {w \in active : At(w) # n}
      /\ UNCHANGED <<ttl, left, asking, heard, failed>>
  BY DEF Crash
<1>2. client' = client \/ client' = "refused"
  BY DEF Crash
<1>3. TypeOK'
  BY <1>1, <1>2 DEF TypeOK
<1>4. HandlerInv' /\ ReplyInv'
  BY <1>1, HandlerStays DEF HandlerInv, ReplyInv
<1>5. FreshInv'
  BY <1>1, <1>2 DEF FreshInv, Fresh, GoesOn, Begins
<1>6. BrokenInv'
  <2> SUFFICES ASSUME NEW u \in active', NEW q \in asking[u], u \o <<q>> \notin active'
               PROVE  q \in MayCrash
    BY <1>1 DEF BrokenInv
  <2>1. CASE u \o <<q>> \notin active
    BY <2>1, <1>1 DEF BrokenInv
  <2>2. CASE u \o <<q>> \in active
    <3>1. At(u \o <<q>>) = q
      BY <1>1, PeerWalk
    <3>2. QED
      BY <3>1, <2>2, <1>1
  <2>3. QED
    BY <2>1, <2>2
<1>7. AnswerInv'
  BY <1>1, <1>2, AnswerStays
<1>8. QED
  BY <1>3, <1>4, <1>5, <1>6, <1>7

LEMMA ProbeStays ==
    ASSUME ProbeInv, UNCHANGED <<crashes, handlerVars, client>>, up \subseteq up',
           up' \subseteq Node
    PROVE  ProbeInv'
<1> USE DEF ProbeInv, handlerVars
<1>1. TypeOK'
  BY DEF TypeOK
<1>2. HandlerInv' /\ ReplyInv'
  BY HandlerStays DEF HandlerInv, ReplyInv
<1>3. FreshInv' /\ BrokenInv'
  BY DEF FreshInv, Fresh, GoesOn, Begins, BrokenInv
<1>4. AnswerInv'
  BY AnswerStays
<1>5. QED
  BY <1>1, <1>2, <1>3, <1>4

LEMMA ProbeStep == ProbeInv /\ [Next]_vars => ProbeInv'
<1> SUFFICES ASSUME ProbeInv, [Next]_vars PROVE ProbeInv'
  OBVIOUS
<1>1. CASE ClientProbes
  BY <1>1, ProbeClient
<1>2. ASSUME NEW w \in active, NEW p \in Node, CallPeer(w, p) PROVE ProbeInv'
  BY <1>2, ProbeCall
<1>3. ASSUME NEW w \in active, NEW p \in Node, PeerIsDown(w, p) PROVE ProbeInv'
  BY <1>3, ProbePeerIsDown
<1>4. ASSUME NEW w \in active, NEW p \in Node, CallBreaks(w, p) PROVE ProbeInv'
  BY <1>4, ProbeCallBreaks
<1>5. ASSUME NEW w \in active, Reply(w) PROVE ProbeInv'
  BY <1>5, ProbeReply
<1>6. ASSUME NEW n \in Node, Crash(n) PROVE ProbeInv'
  BY <1>6, ProbeCrash
<1>7. ASSUME NEW n \in Node, Restart(n) PROVE ProbeInv'
  BY <1>7, ProbeStays DEF Restart, ProbeInv, TypeOK
<1>8. CASE UNCHANGED vars
  BY <1>8, ProbeStays DEF vars, ProbeInv, TypeOK
<1>9. QED
  BY <1>1, <1>2, <1>3, <1>4, <1>5, <1>6, <1>7, <1>8 DEF Next, HandlerStep

-----------------------------------------------------------------------------
\* Without a crash: the chain of handlers.
LEMMA BeginsIsPrefix ==
    ASSUME NEW v \in Walks, NEW w \in Walks
    PROVE  Begins(v, w) => IsPrefix(v, w)
<1>1. v \in Seq(Node) /\ w \in Seq(Node) /\ Len(v) \in Nat /\ Len(v) >= 1
  BY WalkIsSequence, WalkLen
<1>2. ASSUME Begins(v, w) PROVE IsPrefix(v, w)
  <2>1. Len(v) \in 1 .. Len(w) /\ Len(v) \in 1 .. Len(v)
    BY <1>1, <1>2, WalkLen DEF Begins
  <2>2. /\ SubSeq(w, 1, Len(v)) \in Walks /\ Len(SubSeq(w, 1, Len(v))) = Len(v)
        /\ Begins(SubSeq(w, 1, Len(v)), w)
    BY <2>1, WalkCut
  <2>3. /\ SubSeq(v, 1, Len(v)) \in Walks /\ Len(SubSeq(v, 1, Len(v))) = Len(v)
        /\ Begins(SubSeq(v, 1, Len(v)), v)
    BY <2>1, WalkCut
  <2>4. Begins(SubSeq(v, 1, Len(v)), w)
    BY <2>3, <1>2, BeginsOrder
  <2>5. Begins(SubSeq(v, 1, Len(v)), SubSeq(w, 1, Len(v)))
    <3>1. Len(SubSeq(v, 1, Len(v))) <= Len(SubSeq(w, 1, Len(v)))
      BY <2>2, <2>3, <1>1
    <3>2. QED
      BY <3>1, <2>2, <2>3, <2>4, <1>1, BeginsOrder
  <2>6. SubSeq(v, 1, Len(v)) = SubSeq(w, 1, Len(v))
    <3>1. Len(SubSeq(w, 1, Len(v))) <= Len(SubSeq(v, 1, Len(v)))
      BY <2>2, <2>3, <1>1
    <3>2. QED
      BY <3>1, <2>2, <2>3, <2>5, WalkEqual
  <2>7. QED
    BY <2>1, <2>6 DEF IsPrefix
<1>3. QED
  BY <1>2

LEMMA ChainInit == Init => ChainInv
BY DEF Init, ChainInv

\* The next call is made by the handler at the end of the chain.
LEMMA ChainCall ==
    ASSUME ProbeInv, ChainInv, NEW w \in active, NEW p \in Node, CallPeer(w, p)
    PROVE  ChainInv'
<1> SUFFICES ASSUME crashes = 0
             PROVE  /\ \A v, u \in active' : Begins(v, u) \/ Begins(u, v)
                    /\ \A v \in active', u \in Walks :
                           Begins(u, v) /\ Len(u) < Len(v) =>
                               u \in active' /\ v[Len(u) + 1] \in asking'[u]
  BY DEF CallPeer, ChainInv, Begins
<1> DEFINE x == w \o <<p>>
<1>1. /\ w \in Walks /\ p \in left[w] /\ asking[w] = {} /\ active \subseteq Walks
      /\ active' = active \cup {x}
      /\ asking' = [asking EXCEPT ![w] = {p}] /\ asking \in [Walks -> SUBSET Node]
  BY DEF CallPeer, ProbeInv, TypeOK
<1>2. /\ x \in Walks /\ Len(x) = Len(w) + 1
      /\ Begins(w, x) /\ x[Len(w) + 1] = p
  BY <1>1, PeerWalk DEF ProbeInv
<1> HIDE DEF x
<1>3. /\ \A v, u \in active : Begins(v, u) \/ Begins(u, v)
      /\ \A v \in active, u \in Walks :
             Begins(u, v) /\ Len(u) < Len(v) => u \in active /\ v[Len(u) + 1] \in asking[u]
  BY DEF ChainInv
<1>4. Len(w) \in Nat /\ Len(x) \in Nat
  BY <1>1, <1>2, WalkLen
<1>5. ASSUME NEW v \in active PROVE Begins(v, w) /\ Begins(v, x)
  <2>1. v \in Walks /\ Len(v) \in Nat
    BY <1>1, WalkLen
  <2>2. ~(Begins(w, v) /\ Len(w) < Len(v))
    BY <1>1, <1>3
  <2>3. Begins(v, w)
    <3>1. CASE Begins(w, v)
      <4>1. Len(v) <= Len(w)
        BY <2>1, <2>2, <3>1, <1>4
      <4>2. w = v
        BY <4>1, <3>1, <1>1, <2>1, WalkEqual
      <4>3. QED
        BY <4>2, <3>1
    <3>2. QED
      BY <3>1, <1>3
  <2>4. QED
    BY <2>1, <2>3, <1>1, <1>2, BeginsOrder
<1>6. ASSUME NEW v \in active', NEW u \in active' PROVE Begins(v, u) \/ Begins(u, v)
  BY <1>1, <1>2, <1>3, <1>5, <1>6, WalkLen
<1>7. ASSUME NEW v \in active', NEW u \in Walks, Begins(u, v), Len(u) < Len(v)
      PROVE  u \in active' /\ v[Len(u) + 1] \in asking'[u]
  <2>1. CASE v \in active
    <3>1. u \in active /\ v[Len(u) + 1] \in asking[u]
      BY <1>3, <1>7, <2>1
    <3>2. u # w
      BY <3>1, <1>1
    <3>3. QED
      BY <3>1, <3>2, <1>1
  <2>2. CASE v = x
    <3>1. Len(u) \in Nat /\ Len(u) <= Len(w)
      BY <1>2, <1>4, <1>7, <2>2, WalkLen
    <3>2. Begins(u, w)
      BY <3>1, <1>1, <1>2, <1>7, <2>2, BeginsOrder
    <3>3. CASE u = w
      BY <3>3, <2>2, <1>1, <1>2
    <3>4. CASE u # w
      <4>1. Len(u) < Len(w)
        BY <3>1, <3>2, <3>4, <1>1, <1>4, WalkEqual
      <4>2. u \in active /\ w[Len(u) + 1] \in asking[u]
        BY <4>1, <3>2, <1>3
      <4>3. x[Len(u) + 1] = w[Len(u) + 1]
        BY <4>1, <3>1, <1>2, <1>4 DEF Begins
      <4>4. QED
        BY <4>2, <4>3, <3>4, <2>2, <1>1
    <3>5. QED
      BY <3>3, <3>4
  <2>3. QED
    BY <1>1, <2>1, <2>2
<1>8. QED
  BY <1>6, <1>7

\* A handler that ends has none below it, and its caller waits no more.
LEMMA ChainReply ==
    ASSUME ProbeInv, ChainInv, NEW w \in active, Reply(w)
    PROVE  ChainInv'
<1> SUFFICES ASSUME crashes = 0, NEW v \in active', NEW u \in Walks,
                    Begins(u, v), Len(u) < Len(v)
             PROVE  u \in active' /\ v[Len(u) + 1] \in asking'[u]
  BY DEF Reply, ChainInv, Begins
<1>1. /\ w \in Walks /\ asking[w] = {} /\ active' = active \ {w}
      /\ v \in active /\ v # w /\ v \in Walks /\ asking \in [Walks -> SUBSET Node]
  BY DEF Reply, ProbeInv, TypeOK
<1>2. u \in active /\ v[Len(u) + 1] \in asking[u]
  BY <1>1 DEF ChainInv
<1>3. u # w
  BY <1>1, <1>2
<1>4. ~Begins(w, v)
  <2>1. Begins(w, v) => ~(Len(w) < Len(v))
    BY <1>1 DEF ChainInv
  <2>2. Begins(w, v) /\ Len(v) <= Len(w) => w = v
    BY <1>1, WalkEqual
  <2>3. Len(w) \in Nat /\ Len(v) \in Nat
    BY <1>1, WalkLen
  <2>4. QED
    BY <2>1, <2>2, <2>3, <1>1
<1>5. CASE ~(IsAwaited(w) /\ u = Front(w))
  <2>1. asking'[u] = asking[u]
    BY <1>1, <1>5 DEF Reply
  <2>2. QED
    BY <2>1, <1>1, <1>2, <1>3
<1>6. CASE IsAwaited(w) /\ u = Front(w)
  <2>1. Len(w) > 1
    BY <1>6 DEF IsAwaited
  <2>2. w = u \o <<At(w)>>
    BY <1>1, <1>6, <2>1, WalkBack
  <2>3. ~GoesOn(u, v, {At(w)})
    BY <1>1, <1>4, <2>2, GoesOnOne
  <2>4. v[Len(u) + 1] # At(w)
    BY <2>3 DEF GoesOn
  <2>5. asking'[u] = asking[u] \ {At(w)}
    BY <1>1, <1>6 DEF Reply
  <2>6. QED
    BY <2>4, <2>5, <1>1, <1>2, <1>3
<1>7. QED
  BY <1>5, <1>6

\* Without a crash no call breaks: the handler that is awaited runs.
LEMMA ChainBreaks ==
    ASSUME ProbeInv, ChainInv, NEW w \in active, NEW p \in Node, CallBreaks(w, p)
    PROVE  ChainInv'
<1> SUFFICES ASSUME crashes = 0, NEW v \in active, NEW u \in Walks,
                    Begins(u, v), Len(u) < Len(v)
             PROVE  u \in active /\ v[Len(u) + 1] \in asking'[u]
  BY DEF CallBreaks, ChainInv, Begins
<1>1. /\ w \in Walks /\ p \in asking[w] /\ w \o <<p>> \notin active /\ Handled(w)
      /\ v \in Walks /\ asking \in [Walks -> SUBSET Node]
      /\ asking' = [asking EXCEPT ![w] = {}]
  BY DEF CallBreaks, ProbeInv, TypeOK, HandlerInv
<1>2. u \in active /\ v[Len(u) + 1] \in asking[u]
  BY DEF ChainInv
<1>3. u # w
  <2> SUFFICES ASSUME u = w PROVE FALSE
    OBVIOUS
  <2>1. v[Len(w) + 1] = p
    BY <1>1, <1>2 DEF Handled
  <2>2. Begins(w \o <<p>>, v)
    BY <2>1, <1>1, GoesOnOne DEF GoesOn
  <2>3. /\ w \o <<p>> \in Walks /\ Len(w \o <<p>>) \in Nat
    BY <2>2, <1>1, GoesOnOne, WalkLen
  <2>4. w \o <<p>> # v
    BY <1>1
  <2>5. Len(w \o <<p>>) < Len(v)
    <3>1. Len(v) \in Nat
      BY <1>1, WalkLen
    <3>2. ~(Len(v) <= Len(w \o <<p>>))
      BY <2>2, <2>3, <2>4, <1>1, WalkEqual
    <3>3. QED
      BY <2>3, <3>1, <3>2
  <2>6. QED
    BY <2>2, <2>3, <2>5, <1>1 DEF ChainInv
<1>4. QED
  BY <1>1, <1>2, <1>3

LEMMA ChainStep == ProbeInv /\ ChainInv /\ [Next]_vars => ChainInv'
<1> SUFFICES ASSUME ProbeInv, ChainInv, [Next]_vars PROVE ChainInv'
  OBVIOUS
<1>1. CASE ClientProbes
  <2>1. active = {}
    BY <1>1 DEF ClientProbes, ProbeInv, FreshInv, TypeOK, Fresh
  <2>2. active' = {} \/ active' = {<<Start>>}
    BY <1>1, <2>1 DEF ClientProbes, Handle
  <2>3. Len(<<Start>>) = 1 /\ Begins(<<Start>>, <<Start>>)
    BY TheFirstWalk, WalkLen
  <2>4. \A u \in Walks : Len(u) \in Nat /\ Len(u) >= 1
    BY WalkLen
  <2>5. \A u \in Walks : ~(Len(u) < Len(<<Start>>))
    BY <2>3, <2>4
  <2>6. QED
    BY <2>2, <2>3, <2>5 DEF ChainInv, Begins
<1>2. ASSUME NEW w \in active, NEW p \in Node, CallPeer(w, p) PROVE ChainInv'
  BY <1>2, ChainCall
<1>3. ASSUME NEW w \in active, NEW p \in Node, PeerIsDown(w, p) PROVE ChainInv'
  BY <1>3 DEF PeerIsDown, ChainInv, Begins
<1>4. ASSUME NEW w \in active, NEW p \in Node, CallBreaks(w, p) PROVE ChainInv'
  BY <1>4, ChainBreaks
<1>5. ASSUME NEW w \in active, Reply(w) PROVE ChainInv'
  BY <1>5, ChainReply
<1>6. ASSUME NEW n \in Node, Crash(n) PROVE ChainInv'
  <2>1. crashes' # 0
    BY <1>6 DEF Crash, ProbeInv, TypeOK
  <2>2. QED
    BY <2>1 DEF ChainInv
<1>7. ASSUME NEW n \in Node, Restart(n) PROVE ChainInv'
  BY <1>7 DEF Restart, handlerVars, ChainInv, Begins
<1>8. CASE UNCHANGED vars
  BY <1>8 DEF vars, handlerVars, ChainInv, Begins
<1>9. QED
  BY <1>1, <1>2, <1>3, <1>4, <1>5, <1>6, <1>7, <1>8 DEF Next, HandlerStep

-----------------------------------------------------------------------------
(* Handlers, what they have heard and what they have still to call fit the  *)
(* walks of the overlay in every state of a flood, crashes included.        *)
THEOREM ProbeInvariant == Spec => []ProbeInv
BY ProbeInit, ProbeStep, PTL DEF Spec

(* The reply the client gets accounts for the whole flood: every walk of at *)
(* most TTL hops is nested in it but those through a call that it names as  *)
(* failed, and only calls of nodes that may crash fail.                     *)
THEOREM ReplyIsCompleteAlways == Spec => []ReplyIsComplete
<1>1. ProbeInv => ReplyIsComplete
  BY DEF ProbeInv, AnswerInv, ReplyIsComplete
<1>2. QED
  BY <1>1, ProbeInvariant, PTL

(* While no node crashes a probe has one handler at work in the whole       *)
(* overlay, all others wait along its walk, and the TTL counts their hops.  *)
THEOREM OneHandlerAtWorkAlways == Spec => []OneHandlerAtWork
<1>1. ProbeInv /\ ChainInv => OneHandlerAtWork
  BY BeginsIsPrefix DEF ProbeInv, TypeOK, HandlerInv, Handled, ChainInv, OneHandlerAtWork
<1>2. Spec => []ChainInv
  BY ProbeInvariant, ChainInit, ChainStep, PTL DEF Spec
<1>3. QED
  BY <1>1, <1>2, ProbeInvariant, PTL
=============================================================================
