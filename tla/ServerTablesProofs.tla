------------------------- MODULE ServerTablesProofs -------------------------
(***************************************************************************)
(* Proofs about ServerTables, for any nodes with any leaves as children,   *)
(* any clients, shards, chunk sizes and number of restarts.                *)
(***************************************************************************)
EXTENDS ServerTables, FoldProofs, SequenceTheorems

-----------------------------------------------------------------------------
\* What the tables are.
States == {"IN_PROGRESS", "COMPLETED", "CANCELLED"}

WorkerRecord == [next : Nat, completed : BOOLEAN, remoteId : Nat]

Fields(n) ==
    [id : Nat \ {0}, of : Client, state : States, window : Seq(Client),
     unread : Nat, oddRound : BOOLEAN, matched : Nat,
     progress : [{n} \cup ChildrenOf(n) -> WorkerRecord]]

\* The rows in the window are the query's own.
Pure(r) == ToSet(r.window) \subseteq {r.of}

\* A request at node n.  A leaf has its rows from its own shard only.
RequestAt(n) ==
    {r \in Fields(n) : /\ r.unread <= Len(r.window)
                       /\ r.progress[n].next <= Len(Shard[n])
                       /\ Children[n] = <<>> => Pure(r)}

AnyRequest == UNION {Fields(n) : n \in Node}

Worlds == [table : [Node -> Seq(AnyRequest)], seq : [Node -> Nat \ {0}]]

\* Every table has an id once only, and none that is still to be given.
Good(w) ==
    /\ w \in Worlds
    /\ \A n \in Node :
           /\ w.table[n] \in Seq(RequestAt(n))
           /\ \A i \in DOMAIN w.table[n] : w.table[n][i].id < w.seq[n]
           /\ \A i, j \in DOMAIN w.table[n] : w.table[n][i].id = w.table[n][j].id => i = j

\* Node n's request with this id is for the rows of this query.
Named(w, n, id, of) ==
    \E j \in DOMAIN w.table[n] : w.table[n][j].id = id /\ w.table[n][j].of = of

\* So is node n's request number i, its window and what the children know it by.
PureRecord(w, n, r) ==
    /\ Pure(r)
    /\ \A c \in ChildrenOf(n) :
           r.progress[c].remoteId # 0 => Named(w, c, r.progress[c].remoteId, r.of)

PureAt(w, n, i) == PureRecord(w, n, w.table[n][i])

\* The worker of node n has looked at no fewer rows for request q than for r.
Onward(n, r, q) ==
    \A k \in Nat : k <= r.progress[n].next => k <= q.progress[n].next

Onwards(v, w) ==
    \A n \in Node : \A i \in DOMAIN v.table[n] :
        i \in DOMAIN w.table[n] /\ Onward(n, v.table[n][i], w.table[n][i])

\* What a call never undoes.
Keeps(v, w) ==
    \A n \in Node : \A i \in DOMAIN v.table[n] :
        /\ i \in DOMAIN w.table[n]
        /\ w.table[n][i].id = v.table[n][i].id
        /\ w.table[n][i].of = v.table[n][i].of
        /\ PureAt(v, n, i) => PureAt(w, n, i)
        /\ Onward(n, v.table[n][i], w.table[n][i])

\* q is r as far as the request goes by it, no row further back.
SameRequest(n, r, q) == q.id = r.id /\ q.of = r.of /\ Onward(n, r, q)

-----------------------------------------------------------------------------
\* Helpers.
LEMMA LeastOf ==
    ASSUME NEW S \in SUBSET Nat, S # {}
    PROVE  Min(S) \in S /\ \A y \in S : Min(S) <= y
<1>1. PICK x \in S : \A y \in S : x <= y
  BY LeastNumber
<1>2. QED
  BY <1>1, Zenon DEF Min

LEMMA LeastOfTwo ==
    ASSUME NEW a \in Int, NEW b \in Int
    PROVE  /\ Min({a, b}) \in {a, b} /\ Min({a, b}) <= a /\ Min({a, b}) <= b
<1>1. \E x \in {a, b} : \A y \in {a, b} : x <= y
  OBVIOUS
<1>2. Min({a, b}) \in {a, b} /\ \A y \in {a, b} : Min({a, b}) <= y
  BY <1>1, Zenon DEF Min
<1>3. QED
  BY <1>2

\* findRequestState finds a request with the id if there is one.
LEMMA FindFinds ==
    ASSUME NEW S, NEW tab \in Seq(S), NEW id
    PROVE  /\ Find(tab, id) \in Nat
           /\ Find(tab, id) # 0 => /\ Find(tab, id) \in DOMAIN tab
                                   /\ tab[Find(tab, id)].id = id
           /\ Find(tab, id) = 0 => \A j \in DOMAIN tab : tab[j].id # id
<1> DEFINE I == {j \in 1 .. Len(tab) : tab[j].id = id}
<1>1. Find(tab, id) = IF I # {} THEN Min(I) ELSE 0
  BY DEF Find, SelectInSeq
<1>2. DOMAIN tab = 1 .. Len(tab) /\ Len(tab) \in Nat
  OBVIOUS
<1>3. CASE I = {}
  BY <1>1, <1>2, <1>3
<1>4. CASE I # {}
  <2>1. I \in SUBSET Nat
    OBVIOUS
  <2>2. Min(I) \in I
    BY <1>4, <2>1, LeastOf
  <2>3. Min(I) \in 1 .. Len(tab) /\ tab[Min(I)].id = id
    BY <2>2
  <2>4. QED
    BY <1>1, <1>2, <1>4, <2>3
<1>5. QED
  BY <1>3, <1>4

\* A chunk that is asked for is not empty.
LEMMA ChunkSize ==
    ASSUME NEW tab, NEW asked \in Nat
    PROVE  ChooseAdaptiveChunkSize(tab, asked) \in Nat \ {0}
<1>1. Recommended(tab) \in Nat \ {0}
  BY SizeAssumption DEF Recommended
<1>2. CASE asked = 0
  BY <1>1, <1>2 DEF ChooseAdaptiveChunkSize
<1>3. CASE asked # 0
  <2> DEFINE r == Recommended(tab)
  <2> HIDE DEF r
  <2>1. Min({asked, r}) \in {asked, r}
    BY <1>1, LeastOfTwo DEF r
  <2>2. QED
    BY <1>1, <1>3, <2>1 DEF r, ChooseAdaptiveChunkSize
<1>4. QED
  BY <1>2, <1>3

LEMMA Tree ==
    ASSUME NEW n \in Node
    PROVE  /\ Children[n] \in Seq(Node) /\ ChildrenOf(n) \subseteq Node
           /\ Shard[n] \in Seq(SUBSET Client) /\ Len(Shard[n]) \in Nat
           /\ Children[n] = <<>> => ChildrenOf(n) = {}
           /\ \A c \in ChildrenOf(n) : Children[c] = <<>> /\ c # n /\ Children[n] # <<>>
<1>1. /\ Children[n] \in Seq(Node)
      /\ Shard[n] \in Seq(SUBSET Client) /\ Len(Shard[n]) \in Nat
  BY TreeAssumption, LenProperties
<1>2. ChildrenOf(n) \subseteq Node
  BY <1>1 DEF ChildrenOf, ToSet
<1>3. Children[n] = <<>> => ChildrenOf(n) = {}
  BY DEF ChildrenOf, ToSet
<1>4. QED
  BY <1>1, <1>2, <1>3, TreeAssumption

\* What a request at a node consists of.
LEMMA RequestFields ==
    ASSUME NEW n \in Node, NEW r \in RequestAt(n)
    PROVE  /\ r.id \in Nat \ {0} /\ r.of \in Client /\ r.state \in States
           /\ r.window \in Seq(Client) /\ r.unread \in Nat /\ r.oddRound \in BOOLEAN
           /\ r.matched \in Nat
           /\ r.progress \in [{n} \cup ChildrenOf(n) -> WorkerRecord]
           /\ r.unread <= Len(r.window) /\ Len(r.window) \in Nat
           /\ r.progress[n].next \in Nat /\ r.progress[n].next <= Len(Shard[n])
           /\ \A c \in {n} \cup ChildrenOf(n) :
                  /\ r.progress[c].completed \in BOOLEAN /\ r.progress[c].remoteId \in Nat
                  /\ r.progress[c].next \in Nat
           /\ Children[n] = <<>> => Pure(r)
           /\ r \in AnyRequest
<1>1. r \in Fields(n) /\ r.unread <= Len(r.window) /\ r.progress[n].next <= Len(Shard[n])
  BY DEF RequestAt
<1>2. /\ r.id \in Nat \ {0} /\ r.of \in Client /\ r.state \in States
      /\ r.window \in Seq(Client) /\ r.unread \in Nat /\ r.oddRound \in BOOLEAN
      /\ r.matched \in Nat
      /\ r.progress \in [{n} \cup ChildrenOf(n) -> WorkerRecord]
  BY <1>1 DEF Fields
<1>3. \A c \in {n} \cup ChildrenOf(n) :
          /\ r.progress[c].completed \in BOOLEAN /\ r.progress[c].remoteId \in Nat
          /\ r.progress[c].next \in Nat
  BY <1>2 DEF WorkerRecord
<1>4. Children[n] = <<>> => Pure(r)
  BY DEF RequestAt
<1>5. r \in AnyRequest
  BY <1>1 DEF AnyRequest
<1>6. QED
  BY <1>1, <1>2, <1>3, <1>4, <1>5

LEMMA GoodFields ==
    ASSUME NEW w, Good(w), NEW n \in Node
    PROVE  /\ w.table[n] \in Seq(RequestAt(n)) /\ w.seq[n] \in Nat \ {0}
           /\ w = [table |-> w.table, seq |-> w.seq]
           /\ DOMAIN w.table = Node /\ DOMAIN w.seq = Node
           /\ DOMAIN w.table[n] = 1 .. Len(w.table[n]) /\ Len(w.table[n]) \in Nat
           /\ \A i \in DOMAIN w.table[n] : w.table[n][i] \in RequestAt(n)
  BY DEF Good, Worlds

-----------------------------------------------------------------------------
\* A call changes one request after another.
Put(w, n, i, r) == [w EXCEPT !.table[n][i] = r]

\* v is w but for the request number i of node n, which is r.
IsPut(w, n, i, r, v) ==
    /\ v \in Worlds /\ v.seq = w.seq
    /\ \A m \in Node : m # n => v.table[m] = w.table[m]
    /\ v.table[n] \in Seq(RequestAt(n))
    /\ Len(v.table[n]) = Len(w.table[n]) /\ DOMAIN v.table[n] = DOMAIN w.table[n]
    /\ v.table[n][i] = r
    /\ \A j \in DOMAIN w.table[n] : j # i => v.table[n][j] = w.table[n][j]

LEMMA PutFacts ==
    ASSUME NEW w, Good(w), NEW n \in Node, NEW i \in DOMAIN w.table[n],
           NEW r \in RequestAt(n)
    PROVE  IsPut(w, n, i, r, Put(w, n, i, r))
<1> DEFINE t == [w.table[n] EXCEPT ![i] = r]
           v == [table |-> [w.table EXCEPT ![n] = t], seq |-> w.seq]
<1>1. /\ w = [table |-> w.table, seq |-> w.seq]
      /\ w.table \in [Node -> Seq(AnyRequest)] /\ w.seq \in [Node -> Nat \ {0}]
      /\ w.table[n] \in Seq(RequestAt(n))
  BY DEF Good, Worlds
<1>2. Put(w, n, i, r) = [w EXCEPT !.table = [w.table EXCEPT ![n] = t]]
  BY Zenon DEF Put
<1>3. Put(w, n, i, r) = v
  BY <1>1, <1>2
<1>4. r \in AnyRequest
  BY RequestFields
<1>5. /\ t \in Seq(RequestAt(n)) /\ t \in Seq(AnyRequest)
      /\ Len(t) = Len(w.table[n]) /\ DOMAIN t = DOMAIN w.table[n] /\ t[i] = r
      /\ \A j \in DOMAIN w.table[n] : j # i => t[j] = w.table[n][j]
  <2> DEFINE s == w.table[n]
  <2>1. s \in Seq(RequestAt(n)) /\ s \in Seq(AnyRequest) /\ i \in DOMAIN s
    BY <1>1
  <2> HIDE DEF s
  <2>2. /\ [s EXCEPT ![i] = r] \in Seq(RequestAt(n))
        /\ [s EXCEPT ![i] = r] \in Seq(AnyRequest)
        /\ Len([s EXCEPT ![i] = r]) = Len(s) /\ DOMAIN [s EXCEPT ![i] = r] = DOMAIN s
    BY <1>4, <2>1, ExceptSeq
  <2>3. /\ [s EXCEPT ![i] = r][i] = r
        /\ \A j \in DOMAIN s : j # i => [s EXCEPT ![i] = r][j] = s[j]
    BY <2>1
  <2>4. QED
    BY <2>2, <2>3 DEF s
<1> HIDE DEF t
<1>6. /\ v.seq = w.seq /\ v.table[n] = t
      /\ \A m \in Node : m # n => v.table[m] = w.table[m]
  BY <1>1
<1>7. v \in Worlds
  BY <1>1, <1>5 DEF Worlds
<1> HIDE DEF v
<1>8. IsPut(w, n, i, r, v)
  BY <1>5, <1>6, <1>7 DEF IsPut
<1>9. QED
  BY <1>3, <1>8

\* A request is known under its id and its query as long as the record lasts.
LEMMA NamedStays ==
    ASSUME NEW v, NEW w, Keeps(v, w), NEW n \in Node, NEW id, NEW of, Named(v, n, id, of)
    PROVE  Named(w, n, id, of)
  BY DEF Named, Keeps

LEMMA KeepsItself == ASSUME NEW w PROVE Keeps(w, w)
  BY DEF Keeps, Onward

LEMMA KeepsOn ==
    ASSUME NEW u, NEW v, NEW w, Keeps(u, v), Keeps(v, w)
    PROVE  Keeps(u, w)
  BY DEF Keeps, Onward

\* What a worker has looked at stays looked at.
LEMMA MovesStay ==
    ASSUME NEW u, NEW v, NEW w, Good(u), Good(v), Good(w), Onwards(v, w),
           MovesOn(u, v)
    PROVE  MovesOn(u, w)
<1>0. PICK n \in Node : \E i \in DOMAIN v.table[n] :
          /\ v.table[n][i].progress[n].next > 0
          /\ i \in DOMAIN u.table[n] =>
                 u.table[n][i].progress[n].next < v.table[n][i].progress[n].next
  BY DEF MovesOn
<1>1. PICK i \in DOMAIN v.table[n] :
          /\ v.table[n][i].progress[n].next > 0
          /\ i \in DOMAIN u.table[n] =>
                 u.table[n][i].progress[n].next < v.table[n][i].progress[n].next
  BY <1>0
<1> DEFINE x == v.table[n][i].progress[n].next
           y == w.table[n][i].progress[n].next
<1>2. i \in DOMAIN w.table[n] /\ \A k \in Nat : k <= x => k <= y
  BY DEF Onwards, Onward
<1>3. x \in Nat /\ y \in Nat
  <2>1. v.table[n][i] \in RequestAt(n) /\ w.table[n][i] \in RequestAt(n)
    BY <1>2, GoodFields
  <2>2. QED
    BY <2>1, RequestFields
<1> HIDE DEF y
<1>4. x <= y
  BY <1>2, <1>3
<1>5. y > 0
  BY <1>1, <1>3, <1>4
<1>6. i \in DOMAIN u.table[n] => u.table[n][i].progress[n].next < y
  <2> DEFINE z == u.table[n][i].progress[n].next
  <2> SUFFICES ASSUME i \in DOMAIN u.table[n] PROVE z < y
    OBVIOUS
  <2>1. z \in Nat
    BY GoodFields, RequestFields
  <2>2. z < x
    BY <1>1
  <2> HIDE DEF x, z
  <2>3. QED
    BY <1>3, <1>4, <2>1, <2>2
<1>7. QED
  BY <1>2, <1>5, <1>6 DEF y, MovesOn

LEMMA MovesFrom ==
    ASSUME NEW u, NEW v, NEW w, Good(u), Good(v), Good(w), Onwards(u, v), MovesOn(v, w)
    PROVE  MovesOn(u, w)
<1>0. PICK n \in Node : \E i \in DOMAIN w.table[n] :
          /\ w.table[n][i].progress[n].next > 0
          /\ i \in DOMAIN v.table[n] =>
                 v.table[n][i].progress[n].next < w.table[n][i].progress[n].next
  BY DEF MovesOn
<1>1. PICK i \in DOMAIN w.table[n] :
          /\ w.table[n][i].progress[n].next > 0
          /\ i \in DOMAIN v.table[n] =>
                 v.table[n][i].progress[n].next < w.table[n][i].progress[n].next
  BY <1>0
<1>2. ASSUME i \in DOMAIN u.table[n]
      PROVE  u.table[n][i].progress[n].next < w.table[n][i].progress[n].next
  <2> DEFINE x == u.table[n][i].progress[n].next
             y == v.table[n][i].progress[n].next
             z == w.table[n][i].progress[n].next
  <2>1. i \in DOMAIN v.table[n] /\ \A k \in Nat : k <= x => k <= y
    BY <1>2 DEF Onwards, Onward
  <2>2. x \in Nat /\ y \in Nat /\ z \in Nat
    <3>1. /\ u.table[n][i] \in RequestAt(n) /\ v.table[n][i] \in RequestAt(n)
          /\ w.table[n][i] \in RequestAt(n)
      BY <1>2, <2>1, GoodFields
    <3>2. QED
      BY <3>1, RequestFields
  <2>3. y < z
    BY <1>1, <2>1
  <2> HIDE DEF x, y, z
  <2>4. x <= y
    BY <2>1, <2>2
  <2>5. x < z
    BY <2>2, <2>3, <2>4
  <2>6. QED
    BY <2>5 DEF x, z
<1>3. QED
  BY <1>1, <1>2 DEF MovesOn

LEMMA KeepsGoesOn == ASSUME NEW v, NEW w, Keeps(v, w) PROVE Onwards(v, w)
  BY DEF Keeps, Onwards

\* A new form of a request does no harm when it names what the old one named,
\* the one at the beginning of the call.
LEMMA PutKeeps ==
    ASSUME NEW w, Good(w), NEW n \in Node, NEW u, Keeps(u, w), NEW i \in DOMAIN u.table[n],
           NEW r \in RequestAt(n), SameRequest(n, w.table[n][i], r),
           PureAt(u, n, i) => PureRecord(w, n, r)
    PROVE  Good(Put(w, n, i, r)) /\ Keeps(u, Put(w, n, i, r))
<1> DEFINE v == Put(w, n, i, r)
<1>0. IsPut(w, n, i, r, v)
  <2>1. i \in DOMAIN w.table[n]
    BY DEF Keeps
  <2>2. QED
    BY <2>1, PutFacts
<1> HIDE DEF v
<1>1. /\ v \in Worlds /\ v.seq = w.seq
      /\ \A m \in Node : m # n => v.table[m] = w.table[m]
      /\ v.table[n] \in Seq(RequestAt(n))
      /\ DOMAIN v.table[n] = DOMAIN w.table[n]
      /\ v.table[n][i] = r
      /\ \A j \in DOMAIN w.table[n] : j # i => v.table[n][j] = w.table[n][j]
  BY <1>0 DEF IsPut
<1>2. \A m \in Node : DOMAIN v.table[m] = DOMAIN w.table[m]
  BY <1>1
<1>3. \A m \in Node : \A j \in DOMAIN w.table[m] :
          /\ v.table[m][j].id = w.table[m][j].id /\ v.table[m][j].of = w.table[m][j].of
          /\ Onward(m, w.table[m][j], v.table[m][j])
  BY <1>1 DEF SameRequest, Onward
<1>4. Good(v)
  <2> SUFFICES ASSUME NEW m \in Node
               PROVE  /\ v.table[m] \in Seq(RequestAt(m))
                      /\ \A j \in DOMAIN v.table[m] : v.table[m][j].id < v.seq[m]
                      /\ \A j, k \in DOMAIN v.table[m] :
                             v.table[m][j].id = v.table[m][k].id => j = k
    BY <1>1 DEF Good
  <2>1. /\ w.table[m] \in Seq(RequestAt(m))
        /\ \A j \in DOMAIN w.table[m] : w.table[m][j].id < w.seq[m]
        /\ \A j, k \in DOMAIN w.table[m] : w.table[m][j].id = w.table[m][k].id => j = k
    BY DEF Good
  <2>2. v.table[m] \in Seq(RequestAt(m))
    BY <1>1, <2>1
  <2>3. QED
    BY <1>1, <1>2, <1>3, <2>1, <2>2
<1>5. \A m \in Node : \A id, of : Named(w, m, id, of) => Named(v, m, id, of)
  BY <1>2, <1>3 DEF Named
<1>6. ASSUME NEW m \in Node, NEW j \in DOMAIN u.table[m], PureAt(u, m, j)
      PROVE  PureAt(v, m, j)
  <2>1. ChildrenOf(m) \subseteq Node
    BY Tree
  <2>2. \A q : PureRecord(w, m, q) => PureRecord(v, m, q)
    BY <1>5, <2>1 DEF PureRecord
  <2>3. CASE m = n /\ j = i
    BY <1>1, <1>6, <2>2, <2>3 DEF PureAt
  <2>4. CASE ~(m = n /\ j = i)
    <3>1. j \in DOMAIN w.table[m] /\ PureAt(w, m, j)
      BY <1>6 DEF Keeps
    <3>2. v.table[m][j] = w.table[m][j]
      BY <1>1, <2>4, <3>1
    <3>3. QED
      BY <2>2, <3>1, <3>2 DEF PureAt
  <2>5. QED
    BY <2>3, <2>4
<1>7. Keeps(u, v)
  <2>1. \A m \in Node : \A j \in DOMAIN u.table[m] :
            /\ j \in DOMAIN w.table[m]
            /\ w.table[m][j].id = u.table[m][j].id /\ w.table[m][j].of = u.table[m][j].of
            /\ Onward(m, u.table[m][j], w.table[m][j])
    BY DEF Keeps
  <2>2. QED
    BY <1>2, <1>3, <1>6, <2>1 DEF Keeps, Onward
<1>8. QED
  BY <1>4, <1>7 DEF v

-----------------------------------------------------------------------------
\* A new request.

\* Node n's request with this id is for the rows of this query and has, and
\* will be brought, no others.
Owned(w, n, id, of) ==
    \E j \in DOMAIN w.table[n] :
        w.table[n][j].id = id /\ w.table[n][j].of = of /\ PureAt(w, n, j)

LEMMA OwnedStays ==
    ASSUME NEW v, NEW w, Keeps(v, w), NEW n \in Node, NEW id, NEW of, Owned(v, n, id, of)
    PROVE  Owned(w, n, id, of)
  BY DEF Owned, Keeps

\* The record of a new request.
Opened(n, id, of) ==
    WithWorkers([NewRequest(id, of) EXCEPT !.state = "IN_PROGRESS"], {n} \cup ChildrenOf(n))

LEMMA OpenedRecord ==
    ASSUME NEW n \in Node, NEW id \in Nat \ {0}, NEW of \in Client
    PROVE  /\ Opened(n, id, of) \in RequestAt(n)
           /\ Opened(n, id, of).id = id /\ Opened(n, id, of).of = of
           /\ \A w : PureRecord(w, n, Opened(n, id, of))
<1> DEFINE r == [id |-> id, of |-> of, state |-> "IN_PROGRESS", window |-> <<>>, unread |-> 0,
                 oddRound |-> FALSE, progress |-> [m \in {n} \cup ChildrenOf(n) |-> Worker],
                 matched |-> 0]
<1>1. Opened(n, id, of) = r
  <2> DEFINE q == [NewRequest(id, of) EXCEPT !.state = "IN_PROGRESS"]
             none == <<>>
  <2>1. q = [id |-> id, of |-> of, state |-> "IN_PROGRESS", window |-> none, unread |-> 0,
             oddRound |-> FALSE, progress |-> none, matched |-> 0]
    <3> DEFINE nr == NewRequest(id, of)
    <3>1. nr = [id |-> id, of |-> of, state |-> "IN_PROGRESS", window |-> none, unread |-> 0,
                oddRound |-> FALSE, progress |-> none, matched |-> 0]
      BY DEF NewRequest
    <3> HIDE DEF nr, none
    <3>2. [nr EXCEPT !.state = "IN_PROGRESS"] = nr
      <4>1. nr \in [id : {id}, of : {of}, state : {"IN_PROGRESS"}, window : {none},
                    unread : {0}, oddRound : {FALSE}, progress : {none}, matched : {0}]
        BY <3>1
      <4>2. QED
        BY <4>1
    <3>3. QED
      BY <3>1, <3>2 DEF nr
  <2>2. DOMAIN none = {}
    OBVIOUS
  <2> HIDE DEF q, none
  <2>3. WithWorkers(q, {n} \cup ChildrenOf(n))
            = [q EXCEPT !.progress = [m \in {n} \cup ChildrenOf(n) |-> Worker]]
    <3>1. q.progress = none
      BY <2>1
    <3>2. QED
      BY <2>2, <3>1, Zenon DEF WithWorkers
  <2>4. WithWorkers(q, {n} \cup ChildrenOf(n))
            = [id |-> id, of |-> of, state |-> "IN_PROGRESS", window |-> none, unread |-> 0,
               oddRound |-> FALSE, progress |-> [m \in {n} \cup ChildrenOf(n) |-> Worker],
               matched |-> 0]
    BY <2>1, <2>3
  <2>5. QED
    BY <2>4 DEF Opened, q, none
<1>2. Worker \in WorkerRecord /\ Worker.next = 0 /\ Worker.remoteId = 0
  BY DEF Worker, WorkerRecord
<1>3. <<>> \in Seq(Client) /\ Len(<<>>) = 0 /\ ToSet(<<>>) = {}
  BY DEF ToSet
<1>4. r \in Fields(n)
  BY <1>2, <1>3 DEF Fields, States
<1>5. Pure(r)
  BY <1>3 DEF Pure
<1>6. r \in RequestAt(n)
  <2>1. r.unread <= Len(r.window)
    BY <1>3
  <2>2. r.progress[n].next <= Len(Shard[n])
    BY <1>2, Tree
  <2> HIDE DEF r
  <2>3. QED
    BY <1>4, <1>5, <2>1, <2>2 DEF RequestAt
<1>7. \A w : PureRecord(w, n, r)
  BY <1>2, <1>5 DEF PureRecord
<1>8. r.id = id /\ r.of = of
  OBVIOUS
<1> HIDE DEF r
<1>9. QED
  BY <1>1, <1>6, <1>7, <1>8

\* Nobody has the id that is given next.
LEMMA NextIdIsNew ==
    ASSUME NEW w, Good(w), NEW n \in Node
    PROVE  Find(w.table[n], w.seq[n]) = 0
<1> DEFINE i == Find(w.table[n], w.seq[n])
<1>1. w.table[n] \in Seq(RequestAt(n)) /\ w.seq[n] \in Nat
  BY GoodFields
<1>2. \A j \in DOMAIN w.table[n] : w.table[n][j].id \in Nat /\ w.table[n][j].id < w.seq[n]
  BY GoodFields, RequestFields DEF Good
<1>3. i # 0 => i \in DOMAIN w.table[n] /\ w.table[n][i].id = w.seq[n]
  BY <1>1, FindFinds
<1> HIDE DEF i
<1>4. i = 0
  BY <1>1, <1>2, <1>3
<1>5. QED
  BY <1>4 DEF i

LEMMA LastReplaced ==
    ASSUME NEW S, NEW s \in Seq(S), NEW a, NEW b
    PROVE  [Append(s, a) EXCEPT ![Len(s) + 1] = b] = Append(s, b)
<1> DEFINE T == S \cup {a, b}
<1>1. s \in Seq(T) /\ a \in T /\ b \in T /\ Len(s) \in Nat
  BY SeqMonotonic
<1> HIDE DEF T
<1>2. /\ Append(s, a) \in Seq(T) /\ Append(s, b) \in Seq(T)
      /\ Len(Append(s, a)) = Len(s) + 1 /\ Len(Append(s, b)) = Len(s) + 1
      /\ \A j \in 1 .. Len(s) : Append(s, a)[j] = s[j] /\ Append(s, b)[j] = s[j]
      /\ Append(s, b)[Len(s) + 1] = b
  BY <1>1, AppendProperties
<1> DEFINE u == [Append(s, a) EXCEPT ![Len(s) + 1] = b]
<1>3. /\ u \in Seq(T) /\ Len(u) = Len(s) + 1
      /\ \A j \in 1 .. Len(s) + 1 : u[j] = IF j = Len(s) + 1 THEN b ELSE Append(s, a)[j]
  <2> DEFINE z == Append(s, a)
             k == Len(s) + 1
  <2>1. z \in Seq(T) /\ k \in 1 .. Len(z) /\ b \in T /\ Len(z) = k
    BY <1>1, <1>2
  <2> HIDE DEF z, k
  <2>2. /\ [z EXCEPT ![k] = b] \in Seq(T) /\ Len([z EXCEPT ![k] = b]) = Len(z)
        /\ \A j \in 1 .. Len(z) : [z EXCEPT ![k] = b][j] = IF j = k THEN b ELSE z[j]
    BY <2>1, ExceptSeq
  <2>3. QED
    BY <2>1, <2>2 DEF z, k
<1> HIDE DEF u
<1>4. \A j \in 1 .. Len(u) : u[j] = Append(s, b)[j]
  BY <1>1, <1>2, <1>3
<1>5. u = Append(s, b)
  BY <1>2, <1>3, <1>4, SeqEqual
<1>6. QED
  BY <1>5 DEF u

LEMMA SubmittedAppends ==
    ASSUME NEW w, Good(w), NEW n \in Node, NEW of \in Client
    PROVE  Submitted(w, n, of) =
               [table |-> [w.table EXCEPT ![n] = Append(w.table[n], Opened(n, w.seq[n], of))],
                seq |-> [w.seq EXCEPT ![n] = @ + 1]]
<1> DEFINE s == w.table[n]
           id == w.seq[n]
           r == NewRequest(id, of)
           tab == Created(s, id, of)
           i == Find(tab, id)
<1>1. s \in Seq(AnyRequest) /\ id \in Nat \ {0}
  BY GoodFields DEF Good, Worlds
<1>2. Find(s, id) = 0
  BY NextIdIsNew
<1>3. tab = Append(s, r)
  BY <1>2 DEF Created
<1>4. \A j \in DOMAIN s : s[j].id # id
  BY <1>1, <1>2, FindFinds
<1>5. r.id = id
  BY DEF NewRequest
<1>6. /\ tab \in Seq(AnyRequest \cup {r}) /\ DOMAIN tab = 1 .. Len(s) + 1
      /\ DOMAIN s = 1 .. Len(s) /\ Len(s) \in Nat
      /\ tab[Len(s) + 1] = r /\ \A j \in DOMAIN s : tab[j] = s[j]
  <2> HIDE DEF s, r, tab
  <2>1. s \in Seq(AnyRequest \cup {r}) /\ r \in AnyRequest \cup {r}
    BY <1>1
  <2>2. QED
    BY <1>3, <2>1, AppendProperties, LenProperties
<1>7. i = Len(s) + 1
  <2>1. /\ i # 0 => i \in DOMAIN tab /\ tab[i].id = id
        /\ i = 0 => \A j \in DOMAIN tab : tab[j].id # id
    BY <1>6, FindFinds
  <2> HIDE DEF s, r, tab, i, id
  <2>2. QED
    BY <1>4, <1>5, <1>6, <2>1
<1>8. [tab EXCEPT ![i] = WithWorkers([@ EXCEPT !.state = "IN_PROGRESS"],
                                     {n} \cup ChildrenOf(n))]
          = [tab EXCEPT ![i] = Opened(n, id, of)]
  <2>1. tab[i] = r
    BY <1>6, <1>7
  <2>2. QED
    BY <2>1 DEF Opened
<1>9. [tab EXCEPT ![i] = Opened(n, id, of)] = Append(s, Opened(n, id, of))
  <2> DEFINE q == Opened(n, id, of)
  <2> HIDE DEF s, r, tab, i, q
  <2>1. [Append(s, r) EXCEPT ![Len(s) + 1] = q] = Append(s, q)
    BY <1>1, LastReplaced
  <2>2. QED
    BY <1>3, <1>7, <2>1 DEF q
<1>10. QED
  BY <1>8, <1>9, Zenon DEF Submitted, EnsureQueryId

\* A new request takes nothing from the others.
LEMMA SubmittedKeeps ==
    ASSUME NEW w, Good(w), NEW n \in Node, NEW of \in Client
    PROVE  /\ Good(Submitted(w, n, of)) /\ Keeps(w, Submitted(w, n, of))
           /\ Owned(Submitted(w, n, of), n, EnsureQueryId(w, n), of)
           /\ \A m \in Node : m # n => Submitted(w, n, of).table[m] = w.table[m]
<1> DEFINE v == Submitted(w, n, of)
           id == w.seq[n]
           r == Opened(n, id, of)
           k == Len(w.table[n]) + 1
<1>1. /\ w.table \in [Node -> Seq(AnyRequest)] /\ w.seq \in [Node -> Nat \ {0}]
      /\ w.table[n] \in Seq(RequestAt(n)) /\ id \in Nat \ {0}
  BY DEF Good, Worlds
<1>2. /\ r \in RequestAt(n) /\ r \in AnyRequest /\ r.id = id /\ r.of = of
      /\ \A u : PureRecord(u, n, r)
  <2>1. r \in RequestAt(n) /\ r.id = id /\ r.of = of /\ \A u : PureRecord(u, n, r)
    BY <1>1, OpenedRecord
  <2> HIDE DEF r
  <2>2. r \in AnyRequest
    BY <2>1, RequestFields
  <2>3. QED
    BY <2>1, <2>2
<1>3. v = [table |-> [w.table EXCEPT ![n] = Append(w.table[n], r)],
           seq |-> [w.seq EXCEPT ![n] = @ + 1]]
  BY SubmittedAppends
<1> HIDE DEF v, r
<1>4. /\ v.table = [w.table EXCEPT ![n] = Append(w.table[n], r)]
      /\ v.seq = [w.seq EXCEPT ![n] = @ + 1]
  BY <1>3
<1>5. /\ Append(w.table[n], r) \in Seq(RequestAt(n))
      /\ Append(w.table[n], r) \in Seq(AnyRequest)
      /\ Len(Append(w.table[n], r)) = k /\ k \in Nat /\ k \in 1 .. k
      /\ DOMAIN Append(w.table[n], r) = 1 .. k /\ DOMAIN w.table[n] = 1 .. k - 1
      /\ \A j \in 1 .. k - 1 : Append(w.table[n], r)[j] = w.table[n][j]
      /\ Append(w.table[n], r)[k] = r
  <2> DEFINE s == w.table[n]
  <2>1. s \in Seq(RequestAt(n)) /\ s \in Seq(AnyRequest) /\ Len(s) \in Nat
    BY <1>1
  <2> HIDE DEF s
  <2>2. /\ Append(s, r) \in Seq(RequestAt(n)) /\ Append(s, r) \in Seq(AnyRequest)
        /\ Len(Append(s, r)) = Len(s) + 1
        /\ \A j \in 1 .. Len(s) : Append(s, r)[j] = s[j]
        /\ Append(s, r)[Len(s) + 1] = r
    BY <1>2, <2>1, AppendProperties
  <2>3. DOMAIN s = 1 .. Len(s) /\ DOMAIN Append(s, r) = 1 .. Len(s) + 1
    BY <2>1, <2>2, LenProperties
  <2>4. (Len(s) + 1) - 1 = Len(s) /\ Len(s) + 1 \in Nat /\ Len(s) + 1 \in 1 .. Len(s) + 1
    BY <2>1
  <2>5. QED
    BY <2>2, <2>3, <2>4 DEF s
<1> HIDE DEF k
<1>6. /\ v.table[n] = Append(w.table[n], r) /\ v.seq[n] = id + 1
      /\ \A m \in Node : m # n => v.table[m] = w.table[m] /\ v.seq[m] = w.seq[m]
  BY <1>1, <1>4
<1>7. v \in Worlds
  <2>1. v.table \in [Node -> Seq(AnyRequest)] /\ v.seq \in [Node -> Nat \ {0}]
    BY <1>1, <1>4, <1>5
  <2>2. v = [table |-> v.table, seq |-> v.seq]
    BY <1>3
  <2>3. QED
    BY <2>1, <2>2 DEF Worlds
<1>8. /\ \A j \in 1 .. k - 1 : v.table[n][j] = w.table[n][j]
      /\ v.table[n][k] = r /\ DOMAIN v.table[n] = 1 .. k /\ DOMAIN w.table[n] = 1 .. k - 1
      /\ \A j \in 1 .. k : j = k \/ j \in 1 .. k - 1
  BY <1>5, <1>6
<1>9. /\ \A j \in 1 .. k - 1 : w.table[n][j].id \in Nat /\ w.table[n][j].id < id
      /\ \A i, j \in 1 .. k - 1 : w.table[n][i].id = w.table[n][j].id => i = j
  BY <1>8, GoodFields, RequestFields DEF Good
<1>10. Good(v)
  <2> SUFFICES ASSUME NEW m \in Node
               PROVE  /\ v.table[m] \in Seq(RequestAt(m))
                      /\ \A j \in DOMAIN v.table[m] : v.table[m][j].id < v.seq[m]
                      /\ \A i, j \in DOMAIN v.table[m] :
                             v.table[m][i].id = v.table[m][j].id => i = j
    BY <1>7 DEF Good
  <2>1. CASE m # n
    BY <1>6, <2>1 DEF Good
  <2>2. CASE m = n
    <3>1. v.table[n] \in Seq(RequestAt(n))
      BY <1>5, <1>6
    <3>2. ASSUME NEW j \in 1 .. k PROVE v.table[n][j].id < id + 1
      <4>1. CASE j = k
        BY <1>1, <1>2, <1>8, <4>1
      <4>2. CASE j \in 1 .. k - 1
        <5>1. /\ v.table[n][j].id = w.table[n][j].id /\ w.table[n][j].id \in Nat
              /\ w.table[n][j].id < id
          BY <1>8, <1>9, <4>2
        <5> DEFINE x == w.table[n][j].id
                   y == id
        <5>2. v.table[n][j].id = x /\ x \in Nat /\ x < y /\ y \in Nat
          BY <1>1, <5>1
        <5> HIDE DEF x, y
        <5>3. x < y + 1
          BY <5>2
        <5>4. QED
          BY <5>2, <5>3 DEF y
      <4>3. QED
        BY <1>8, <4>1, <4>2
    <3>3. \A i, j \in 1 .. k : v.table[n][i].id = v.table[n][j].id => i = j
      <4> DEFINE d(j) == v.table[n][j].id
      <4>1. /\ \A j \in 1 .. k - 1 : d(j) \in Nat /\ d(j) < id
            /\ \A i, j \in 1 .. k - 1 : d(i) = d(j) => i = j
        BY <1>8, <1>9
      <4>2. d(k) = id /\ id \in Nat
        BY <1>1, <1>2, <1>8
      <4> HIDE DEF d
      <4>3. \A j \in 1 .. k - 1 : d(j) # d(k)
        BY <4>1, <4>2
      <4>4. \A i, j \in 1 .. k : d(i) = d(j) => i = j
        BY <1>8, <4>1, <4>3
      <4>5. QED
        BY <4>4 DEF d
    <3>4. QED
      BY <1>6, <1>8, <2>2, <3>1, <3>2, <3>3
  <2>3. QED
    BY <2>1, <2>2
<1>11. \A m \in Node : \A j \in DOMAIN w.table[m] :
           j \in DOMAIN v.table[m] /\ v.table[m][j] = w.table[m][j]
  <2>1. \A j \in 1 .. k - 1 : j \in 1 .. k
    BY <1>5
  <2>2. QED
    BY <1>6, <1>8, <2>1
<1>12. \A m \in Node : \A i, o : Named(w, m, i, o) => Named(v, m, i, o)
  BY <1>11 DEF Named
<1>13. ASSUME NEW m \in Node, NEW j \in DOMAIN w.table[m], PureAt(w, m, j)
       PROVE  PureAt(v, m, j)
  <2>1. ChildrenOf(m) \subseteq Node
    BY Tree
  <2>2. \A q : PureRecord(w, m, q) => PureRecord(v, m, q)
    BY <1>12, <2>1 DEF PureRecord
  <2>3. QED
    BY <1>11, <1>13, <2>2 DEF PureAt
<1>14. Keeps(w, v)
  BY <1>11, <1>13 DEF Keeps, Onward
<1>15. Owned(v, n, id, of)
  BY <1>2, <1>5, <1>8 DEF Owned, PureAt
<1>16. QED
  BY <1>6, <1>10, <1>14, <1>15 DEF v, EnsureQueryId

-----------------------------------------------------------------------------
\* The parts of a call, as what they put in the place of a request.
LEMMA PutIs ==
    ASSUME NEW w, Good(w), NEW n \in Node, NEW i \in DOMAIN w.table[n], NEW r
    PROVE  Put(w, n, i, r) = [table |-> [w.table EXCEPT ![n] = [w.table[n] EXCEPT ![i] = r]],
                              seq |-> w.seq]
<1>1. w = [table |-> w.table, seq |-> w.seq]
  BY GoodFields
<1>2. Put(w, n, i, r) = [w EXCEPT !.table = [w.table EXCEPT ![n] = [w.table[n] EXCEPT ![i] = r]]]
  BY Zenon DEF Put
<1>3. QED
  BY <1>1, <1>2

LEMMA PutTwice ==
    ASSUME NEW w, Good(w), NEW n \in Node, NEW i \in DOMAIN w.table[n], NEW r, NEW q
    PROVE  /\ Put(Put(w, n, i, r), n, i, q) = Put(w, n, i, q)
           /\ Put(w, n, i, r).table[n][i] = r
<1> DEFINE v == Put(w, n, i, r)
           s == w.table[n]
<1>1. /\ w = [table |-> w.table, seq |-> w.seq]
      /\ w.table \in [Node -> Seq(AnyRequest)] /\ s = [j \in DOMAIN s |-> s[j]]
  BY DEF Good, Worlds
<1>2. v = [table |-> [w.table EXCEPT ![n] = [s EXCEPT ![i] = r]], seq |-> w.seq]
  BY PutIs
<1> HIDE DEF v, s
<1>3. v.table = [w.table EXCEPT ![n] = [s EXCEPT ![i] = r]] /\ v.seq = w.seq
  BY <1>2
<1>4. v.table[n] = [s EXCEPT ![i] = r]
  BY <1>1, <1>3
<1>5. [v.table[n] EXCEPT ![i] = q] = [s EXCEPT ![i] = q]
  BY <1>1, <1>4
<1>6. [v.table EXCEPT ![n] = [v.table[n] EXCEPT ![i] = q]]
          = [w.table EXCEPT ![n] = [s EXCEPT ![i] = q]]
  BY <1>1, <1>3, <1>5
<1>7. Put(v, n, i, q) = [v EXCEPT !.table = [v.table EXCEPT ![n] = [v.table[n] EXCEPT ![i] = q]]]
  BY Zenon DEF Put
<1>8. Put(v, n, i, q) = [table |-> [w.table EXCEPT ![n] = [s EXCEPT ![i] = q]], seq |-> w.seq]
  BY <1>2, <1>6, <1>7
<1>9. v.table[n][i] = r
  BY <1>1, <1>4 DEF s
<1>10. QED
  BY <1>8, <1>9, PutIs DEF v, s

LEMMA ClearedPuts ==
    ASSUME NEW w, Good(w), NEW n \in Node, NEW i \in DOMAIN w.table[n]
    PROVE  Cleared(w, n, i) = Put(w, n, i, [w.table[n][i] EXCEPT !.window = <<>>, !.unread = 0])
<1> DEFINE r == [w.table[n][i] EXCEPT !.window = <<>>]
           v == Put(w, n, i, r)
<1>1. Cleared(w, n, i) = [v EXCEPT !.table[n][i].unread = 0]
  BY Zenon DEF Cleared, Put
<1>2. [v EXCEPT !.table[n][i].unread = 0] = Put(v, n, i, [v.table[n][i] EXCEPT !.unread = 0])
  BY Zenon DEF Put
<1>3. v.table[n][i] = r
  BY PutTwice
<1>4. Put(v, n, i, [r EXCEPT !.unread = 0]) = Put(w, n, i, [r EXCEPT !.unread = 0])
  BY PutTwice
<1>5. QED
  BY <1>1, <1>2, <1>3, <1>4, Zenon

LEMMA RoundEndedPuts ==
    ASSUME NEW w, Good(w), NEW n \in Node, NEW i \in DOMAIN w.table[n]
    PROVE  RoundEnded(w, n, i) =
               Put(w, n, i, [w.table[n][i] EXCEPT
                                 !.oddRound = ~@,
                                 !.state = IF AllWorkersCompleted(w.table[n][i])
                                           THEN "COMPLETED" ELSE @])
<1> DEFINE r == [w.table[n][i] EXCEPT !.oddRound = ~@]
           v == Put(w, n, i, r)
           e == IF AllWorkersCompleted(w.table[n][i]) THEN "COMPLETED"
                ELSE w.table[n][i].state
<1>1. RoundEnded(w, n, i) = [v EXCEPT !.table[n][i].state = e]
  BY Zenon DEF RoundEnded, Put
<1>2. [v EXCEPT !.table[n][i].state = e] = Put(v, n, i, [v.table[n][i] EXCEPT !.state = e])
  BY Zenon DEF Put
<1>3. v.table[n][i] = r
  BY PutTwice
<1>4. Put(v, n, i, [r EXCEPT !.state = e]) = Put(w, n, i, [r EXCEPT !.state = e])
  BY PutTwice
<1>5. QED
  BY <1>1, <1>2, <1>3, <1>4, Zenon

-----------------------------------------------------------------------------
\* What these forms of a request are.

\* A record with typed fields that keeps what makes it one of the node's.
LEMMA RequestIn ==
    ASSUME NEW n \in Node, NEW r \in Fields(n), r.unread <= Len(r.window),
           r.progress[n].next <= Len(Shard[n]), Children[n] = <<>> => Pure(r)
    PROVE  r \in RequestAt(n)
  BY DEF RequestAt

ClearedForm(r) == [r EXCEPT !.window = <<>>, !.unread = 0]

EndedForm(r, e) == [r EXCEPT !.oddRound = ~@, !.state = e]

TakenForm(r, k, e) == [r EXCEPT !.unread = @ + k, !.state = e]

LEMMA ClearedRecord ==
    ASSUME NEW n \in Node, NEW r \in RequestAt(n)
    PROVE  LET q == ClearedForm(r) IN
           /\ q \in RequestAt(n) /\ SameRequest(n, r, q)
           /\ q.window = <<>> /\ q.unread = 0 /\ q.progress = r.progress /\ q.state = r.state
           /\ \A w : PureRecord(w, n, r) => PureRecord(w, n, q)
<1> DEFINE none == <<>>
           zero == 0
           q == ClearedForm(r)
<1>1. none \in Seq(Client) /\ Len(none) = 0 /\ ToSet(none) = {} /\ zero \in Nat
  BY DEF ToSet
<1>2. r \in Fields(n) /\ r.progress[n].next <= Len(Shard[n])
  BY DEF RequestAt
<1> HIDE DEF none, zero
<1>3. q = [r EXCEPT !.window = none, !.unread = zero]
  BY DEF none, zero, ClearedForm
<1> HIDE DEF q
<1>4. /\ q \in Fields(n) /\ q.id = r.id /\ q.of = r.of
      /\ q.window = none /\ q.unread = zero /\ q.progress = r.progress /\ q.state = r.state
  BY <1>1, <1>2, <1>3 DEF Fields
<1>5. Pure(q)
  BY <1>1, <1>4 DEF Pure
<1>6. q \in RequestAt(n)
  <2>1. q.unread <= Len(q.window)
    BY <1>1, <1>4 DEF zero
  <2>2. QED
    BY <1>2, <1>4, <1>5, <2>1, RequestIn
<1>7. \A w : PureRecord(w, n, r) => PureRecord(w, n, q)
  BY <1>4, <1>5 DEF PureRecord
<1>8. QED
  BY <1>4, <1>6, <1>7 DEF none, zero, q, SameRequest, Onward

LEMMA EndedRecord ==
    ASSUME NEW n \in Node, NEW r \in RequestAt(n), NEW e \in States
    PROVE  LET q == EndedForm(r, e) IN
           /\ q \in RequestAt(n) /\ SameRequest(n, r, q)
           /\ q.window = r.window /\ q.unread = r.unread /\ q.progress = r.progress
           /\ \A w : PureRecord(w, n, r) => PureRecord(w, n, q)
<1> DEFINE q == EndedForm(r, e)
<1>0. q = [r EXCEPT !.oddRound = ~@, !.state = e]
  BY DEF EndedForm
<1> HIDE DEF q
<1>1. r \in Fields(n) /\ r.progress[n].next <= Len(Shard[n]) /\ r.unread <= Len(r.window)
  BY DEF RequestAt
<1>2. /\ q \in Fields(n) /\ q.id = r.id /\ q.of = r.of
      /\ q.window = r.window /\ q.unread = r.unread /\ q.progress = r.progress
  BY <1>0, <1>1 DEF Fields
<1>3. Pure(r) <=> Pure(q)
  BY <1>2 DEF Pure
<1>4. q \in RequestAt(n)
  BY <1>1, <1>2, <1>3, RequestFields, RequestIn
<1>5. \A w : PureRecord(w, n, r) => PureRecord(w, n, q)
  BY <1>2, <1>3 DEF PureRecord
<1>6. QED
  BY <1>2, <1>4, <1>5 DEF SameRequest, q, Onward

LEMMA TakenRecord ==
    ASSUME NEW n \in Node, NEW r \in RequestAt(n), NEW e \in States, NEW k \in Nat,
           r.unread + k <= Len(r.window)
    PROVE  LET q == TakenForm(r, k, e) IN
           /\ q \in RequestAt(n) /\ SameRequest(n, r, q)
           /\ q.window = r.window /\ q.progress = r.progress
           /\ \A w : PureRecord(w, n, r) => PureRecord(w, n, q)
<1>1. r \in Fields(n) /\ r.progress[n].next <= Len(Shard[n]) /\ r.unread \in Nat
  BY RequestFields DEF RequestAt
<1> DEFINE u == r.unread + k
           q == TakenForm(r, k, e)
<1>2. u \in Nat /\ q = [r EXCEPT !.unread = u, !.state = e]
  BY <1>1 DEF TakenForm
<1>3. u <= Len(r.window)
  OBVIOUS
<1> HIDE DEF u, q
<1>4. /\ q \in Fields(n) /\ q.id = r.id /\ q.of = r.of
      /\ q.window = r.window /\ q.unread = u /\ q.progress = r.progress
  BY <1>1, <1>2 DEF Fields
<1>5. Pure(r) <=> Pure(q)
  BY <1>4 DEF Pure
<1>6. q \in RequestAt(n)
  BY <1>1, <1>3, <1>4, <1>5, RequestFields, RequestIn
<1>7. \A w : PureRecord(w, n, r) => PureRecord(w, n, q)
  BY <1>4, <1>5 DEF PureRecord
<1>8. QED
  BY <1>4, <1>6, <1>7 DEF SameRequest, Onward, q

LEMMA RowsJoin ==
    ASSUME NEW a \in Seq(Client), NEW b \in Seq(Client), NEW c,
           ToSet(a) \subseteq {c}, ToSet(b) \subseteq {c}
    PROVE  ToSet(a \o b) \subseteq {c}
<1>1. /\ a \o b \in Seq(Client) /\ Len(a \o b) = Len(a) + Len(b)
      /\ \A i \in 1 .. Len(a) + Len(b) :
             (a \o b)[i] = IF i <= Len(a) THEN a[i] ELSE b[i - Len(a)]
  BY ConcatProperties
<1>2. /\ DOMAIN a = 1 .. Len(a) /\ DOMAIN b = 1 .. Len(b)
      /\ DOMAIN (a \o b) = 1 .. Len(a) + Len(b) /\ Len(a) \in Nat /\ Len(b) \in Nat
  BY <1>1, LenProperties
<1>3. ASSUME NEW i \in DOMAIN (a \o b) PROVE (a \o b)[i] = c
  <2>1. CASE i <= Len(a)
    <3>1. i \in DOMAIN a
      BY <1>2, <2>1
    <3>2. a[i] = c
      BY <3>1 DEF ToSet
    <3>3. QED
      BY <1>1, <1>2, <2>1, <3>2
  <2>2. CASE ~(i <= Len(a))
    <3>1. i - Len(a) \in DOMAIN b
      BY <1>2, <2>2
    <3>2. b[i - Len(a)] = c
      BY <3>1 DEF ToSet
    <3>3. QED
      BY <1>1, <1>2, <2>2, <3>2
  <2>3. QED
    BY <2>1, <2>2
<1>4. QED
  BY <1>3 DEF ToSet

\* q is r with what worker x brings.
IsMerged(n, r, x, rows, next, hasMore, q) ==
    /\ q \in RequestAt(n) /\ SameRequest(n, r, q)
    /\ q.window = r.window \o rows /\ q.unread = r.unread /\ q.state = r.state
    /\ q.progress[x].completed = ~hasMore /\ q.progress[x].next = next
    /\ \A y \in {n} \cup ChildrenOf(n) :
           /\ q.progress[y].remoteId = r.progress[y].remoteId
           /\ y # x => q.progress[y] = r.progress[y]
    /\ \A w : PureRecord(w, n, r) /\ ToSet(rows) \subseteq {r.of} => PureRecord(w, n, q)

LEMMA MergedRecord ==
    ASSUME NEW n \in Node, NEW r \in RequestAt(n), NEW x \in {n} \cup ChildrenOf(n),
           NEW rows \in Seq(Client), NEW next \in Nat, NEW hasMore \in BOOLEAN,
           x = n => r.progress[n].next <= next /\ next <= Len(Shard[n]),
           Children[n] = <<>> => ToSet(rows) \subseteq {r.of}
    PROVE  IsMerged(n, r, x, rows, next, hasMore, Merged(r, x, rows, next, hasMore))
<1> DEFINE p == [r.progress EXCEPT ![x] = [@ EXCEPT !.next = next, !.completed = ~hasMore]]
           q == Merged(r, x, rows, next, hasMore)
<1>1. /\ r \in Fields(n) /\ r.progress[n].next <= Len(Shard[n]) /\ r.unread <= Len(r.window)
      /\ r.window \in Seq(Client) /\ r.unread \in Nat /\ Len(r.window) \in Nat
      /\ r.progress \in [{n} \cup ChildrenOf(n) -> WorkerRecord] /\ r.matched \in Nat
  BY RequestFields DEF RequestAt
<1>2. /\ p \in [{n} \cup ChildrenOf(n) -> WorkerRecord]
      /\ p[x].next = next /\ p[x].completed = ~hasMore
      /\ \A y \in {n} \cup ChildrenOf(n) : /\ p[y].remoteId = r.progress[y].remoteId
                                           /\ y # x => p[y] = r.progress[y]
  BY <1>1 DEF WorkerRecord
<1>3. /\ r.window \o rows \in Seq(Client) /\ Len(r.window \o rows) = Len(r.window) + Len(rows)
      /\ Len(rows) \in Nat
  BY <1>1, ConcatProperties
<1>4. q = [r EXCEPT !.window = @ \o rows, !.matched = @ + Len(rows), !.progress = p]
  BY Zenon DEF Merged
<1> HIDE DEF p, q
<1>5. /\ q \in Fields(n) /\ q.id = r.id /\ q.of = r.of /\ q.window = r.window \o rows
      /\ q.unread = r.unread /\ q.progress = p /\ q.state = r.state
  <2> DEFINE wi == r.window \o rows
             ma == r.matched + Len(rows)
  <2>1. wi \in Seq(Client) /\ ma \in Nat
    BY <1>1, <1>3
  <2>2. q = [r EXCEPT !.window = wi, !.matched = ma, !.progress = p]
    BY <1>4
  <2> HIDE DEF wi, ma
  <2>3. /\ q \in Fields(n) /\ q.id = r.id /\ q.of = r.of /\ q.window = wi
        /\ q.unread = r.unread /\ q.progress = p /\ q.state = r.state
    BY <1>1, <1>2, <2>1, <2>2 DEF Fields
  <2>4. QED
    BY <2>3 DEF wi
<1>6. Pure(r) /\ ToSet(rows) \subseteq {r.of} => Pure(q)
  BY <1>1, <1>5, RowsJoin DEF Pure
<1>7. q.unread <= Len(q.window)
  BY <1>1, <1>3, <1>5
<1>8. q.progress[n].next <= Len(Shard[n])
  BY <1>1, <1>2, <1>5
<1>9. q \in RequestAt(n)
  BY <1>5, <1>6, <1>7, <1>8, RequestFields, RequestIn
<1>10. \A w : PureRecord(w, n, r) /\ ToSet(rows) \subseteq {r.of} => PureRecord(w, n, q)
  BY <1>2, <1>5, <1>6 DEF PureRecord
<1>11. Onward(n, r, q)
  <2>1. /\ r.progress[n].next \in Nat /\ q.progress[n].next \in Nat
        /\ r.progress[n].next <= q.progress[n].next
    BY <1>1, <1>2, <1>5 DEF WorkerRecord
  <2>2. QED
    BY <2>1 DEF Onward
<1>12. QED
  BY <1>2, <1>5, <1>9, <1>10, <1>11 DEF SameRequest, IsMerged, q

-----------------------------------------------------------------------------
\* What the parts of a call do.

\* As a round goes on, a request loses no row and no worker's end.
Forward(n, r, q) ==
    /\ q.unread = r.unread
    /\ r.window # <<>> => q.window # <<>>
    /\ \A x \in {n} \cup ChildrenOf(n) : r.progress[x].completed => q.progress[x].completed

\* v comes of w by work on request number i of node n.
Works(w, v, n, i) ==
    Good(v) /\ Keeps(w, v) /\ Forward(n, w.table[n][i], v.table[n][i])

\* Since world w worker x of the request has ended, or the window has rows, or
\* rows of some shard were looked at.
Served(w, v, n, i, x) ==
    \/ v.table[n][i].progress[x].completed \/ v.table[n][i].window # <<>>
    \/ MovesOn(w, v)

LEMMA WorksItself ==
    ASSUME NEW w, Good(w), NEW n, NEW i PROVE Works(w, w, n, i)
  BY KeepsItself DEF Works, Forward

LEMMA WorksOn ==
    ASSUME NEW u, NEW v, NEW w, NEW n, NEW i, Works(u, v, n, i), Works(v, w, n, i)
    PROVE  Works(u, w, n, i)
  BY KeepsOn DEF Works, Forward

LEMMA ServedStays ==
    ASSUME NEW u, NEW v, NEW w, NEW n, NEW i, Good(u), Good(v), Works(v, w, n, i),
           NEW x \in {n} \cup ChildrenOf(n), Served(u, v, n, i, x)
    PROVE  Served(u, w, n, i, x)
<1>1. MovesOn(u, v) => MovesOn(u, w)
  BY KeepsGoesOn, MovesStay DEF Works
<1>2. QED
  BY <1>1 DEF Forward, Served, Works

LEMMA ServedFrom ==
    ASSUME NEW u, NEW v, NEW w, NEW n, NEW i, Good(u), Good(v), Good(w), Keeps(u, v),
           NEW x, Served(v, w, n, i, x)
    PROVE  Served(u, w, n, i, x)
  BY KeepsGoesOn, MovesFrom DEF Served

\* What is put in the place of a request changes no other node's table.
LEMMA PutWorks ==
    ASSUME NEW w, Good(w), NEW n \in Node, NEW i \in DOMAIN w.table[n],
           NEW r \in RequestAt(n), SameRequest(n, w.table[n][i], r),
           \A u : PureRecord(u, n, w.table[n][i]) => PureRecord(u, n, r)
    PROVE  /\ Good(Put(w, n, i, r)) /\ Keeps(w, Put(w, n, i, r))
           /\ Put(w, n, i, r).table[n][i] = r
           /\ \A m \in Node : m # n => Put(w, n, i, r).table[m] = w.table[m]
<1>1. PureAt(w, n, i) => PureRecord(w, n, r)
  BY DEF PureAt
<1>2. r.id = w.table[n][i].id /\ r.of = w.table[n][i].of
  BY DEF SameRequest
<1>3. Good(Put(w, n, i, r)) /\ Keeps(w, Put(w, n, i, r))
  BY <1>1, <1>2, KeepsItself, PutKeeps
<1>4. IsPut(w, n, i, r, Put(w, n, i, r))
  BY PutFacts
<1>5. QED
  BY <1>3, <1>4 DEF IsPut

LEMMA ClearedWorks ==
    ASSUME NEW w, Good(w), NEW n \in Node, NEW i \in DOMAIN w.table[n]
    PROVE  /\ Good(Cleared(w, n, i)) /\ Keeps(w, Cleared(w, n, i))
           /\ \A m \in Node : m # n => Cleared(w, n, i).table[m] = w.table[m]
           /\ LET r == w.table[n][i]
                  q == Cleared(w, n, i).table[n][i]
              IN  q.window = <<>> /\ q.unread = 0 /\ q.progress = r.progress
<1> DEFINE r == w.table[n][i]
           q == ClearedForm(r)
<1>1. r \in RequestAt(n)
  BY GoodFields
<1>2. /\ q \in RequestAt(n) /\ SameRequest(n, r, q)
      /\ q.window = <<>> /\ q.unread = 0 /\ q.progress = r.progress
      /\ \A u : PureRecord(u, n, r) => PureRecord(u, n, q)
  <2> HIDE DEF r
  <2>1. QED
    BY <1>1, ClearedRecord
<1>3. Cleared(w, n, i) = Put(w, n, i, q)
  BY ClearedPuts DEF ClearedForm
<1> HIDE DEF q
<1>4. /\ Good(Put(w, n, i, q)) /\ Keeps(w, Put(w, n, i, q))
      /\ Put(w, n, i, q).table[n][i] = q
      /\ \A m \in Node : m # n => Put(w, n, i, q).table[m] = w.table[m]
  BY <1>2, PutWorks
<1>5. QED
  BY <1>2, <1>3, <1>4

LEMMA RoundEndedWorks ==
    ASSUME NEW w, Good(w), NEW n \in Node, NEW i \in DOMAIN w.table[n]
    PROVE  /\ Works(w, RoundEnded(w, n, i), n, i)
           /\ \A m \in Node : m # n => RoundEnded(w, n, i).table[m] = w.table[m]
           /\ LET r == w.table[n][i]
                  q == RoundEnded(w, n, i).table[n][i]
              IN  q.window = r.window /\ q.unread = r.unread /\ q.progress = r.progress
<1> DEFINE r == w.table[n][i]
           e == IF AllWorkersCompleted(r) THEN "COMPLETED" ELSE r.state
           q == EndedForm(r, e)
<1>1. r \in RequestAt(n)
  BY GoodFields
<1>2. e \in States
  <2> HIDE DEF r
  <2>1. r.state \in States
    BY <1>1, RequestFields
  <2>2. QED
    BY <2>1 DEF States
<1>3. RoundEnded(w, n, i) = Put(w, n, i, q)
  BY RoundEndedPuts DEF EndedForm
<1>4. /\ q \in RequestAt(n) /\ SameRequest(n, r, q)
      /\ q.window = r.window /\ q.unread = r.unread /\ q.progress = r.progress
      /\ \A u : PureRecord(u, n, r) => PureRecord(u, n, q)
  <2> HIDE DEF r, e
  <2>1. QED
    BY <1>1, <1>2, EndedRecord
<1> HIDE DEF q
<1>5. /\ Good(Put(w, n, i, q)) /\ Keeps(w, Put(w, n, i, q))
      /\ Put(w, n, i, q).table[n][i] = q
      /\ \A m \in Node : m # n => Put(w, n, i, q).table[m] = w.table[m]
  BY <1>4, PutWorks
<1>6. Works(w, Put(w, n, i, q), n, i)
  BY <1>4, <1>5 DEF Works, Forward
<1>7. QED
  BY <1>3, <1>4, <1>5, <1>6

LEMMA JoinIsNotEmpty ==
    ASSUME NEW a \in Seq(Client), NEW b \in Seq(Client), a # <<>> \/ b # <<>>
    PROVE  a \o b # <<>>
<1>1. Len(a \o b) = Len(a) + Len(b) /\ Len(a) \in Nat /\ Len(b) \in Nat /\ Len(<<>>) = 0
  BY ConcatProperties
<1>2. Len(a) # 0 \/ Len(b) # 0
  BY EmptySeq
<1>3. QED
  BY <1>1, <1>2

\* A scan looks at a row, or is at the end of the shard.
LEMMA ScanGoesOn ==
    ASSUME NEW n \in Node, NEW of, NEW from \in Nat, from <= Len(Shard[n]),
           NEW size \in Nat \ {0}
    PROVE  LET next == ScanEnd(Shard[n], of, from, size)
               k == Cardinality(Hits(Shard[n], of, from, next))
           IN  /\ next \in Nat /\ from <= next /\ next <= Len(Shard[n])
               /\ k \in Nat
               /\ next = from => k = 0 /\ next = Len(Shard[n])
<1> DEFINE len == Len(Shard[n])
           Hit(m) == Hits(Shard[n], of, from, m)
           stops == {m \in from .. len : m - from = ScanRowBudget \/ Cardinality(Hit(m)) = size}
           next == ScanEnd(Shard[n], of, from, size)
<1>1. len \in Nat /\ from <= len
  BY Tree
<1>2. next = Min(stops \cup {len})
  BY DEF ScanEnd
<1>3. \A m \in Nat : Hit(m) \subseteq from + 1 .. m
  BY DEF Hits
<1> HIDE DEF len, Hit
<1>4. stops \cup {len} \in SUBSET Nat /\ stops \cup {len} # {}
      /\ \A m \in stops \cup {len} : from <= m /\ m <= len
  BY <1>1
<1>5. next \in stops \cup {len}
  BY <1>2, <1>4, LeastOf
<1> HIDE DEF next
<1>6. next \in Nat /\ from <= next /\ next <= len
  BY <1>4, <1>5
<1>7. \A m \in Nat : IsFiniteSet(Hit(m)) /\ Cardinality(Hit(m)) \in Nat
  <2> SUFFICES ASSUME NEW m \in Nat
               PROVE  IsFiniteSet(Hit(m)) /\ Cardinality(Hit(m)) \in Nat
    OBVIOUS
  <2>1. from + 1 \in Int /\ m \in Int
    OBVIOUS
  <2>2. IsFiniteSet(from + 1 .. m)
    BY <2>1, FS_Interval
  <2>3. IsFiniteSet(Hit(m))
    BY <1>3, <2>2, FS_Subset
  <2>4. QED
    BY <2>3, FS_CardinalityType
<1>8. Cardinality(Hit(from)) = 0
  <2>1. Hit(from) = {}
    BY <1>3
  <2>2. QED
    BY <2>1, FS_EmptySet
<1>9. from \notin stops
  <2>1. from - from # ScanRowBudget /\ Cardinality(Hit(from)) # size
    BY <1>8, SizeAssumption
  <2>2. QED
    BY <2>1
<1>10. next = from => next = len
  BY <1>5, <1>9
<1>11. Cardinality(Hit(next)) \in Nat /\ (next = from => Cardinality(Hit(next)) = 0)
  BY <1>6, <1>7, <1>8
<1>12. QED
  BY <1>6, <1>10, <1>11 DEF next, len, Hit

\* A leaf's part of a round: rows of its own, a cursor moved on or the end.
LEMMA WithLocalWorks ==
    ASSUME NEW w, Good(w), NEW n \in Node, NEW i \in DOMAIN w.table[n], NEW maxRows \in Nat
    PROVE  /\ Works(w, WithLocal(w, n, i, maxRows), n, i)
           /\ Served(w, WithLocal(w, n, i, maxRows), n, i, n)
           /\ \A m \in Node : m # n => WithLocal(w, n, i, maxRows).table[m] = w.table[m]
<1> DEFINE tab == w.table[n]
           r == tab[i]
           p == r.progress[n]
           size == ChooseAdaptiveChunkSize(tab, maxRows)
           next == ScanEnd(Shard[n], r.of, p.next, size)
           k == Cardinality(Hits(Shard[n], r.of, p.next, next))
           rows == [j \in 1 .. k |-> r.of]
           more == k = size \/ next < Len(Shard[n])
           q == Merged(r, n, rows, next, more)
           v == WithLocal(w, n, i, maxRows)
<1>1. r \in RequestAt(n)
  BY GoodFields
<1>2. v = [w EXCEPT !.table[n] = IF p.completed THEN tab ELSE [tab EXCEPT ![i] = q]]
  BY Zenon DEF WithLocal, WithLocalChunk
<1>3. w = [table |-> w.table, seq |-> w.seq] /\ w.table \in [Node -> Seq(AnyRequest)]
  BY DEF Good, Worlds
<1> HIDE DEF v
<1>4. CASE p.completed
  <2>1. v = [w EXCEPT !.table[n] = w.table[n]]
    BY <1>2, <1>4
  <2>2. v = w
    BY <1>3, <2>1
  <2>3. Works(w, v, n, i)
    BY <2>2, WorksItself
  <2>4. Served(w, v, n, i, n)
    BY <1>4, <2>2 DEF Served
  <2>5. QED
    BY <2>2, <2>3, <2>4 DEF v
<1>5. CASE ~p.completed
  <2>1. v = Put(w, n, i, q)
    BY <1>2, <1>5, Zenon DEF Put
  <2>2. /\ size \in Nat \ {0}
        /\ r.of \in Client /\ p.next \in Nat /\ p.next <= Len(Shard[n])
        /\ r.window \in Seq(Client)
    <3>1. size \in Nat \ {0}
      BY ChunkSize
    <3> HIDE DEF r
    <3>2. QED
      BY <1>1, <3>1, RequestFields, Tree
  <2>3. /\ k \in Nat /\ next \in Nat /\ p.next <= next /\ next <= Len(Shard[n])
        /\ next = p.next => k = 0 /\ next = Len(Shard[n])
    <3> DEFINE from == p.next
    <3> HIDE DEF from, size
    <3>1. from \in Nat /\ from <= Len(Shard[n]) /\ size \in Nat \ {0}
      BY <2>2 DEF from
    <3>2. LET nx == ScanEnd(Shard[n], r.of, from, size)
              kk == Cardinality(Hits(Shard[n], r.of, from, nx))
          IN  /\ nx \in Nat /\ from <= nx /\ nx <= Len(Shard[n])
              /\ kk \in Nat
              /\ nx = from => kk = 0 /\ nx = Len(Shard[n])
      BY <3>1, ScanGoesOn
    <3>3. QED
      BY <3>2 DEF from
  <2>4. /\ Len(Shard[n]) \in Nat
        /\ more /\ k = 0 => p.next < next
    <3>1. Len(Shard[n]) \in Nat
      BY Tree
    <3> HIDE DEF k, size, next
    <3>2. QED
      BY <2>2, <2>3, <3>1
  <2> HIDE DEF k, size, next
  <2>5. rows \in Seq(Client) /\ ToSet(rows) \subseteq {r.of} /\ Len(rows) = k
    BY <2>2, <2>3 DEF ToSet
  <2>6. k # 0 => rows # <<>>
    <3>1. k # 0 => Len(rows) # 0
      BY <2>5
    <3>2. QED
      BY <3>1, EmptySeq
  <2>7. PICK hasMore \in BOOLEAN : hasMore = more
    OBVIOUS
  <2> HIDE DEF rows, r, more
  <2>8. /\ q \in RequestAt(n) /\ SameRequest(n, r, q)
        /\ q.window = r.window \o rows /\ q.unread = r.unread
        /\ q.progress[n].completed = ~hasMore /\ q.progress[n].next = next
        /\ \A y \in {n} \cup ChildrenOf(n) : y # n => q.progress[y] = r.progress[y]
        /\ \A u : PureRecord(u, n, r) => PureRecord(u, n, q)
    <3>1. q = Merged(r, n, rows, next, hasMore)
      BY <2>7, Zenon
    <3> HIDE DEF q
    <3>2. /\ n \in {n} \cup ChildrenOf(n)
          /\ Children[n] = <<>> => ToSet(rows) \subseteq {r.of}
          /\ r.progress[n].next <= next /\ next <= Len(Shard[n])
      BY <2>3, <2>5
    <3> HIDE DEF p
    <3>3. IsMerged(n, r, n, rows, next, hasMore, Merged(r, n, rows, next, hasMore))
      BY <1>1, <2>3, <2>5, <3>2, MergedRecord
    <3>4. IsMerged(n, r, n, rows, next, hasMore, q)
      BY <3>1, <3>3
    <3>5. QED
      BY <2>5, <3>4 DEF IsMerged
  <2> HIDE DEF q
  <2>9. /\ Good(v) /\ Keeps(w, v) /\ v.table[n][i] = q
        /\ \A m \in Node : m # n => v.table[m] = w.table[m]
    BY <2>1, <2>8, PutWorks DEF r
  <2>10. Forward(n, r, q)
    <3>1. r.window # <<>> => q.window # <<>>
      BY <2>2, <2>5, <2>8, JoinIsNotEmpty
    <3>2. QED
      BY <1>5, <2>8, <3>1 DEF Forward
  <2>11. Served(w, v, n, i, n)
    <3>1. k # 0 => q.window # <<>>
      BY <2>2, <2>5, <2>6, <2>8, JoinIsNotEmpty
    <3>2. ASSUME more, k = 0 PROVE MovesOn(w, v)
      <4>1. p.next < next /\ next > 0
        BY <2>2, <2>3, <2>4, <3>2
      <4>2. i \in DOMAIN v.table[n]
        BY <2>9 DEF Keeps
      <4>3. w.table[n][i].progress[n].next < v.table[n][i].progress[n].next
            /\ v.table[n][i].progress[n].next > 0
        BY <2>8, <2>9, <4>1 DEF r
      <4>4. QED
        BY <4>2, <4>3 DEF MovesOn
    <3>3. QED
      BY <2>7, <2>8, <2>9, <3>1, <3>2 DEF Served
  <2>12. QED
    BY <2>9, <2>10, <2>11 DEF v, Works, r
<1>6. QED
  BY <1>4, <1>5

\* Answer a takes rows from the window of request number i of node n, as many
\* as there are if it is not used up, and says when there will be no more.
IsTaken(w, n, i, a) ==
    LET r == w.table[n][i]
    IN  /\ Good(a.world) /\ Keeps(w, a.world)
        /\ \A m \in Node : m # n => a.world.table[m] = w.table[m]
        /\ a.world.table[n][i].progress = r.progress
        /\ a.found /\ a.done \in BOOLEAN
        /\ a.rows \in Seq(Client) /\ ToSet(a.rows) \subseteq ToSet(r.window)
        /\ ~WindowUsedUp(r) => a.rows # <<>>
        /\ WindowUsedUp(r) /\ AllWorkersCompleted(r) => a.done

LEMMA TakenWorks ==
    ASSUME NEW w, Good(w), NEW n \in Node, NEW i \in DOMAIN w.table[n],
           NEW size \in Nat \ {0}
    PROVE  IsTaken(w, n, i, Taken(w, n, i, size))
<1> DEFINE r == w.table[n][i]
           len == Len(r.window)
           take == Min({size, len - r.unread})
           last == r.unread + take = len /\ AllWorkersCompleted(r)
           e == IF take > 0 /\ last THEN "COMPLETED" ELSE r.state
           q == TakenForm(r, take, e)
           rows == SubSeq(r.window, r.unread + 1, r.unread + take)
           a == Taken(w, n, i, size)
<1>1. r \in RequestAt(n)
  BY GoodFields
<1>2. /\ r.window \in Seq(Client) /\ len \in Nat /\ r.unread \in Nat /\ r.unread <= len
      /\ r.state \in States /\ DOMAIN r.window = 1 .. len
  <2> HIDE DEF r
  <2>1. QED
    BY <1>1, RequestFields, LenProperties
<1>3. /\ a = [found |-> TRUE, done |-> last, rows |-> rows, world |-> a.world]
      /\ a.world = [w EXCEPT !.table[n][i].unread = @ + take,
                             !.table[n][i].state =
                                 IF take > 0 /\ last THEN "COMPLETED" ELSE @]
  BY Zenon DEF Taken
<1>4. a = [found |-> TRUE, done |-> last, rows |-> rows, world |-> Put(w, n, i, q)]
  <2> DEFINE f == [r EXCEPT !.unread = @ + take]
             v == Put(w, n, i, f)
  <2>1. a.world = [v EXCEPT !.table[n][i].state = e]
    BY <1>3, Zenon DEF Put
  <2>2. [v EXCEPT !.table[n][i].state = e] = Put(v, n, i, [v.table[n][i] EXCEPT !.state = e])
    BY Zenon DEF Put
  <2>3. v.table[n][i] = f
    BY PutTwice
  <2>4. Put(v, n, i, [f EXCEPT !.state = e]) = Put(w, n, i, [f EXCEPT !.state = e])
    BY PutTwice
  <2>5. a.world = Put(w, n, i, q)
    BY <2>1, <2>2, <2>3, <2>4, Zenon DEF TakenForm
  <2> HIDE DEF a, q, f, v, last, rows
  <2>6. QED
    BY <1>3, <2>5
<1> HIDE DEF a, r, len
<1>5. take \in Nat /\ r.unread + take <= len /\ (r.unread < len => take > 0)
      /\ (r.unread = len => take = 0)
  <2> DEFINE d == len - r.unread
  <2>1. d \in Nat /\ (r.unread < len => d > 0) /\ (r.unread = len => d = 0)
    BY <1>2
  <2> HIDE DEF d
  <2>2. d \in Int /\ size \in Int
    BY <2>1
  <2>3. Min({size, d}) \in {size, d} /\ Min({size, d}) <= d
    BY <2>2, LeastOfTwo, Zenon
  <2> DEFINE z == Min({size, d})
  <2>4. z \in {size, d} /\ z <= d
    BY <2>3
  <2> HIDE DEF z
  <2>5. z \in Nat /\ (d > 0 => z > 0)
    BY <2>1, <2>4
  <2>6. z \in Nat /\ r.unread + z <= len /\ (r.unread < len => z > 0)
        /\ (r.unread = len => z = 0)
    BY <1>2, <2>1, <2>4, <2>5 DEF d
  <2>7. QED
    BY <2>6 DEF d, z
<1> HIDE DEF take
<1>6. /\ rows \in Seq(Client) /\ ToSet(rows) \subseteq ToSet(r.window)
      /\ r.unread < len => rows # <<>>
  <2> DEFINE lo == r.unread + 1
             hi == r.unread + take
  <2>1. lo \in Int /\ hi \in Int /\ \A j \in lo .. hi : j \in DOMAIN r.window
    BY <1>2, <1>5
  <2>2. \A j \in lo .. hi : r.window[j] \in Client /\ r.window[j] \in ToSet(r.window)
    BY <1>2, <2>1 DEF ToSet
  <2>3. r.unread < len => lo <= hi
    BY <1>2, <1>5
  <2> HIDE DEF lo, hi
  <2> DEFINE s == SubSeq(r.window, lo, hi)
  <2>4. s \in Seq(Client) /\ s \in Seq(ToSet(r.window))
        /\ Len(s) = IF lo <= hi THEN hi - lo + 1 ELSE 0
    BY <2>1, <2>2, SubSeqProperties
  <2>5. r.unread < len => Len(s) # 0
    BY <2>1, <2>3, <2>4
  <2> HIDE DEF s
  <2>6. ToSet(s) \subseteq ToSet(r.window)
    <3>1. \A j \in DOMAIN s : s[j] \in ToSet(r.window)
      BY <2>4
    <3>2. QED
      BY <3>1 DEF ToSet
  <2>7. r.unread < len => s # <<>>
    BY <2>5, EmptySeq
  <2>8. QED
    BY <2>4, <2>6, <2>7 DEF s, lo, hi
<1> HIDE DEF rows
<1>7. e \in States
  BY <1>2 DEF States
<1> HIDE DEF e
<1>8. /\ q \in RequestAt(n) /\ SameRequest(n, r, q) /\ q.progress = r.progress
      /\ \A u : PureRecord(u, n, r) => PureRecord(u, n, q)
  <2>1. r.unread + take <= Len(r.window)
    BY <1>5 DEF len
  <2>2. QED
    BY <1>1, <1>5, <1>7, <2>1, TakenRecord
<1> HIDE DEF q
<1>9. /\ Good(Put(w, n, i, q)) /\ Keeps(w, Put(w, n, i, q))
      /\ Put(w, n, i, q).table[n][i] = q
      /\ \A m \in Node : m # n => Put(w, n, i, q).table[m] = w.table[m]
  BY <1>8, PutWorks DEF r
<1>10. a.found /\ a.done = last /\ a.rows = rows /\ a.world = Put(w, n, i, q)
  BY <1>4
<1>11. ~WindowUsedUp(r) => r.unread < len
  BY <1>2 DEF WindowUsedUp, len
<1>12. WindowUsedUp(r) /\ AllWorkersCompleted(r) => last
  <2>1. WindowUsedUp(r) => r.unread = len
    BY <1>2 DEF WindowUsedUp, len
  <2>2. r.unread = len => r.unread + take = len
    BY <1>2, <1>5
  <2>3. QED
    BY <2>1, <2>2
<1>13. last \in BOOLEAN
  OBVIOUS
<1> HIDE DEF last
<1>14. QED
  BY <1>6, <1>8, <1>9, <1>10, <1>11, <1>12, <1>13 DEF IsTaken, r, a

-----------------------------------------------------------------------------
\* Calls.

\* f comes of w by a round of fetching for request number i of node n.
IsFetched(w, n, i, f) ==
    /\ Good(f) /\ Keeps(w, f)
    /\ f.table[n][i].unread = 0
    /\ \A x \in {n} \cup ChildrenOf(n) : Served(w, f, n, i, x)

\* Answer a to a call about request number i of node n: rows that are the
\* query's own, if all of its are, and if it is not the last some, or some rows
\* looked at.
IsAnswer(w, n, i, a) ==
    /\ Good(a.world) /\ Keeps(w, a.world)
    /\ a.found /\ a.done \in BOOLEAN /\ a.rows \in Seq(Client)
    /\ PureAt(w, n, i) => ToSet(a.rows) \subseteq {w.table[n][i].of}
    /\ a.done \/ a.rows # <<>> \/ MovesOn(w, a.world)

LEMMA AnswerWorks ==
    ASSUME NEW w, Good(w), NEW n \in Node, NEW i \in DOMAIN w.table[n],
           NEW size \in Nat \ {0}, NEW f, IsFetched(w, n, i, f)
    PROVE  /\ IsAnswer(w, n, i, Answer(w, n, i, size, f))
           /\ (\A m \in Node : m # n => f.table[m] = w.table[m]) =>
                  \A m \in Node : m # n =>
                      Answer(w, n, i, size, f).world.table[m] = w.table[m]
<1> DEFINE r == w.table[n][i]
           a == Answer(w, n, i, size, f)
           others == \A m \in Node : m # n => a.world.table[m] = w.table[m]
<1>1. i # 0 /\ r \in RequestAt(n)
  BY GoodFields
<1>2. /\ Good(f) /\ Keeps(w, f) /\ i \in DOMAIN f.table[n]
      /\ f.table[n][i].of = r.of /\ (PureAt(w, n, i) => PureAt(f, n, i))
      /\ f.table[n][i] \in RequestAt(n)
  <2>1. Good(f) /\ Keeps(w, f) /\ i \in DOMAIN f.table[n]
    BY DEF IsFetched, Keeps
  <2>2. f.table[n][i] \in RequestAt(n)
    BY <2>1, GoodFields
  <2>3. QED
    BY <2>1, <2>2 DEF Keeps
<1>3. \A u : PureAt(u, n, i) => ToSet(u.table[n][i].window) \subseteq {u.table[n][i].of}
  BY DEF PureAt, PureRecord, Pure
<1>4. CASE r.state = "CANCELLED"
  <2>1. a = [found |-> i # 0, done |-> TRUE, rows |-> <<>>, world |-> w]
    BY <1>1, <1>4, Zenon DEF Answer
  <2>2. a.found = (i # 0) /\ a.done = TRUE /\ a.rows = <<>> /\ a.world = w
    BY <2>1
  <2>3. ToSet(<<>>) = {} /\ <<>> \in Seq(Client)
    BY DEF ToSet
  <2> HIDE DEF a, r
  <2>4. QED
    BY <1>1, <2>2, <2>3, KeepsItself DEF IsAnswer, a
<1>5. CASE r.state # "CANCELLED" /\ WindowUsedUp(r) /\ ~AllWorkersCompleted(r)
  <2>1. a = Taken(f, n, i, size)
    BY <1>1, <1>5, Zenon DEF Answer
  <2>2. IsTaken(f, n, i, a)
    BY <1>2, <2>1, TakenWorks
  <2> DEFINE q == f.table[n][i]
  <2>3. a.done \/ a.rows # <<>> \/ MovesOn(w, a.world)
    <3>1. CASE q.window # <<>>
      <4>1. q.window \in Seq(Client) /\ q.unread = 0
        BY <1>2, RequestFields DEF IsFetched
      <4>2. Len(q.window) \in Nat \ {0}
        BY <3>1, <4>1, EmptySeq
      <4>3. ~WindowUsedUp(q)
        BY <4>1, <4>2 DEF WindowUsedUp
      <4>4. QED
        BY <2>2, <4>3 DEF IsTaken
    <3>2. CASE MovesOn(w, f)
      <4>1. Good(a.world) /\ Onwards(f, a.world)
        BY <2>2, KeepsGoesOn DEF IsTaken
      <4>2. QED
        BY <1>2, <3>2, <4>1, MovesStay
    <3>3. CASE q.window = <<>> /\ ~MovesOn(w, f)
      <4>1. q.unread = 0 /\ \A x \in {n} \cup ChildrenOf(n) : q.progress[x].completed
        BY <3>3 DEF IsFetched, Served
      <4>2. DOMAIN q.progress = {n} \cup ChildrenOf(n)
        BY <1>2, RequestFields
      <4>3. AllWorkersCompleted(q)
        BY <4>1, <4>2 DEF AllWorkersCompleted
      <4>4. WindowUsedUp(q)
        BY <3>3, <4>1 DEF WindowUsedUp
      <4>5. QED
        BY <2>2, <4>3, <4>4 DEF IsTaken
    <3>4. QED
      BY <3>1, <3>2, <3>3
  <2>4. Good(a.world) /\ Keeps(w, a.world)
    BY <1>2, <2>2, KeepsOn DEF IsTaken
  <2>5. PureAt(w, n, i) => ToSet(a.rows) \subseteq {r.of}
    BY <1>2, <1>3, <2>2 DEF IsTaken
  <2>6. IsAnswer(w, n, i, a)
    BY <2>2, <2>3, <2>4, <2>5 DEF IsAnswer, IsTaken
  <2>7. (\A m \in Node : m # n => f.table[m] = w.table[m]) => others
    BY <2>2 DEF IsTaken
  <2>8. QED
    BY <2>6, <2>7
<1>6. CASE r.state # "CANCELLED" /\ ~(WindowUsedUp(r) /\ ~AllWorkersCompleted(r))
  <2>1. a = Taken(w, n, i, size)
    BY <1>1, <1>6, Zenon DEF Answer
  <2>2. IsTaken(w, n, i, a)
    BY <2>1, TakenWorks
  <2>3. a.done \/ a.rows # <<>>
    BY <1>6, <2>2 DEF IsTaken
  <2>4. PureAt(w, n, i) => ToSet(a.rows) \subseteq {r.of}
    BY <1>3, <2>2 DEF IsTaken
  <2>5. IsAnswer(w, n, i, a) /\ others
    BY <2>2, <2>3, <2>4 DEF IsAnswer, IsTaken
  <2>6. QED
    BY <2>5
<1>7. QED
  BY <1>4, <1>5, <1>6

LEMMA NoAnswer ==
    ASSUME NEW w, NEW n, NEW size, NEW f
    PROVE  Answer(w, n, 0, size, f)
               = [found |-> FALSE, done |-> TRUE, rows |-> <<>>, world |-> w]
  BY DEF Answer

\* A round at a leaf.
LEMMA LeafFetches ==
    ASSUME NEW w, Good(w), NEW n \in Node, Children[n] = <<>>,
           NEW i \in DOMAIN w.table[n], NEW size \in Nat
    PROVE  LET f == RoundEnded(WithLocal(Cleared(w, n, i), n, i, size), n, i)
           IN  /\ IsFetched(w, n, i, f)
               /\ \A m \in Node : m # n => f.table[m] = w.table[m]
<1> DEFINE u == Cleared(w, n, i)
           v == WithLocal(u, n, i, size)
           f == RoundEnded(v, n, i)
<1>1. /\ Good(u) /\ Keeps(w, u) /\ u.table[n][i].unread = 0
      /\ \A m \in Node : m # n => u.table[m] = w.table[m]
  BY ClearedWorks
<1> HIDE DEF u
<1>2. i \in DOMAIN u.table[n]
  BY <1>1 DEF Keeps
<1>3. /\ Works(u, v, n, i) /\ Served(u, v, n, i, n)
      /\ \A m \in Node : m # n => v.table[m] = u.table[m]
  BY <1>1, <1>2, WithLocalWorks
<1> HIDE DEF v
<1>4. Good(v) /\ Keeps(u, v) /\ i \in DOMAIN v.table[n]
  BY <1>2, <1>3 DEF Works, Keeps
<1>5. /\ Works(v, f, n, i)
      /\ \A m \in Node : m # n => f.table[m] = v.table[m]
  BY <1>4, RoundEndedWorks
<1> HIDE DEF f
<1>6. Good(f) /\ Keeps(w, f)
  BY <1>1, <1>4, <1>5, KeepsOn DEF Works
<1>7. f.table[n][i].unread = 0
  BY <1>1, <1>3, <1>5 DEF Works, Forward
<1>8. Served(w, f, n, i, n)
  <2>1. Served(u, f, n, i, n)
    BY <1>1, <1>3, <1>4, <1>5, ServedStays
  <2>2. QED
    BY <1>1, <1>6, <2>1, ServedFrom
<1>9. ChildrenOf(n) = {}
  BY Tree
<1>10. IsFetched(w, n, i, f)
  BY <1>6, <1>7, <1>8, <1>9 DEF IsFetched
<1>11. \A m \in Node : m # n => f.table[m] = w.table[m]
  BY <1>1, <1>3, <1>5
<1>12. QED
  BY <1>10, <1>11 DEF f, v, u

\* A leaf's answer to a parent.
LEMMA LeafAnswers ==
    ASSUME NEW w, Good(w), NEW c \in Node, Children[c] = <<>>, NEW id, NEW asked \in Nat
    PROVE  LET a == AnsweredByLeaf(w, c, id, asked)
           IN  /\ Good(a.world) /\ Keeps(w, a.world)
               /\ \A m \in Node : m # c => a.world.table[m] = w.table[m]
               /\ a.found \in BOOLEAN /\ a.done \in BOOLEAN /\ a.rows \in Seq(Client)
               /\ a.found /\ ~a.done => a.rows # <<>> \/ MovesOn(w, a.world)
               /\ \A of : Named(w, c, id, of) => ToSet(a.rows) \subseteq {of}
<1> DEFINE a == AnsweredByLeaf(w, c, id, asked)
           i == Find(w.table[c], id)
           size == ChooseAdaptiveChunkSize(w.table[c], asked)
           f == RoundEnded(WithLocal(Cleared(w, c, i), c, i, size), c, i)
<1>1. a = Answer(w, c, i, size, f)
  BY Zenon DEF AnsweredByLeaf
<1>2. /\ w.table[c] \in Seq(RequestAt(c))
      /\ \A j, k \in DOMAIN w.table[c] : w.table[c][j].id = w.table[c][k].id => j = k
  BY DEF Good
<1>3. size \in Nat \ {0}
  BY ChunkSize
<1>4. /\ i # 0 => i \in DOMAIN w.table[c] /\ w.table[c][i].id = id
  BY <1>2, FindFinds
<1> HIDE DEF a, i, size, f
<1>5. CASE i = 0
  <2>1. a = [found |-> FALSE, done |-> TRUE, rows |-> <<>>, world |-> w]
    BY <1>1, <1>5, NoAnswer
  <2>2. a.found = FALSE /\ a.done = TRUE /\ a.rows = <<>> /\ a.world = w
    BY <2>1
  <2>3. ToSet(<<>>) = {} /\ <<>> \in Seq(Client)
    BY DEF ToSet
  <2>4. QED
    BY <2>2, <2>3, KeepsItself DEF a
<1>6. CASE i # 0
  <2>1. IsFetched(w, c, i, f) /\ \A m \in Node : m # c => f.table[m] = w.table[m]
    BY <1>3, <1>4, <1>6, LeafFetches DEF f
  <2>2. IsAnswer(w, c, i, a) /\ \A m \in Node : m # c => a.world.table[m] = w.table[m]
    BY <1>1, <1>3, <1>4, <1>6, <2>1, AnswerWorks
  <2>3. PureAt(w, c, i)
    <3>1. w.table[c][i] \in RequestAt(c)
      BY <1>2, <1>4, <1>6
    <3>2. Pure(w.table[c][i]) /\ ChildrenOf(c) = {}
      BY <3>1, RequestFields, Tree
    <3>3. QED
      BY <3>2 DEF PureAt, PureRecord
  <2>4. ASSUME NEW of, Named(w, c, id, of) PROVE ToSet(a.rows) \subseteq {of}
    <3>1. PICK j \in DOMAIN w.table[c] : w.table[c][j].id = id /\ w.table[c][j].of = of
      BY <2>4 DEF Named
    <3>2. j = i
      BY <1>2, <1>4, <1>6, <3>1
    <3>3. QED
      BY <2>2, <2>3, <3>1, <3>2 DEF IsAnswer
  <2>5. QED
    BY <2>2, <2>4 DEF IsAnswer, a
<1>7. QED
  BY <1>5, <1>6

\* The parent keeps the id the child knows the request by.
RemoteForm(r, c, id) == [r EXCEPT !.progress[c].remoteId = id]

LEMMA RemoteRecord ==
    ASSUME NEW n \in Node, NEW r \in RequestAt(n), NEW c \in ChildrenOf(n), NEW id \in Nat
    PROVE  LET q == RemoteForm(r, c, id) IN
           /\ q \in RequestAt(n) /\ SameRequest(n, r, q)
           /\ q.window = r.window /\ q.unread = r.unread
           /\ q.progress[c].remoteId = id
           /\ \A x \in {n} \cup ChildrenOf(n) :
                  /\ q.progress[x].completed = r.progress[x].completed
                  /\ x # c => q.progress[x] = r.progress[x]
<1> DEFINE p == [r.progress EXCEPT ![c] = [@ EXCEPT !.remoteId = id]]
           q == RemoteForm(r, c, id)
<1>1. /\ r \in Fields(n) /\ r.progress[n].next <= Len(Shard[n]) /\ r.unread <= Len(r.window)
      /\ r.progress \in [{n} \cup ChildrenOf(n) -> WorkerRecord]
  BY RequestFields DEF RequestAt
<1>2. /\ p \in [{n} \cup ChildrenOf(n) -> WorkerRecord]
      /\ p[c].remoteId = id
      /\ \A x \in {n} \cup ChildrenOf(n) : /\ p[x].completed = r.progress[x].completed
                                           /\ p[x].next = r.progress[x].next
                                           /\ x # c => p[x] = r.progress[x]
  BY <1>1 DEF WorkerRecord
<1>3. q = [r EXCEPT !.progress = p]
  BY Zenon DEF RemoteForm
<1> HIDE DEF p, q
<1>4. /\ q \in Fields(n) /\ q.id = r.id /\ q.of = r.of /\ q.window = r.window
      /\ q.unread = r.unread /\ q.progress = p
  BY <1>1, <1>2, <1>3 DEF Fields
<1>5. Pure(q) <=> Pure(r)
  BY <1>4 DEF Pure
<1>6. q.progress[n].next <= Len(Shard[n])
  BY <1>1, <1>2, <1>4
<1>7. q \in RequestAt(n)
  BY <1>1, <1>4, <1>5, <1>6, RequestFields, RequestIn
<1>8. Onward(n, r, q)
  BY <1>2, <1>4 DEF Onward
<1>9. QED
  BY <1>2, <1>4, <1>7, <1>8 DEF q, SameRequest

\* One child's part of a round.
LEMMA RemoteWorks ==
    ASSUME NEW w, Good(w), NEW n \in Node, NEW i \in DOMAIN w.table[n],
           NEW c \in ChildrenOf(n), NEW maxRows \in Nat
    PROVE  /\ Works(w, WithRemoteChunk(w, n, i, c, maxRows), n, i)
           /\ Served(w, WithRemoteChunk(w, n, i, c, maxRows), n, i, c)
<1> DEFINE r0 == w.table[n][i]
           p == r0.progress[c]
           id == IF p.remoteId = 0 THEN EnsureQueryId(w, c) ELSE p.remoteId
           u == IF p.remoteId = 0 THEN Submitted(w, c, r0.of) ELSE w
           asked == ChooseAdaptiveChunkSize(w.table[n], maxRows)
           a == AnsweredByLeaf(u, c, id, asked)
           r == RemoteForm(r0, c, id)
           v == WithRemoteChunk(w, n, i, c, maxRows)
<1>1. c \in Node /\ c # n /\ Children[c] = <<>> /\ Children[n] # <<>>
  BY Tree
<1>2. r0 \in RequestAt(n)
  BY GoodFields
<1>3. /\ r0.of \in Client /\ p.remoteId \in Nat /\ p.next \in Nat
      /\ p.completed \in BOOLEAN /\ r0.window \in Seq(Client)
  <2> HIDE DEF r0
  <2>1. QED
    BY <1>2, RequestFields
<1>4. v = IF p.completed THEN w
          ELSE [a.world EXCEPT !.table[n][i] =
                    Merged([a.world.table[n][i] EXCEPT !.progress[c].remoteId = id],
                           c, a.rows, p.next, a.found /\ ~a.done)]
  BY Zenon DEF WithRemoteChunk
<1> HIDE DEF v
<1>5. CASE p.completed
  <2>1. v = w
    BY <1>4, <1>5
  <2>2. QED
    BY <1>5, <2>1, WorksItself DEF Served, v
<1>6. CASE ~p.completed
  <2>1. /\ Good(u) /\ Keeps(w, u) /\ u.table[n] = w.table[n] /\ id \in Nat
        /\ p.remoteId = 0 => Named(u, c, id, r0.of)
    <3>1. CASE p.remoteId = 0
      <4>1. u = Submitted(w, c, r0.of) /\ id = EnsureQueryId(w, c)
        BY <3>1
      <4>2. w.seq[c] \in Nat
        BY <1>1, GoodFields
      <4> HIDE DEF u, id, p, r0
      <4>3. /\ Good(u) /\ Keeps(w, u) /\ Owned(u, c, id, r0.of)
            /\ \A m \in Node : m # c => u.table[m] = w.table[m]
        BY <1>1, <1>3, <4>1, SubmittedKeeps
      <4>4. QED
        BY <1>1, <4>1, <4>2, <4>3 DEF Owned, Named, EnsureQueryId
    <3>2. CASE p.remoteId # 0
      BY <1>3, <3>2, KeepsItself
    <3>3. QED
      BY <3>1, <3>2
  <2>2. PureAt(w, n, i) => Named(u, c, id, r0.of)
    <3>1. PureAt(w, n, i) /\ p.remoteId # 0 => Named(w, c, p.remoteId, r0.of)
      BY DEF PureAt, PureRecord
    <3>2. p.remoteId # 0 => u = w /\ id = p.remoteId
      OBVIOUS
    <3>3. QED
      BY <2>1, <3>1, <3>2
  <2>3. asked \in Nat
    BY ChunkSize
  <2> HIDE DEF u, id, asked
  <2>4. /\ Good(a.world) /\ Keeps(u, a.world)
        /\ \A m \in Node : m # c => a.world.table[m] = u.table[m]
        /\ a.found \in BOOLEAN /\ a.done \in BOOLEAN /\ a.rows \in Seq(Client)
        /\ a.found /\ ~a.done => a.rows # <<>> \/ MovesOn(u, a.world)
        /\ \A of : Named(u, c, id, of) => ToSet(a.rows) \subseteq {of}
    BY <1>1, <2>1, <2>3, LeafAnswers
  <2> HIDE DEF a
  <2>5. a.world.table[n] = w.table[n] /\ Keeps(w, a.world)
    BY <1>1, <2>1, <2>4, KeepsOn
  <2>6. PICK more \in BOOLEAN : more = (a.found /\ ~a.done)
    OBVIOUS
  <2> DEFINE q == Merged(r, c, a.rows, p.next, more)
  <2>7. v = Put(a.world, n, i, q)
    <3>1. a.world.table[n][i] = r0
      BY <2>5
    <3>2. v = [a.world EXCEPT !.table[n][i] = Merged(r, c, a.rows, p.next, a.found /\ ~a.done)]
      BY <1>4, <1>6, <3>1, Zenon DEF RemoteForm
    <3>3. QED
      BY <2>6, <3>2, Zenon DEF Put
  <2>8. /\ r \in RequestAt(n) /\ SameRequest(n, r0, r)
        /\ r.window = r0.window /\ r.unread = r0.unread
        /\ r.progress[c].remoteId = id
        /\ \A x \in {n} \cup ChildrenOf(n) :
               /\ r.progress[x].completed = r0.progress[x].completed
               /\ x # c => r.progress[x] = r0.progress[x]
    <3> HIDE DEF r0
    <3>1. QED
      BY <1>2, <2>1, RemoteRecord
  <2> HIDE DEF r
  <2>9. IsMerged(n, r, c, a.rows, p.next, more, q)
    <3>1. c \in {n} \cup ChildrenOf(n) /\ c # n
          /\ (Children[n] = <<>> => ToSet(a.rows) \subseteq {r.of})
      BY <1>1
    <3> HIDE DEF p
    <3>2. QED
      BY <1>3, <2>4, <2>8, <3>1, MergedRecord
  <2> HIDE DEF q
  <2>10. /\ q \in RequestAt(n) /\ SameRequest(n, r0, q)
         /\ q.window = r0.window \o a.rows /\ q.unread = r0.unread
         /\ q.progress[c].completed = ~more
         /\ \A x \in {n} \cup ChildrenOf(n) : x # c => q.progress[x] = r0.progress[x]
    BY <2>8, <2>9 DEF IsMerged, SameRequest, Onward
  <2>11. PureAt(w, n, i) => PureRecord(a.world, n, q)
    <3> SUFFICES ASSUME PureAt(w, n, i) PROVE PureRecord(a.world, n, q)
      OBVIOUS
    <3>1. Named(u, c, id, r0.of) /\ ToSet(a.rows) \subseteq {r0.of}
      BY <2>2, <2>4
    <3>2. Named(a.world, c, id, r0.of)
      BY <1>1, <2>4, <3>1, NamedStays
    <3>3. \A x \in ChildrenOf(n) : r0.progress[x].remoteId # 0
              => Named(a.world, x, r0.progress[x].remoteId, r0.of)
      <4>1. \A x \in ChildrenOf(n) : r0.progress[x].remoteId # 0
                => Named(w, x, r0.progress[x].remoteId, r0.of)
        BY DEF PureAt, PureRecord
      <4>2. ChildrenOf(n) \subseteq Node
        BY Tree
      <4> HIDE DEF r0
      <4>3. QED
        BY <2>5, <4>1, <4>2, NamedStays
    <3>4. Pure(r) /\ r.of = r0.of
      BY <2>8 DEF PureAt, PureRecord, Pure, SameRequest
    <3>5. PureRecord(a.world, n, r)
      BY <2>8, <3>2, <3>3, <3>4 DEF PureRecord
    <3>6. QED
      BY <2>9, <3>1, <3>4, <3>5 DEF IsMerged
  <2>12. Good(v) /\ Keeps(w, v)
    BY <2>4, <2>5, <2>7, <2>10, <2>11, PutKeeps
  <2>13. v.table[n][i] = q
    <3>1. IsPut(a.world, n, i, q, Put(a.world, n, i, q))
      BY <2>4, <2>5, <2>10, PutFacts
    <3>2. QED
      BY <2>7, <3>1 DEF IsPut
  <2>14. Forward(n, r0, q)
    <3>1. r0.window # <<>> => q.window # <<>>
      BY <1>3, <2>4, <2>10, JoinIsNotEmpty
    <3>2. QED
      BY <1>6, <2>10, <3>1 DEF Forward
  <2>15. Served(w, v, n, i, c)
    <3>1. a.rows # <<>> => q.window # <<>>
      BY <1>3, <2>4, <2>10, JoinIsNotEmpty
    <3>2. ASSUME MovesOn(u, a.world) PROVE MovesOn(w, v)
      <4>1. MovesOn(w, a.world)
        BY <2>1, <2>4, <3>2, KeepsGoesOn, MovesFrom
      <4>2. Onwards(a.world, v)
        <5>1. IsPut(a.world, n, i, q, v)
          BY <2>4, <2>5, <2>7, <2>10, PutFacts
        <5>2. SameRequest(n, a.world.table[n][i], q)
          BY <2>5, <2>10
        <5> HIDE DEF r0, a, u
        <5>3. QED
          BY <5>1, <5>2 DEF IsPut, Onwards, Onward, SameRequest
      <4>3. QED
        BY <2>4, <2>12, <4>1, <4>2, MovesStay
    <3>3. QED
      BY <2>4, <2>6, <2>10, <2>13, <3>1, <3>2 DEF Served
  <2>16. QED
    BY <2>12, <2>13, <2>14, <2>15 DEF Works, v
<1>7. QED
  BY <1>3, <1>5, <1>6

\* All children's parts of a round, one after the other.
Remotes(w, n, i, maxRows) ==
    FoldLeft(LAMBDA u, c : WithRemoteChunk(u, n, i, c, maxRows), w, Children[n])

LEMMA RemotesWork ==
    ASSUME NEW w, Good(w), NEW n \in Node, NEW i \in DOMAIN w.table[n], NEW maxRows \in Nat
    PROVE  /\ Works(w, Remotes(w, n, i, maxRows), n, i)
           /\ \A c \in ChildrenOf(n) : Served(w, Remotes(w, n, i, maxRows), n, i, c)
<1> DEFINE seq == Children[n]
           k == Len(seq)
           A == {v \in Worlds : Works(w, v, n, i)}
           F == [x \in A \X (1 .. k) |-> WithRemoteChunk(x[1], n, i, seq[x[2]], maxRows)]
           Raw(g) == [s \in SUBSET DOMAIN seq |->
                         IF s = {} THEN w
                         ELSE WithRemoteChunk(g[s \ {Max(s)}], n, i, seq[Max(s)], maxRows)]
           jt == CHOOSE g : g = Raw(g)
<1>1. k \in Nat /\ DOMAIN seq = 1 .. k /\ \A j \in 1 .. k : seq[j] \in ChildrenOf(n)
  <2>1. seq \in Seq(Node)
    BY Tree
  <2>2. QED
    BY <2>1, LenProperties DEF ChildrenOf, ToSet
<1>2. Remotes(w, n, i, maxRows) = jt[DOMAIN seq]
  BY Zenon DEF Remotes, FoldLeft, MapThenFoldSet
<1> HIDE DEF k, seq
<1>3. ASSUME NEW v, Works(w, v, n, i), NEW j \in 1 .. k
      PROVE  LET u == WithRemoteChunk(v, n, i, seq[j], maxRows)
             IN  Works(w, u, n, i) /\ Works(v, u, n, i) /\ Served(w, u, n, i, seq[j])
  <2>1. Good(v) /\ i \in DOMAIN v.table[n]
    BY <1>3 DEF Works, Keeps
  <2>2. seq[j] \in ChildrenOf(n)
    BY <1>1
  <2> DEFINE u == WithRemoteChunk(v, n, i, seq[j], maxRows)
  <2>3. Works(v, u, n, i) /\ Served(v, u, n, i, seq[j])
    BY <2>1, <2>2, RemoteWorks
  <2> HIDE DEF u
  <2>4. Works(w, u, n, i)
    BY <1>3, <2>3, WorksOn
  <2>5. Served(w, u, n, i, seq[j])
    BY <1>3, <2>1, <2>3, ServedFrom DEF Works
  <2>6. QED
    BY <2>3, <2>4, <2>5 DEF u
<1>4. w \in A
  BY WorksItself DEF Good
<1>5. F \in [A \X (1 .. k) -> A]
  <2> SUFFICES ASSUME NEW v \in A, NEW j \in 1 .. k
               PROVE  WithRemoteChunk(v, n, i, seq[j], maxRows) \in A
    OBVIOUS
  <2>1. Works(w, WithRemoteChunk(v, n, i, seq[j], maxRows), n, i)
    BY <1>3
  <2>2. QED
    BY <2>1 DEF Works, Good
<1>6. \A v \in A, j \in 1 .. k : F[<<v, j>>] = WithRemoteChunk(v, n, i, seq[j], maxRows)
  OBVIOUS
<1> HIDE DEF A, F
<1>7. IsFiniteSet(1 .. k) /\ Takes(FromLeft(k), 1 .. k)
  BY <1>1, LeftTakes
<1>8. PICK it \in [SUBSET (1 .. k) -> A] : Folds(it, F, w, FromLeft(k), 1 .. k)
  BY <1>4, <1>5, <1>7, FoldExists
<1>9. \A s \in SUBSET (1 .. k) : s # {} => Max(s) \in s /\ FromLeft(k)[s] = Max(s)
  BY <1>1, LastPlace DEF FromLeft
<1>10. it = Raw(it)
  <2>1. it[{}] = w
    BY <1>8 DEF Folds
  <2>2. ASSUME NEW s \in SUBSET (1 .. k), s # {}
        PROVE  it[s] = WithRemoteChunk(it[s \ {Max(s)}], n, i, seq[Max(s)], maxRows)
    <3>1. Max(s) \in 1 .. k /\ it[s \ {Max(s)}] \in A
      BY <1>9, <2>2
    <3>2. it[s] = F[<<it[s \ {Max(s)}], Max(s)>>]
      BY <1>8, <1>9, <2>2 DEF Folds
    <3>3. QED
      BY <1>6, <3>1, <3>2
  <2>3. \A s \in SUBSET (1 .. k) : it[s] = Raw(it)[s]
    BY <1>1, <2>1, <2>2
  <2>4. QED
    BY <1>1, <2>3
<1>11. jt = Raw(jt)
  <2> HIDE DEF Raw
  <2>1. QED
    BY <1>10
<1> HIDE DEF jt
<1>12. /\ jt[{}] = w
       /\ \A s \in SUBSET (1 .. k) : s # {} =>
              jt[s] = WithRemoteChunk(jt[s \ {Max(s)}], n, i, seq[Max(s)], maxRows)
  BY <1>1, <1>11
<1> HIDE DEF Raw
<1> DEFINE S == 1 .. k
           c == FromLeft(k)
           Fine(s) == /\ Works(w, jt[s], n, i)
                      /\ \A j \in s : Served(w, jt[s], n, i, seq[j])
           G == {s \in SUBSET S : Fine(s)}
<1>13. {} \in G
  BY <1>12, WorksItself
<1>14. ASSUME NEW s \in SUBSET S, s # {}, s \ {c[s]} \in G PROVE s \in G
  <2> DEFINE v == jt[s \ {Max(s)}]
             u == jt[s]
  <2>1. Max(s) \in s /\ Max(s) \in 1 .. k /\ c[s] = Max(s)
    BY <1>9, <1>14
  <2>2. u = WithRemoteChunk(v, n, i, seq[Max(s)], maxRows)
    BY <1>12, <1>14
  <2>3. Works(w, v, n, i) /\ \A j \in s \ {Max(s)} : Served(w, v, n, i, seq[j])
    BY <1>14, <2>1
  <2> HIDE DEF u, v
  <2>4. Works(w, u, n, i) /\ Works(v, u, n, i) /\ Served(w, u, n, i, seq[Max(s)])
    BY <1>3, <2>1, <2>2, <2>3
  <2>5. ASSUME NEW j \in s \ {Max(s)} PROVE Served(w, u, n, i, seq[j])
    <3>1. seq[j] \in {n} \cup ChildrenOf(n)
      BY <1>1
    <3>2. QED
      BY <2>3, <2>4, <3>1, ServedStays DEF Works
  <2>6. Fine(s)
    BY <2>4, <2>5 DEF u
  <2>7. QED
    BY <2>6
<1>15. \A s \in SUBSET S : s \in G
  <2>1. \A s \in SUBSET S : s # {} /\ s \ {c[s]} \in G => s \in G
    BY <1>14
  <2>2. IsFiniteSet(S) /\ Takes(c, S)
    BY <1>7
  <2> HIDE DEF S, c, G
  <2>3. QED
    BY <1>13, <2>1, <2>2, SubsetsOneByOne
<1>16. Fine(1 .. k)
  BY <1>15
<1>17. \A x \in ChildrenOf(n) : \E j \in 1 .. k : x = seq[j]
  BY <1>1 DEF ChildrenOf, ToSet, seq
<1>18. QED
  BY <1>1, <1>2, <1>16, <1>17

LEMMA RoundFetches ==
    ASSUME NEW w, Good(w), NEW n \in Node, NEW i \in DOMAIN w.table[n], NEW size \in Nat
    PROVE  IsFetched(w, n, i, WithRound(w, n, i, size))
<1> DEFINE u == Cleared(w, n, i)
           v == IF w.table[n][i].oddRound THEN WithLocal(Remotes(u, n, i, size), n, i, size)
                ELSE Remotes(WithLocal(u, n, i, size), n, i, size)
           f == WithRound(w, n, i, size)
<1>1. f = RoundEnded(v, n, i)
  BY Zenon DEF WithRound, Remotes
<1> HIDE DEF f
<1>2. Good(u) /\ Keeps(w, u) /\ u.table[n][i].unread = 0 /\ i \in DOMAIN u.table[n]
  BY ClearedWorks DEF Keeps
<1> HIDE DEF u
<1>3. Works(u, v, n, i) /\ \A x \in {n} \cup ChildrenOf(n) : Served(u, v, n, i, x)
  <2>1. CASE w.table[n][i].oddRound
    <3> DEFINE m == Remotes(u, n, i, size)
    <3>1. Works(u, m, n, i) /\ \A c \in ChildrenOf(n) : Served(u, m, n, i, c)
      BY <1>2, RemotesWork
    <3>2. v = WithLocal(m, n, i, size)
      BY <2>1
    <3> HIDE DEF m, v
    <3>3. Good(m) /\ i \in DOMAIN m.table[n]
      BY <1>2, <3>1 DEF Works, Keeps
    <3>4. Works(m, v, n, i) /\ Served(m, v, n, i, n)
      BY <3>2, <3>3, WithLocalWorks
    <3>5. \A c \in ChildrenOf(n) : Served(u, v, n, i, c)
      BY <1>2, <3>1, <3>3, <3>4, ServedStays
    <3>6. Served(u, v, n, i, n)
      BY <1>2, <3>1, <3>3, <3>4, ServedFrom DEF Works
    <3>7. QED
      BY <3>1, <3>4, <3>5, <3>6, WorksOn
  <2>2. CASE ~w.table[n][i].oddRound
    <3> DEFINE m == WithLocal(u, n, i, size)
    <3>1. Works(u, m, n, i) /\ Served(u, m, n, i, n)
      BY <1>2, WithLocalWorks
    <3>2. v = Remotes(m, n, i, size)
      BY <2>2
    <3> HIDE DEF m, v
    <3>3. Good(m) /\ i \in DOMAIN m.table[n]
      BY <1>2, <3>1 DEF Works, Keeps
    <3>4. Works(m, v, n, i) /\ \A c \in ChildrenOf(n) : Served(m, v, n, i, c)
      BY <3>2, <3>3, RemotesWork
    <3>5. Served(u, v, n, i, n)
      BY <1>2, <3>1, <3>3, <3>4, ServedStays
    <3>6. \A c \in ChildrenOf(n) : Served(u, v, n, i, c)
      BY <1>2, <3>1, <3>3, <3>4, ServedFrom DEF Works
    <3>7. QED
      BY <3>1, <3>4, <3>5, <3>6, WorksOn
  <2>3. QED
    BY <2>1, <2>2
<1> HIDE DEF v
<1>4. Good(v) /\ i \in DOMAIN v.table[n]
  BY <1>2, <1>3 DEF Works, Keeps
<1>5. Works(v, f, n, i)
  BY <1>1, <1>4, RoundEndedWorks
<1>6. Works(u, f, n, i)
  BY <1>3, <1>5, WorksOn
<1>7. Good(f) /\ Keeps(w, f) /\ f.table[n][i].unread = 0
  BY <1>2, <1>6, KeepsOn DEF Works, Forward
<1>8. \A x \in {n} \cup ChildrenOf(n) : Served(w, f, n, i, x)
  <2>1. \A x \in {n} \cup ChildrenOf(n) : Served(u, f, n, i, x)
    BY <1>2, <1>3, <1>4, <1>5, ServedStays
  <2>2. QED
    BY <1>2, <1>7, <2>1, ServedFrom
<1>9. QED
  BY <1>7, <1>8 DEF IsFetched, f

\* A node's answer to a client.
LEMMA NodeAnswers ==
    ASSUME NEW w, Good(w), NEW n \in Node, NEW id, NEW asked \in Nat
    PROVE  LET a == Answered(w, n, id, asked)
           IN  /\ Good(a.world) /\ Keeps(w, a.world)
               /\ a.done \in BOOLEAN /\ a.rows \in Seq(Client)
               /\ a.done \/ a.rows # <<>> \/ MovesOn(w, a.world)
               /\ \A of : Owned(w, n, id, of) => ToSet(a.rows) \subseteq {of}
<1> DEFINE a == Answered(w, n, id, asked)
           i == Find(w.table[n], id)
           size == ChooseAdaptiveChunkSize(w.table[n], asked)
           f == WithRound(w, n, i, size)
<1>1. a = Answer(w, n, i, size, f)
  BY Zenon DEF Answered
<1>2. /\ w.table[n] \in Seq(RequestAt(n))
      /\ \A j, k \in DOMAIN w.table[n] : w.table[n][j].id = w.table[n][k].id => j = k
  BY DEF Good
<1>3. size \in Nat \ {0}
  BY ChunkSize
<1>4. i # 0 => i \in DOMAIN w.table[n] /\ w.table[n][i].id = id
  BY <1>2, FindFinds
<1> HIDE DEF a, i, size, f
<1>5. CASE i = 0
  <2>1. a = [found |-> FALSE, done |-> TRUE, rows |-> <<>>, world |-> w]
    BY <1>1, <1>5, NoAnswer
  <2>2. a.done = TRUE /\ a.rows = <<>> /\ a.world = w
    BY <2>1
  <2>3. ToSet(<<>>) = {} /\ <<>> \in Seq(Client)
    BY DEF ToSet
  <2>4. QED
    BY <2>2, <2>3, KeepsItself DEF a
<1>6. CASE i # 0
  <2>1. IsFetched(w, n, i, f)
    BY <1>3, <1>4, <1>6, RoundFetches DEF f
  <2>2. IsAnswer(w, n, i, a)
    BY <1>1, <1>3, <1>4, <1>6, <2>1, AnswerWorks
  <2>3. ASSUME NEW of, Owned(w, n, id, of) PROVE ToSet(a.rows) \subseteq {of}
    <3>1. PICK j \in DOMAIN w.table[n] :
              w.table[n][j].id = id /\ w.table[n][j].of = of /\ PureAt(w, n, j)
      BY <2>3 DEF Owned
    <3>2. j = i
      BY <1>2, <1>4, <1>6, <3>1
    <3>3. QED
      BY <2>2, <3>1, <3>2 DEF IsAnswer
  <2>4. QED
    BY <2>2, <2>3 DEF IsAnswer, a
<1>7. QED
  BY <1>5, <1>6

-----------------------------------------------------------------------------
\* The invariant.  What a calm client holds names a request of its own.
TablesInv ==
    /\ Good(World)
    /\ entry \in [Client -> Node] /\ held \in [Client -> Nat]
    /\ got \in [Client -> SUBSET Client]
    /\ told \in [Client -> BOOLEAN] /\ calm \in [Client -> BOOLEAN]
    /\ \A c \in Client : calm[c] /\ held[c] # 0 => Owned(World, entry[c], held[c], c)
    /\ \A c \in Client : calm[c] => got[c] \subseteq {c}

LEMMA TablesBegin == Init => TablesInv
<1> SUFFICES ASSUME Init PROVE TablesInv
  OBVIOUS
<1>1. /\ World.table = [n \in Node |-> <<>>] /\ World.seq = [n \in Node |-> 1]
      /\ World = [table |-> World.table, seq |-> World.seq]
  BY DEF Init, World
<1>2. \A n \in Node : World.table[n] = <<>> /\ World.seq[n] = 1
  BY <1>1
<1>3. \A S : <<>> \in Seq(S)
  BY EmptySeq
<1>4. World \in Worlds
  <2>1. World.table \in [Node -> Seq(AnyRequest)]
    BY <1>1, <1>3
  <2>2. World.seq \in [Node -> Nat \ {0}]
    BY <1>1
  <2> HIDE DEF World
  <2>3. QED
    BY <1>1, <2>1, <2>2 DEF Worlds
<1>5. Good(World)
  <2>1. DOMAIN <<>> = {}
    OBVIOUS
  <2> HIDE DEF World
  <2>2. QED
    BY <1>2, <1>3, <1>4, <2>1 DEF Good
<1>6. entry \in [Client -> Node]
  BY TreeAssumption DEF Init
<1>7. QED
  BY <1>5, <1>6 DEF Init, TablesInv

LEMMA WorldAfter ==
    ASSUME NEW w, Good(w), table' = w.table, nextQuerySeq' = w.seq
    PROVE  World' = w
<1>1. w = [table |-> w.table, seq |-> w.seq]
  BY DEF Good, Worlds
<1>2. QED
  BY <1>1 DEF World

LEMMA SubmitKeeps ==
    ASSUME TablesInv, NEW c \in Client, SubmitQuery(c)
    PROVE  TablesInv'
<1> DEFINE v == World
           n == entry[c]
           id == EnsureQueryId(v, n)
           w == Submitted(v, n, c)
<1>1. Good(v) /\ n \in Node
  BY DEF TablesInv
<1>2. id \in Nat \ {0}
  BY <1>1, GoodFields DEF EnsureQueryId
<1>3. /\ held' = [held EXCEPT ![c] = id]
      /\ table' = w.table /\ nextQuerySeq' = w.seq
      /\ entry' = entry /\ got' = got /\ told' = told /\ calm' = calm
  BY DEF SubmitQuery
<1>4. Good(w) /\ Keeps(v, w) /\ Owned(w, n, id, c)
  <2> HIDE DEF v, n
  <2>1. QED
    BY <1>1, SubmittedKeeps
<1> HIDE DEF w
<1>5. World' = w
  BY <1>3, <1>4, WorldAfter
<1> HIDE DEF v, id
<1>6. ASSUME NEW d \in Client, calm'[d], held'[d] # 0
      PROVE  Owned(World', entry'[d], held'[d], d)
  <2>1. CASE d = c
    <3>1. held'[c] = id
      BY <1>3 DEF TablesInv
    <3>2. QED
      BY <1>3, <1>4, <1>5, <2>1, <3>1
  <2>2. CASE d # c
    <3>1. held'[d] = held[d] /\ entry[d] \in Node
      BY <1>3, <2>2 DEF TablesInv
    <3>2. Owned(v, entry[d], held[d], d)
      BY <1>3, <1>6, <3>1 DEF TablesInv, v
    <3>3. QED
      BY <1>3, <1>4, <1>5, <3>1, <3>2, OwnedStays
  <2>3. QED
    BY <2>1, <2>2
<1>7. held' \in [Client -> Nat]
  BY <1>2, <1>3 DEF TablesInv
<1>8. Good(World')
  BY <1>4, <1>5
<1>9. QED
  BY <1>3, <1>6, <1>7, <1>8 DEF TablesInv

LEMMA FetchKeeps ==
    ASSUME TablesInv, NEW c \in Client, FetchChunk(c)
    PROVE  TablesInv'
<1> DEFINE v == World
           n == entry[c]
           a == Answered(v, n, held[c], Asked[c])
<1>1. Good(v) /\ n \in Node /\ Asked[c] \in Nat
  BY TreeAssumption DEF TablesInv
<1>2. /\ table' = a.world.table /\ nextQuerySeq' = a.world.seq
      /\ got' = [got EXCEPT ![c] = @ \cup ToSet(a.rows)]
      /\ told' = [told EXCEPT ![c] = a.done]
      /\ held[c] # 0 /\ entry' = entry /\ held' = held /\ calm' = calm
  BY DEF FetchChunk
<1>3. /\ Good(a.world) /\ Keeps(v, a.world)
      /\ a.done \in BOOLEAN /\ a.rows \in Seq(Client)
      /\ \A of : Owned(v, n, held[c], of) => ToSet(a.rows) \subseteq {of}
  <2> HIDE DEF v, n
  <2>1. QED
    BY <1>1, NodeAnswers
<1> HIDE DEF a
<1>4. World' = a.world
  BY <1>2, <1>3, WorldAfter
<1>5. \A d \in Client : calm'[d] /\ held'[d] # 0 => Owned(World', entry'[d], held'[d], d)
  <2>1. \A d \in Client : entry[d] \in Node
                          /\ (calm[d] /\ held[d] # 0 => Owned(v, entry[d], held[d], d))
    BY DEF TablesInv
  <2> HIDE DEF v
  <2>2. QED
    BY <1>2, <1>3, <1>4, <2>1, OwnedStays
<1>6. ToSet(a.rows) \subseteq Client
  BY <1>3 DEF ToSet
<1>7. got' \in [Client -> SUBSET Client] /\ told' \in [Client -> BOOLEAN]
  BY <1>2, <1>3, <1>6 DEF TablesInv
<1>8. ASSUME NEW d \in Client, calm'[d] PROVE got'[d] \subseteq {d}
  <2>1. got[d] \subseteq {d}
    BY <1>2, <1>8 DEF TablesInv
  <2>2. CASE d = c
    <3>1. ToSet(a.rows) \subseteq {c}
      BY <1>2, <1>3, <1>8, <2>2 DEF TablesInv
    <3>2. got'[c] = got[c] \cup ToSet(a.rows)
      BY <1>2 DEF TablesInv
    <3>3. QED
      BY <2>1, <2>2, <3>1, <3>2
  <2>3. CASE d # c
    BY <1>2, <2>1, <2>3 DEF TablesInv
  <2>4. QED
    BY <2>2, <2>3
<1>9. Good(World')
  BY <1>3, <1>4
<1>10. QED
  BY <1>2, <1>5, <1>7, <1>8, <1>9 DEF TablesInv

LEMMA CancelKeeps ==
    ASSUME TablesInv, NEW c \in Client, CancelQuery(c)
    PROVE  TablesInv'
<1> DEFINE v == World
           n == entry[c]
           i == Find(table[n], held[c])
           r == table[n][i]
           q == [r EXCEPT !.state = "CANCELLED"]
<1>1. Good(v) /\ n \in Node /\ v.table = table /\ v.seq = nextQuerySeq
  BY DEF TablesInv, World
<1>2. /\ table' = IF i = 0 THEN table ELSE [table EXCEPT ![n][i].state = "CANCELLED"]
      /\ nextQuerySeq' = nextQuerySeq /\ entry' = entry /\ held' = held /\ got' = got
      /\ told' = told /\ calm' = calm
  BY DEF CancelQuery
<1>3. Good(World') /\ Keeps(v, World')
  <2>1. CASE i = 0
    <3>1. World' = v
      BY <1>2, <2>1 DEF World
    <3>2. QED
      BY <1>1, <3>1, KeepsItself
  <2>2. CASE i # 0
    <3>1. table[n] \in Seq(RequestAt(n))
      BY <1>1 DEF Good
    <3>2. i \in DOMAIN table[n]
      BY <2>2, <3>1, FindFinds
    <3>3. r \in RequestAt(n)
      BY <3>1, <3>2
    <3>4. /\ q \in RequestAt(n) /\ SameRequest(n, r, q)
          /\ \A u : PureRecord(u, n, r) => PureRecord(u, n, q)
      <4> HIDE DEF r
      <4>1. /\ r \in Fields(n) /\ r.progress[n].next <= Len(Shard[n])
            /\ r.unread <= Len(r.window)
        BY <3>3 DEF RequestAt
      <4> HIDE DEF q
      <4>2. q = [r EXCEPT !.state = "CANCELLED"] /\ "CANCELLED" \in States
        BY DEF q, States
      <4>3. /\ q \in Fields(n) /\ q.id = r.id /\ q.of = r.of /\ q.window = r.window
            /\ q.unread = r.unread /\ q.progress = r.progress
        BY <4>1, <4>2 DEF Fields
      <4>4. Pure(r) <=> Pure(q)
        BY <4>3 DEF Pure
      <4>5. q \in RequestAt(n)
        BY <1>1, <3>3, <4>1, <4>3, <4>4, RequestFields, RequestIn
      <4>6. QED
        BY <4>3, <4>4, <4>5 DEF SameRequest, Onward, PureRecord
    <3>5. World' = Put(v, n, i, q)
      <4>1. table' = [table EXCEPT ![n] = [table[n] EXCEPT ![i] = q]]
        BY <1>2, <2>2, Zenon
      <4>2. World' = [table |-> table', seq |-> nextQuerySeq']
        BY DEF World
      <4>3. Put(v, n, i, q) = [table |-> [v.table EXCEPT ![n] = [v.table[n] EXCEPT ![i] = q]],
                               seq |-> v.seq]
        <5> HIDE DEF v, q, n
        <5>1. QED
          BY <1>1, <3>2, PutIs
      <4>4. QED
        BY <1>1, <1>2, <4>1, <4>2, <4>3
    <3> HIDE DEF q, v, i, n
    <3>6. QED
      BY <1>1, <3>2, <3>4, <3>5, PutWorks
  <2>3. QED
    BY <2>1, <2>2
<1>4. \A d \in Client : calm'[d] /\ held'[d] # 0 => Owned(World', entry'[d], held'[d], d)
  <2>1. \A d \in Client : entry[d] \in Node
                          /\ (calm[d] /\ held[d] # 0 => Owned(v, entry[d], held[d], d))
    BY DEF TablesInv
  <2> HIDE DEF v
  <2>2. QED
    BY <1>2, <1>3, <2>1, OwnedStays
<1>5. QED
  BY <1>2, <1>3, <1>4 DEF TablesInv

LEMMA RestartKeeps ==
    ASSUME TablesInv, NEW n \in Node, Restart(n)
    PROVE  TablesInv'
<1> DEFINE v == World
           w == World'
           none == <<>>
<1>1. /\ v = [table |-> table, seq |-> nextQuerySeq] /\ v.table = table /\ v.seq = nextQuerySeq
      /\ w = [table |-> table', seq |-> nextQuerySeq']
      /\ w.table = table' /\ w.seq = nextQuerySeq' /\ Good(v)
  BY DEF World, TablesInv
<1>2. /\ table' = [table EXCEPT ![n] = none] /\ nextQuerySeq' = [nextQuerySeq EXCEPT ![n] = 1]
      /\ entry' = entry /\ held' = held /\ got' = got /\ told' = told
      /\ calm' = [c \in Client |-> calm[c] /\ (held[c] = 0 \/ n \notin {entry[c]}
                                                                \cup ChildrenOf(entry[c]))]
  BY DEF Restart
<1>3. DOMAIN none = {} /\ \A S : none \in Seq(S)
  BY EmptySeq
<1> HIDE DEF v, w, none
<1>4. /\ table \in [Node -> Seq(AnyRequest)] /\ nextQuerySeq \in [Node -> Nat \ {0}]
  BY <1>1 DEF Good, Worlds
<1>5. /\ w.table[n] = none
      /\ \A m \in Node : m # n => w.table[m] = v.table[m] /\ w.seq[m] = v.seq[m]
  BY <1>1, <1>2, <1>4
<1>6. w \in Worlds
  <2>1. w.table \in [Node -> Seq(AnyRequest)] /\ w.seq \in [Node -> Nat \ {0}]
    BY <1>1, <1>2, <1>3, <1>4
  <2>2. w = [table |-> w.table, seq |-> w.seq]
    BY <1>1
  <2>3. QED
    BY <2>1, <2>2 DEF Worlds
<1>7. Good(w)
  <2> SUFFICES ASSUME NEW m \in Node
               PROVE  /\ w.table[m] \in Seq(RequestAt(m))
                      /\ \A i \in DOMAIN w.table[m] : w.table[m][i].id < w.seq[m]
                      /\ \A i, j \in DOMAIN w.table[m] :
                             w.table[m][i].id = w.table[m][j].id => i = j
    BY <1>6 DEF Good
  <2>1. CASE m = n
    BY <1>3, <1>5, <2>1
  <2>2. CASE m # n
    BY <1>1, <1>5, <2>2 DEF Good
  <2>3. QED
    BY <2>1, <2>2
<1>8. ASSUME NEW d \in Client, calm'[d], held'[d] # 0
      PROVE  Owned(w, entry'[d], held'[d], d)
  <2> DEFINE m == entry[d]
  <2>1. m \in Node /\ entry'[d] = m /\ held'[d] = held[d]
    BY <1>2 DEF TablesInv
  <2>2. calm[d] /\ held[d] # 0 /\ n # m /\ n \notin ChildrenOf(m)
    BY <1>2, <1>8
  <2> HIDE DEF m
  <2>3. Owned(v, m, held[d], d)
    BY <2>2 DEF TablesInv, v, m
  <2>4. ChildrenOf(m) \subseteq Node
    BY <2>1, Tree
  <2>5. w.table[m] = v.table[m] /\ \A c \in ChildrenOf(m) : w.table[c] = v.table[c]
    BY <1>5, <2>1, <2>2, <2>4
  <2>6. \A c \in ChildrenOf(m) : \A id, of : Named(v, c, id, of) => Named(w, c, id, of)
    BY <2>5 DEF Named
  <2>7. \A r : PureRecord(v, m, r) => PureRecord(w, m, r)
    BY <2>6 DEF PureRecord
  <2>8. Owned(w, m, held[d], d)
    BY <2>3, <2>5, <2>7 DEF Owned, PureAt
  <2>9. QED
    BY <2>1, <2>8
<1>9. calm' \in [Client -> BOOLEAN] /\ \A d \in Client : calm'[d] => calm[d]
  BY <1>2 DEF TablesInv
<1>10. QED
  BY <1>2, <1>7, <1>8, <1>9 DEF TablesInv, w

LEMMA NextTables == TablesInv /\ [Next]_vars => TablesInv'
<1> SUFFICES ASSUME TablesInv, [Next]_vars PROVE TablesInv'
  OBVIOUS
<1>1. CASE UNCHANGED vars
  <2>1. World' = World
    BY <1>1 DEF World, vars
  <2>2. QED
    BY <1>1, <2>1 DEF vars, TablesInv
<1>2. CASE Next
  BY <1>2, SubmitKeeps, FetchKeeps, CancelKeeps, RestartKeeps DEF Next
<1>3. QED
  BY <1>1, <1>2

THEOREM TablesInvariant == Spec => []TablesInv
<1>1. TablesInv /\ [Next]_vars => TablesInv'
  BY NextTables
<1>2. QED
  BY TablesBegin, <1>1, PTL DEF Spec

\* A client has rows of its own query only, as long as no server its request
\* lives on has started again.
THEOREM OwnRowsOnlyAlways == Spec => []OwnRowsOnly
<1>1. TablesInv => OwnRowsOnly
  BY DEF TablesInv, OwnRowsOnly
<1>2. QED
  BY TablesInvariant, <1>1, PTL

\* Whatever the tables have become, the next call of a client that is not done
\* brings it rows, is its last, or takes a worker over rows not looked at before.
THEOREM EveryCallGetsOnAlways == Spec => []EveryCallGetsOn
<1>1. TablesInv => EveryCallGetsOn
  <2> SUFFICES ASSUME TablesInv, NEW c \in Client
               PROVE  LET a == Answered(World, entry[c], held[c], Asked[c])
                      IN  a.done \/ a.rows # <<>> \/ MovesOn(World, a.world)
    BY DEF EveryCallGetsOn
  <2>1. Good(World) /\ entry[c] \in Node /\ Asked[c] \in Nat
    BY TreeAssumption DEF TablesInv
  <2>2. QED
    BY <2>1, NodeAnswers
<1>2. QED
  BY TablesInvariant, <1>1, PTL
=============================================================================
