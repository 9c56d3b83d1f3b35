----------------------------- MODULE NodeProofs -----------------------------
(***************************************************************************)
(* Proofs about one node: how it starts, reads its shards and scans them.  *)
(*                                                                         *)
(* NodeStart, for any configuration and partition files, any overlay       *)
(* updates and any Count requests.  The invariant StartInv follows the     *)
(* node from the indexes of its overlay (GraphInv) over the configuration  *)
(* it has read (ConfigInv, BuildInv) and the shards loaded so far          *)
(* (DiskInv, LoadInv) to its answers (CountInv, DispatchInv).  Totals are  *)
(* folds over the order a set happens to be enumerated in; FoldProofs      *)
(* makes them sums over sets.                                              *)
(*                                                                         *)
(* LocalScan, for every store, budget and choice of chunk sizes.           *)
(*                                                                         *)
(* CsvLine, which cuts the lines of a node's files, for lines of any       *)
(* length over any tokens, and CsvRow, which makes trips of them, for any  *)
(* files: FileInv carries what the cut of a line and the index of a header *)
(* mean from line to line, and the rest is about the text of one field:    *)
(* timestamps, the copy of the splitter and amounts of money.              *)
(***************************************************************************)
EXTENDS NodeStart, LocalScan, CsvRow, FoldProofs

-----------------------------------------------------------------------------
\* The overlay and its indexes.

NodeInfo == [isEntryNode : BOOLEAN, ownedFiles : Seq(File)]

GraphTypeOK ==
    /\ selfNodeId \in Node \cup {""}
    /\ nodes \in PartialMaps(Node, NodeInfo)
    /\ children \in PartialMaps(Node, Seq(Node))
    /\ parents \in [Node -> Seq(Node)]
    /\ owner \in PartialMaps(File, Node)

\* Both indexes agree with what they are derived from: with the types alone
\* this carries over every step.
GraphInv == GraphTypeOK /\ IndexesAreCurrent

LEMMA ElementsOf ==
    ASSUME NEW E, NEW s, s \in Seq(E)
    PROVE  ToSet(s) \subseteq E
<1>1. \A i \in DOMAIN s : s[i] \in E
  BY ElementOfSeq
<1>2. QED
  BY <1>1 DEF ToSet

LEMMA IsPartialMap ==
    ASSUME NEW S, NEW T, NEW map
    PROVE  map \in PartialMaps(S, T) <=>
               /\ DOMAIN map \in SUBSET S
               /\ map = [x \in DOMAIN map |-> map[x]]
               /\ \A x \in DOMAIN map : map[x] \in T
<1>1. ASSUME map \in PartialMaps(S, T)
      PROVE  /\ DOMAIN map \in SUBSET S
             /\ map = [x \in DOMAIN map |-> map[x]]
             /\ \A x \in DOMAIN map : map[x] \in T
  <2>1. PICK D \in SUBSET S : map \in [D -> T]
    BY <1>1, Zenon DEF PartialMaps
  <2>2. QED
    BY <2>1
<1>2. ASSUME DOMAIN map \in SUBSET S, map = [x \in DOMAIN map |-> map[x]],
             \A x \in DOMAIN map : map[x] \in T
      PROVE  map \in PartialMaps(S, T)
  <2>1. map \in [DOMAIN map -> T]
    BY <1>2
  <2>2. QED
    BY <1>2, <2>1, Zenon DEF PartialMaps
<1>3. QED
  BY <1>1, <1>2

LEMMA WithOneMore ==
    ASSUME NEW S, NEW T, NEW map, map \in PartialMaps(S, T),
           NEW x, x \in S, NEW v, v \in T
    PROVE  /\ With(map, x, v) \in PartialMaps(S, T)
           /\ DOMAIN With(map, x, v) = DOMAIN map \cup {x}
           /\ With(map, x, v)[x] = v
           /\ \A y \in DOMAIN map : y # x => With(map, x, v)[y] = map[y]
<1>1. DOMAIN map \in SUBSET S /\ \A y \in DOMAIN map : map[y] \in T
  BY IsPartialMap
<1> DEFINE m == With(map, x, v)
<1>2. /\ DOMAIN m = DOMAIN map \cup {x} /\ m = [y \in DOMAIN m |-> m[y]]
      /\ m[x] = v /\ \A y \in DOMAIN map : y # x => m[y] = map[y]
  BY DEF With
<1> HIDE DEF m
<1>3. DOMAIN m \in SUBSET S /\ \A y \in DOMAIN m : m[y] \in T
  BY <1>1, <1>2
<1>4. m \in PartialMaps(S, T)
  BY <1>2, <1>3, IsPartialMap
<1>5. QED
  BY <1>2, <1>4 DEF m

LEMMA InitGraph == GraphInit => GraphInv
<1> SUFFICES ASSUME GraphInit PROVE GraphInv
  OBVIOUS
<1>0. /\ selfNodeId = "" /\ nodes = [n \in {} |-> {}] /\ children = [n \in {} |-> <<>>]
      /\ parents = [n \in Node |-> <<>>] /\ owner = [f \in {} |-> {}]
  BY DEF GraphInit
<1>1. /\ DOMAIN nodes = {} /\ nodes = [x \in DOMAIN nodes |-> nodes[x]]
      /\ DOMAIN children = {} /\ children = [x \in DOMAIN children |-> children[x]]
      /\ DOMAIN owner = {} /\ owner = [x \in DOMAIN owner |-> owner[x]]
  BY <1>0
<1>2. parents = [n \in Node |-> <<>>] /\ parents \in [Node -> Seq(Node)]
  <2>1. parents = [n \in Node |-> <<>>]
    BY <1>0
  <2>2. QED
    BY <2>1
<1>3. GraphTypeOK
  <2>1. nodes \in PartialMaps(Node, NodeInfo)
    BY <1>1, IsPartialMap
  <2>2. children \in PartialMaps(Node, Seq(Node))
    <3> DEFINE T == Seq(Node)
    <3> HIDE DEF T
    <3>1. children \in PartialMaps(Node, T)
      BY <1>1, IsPartialMap
    <3>2. QED
      BY <3>1 DEF T
  <2>3. owner \in PartialMaps(File, Node)
    BY <1>1, IsPartialMap
  <2>4. QED
    BY <1>0, <1>2, <2>1, <2>2, <2>3 DEF GraphTypeOK
<1>4. \A m, c : ~Edge(m, c)
  BY <1>1 DEF Edge, ChildrenOf, ToSet
<1>5. \A c \in Node : ToSet(parents[c]) = {} /\ IsInjective(parents[c])
  BY <1>2 DEF ToSet, IsInjective
<1>6. \A f : Owners(f) = {}
  BY <1>1 DEF Owners
<1>7. QED
  BY <1>1, <1>3, <1>4, <1>5, <1>6 DEF GraphInv, IndexesAreCurrent

LEMMA AddNodeKeeps ==
    ASSUME GraphInv, NEW n \in Node, NEW info \in NodeInfo, AddNode(n, info)
    PROVE  GraphInv'
<1> USE DEF AddNode
<1>1. nodes' \in PartialMaps(Node, NodeInfo)
  BY WithOneMore DEF GraphInv, GraphTypeOK
<1>2. owner' \in PartialMaps(File, Node)
  <2>1. owner' \in [{f \in File : Owners(f)' # {}} -> Node]
    BY DEF RebuildFileOwnershipIndex
  <2>2. QED
    BY <2>1, Zenon DEF PartialMaps
<1>3. GraphTypeOK'
  BY <1>1, <1>2 DEF GraphInv, GraphTypeOK
<1>4. \A m, c \in Node : Edge(m, c)' <=> Edge(m, c)
  BY DEF Edge, ChildrenOf
<1>5. \A c \in Node :
          /\ ToSet(parents[c])' = {m \in Node : Edge(m, c)'}
          /\ IsInjective(parents[c])'
  BY <1>4 DEF GraphInv, IndexesAreCurrent
<1>6. \A f \in File :
          IF Owners(f)' = {} THEN f \notin DOMAIN owner'
          ELSE f \in DOMAIN owner' /\ owner'[f] \in Owners(f)'
  <2>1. DOMAIN owner' = {f \in File : Owners(f)' # {}}
        /\ \A f \in DOMAIN owner' : owner'[f] \in Owners(f)'
    BY DEF RebuildFileOwnershipIndex
  <2>2. QED
    BY <2>1
<1>7. IndexesAreCurrent'
  BY <1>5, <1>6 DEF IndexesAreCurrent
<1>8. QED
  BY <1>3, <1>7 DEF GraphInv

\* What is left of the parents of c when the edges from n are gone.
LEMMA WithoutIncomingIs ==
    ASSUME GraphInv, NEW n \in Node, NEW c \in Node
    PROVE  /\ WithoutIncoming(n)[c] \in Seq(Node)
           /\ ToSet(WithoutIncoming(n)[c]) = {m \in Node : Edge(m, c) /\ m # n}
           /\ IsInjective(WithoutIncoming(n)[c])
           /\ ~Edge(n, c) => WithoutIncoming(n)[c] = parents[c]
<1>1. parents[c] \in Seq(Node)
  BY DEF GraphInv, GraphTypeOK
<1>2. ToSet(parents[c]) = {m \in Node : Edge(m, c)} /\ IsInjective(parents[c])
  BY DEF GraphInv, IndexesAreCurrent
<1>3. CASE Edge(n, c)
  <2>1. WithoutIncoming(n)[c] = Filtered(parents[c], Node \ {n})
    BY <1>3 DEF WithoutIncoming, Edge
  <2> DEFINE f == Filtered(parents[c], Node \ {n})
  <2>2. f \in Seq(Node) /\ ToSet(f) = ToSet(parents[c]) \cap (Node \ {n}) /\ IsInjective(f)
    BY <1>1, <1>2, FilteredProperties
  <2> HIDE DEF f
  <2>3. QED
    BY <1>2, <1>3, <2>1, <2>2 DEF f
<1>4. CASE ~Edge(n, c)
  <2>1. WithoutIncoming(n)[c] = parents[c]
    BY <1>4 DEF WithoutIncoming, Edge
  <2>2. QED
    BY <1>1, <1>2, <1>4, <2>1
<1>5. QED
  BY <1>3, <1>4

LEMMA AppendedOnce ==
    ASSUME NEW E, NEW s \in Seq(E), NEW e \in E, IsInjective(s), e \notin ToSet(s)
    PROVE  IsInjective(Append(s, e))
<1> DEFINE u == Append(s, e)
<1>1. /\ Len(s) \in Nat /\ Len(u) = Len(s) + 1 /\ u \in Seq(E)
      /\ u[Len(s) + 1] = e /\ \A i \in 1 .. Len(s) : u[i] = s[i]
  BY LenProperties, AppendProperties
<1>2. DOMAIN s = 1 .. Len(s) /\ DOMAIN u = 1 .. Len(s) + 1
  BY <1>1, LenProperties
<1> HIDE DEF u
<1>3. \A i \in DOMAIN u : i \in DOMAIN s \/ i = Len(s) + 1
  BY <1>1, <1>2
<1>4. \A i \in DOMAIN s : u[i] = s[i] /\ s[i] # e
  BY <1>1, <1>2 DEF ToSet
<1>5. IsInjective(u)
  BY <1>1, <1>3, <1>4 DEF IsInjective
<1>6. QED
  BY <1>5 DEF u

LEMMA SetChildrenKeeps ==
    ASSUME GraphInv, NEW n \in Node, NEW list \in Seq(Node), SetChildren(n, list),
           selfNodeId' \in Node \cup {""}
    PROVE  GraphInv'
<1> USE DEF SetChildren
<1> DEFINE kept(c) == WithoutIncoming(n)[c]
<1>1. \A c \in Node :
          /\ kept(c) \in Seq(Node) /\ IsInjective(kept(c))
          /\ ToSet(kept(c)) = {m \in Node : Edge(m, c) /\ m # n}
  BY WithoutIncomingIs
<1>2. \A c \in Node : parents'[c] = IF c \in ToSet(list) THEN Append(kept(c), n) ELSE kept(c)
  BY <1>1
<1>3. parents' = [c \in Node |-> parents'[c]]
  OBVIOUS
<1>4. /\ children' \in PartialMaps(Node, Seq(Node))
      /\ DOMAIN children' = DOMAIN children \cup {n} /\ children'[n] = list
      /\ \A m \in DOMAIN children : m # n => children'[m] = children[m]
  <2> DEFINE T == Seq(Node)
  <2>1. children \in PartialMaps(Node, T) /\ list \in T
    BY DEF GraphInv, GraphTypeOK
  <2>3. children' = With(children, n, list)
    OBVIOUS
  <2> HIDE DEF T, SetChildren
  <2>2. /\ children' \in PartialMaps(Node, T)
        /\ DOMAIN children' = DOMAIN children \cup {n} /\ children'[n] = list
        /\ \A m \in DOMAIN children : m # n => children'[m] = children[m]
    <3>1. With(children, n, list) \in PartialMaps(Node, T)
      BY <2>1, WithOneMore
    <3>2. /\ DOMAIN children' = DOMAIN children \cup {n} /\ children'[n] = list
          /\ \A m \in DOMAIN children : m # n => children'[m] = children[m]
      BY <2>3 DEF With
    <3>3. QED
      BY <2>3, <3>1, <3>2
  <2>4. QED
    BY <2>2 DEF T
<1>5. \A c \in Node, m \in Node :
          Edge(m, c)' <=> IF m = n THEN c \in ToSet(list) ELSE Edge(m, c)
  BY <1>4 DEF Edge, ChildrenOf
<1> HIDE DEF kept, SetChildren
<1>6. ASSUME NEW c \in Node
      PROVE  /\ parents'[c] \in Seq(Node) /\ IsInjective(parents'[c])
             /\ ToSet(parents'[c]) = {m \in Node : Edge(m, c)'}
  <2>1. CASE c \in ToSet(list)
    <3>1. parents'[c] = Append(kept(c), n) /\ n \notin ToSet(kept(c))
      BY <1>1, <1>2, <2>1
    <3>2. ToSet(parents'[c]) = ToSet(kept(c)) \cup {n}
      BY <1>1, <3>1, ToSetAppend
    <3>3. IsInjective(parents'[c]) /\ parents'[c] \in Seq(Node)
      <4>1. kept(c) \in Seq(Node) /\ IsInjective(kept(c))
        BY <1>1
      <4>2. IsInjective(Append(kept(c), n))
        BY <3>1, <4>1, AppendedOnce
      <4>3. QED
        <5>1. Append(kept(c), n) \in Seq(Node)
          BY <4>1, AppendProperties
        <5>2. QED
          BY <3>1, <4>2, <5>1, Zenon
    <3>4. QED
      BY <1>1, <1>5, <2>1, <3>2, <3>3
  <2>2. CASE c \notin ToSet(list)
    <3>1. parents'[c] = kept(c)
      BY <1>2, <2>2
    <3>2. QED
      BY <1>1, <1>5, <2>2, <3>1
  <2>3. QED
    BY <2>1, <2>2
<1>7. parents' \in [Node -> Seq(Node)]
  BY <1>3, <1>6
<1>8. UNCHANGED <<nodes, owner>>
  BY DEF SetChildren
<1>9. GraphTypeOK'
  BY <1>4, <1>7, <1>8 DEF GraphInv, GraphTypeOK
<1>10. \A f : Owners(f)' = Owners(f)
  BY <1>8 DEF Owners
<1>11. IndexesAreCurrent'
  BY <1>6, <1>8, <1>10 DEF GraphInv, IndexesAreCurrent
<1>12. QED
  BY <1>9, <1>11 DEF GraphInv

LEMMA GraphNextKeeps == GraphInv /\ [GraphNext]_graphVars => GraphInv'
<1> SUFFICES ASSUME GraphInv, [GraphNext]_graphVars PROVE GraphInv'
  OBVIOUS
<1>1. ASSUME NEW n \in Node, NEW info \in Infos, AddNode(n, info) PROVE GraphInv'
  <2>1. info \in NodeInfo
    BY GraphAssumption DEF NodeInfo
  <2>2. QED
    BY <1>1, <2>1, AddNodeKeeps
<1>2. ASSUME NEW n \in Node, NEW list \in ChildLists, SetChildren(n, list),
             UNCHANGED selfNodeId
      PROVE  GraphInv'
  <2>1. list \in Seq(Node)
    BY GraphAssumption
  <2>2. QED
    BY <1>2, <2>1, SetChildrenKeeps DEF GraphInv, GraphTypeOK
<1>3. ASSUME NEW n \in Node, SetSelfNodeId(n), UNCHANGED <<nodes, children, parents, owner>>
      PROVE  GraphInv'
  BY <1>3 DEF SetSelfNodeId, GraphInv, GraphTypeOK, IndexesAreCurrent, Owners, Edge, ChildrenOf
<1>4. CASE UNCHANGED graphVars
  BY <1>4 DEF graphVars, GraphInv, GraphTypeOK, IndexesAreCurrent, Owners, Edge, ChildrenOf
<1>5. QED
  BY <1>1, <1>2, <1>3, <1>4 DEF GraphNext

-----------------------------------------------------------------------------
\* The fold of a .conf file's lines.

Text == STRING \cup {""}

Config ==
    [readable : BOOLEAN, node_id : Node \cup {""}, language : Text,
     listen_host : Text, listen_port : Nat, neighbors : Seq(Address),
     assigned_files : Seq(File)]

AllWritten(c) == \A i \in DOMAIN c.neighbors : IsNeighbor(c.neighbors[i])

\* c is d with the line l read.
IsRead(c, d, l) ==
    /\ c \in Config
    /\ c.readable => /\ d.readable /\ l.key \in Keys
                     /\ \A key \in Keys : c[key] = IF key = l.key THEN l.value ELSE d[key]
                     /\ AllWritten(d) => AllWritten(c)

LEMMA LineIsRead ==
    ASSUME NEW d, d \in Config, NEW l, IsLine(l)
    PROVE  IsRead(ReadLine(d, l), d, l)
<1>1. CASE l.key \notin Keys
           \/ (l.key = "neighbors" /\ \E k \in DOMAIN l.value : ~IsNeighbor(l.value[k]))
  <2>1. ReadLine(d, l) = [d EXCEPT !.readable = FALSE]
    BY <1>1 DEF ReadLine
  <2>2. QED
    BY <2>1 DEF Config, IsRead
<1>2. CASE ~(l.key \notin Keys
             \/ (l.key = "neighbors" /\ \E k \in DOMAIN l.value : ~IsNeighbor(l.value[k])))
  <2>1. ReadLine(d, l) = [d EXCEPT ![l.key] = l.value]
    BY <1>2 DEF ReadLine
  <2>2. CASE l.key = "node_id"
    BY <2>1, <2>2 DEF Config, IsRead, IsLine, Keys, AllWritten, Text
  <2>3. CASE l.key = "language"
    BY <2>1, <2>3 DEF Config, IsRead, IsLine, Keys, AllWritten, Text
  <2>4. CASE l.key = "listen_host"
    BY <2>1, <2>4 DEF Config, IsRead, IsLine, Keys, AllWritten, Text
  <2>5. CASE l.key = "listen_port"
    BY <2>1, <2>5 DEF Config, IsRead, IsLine, Keys, AllWritten, Text
  <2>6. CASE l.key = "neighbors"
    BY <1>2, <2>1, <2>6 DEF Config, IsRead, IsLine, Keys, AllWritten, Text
  <2>7. CASE l.key = "assigned_files"
    BY <2>1, <2>7 DEF Config, IsRead, IsLine, Keys, AllWritten, Text
  <2>8. QED
    BY <1>2, <2>2, <2>3, <2>4, <2>5, <2>6, <2>7 DEF Keys
<1>3. QED
  BY <1>1, <1>2

\* The steps of LoadConfig.
Loads(g, file) ==
    /\ g \in [0 .. Len(file) -> Config]
    /\ g[0] = EmptyConfig /\ LoadConfig(file) = g[Len(file)]
    /\ \A k \in 1 .. Len(file) : g[k] = ReadLine(g[k - 1], file[k])

LEMMA ConfOfLines ==
    ASSUME NEW file, file \in ConfFiles
    PROVE  /\ Len(file) \in Nat /\ DOMAIN file = 1 .. Len(file)
           /\ \A k \in 1 .. Len(file) : IsLine(file[k])
<1>1. file \in Seq(ToSet(file))
  BY ConfAssumption
<1>2. Len(file) \in Nat /\ DOMAIN file = 1 .. Len(file)
  BY <1>1
<1>3. \A k \in DOMAIN file : file[k] \in ToSet(file)
  BY DEF ToSet
<1>4. QED
  BY <1>2, <1>3, LineAssumption

LEMMA EmptyIsConfig == EmptyConfig \in Config
<1>1. <<>> \in Seq(Address) /\ <<>> \in Seq(File)
  OBVIOUS
<1> DEFINE As == Seq(Address)
           Fs == Seq(File)
<1> HIDE DEF As, Fs
<1>3. EmptyConfig \in [readable : BOOLEAN, node_id : Node \cup {""}, language : Text,
                      listen_host : Text, listen_port : Nat, neighbors : As,
                      assigned_files : Fs]
  <2>1. <<>> \in As /\ <<>> \in Fs
    BY <1>1 DEF As, Fs
  <2>2. QED
    BY <2>1 DEF EmptyConfig, Text
<1>4. QED
  BY <1>3 DEF Config, As, Fs

LEMMA LoadConfigPath ==
    ASSUME NEW file, file \in ConfFiles
    PROVE  \E g : Loads(g, file)
<1> DEFINE n == Len(file)
           A == Config
           F == [x \in A \X (1 .. n) |-> ReadLine(x[1], file[x[2]])]
           Raw(g) == [t \in SUBSET DOMAIN file |->
                         IF t = {} THEN EmptyConfig
                         ELSE ReadLine(g[t \ {Max(t)}], file[Max(t)])]
           jt == CHOOSE g : g = Raw(g)
<1>1. n \in Nat /\ DOMAIN file = 1 .. n /\ \A i \in 1 .. n : IsLine(file[i])
  BY ConfOfLines
<1>2. LoadConfig(file) = jt[DOMAIN file]
  BY Zenon DEF LoadConfig, FoldLeft, MapThenFoldSet
<1>3. F \in [A \X (1 .. n) -> A] /\ EmptyConfig \in A
  <2> SUFFICES ASSUME NEW c \in A, NEW i \in 1 .. n PROVE ReadLine(c, file[i]) \in A
    BY EmptyIsConfig
  <2>1. IsRead(ReadLine(c, file[i]), c, file[i])
    BY <1>1, LineIsRead
  <2>2. QED
    BY <2>1 DEF IsRead
<1>4. \A v \in A, j \in 1 .. n : F[<<v, j>>] = ReadLine(v, file[j])
  OBVIOUS
<1> HIDE DEF A, F, n
<1>5. PICK it : FoldsLeft(it, F, EmptyConfig, n, A)
  BY <1>1, <1>3, LeftFold
<1>6. it = Raw(it)
  BY <1>1, <1>4, <1>5 DEF FoldsLeft
<1>7. jt = Raw(jt)
  <2> HIDE DEF Raw
  <2>1. QED
    BY <1>6
<1> HIDE DEF jt
<1>8. /\ jt[{}] = EmptyConfig
      /\ \A t \in SUBSET (1 .. n) : t # {} =>
             jt[t] = ReadLine(jt[t \ {Max(t)}], file[Max(t)])
  BY <1>1, <1>7
<1> HIDE DEF Raw
<1>9. FoldsOn(jt, F, EmptyConfig, n, A)
  BY <1>4, <1>5, <1>8 DEF FoldsLeft, FoldsOn
<1> DEFINE h == PathOf(jt, n)
<1>10. IsPath(h, F, EmptyConfig, n, A)
  BY <1>1, <1>3, <1>9, PathOfFold
<1>11. h[n] = jt[1 .. n]
  BY <1>1 DEF PathOf
<1> HIDE DEF h
<1>12. \A k \in 1 .. n : h[k] = ReadLine(h[k - 1], file[k])
  <2> SUFFICES ASSUME NEW k \in 1 .. n PROVE h[k] = ReadLine(h[k - 1], file[k])
    OBVIOUS
  <2>1. k - 1 \in 0 .. n
    BY <1>1
  <2>2. h[k - 1] \in A /\ h[k] = F[<<h[k - 1], k>>]
    BY <1>10, <2>1 DEF IsPath
  <2>3. QED
    BY <1>4, <2>2
<1>13. QED
  BY <1>1, <1>2, <1>10, <1>11, <1>12 DEF IsPath, A, n, Loads

\* c is what the first k lines of file say: for each key the last of them
\* that has it, or what an empty configuration has.
SaidBy(c, file, k) ==
    /\ AllWritten(c)
    /\ \A key \in Keys :
           /\ (\A i \in 1 .. k : file[i].key # key) => c[key] = EmptyConfig[key]
           /\ \A j \in 1 .. k :
                  file[j].key = key /\ (\A i \in j + 1 .. k : file[i].key # key)
                      => c[key] = file[j].value

LEMMA OneLineMore ==
    ASSUME NEW file, file \in ConfFiles, NEW k \in 0 .. Len(file) - 1, NEW d, NEW c,
           IsRead(c, d, file[k + 1]), d.readable => SaidBy(d, file, k), c.readable
    PROVE  SaidBy(c, file, k + 1)
<1>1. /\ d.readable /\ SaidBy(d, file, k) /\ AllWritten(c)
      /\ file[k + 1].key \in Keys
      /\ \A key \in Keys : c[key] = IF key = file[k + 1].key THEN file[k + 1].value ELSE d[key]
  BY DEF IsRead, SaidBy
<1>2. k \in Nat
  BY ConfOfLines
<1>3. ASSUME NEW key \in Keys, \A i \in 1 .. k + 1 : file[i].key # key
      PROVE  c[key] = EmptyConfig[key]
  <2>1. k + 1 \in 1 .. k + 1 /\ \A i \in 1 .. k : i \in 1 .. k + 1
    BY <1>2
  <2>2. c[key] = d[key]
    BY <1>1, <1>3, <2>1
  <2>3. d[key] = EmptyConfig[key]
    BY <1>1, <1>3, <2>1 DEF SaidBy
  <2>4. QED
    BY <2>2, <2>3
<1>4. ASSUME NEW key \in Keys, NEW j \in 1 .. k + 1, file[j].key = key,
             \A i \in j + 1 .. k + 1 : file[i].key # key
      PROVE  c[key] = file[j].value
  <2>1. CASE j = k + 1
    BY <1>1, <1>4, <2>1
  <2>2. CASE j # k + 1
    <3>1. j \in 1 .. k /\ k + 1 \in j + 1 .. k + 1 /\ \A i \in j + 1 .. k : i \in j + 1 .. k + 1
      BY <1>2, <2>2
    <3>2. c[key] = d[key]
      BY <1>1, <1>4, <3>1
    <3>3. d[key] = file[j].value
      BY <1>1, <1>4, <3>1 DEF SaidBy
    <3>4. QED
      BY <3>2, <3>3
  <2>3. QED
    BY <2>1, <2>2
<1>5. QED
  BY <1>1, <1>3, <1>4 DEF SaidBy

LEMMA LoadConfigSays ==
    ASSUME NEW file, file \in ConfFiles
    PROVE  /\ LoadConfig(file) \in Config
           /\ LoadConfig(file).readable => SaidBy(LoadConfig(file), file, Len(file))
<1>1. PICK g : Loads(g, file)
  BY LoadConfigPath
<1> DEFINE n == Len(file)
           H == {k \in 0 .. n : g[k].readable => SaidBy(g[k], file, k)}
<1>2. n \in Nat /\ \A k \in 1 .. n : IsLine(file[k])
  BY ConfOfLines
<1>3. 0 \in H
  <2>1. g[0] = EmptyConfig
    BY <1>1 DEF Loads
  <2>2. AllWritten(EmptyConfig)
    BY DEF AllWritten, EmptyConfig
  <2>3. SaidBy(EmptyConfig, file, 0)
    BY <2>2 DEF SaidBy
  <2>4. QED
    BY <1>2, <2>1, <2>3
<1>4. ASSUME NEW k \in 0 .. n - 1, k \in H PROVE k + 1 \in H
  <2>1. k + 1 \in 1 .. n /\ k \in 0 .. n /\ k + 1 \in 0 .. n /\ k + 1 - 1 = k
    BY <1>2
  <2>2. g[k] \in Config /\ g[k + 1] = ReadLine(g[k], file[k + 1])
    BY <1>1, <2>1 DEF Loads
  <2>3. IsRead(g[k + 1], g[k], file[k + 1])
    BY <1>2, <2>1, <2>2, LineIsRead
  <2>4. g[k].readable => SaidBy(g[k], file, k)
    BY <1>4
  <2>5. g[k + 1].readable => SaidBy(g[k + 1], file, k + 1)
    BY <2>3, <2>4, OneLineMore
  <2>6. QED
    BY <2>1, <2>5
<1>5. n \in H
  <2>1. n \in 0 .. n
    BY <1>2
  <2> HIDE DEF H
  <2>2. \A k \in 0 .. n : k \in H
    BY <1>2, <1>3, <1>4, StepByStep
  <2>3. QED
    BY <2>1, <2>2
<1>6. LoadConfig(file) = g[n] /\ g[n] \in Config
  BY <1>1, <1>2 DEF Loads
<1>7. QED
  BY <1>5, <1>6

\* What the configuration has for a key is what the file says of it.
LEMMA ConfigSays ==
    ASSUME conf \in ConfFiles, cfg = LoadConfig(conf), cfg.readable, NEW key \in Keys
    PROVE  cfg[key] = Says(key, EmptyConfig[key])
<1> DEFINE of == {k \in DOMAIN conf : conf[k].key = key}
           n == Len(conf)
<1>1. n \in Nat /\ DOMAIN conf = 1 .. n
  BY ConfOfLines
<1>2. SaidBy(cfg, conf, n)
  BY LoadConfigSays
<1>3. Says(key, EmptyConfig[key]) =
          IF of = {} THEN EmptyConfig[key]
          ELSE conf[CHOOSE k \in of : \A j \in of : j <= k].value
  BY DEF Says
<1>4. CASE of = {}
  <2>1. \A i \in 1 .. n : conf[i].key # key
    BY <1>1, <1>4
  <2>2. QED
    BY <1>2, <1>3, <1>4, <2>1 DEF SaidBy
<1>5. CASE of # {}
  <2>1. of \in SUBSET (1 .. n)
    BY <1>1
  <2>2. \E k \in of : \A j \in of : j <= k
    <3> HIDE DEF of
    <3>1. Max(of) \in of /\ \A j \in of : j <= Max(of)
      BY <1>1, <1>5, <2>1, LastPlace
    <3>2. QED
      BY <3>1
  <2> DEFINE m == CHOOSE k \in of : \A j \in of : j <= k
  <2>3. m \in of /\ \A j \in of : j <= m
    <3> HIDE DEF of
    <3>1. QED
      BY <2>2
  <2> HIDE DEF m
  <2>4. m \in 1 .. n /\ conf[m].key = key
    BY <1>1, <2>3
  <2>5. \A i \in m + 1 .. n : conf[i].key # key
    <3> SUFFICES ASSUME NEW i \in m + 1 .. n, conf[i].key = key PROVE FALSE
      OBVIOUS
    <3>1. i \in of /\ ~(i <= m)
      BY <1>1, <2>4
    <3>2. QED
      BY <2>3, <3>1
  <2>6. cfg[key] = conf[m].value
    BY <1>2, <2>4, <2>5 DEF SaidBy
  <2>7. QED
    BY <1>3, <1>5, <2>6 DEF m
<1>6. QED
  BY <1>4, <1>5

-----------------------------------------------------------------------------
\* Sums of numbers.

Totals(g, s) ==
    /\ g \in [0 .. Len(s) -> Nat]
    /\ g[0] = 0 /\ Total(s) = g[Len(s)]
    /\ \A k \in 1 .. Len(s) : g[k] = g[k - 1] + s[k]

LEMMA TotalPath ==
    ASSUME NEW s, s \in Seq(Nat)
    PROVE  \E g : Totals(g, s)
<1> DEFINE n == Len(s)
           F == [x \in Nat \X (1 .. n) |-> x[1] + s[x[2]]]
           Raw(g) == [t \in SUBSET DOMAIN s |->
                         IF t = {} THEN 0 ELSE g[t \ {Max(t)}] + s[Max(t)]]
           jt == CHOOSE g : g = Raw(g)
<1>1. n \in Nat /\ DOMAIN s = 1 .. n /\ \A i \in 1 .. n : s[i] \in Nat
  BY LenProperties
<1>2. Total(s) = jt[DOMAIN s]
  BY Zenon DEF Total, FoldLeft, MapThenFoldSet
<1>3. F \in [Nat \X (1 .. n) -> Nat] /\ 0 \in Nat
  BY <1>1
<1>4. \A v \in Nat, j \in 1 .. n : F[<<v, j>>] = v + s[j]
  OBVIOUS
<1> HIDE DEF F, n
<1>5. PICK it : FoldsLeft(it, F, 0, n, Nat)
  BY <1>1, <1>3, LeftFold
<1>6. it = Raw(it)
  BY <1>1, <1>4, <1>5 DEF FoldsLeft
<1>7. jt = Raw(jt)
  <2> HIDE DEF Raw
  <2>1. QED
    BY <1>6
<1> HIDE DEF jt
<1>8. /\ jt[{}] = 0
      /\ \A t \in SUBSET (1 .. n) : t # {} => jt[t] = jt[t \ {Max(t)}] + s[Max(t)]
  BY <1>1, <1>7
<1> HIDE DEF Raw
<1>9. FoldsOn(jt, F, 0, n, Nat)
  BY <1>4, <1>5, <1>8 DEF FoldsLeft, FoldsOn
<1> DEFINE h == PathOf(jt, n)
<1>10. IsPath(h, F, 0, n, Nat)
  BY <1>1, <1>3, <1>9, PathOfFold
<1>11. h[n] = jt[1 .. n]
  BY <1>1 DEF PathOf
<1> HIDE DEF h
<1>12. \A k \in 1 .. n : h[k] = h[k - 1] + s[k]
  <2> SUFFICES ASSUME NEW k \in 1 .. n PROVE h[k] = h[k - 1] + s[k]
    OBVIOUS
  <2>1. k - 1 \in 0 .. n
    BY <1>1
  <2>2. h[k - 1] \in Nat /\ h[k] = F[<<h[k - 1], k>>]
    BY <1>10, <2>1 DEF IsPath
  <2>3. QED
    BY <1>4, <2>2
<1>13. QED
  BY <1>1, <1>2, <1>10, <1>11, <1>12 DEF IsPath, n, Totals

LEMMA TotalStep ==
    ASSUME NEW s, s \in Seq(Nat), NEW g, Totals(g, s), NEW k \in 0 .. Len(s) - 1
    PROVE  /\ g[k + 1] = g[k] + s[k + 1]
           /\ g[k] \in Nat /\ g[k + 1] \in Nat /\ s[k + 1] \in Nat
<1>1. Len(s) \in Nat /\ \A i \in 1 .. Len(s) : s[i] \in Nat
  BY LenProperties
<1>2. k + 1 \in 1 .. Len(s) /\ k \in 0 .. Len(s) /\ k + 1 \in 0 .. Len(s) /\ k + 1 - 1 = k
  BY <1>1
<1>3. g[k + 1] = g[k + 1 - 1] + s[k + 1]
  BY <1>2 DEF Totals
<1>4. g[k] \in Nat /\ g[k + 1] \in Nat
  BY <1>2 DEF Totals
<1>5. QED
  BY <1>1, <1>2, <1>3, <1>4

LEMMA DisjointUnion ==
    ASSUME NEW S, IsFiniteSet(S), NEW T, IsFiniteSet(T), S \cap T = {}
    PROVE  /\ IsFiniteSet(S \cup T)
           /\ Cardinality(S \cup T) = Cardinality(S) + Cardinality(T)
<1>1. /\ IsFiniteSet(S \cup T)
      /\ Cardinality(S \cup T) = Cardinality(S) + Cardinality(T) - Cardinality(S \cap T)
  BY FS_Union
<1>2. Cardinality(S \cap T) = 0
  BY FS_EmptySet
<1>3. Cardinality(S) \in Nat /\ Cardinality(T) \in Nat
  BY FS_CardinalityType
<1>4. QED
  BY <1>1, <1>2, <1>3

LEMMA TotalAtMost ==
    ASSUME NEW s, s \in Seq(Nat), NEW t, t \in Seq(Nat), Len(s) = Len(t),
           \A k \in 1 .. Len(s) : s[k] <= t[k]
    PROVE  Total(s) \in Nat /\ Total(t) \in Nat /\ Total(s) <= Total(t)
<1> DEFINE n == Len(s)
<1>1. n \in Nat /\ \A k \in 1 .. n : s[k] \in Nat /\ t[k] \in Nat
  BY LenProperties
<1>2. PICK g : Totals(g, s)
  BY TotalPath
<1>3. PICK h : Totals(h, t)
  BY TotalPath
<1> DEFINE H == {k \in 0 .. n : g[k] <= h[k]}
<1>4. 0 \in H
  BY <1>1, <1>2, <1>3 DEF Totals
<1>5. ASSUME NEW k \in 0 .. n - 1, k \in H PROVE k + 1 \in H
  <2>1. k + 1 \in 1 .. n /\ k \in 0 .. n /\ k + 1 \in 0 .. n /\ k + 1 - 1 = k
    BY <1>1
  <2>2. g[k + 1] = g[k] + s[k + 1] /\ g[k] \in Nat /\ s[k + 1] \in Nat
    BY <1>2, TotalStep
  <2>3. h[k + 1] = h[k] + t[k + 1] /\ h[k] \in Nat /\ t[k + 1] \in Nat
    BY <1>3, TotalStep
  <2>4. g[k] <= h[k] /\ s[k + 1] <= t[k + 1]
    BY <1>5, <2>1
  <2>5. g[k + 1] <= h[k + 1]
    BY <2>2, <2>3, <2>4
  <2>6. QED
    BY <2>1, <2>5
<1>6. n \in H
  <2>1. n \in 0 .. n
    BY <1>1
  <2> HIDE DEF H
  <2>2. \A k \in 0 .. n : k \in H
    BY <1>1, <1>4, <1>5, StepByStep
  <2>3. QED
    BY <2>1, <2>2
<1>7. n \in 0 .. n /\ Total(s) = g[n] /\ Total(t) = h[n]
  BY <1>1, <1>2, <1>3 DEF Totals
<1>8. QED
  BY <1>2, <1>3, <1>6, <1>7 DEF Totals

Joined(P, n) == UNION {P[k] : k \in 1 .. n}

\* The sum of the sizes of sets that have nothing in common is the size of
\* their union.
LEMMA TotalOfParts ==
    ASSUME NEW s, s \in Seq(Nat), NEW P,
           \A k \in 1 .. Len(s) : IsFiniteSet(P[k]) /\ Cardinality(P[k]) = s[k],
           \A j, k \in 1 .. Len(s) : j # k => P[j] \cap P[k] = {}
    PROVE  Total(s) = Cardinality(Joined(P, Len(s)))
<1> DEFINE n == Len(s)
           U(k) == Joined(P, k)
<1>1. n \in Nat /\ \A k \in 1 .. n : s[k] \in Nat
  BY LenProperties
<1>2. PICK g : Totals(g, s)
  BY TotalPath
<1> DEFINE H == {k \in 0 .. n : IsFiniteSet(U(k)) /\ Cardinality(U(k)) = g[k]}
<1>3. 0 \in H
  <2>1. U(0) = {} /\ 0 \in 0 .. n
    BY <1>1 DEF Joined
  <2>2. IsFiniteSet({}) /\ Cardinality({}) = 0
    BY FS_EmptySet
  <2>3. g[0] = 0
    BY <1>2 DEF Totals
  <2> HIDE DEF U
  <2>4. QED
    BY <2>1, <2>2, <2>3
<1>4. ASSUME NEW k \in 0 .. n - 1, k \in H PROVE k + 1 \in H
  <2>1. k + 1 \in 1 .. n /\ k \in 0 .. n /\ k + 1 \in 0 .. n /\ k + 1 - 1 = k
    BY <1>1
  <2>2. 1 .. k + 1 = (1 .. k) \cup {k + 1}
    OBVIOUS
  <2>3. U(k + 1) = U(k) \cup P[k + 1]
    BY <2>2 DEF Joined
  <2>4. U(k) \cap P[k + 1] = {}
    <3>1. \A i \in 1 .. k : i \in 1 .. n /\ i # k + 1
      BY <1>1
    <3>2. \A i \in 1 .. k : P[i] \cap P[k + 1] = {}
      BY <2>1, <3>1
    <3>3. QED
      BY <3>2 DEF Joined
  <2>5. IsFiniteSet(U(k)) /\ Cardinality(U(k)) = g[k]
    BY <1>4
  <2>6. IsFiniteSet(P[k + 1]) /\ Cardinality(P[k + 1]) = s[k + 1]
    BY <2>1
  <2>7. g[k + 1] = g[k] + s[k + 1]
    BY <1>2, TotalStep
  <2> HIDE DEF U
  <2>8. /\ IsFiniteSet(U(k) \cup P[k + 1])
        /\ Cardinality(U(k) \cup P[k + 1]) = Cardinality(U(k)) + Cardinality(P[k + 1])
    BY <2>4, <2>5, <2>6, DisjointUnion
  <2>9. Cardinality(U(k) \cup P[k + 1]) = g[k + 1]
    BY <2>5, <2>6, <2>7, <2>8
  <2>10. IsFiniteSet(U(k + 1)) /\ Cardinality(U(k + 1)) = g[k + 1]
    BY <2>3, <2>8, <2>9
  <2>11. QED
    BY <2>1, <2>10
<1>5. n \in H
  <2>1. n \in 0 .. n
    BY <1>1
  <2> HIDE DEF H
  <2>2. \A k \in 0 .. n : k \in H
    BY <1>1, <1>3, <1>4, StepByStep
  <2>3. QED
    BY <2>1, <2>2
<1>6. Total(s) = g[n]
  BY <1>2 DEF Totals
<1>7. QED
  BY <1>5, <1>6

-----------------------------------------------------------------------------
\* The dispatcher.
\* What the invariant needs of a shard: it weighs something that is a number.
LEMMA ShardWeighs ==
    ASSUME NEW s \in Shard
    PROVE  s.bytes \in Nat /\ s.trips \in Nat
  BY DispatchAssumption

LEMMA InitDispatchType == DispatchInit => DispatchTypeOK
  BY DEF DispatchInit, DispatchTypeOK, NoLoad

\* The kinds of the variables survive an assignment.
LEMMA AssignDispatchType ==
    ASSUME DispatchTypeOK, AssignNext
    PROVE  DispatchTypeOK'
<1>1. PICK k \in DOMAIN workers :
          /\ bytes' = [bytes EXCEPT ![workers[k]] = @ + Head(jobs).bytes]
          /\ trips' = [trips EXCEPT ![workers[k]] = @ + Head(jobs).trips]
          /\ given' = Append(given, [shard |-> Head(jobs), node |-> workers[k]])
  BY DEF AssignNext
<1>2. workers[k] \in Worker /\ Head(jobs) \in Shard
  BY DEF AssignNext, DispatchTypeOK
<1>3. bytes' \in [Worker -> Nat] /\ trips' \in [Worker -> Nat]
  <2>1. Head(jobs).bytes \in Nat /\ Head(jobs).trips \in Nat
    BY <1>2, ShardWeighs
  <2>2. /\ bytes[workers[k]] + Head(jobs).bytes \in Nat
        /\ trips[workers[k]] + Head(jobs).trips \in Nat
    <3>1. bytes[workers[k]] \in Nat /\ trips[workers[k]] \in Nat
      BY <1>2 DEF DispatchTypeOK
    <3> QED
      BY <2>1, <3>1
  <2> QED
    BY <1>1, <2>2 DEF DispatchTypeOK
<1>4. [shard |-> Head(jobs), node |-> workers[k]] \in [shard : Shard, node : Worker]
  BY <1>2
<1>5. given' \in Seq([shard : Shard, node : Worker])
  BY <1>1, <1>4 DEF DispatchTypeOK
<1>6. jobs' \in Seq(Shard) /\ UNCHANGED <<workers, pushed>>
  BY DEF AssignNext, DispatchTypeOK
<1> QED
  BY <1>3, <1>5, <1>6 DEF DispatchTypeOK

LEMMA NextDispatchType == DispatchTypeOK /\ [DispatchNext]_dispatchVars => DispatchTypeOK'
<1> SUFFICES ASSUME DispatchTypeOK, [DispatchNext]_dispatchVars
             PROVE  DispatchTypeOK'
  OBVIOUS
<1>1. ASSUME NEW list \in WorkerLists, SetWorkers(list)
      PROVE  DispatchTypeOK'
  <2>1. list \in Seq(Worker)
    BY DispatchAssumption
  <2>2. bytes' \in [Worker -> Nat] /\ trips' \in [Worker -> Nat]
    BY <1>1 DEF SetWorkers, NoLoad
  <2> QED
    BY <1>1, <2>1, <2>2 DEF SetWorkers, DispatchTypeOK
<1>2. ASSUME NEW s \in Shard, PushAll(<<s>>)
      PROVE  DispatchTypeOK'
  BY <1>2 DEF PushAll, DispatchTypeOK
<1>3. CASE AssignNext
  BY <1>3, AssignDispatchType
<1>4. CASE UNCHANGED dispatchVars
  BY <1>4 DEF dispatchVars, DispatchTypeOK
<1> QED
  BY <1>1, <1>2, <1>3, <1>4 DEF DispatchNext

-----------------------------------------------------------------------------
\* One assignment keeps the loads close.  The worker that is chosen was no
\* heavier than any other, so without its new shard it is still not; a worker
\* that is not chosen keeps the shard that bounded it, and no load shrinks.
LEMMA AssignStaysClose ==
    ASSUME DispatchTypeOK, LoadsStayClose, AssignNext
    PROVE  LoadsStayClose'
<1>1. PICK k \in DOMAIN workers :
          /\ IsLeastLoaded(k)
          /\ bytes' = [bytes EXCEPT ![workers[k]] = @ + Head(jobs).bytes]
          /\ given' = Append(given, [shard |-> Head(jobs), node |-> workers[k]])
  BY DEF AssignNext
<1>2. Head(jobs).bytes \in Nat
  <2>1. Head(jobs) \in Shard
    BY DEF AssignNext, DispatchTypeOK
  <2> QED
    BY <2>1, ShardWeighs
<1>3. workers' = workers
  BY DEF AssignNext
<1>4. \A m \in DOMAIN workers : workers[m] \in Worker /\ bytes[workers[m]] \in Nat
  BY DEF DispatchTypeOK
<1>5. \A m \in DOMAIN workers :
          bytes'[workers[m]] = IF workers[m] = workers[k]
                               THEN bytes[workers[m]] + Head(jobs).bytes
                               ELSE bytes[workers[m]]
  BY <1>1, <1>4 DEF DispatchTypeOK
<1>6. /\ DOMAIN given' = 1 .. Len(given) + 1
      /\ given'[Len(given) + 1] = [shard |-> Head(jobs), node |-> workers[k]]
      /\ \A g \in DOMAIN given : g \in DOMAIN given' /\ given'[g] = given[g]
  <2>1. given \in Seq([shard : Shard, node : Worker])
    BY DEF DispatchTypeOK
  <2>2. PICK x : x = [shard |-> Head(jobs), node |-> workers[k]] /\ given' = Append(given, x)
    BY <1>1
  <2>3. /\ DOMAIN given' = 1 .. Len(given) + 1
        /\ given'[Len(given) + 1] = x
        /\ \A g \in DOMAIN given : g \in DOMAIN given' /\ given'[g] = given[g]
    BY <2>2, <2>1, AppendedAtTheEnd
  <2> QED
    BY <2>2, <2>3
<1>7. \A g \in DOMAIN given : given[g].shard.bytes \in Nat
  <2> SUFFICES ASSUME NEW g \in DOMAIN given PROVE given[g].shard.bytes \in Nat
    OBVIOUS
  <2>1. given[g] \in [shard : Shard, node : Worker]
    BY ElementOfSequence, Zenon DEF DispatchTypeOK
  <2>2. given[g].shard \in Shard
    BY <2>1
  <2> QED
    BY <2>2, ShardWeighs
<1> SUFFICES ASSUME NEW i \in DOMAIN workers, NEW j \in DOMAIN workers,
                    bytes'[workers[i]] > bytes'[workers[j]]
             PROVE  \E g \in DOMAIN given' :
                        /\ given'[g].node = workers[i]
                        /\ bytes'[workers[i]] - given'[g].shard.bytes <= bytes'[workers[j]]
  BY <1>2, <1>3, <1>4, <1>5 DEF LoadsStayClose
<1>8. CASE workers[i] = workers[k]
  <2>1. workers[j] # workers[k]
    BY <1>2, <1>4, <1>5, <1>8
  <2>2. bytes[workers[k]] <= bytes[workers[j]]
    BY <1>1, <1>4 DEF IsLeastLoaded, Lighter
  <2>3. bytes'[workers[i]] - Head(jobs).bytes <= bytes'[workers[j]]
    BY <1>2, <1>4, <1>5, <1>8, <2>1, <2>2
  <2>4. Len(given) + 1 \in DOMAIN given'
    BY <1>6 DEF DispatchTypeOK
  <2> QED
    BY <1>6, <1>8, <2>3, <2>4
<1>9. CASE workers[i] # workers[k]
  <2>1. bytes'[workers[i]] = bytes[workers[i]] /\ bytes[workers[j]] <= bytes'[workers[j]]
    <3>1. bytes[workers[j]] <= bytes[workers[j]] + Head(jobs).bytes
      BY <1>2, <1>4
    <3>2. bytes[workers[j]] <= bytes[workers[j]]
      BY <1>4
    <3> QED
      BY <1>5, <1>9, <3>1, <3>2
  <2>2. ~(bytes[workers[i]] <= bytes[workers[j]])
    BY <1>2, <1>4, <1>5, <2>1
  <2>3. PICK g \in DOMAIN given :
            /\ given[g].node = workers[i]
            /\ bytes[workers[i]] - given[g].shard.bytes <= bytes[workers[j]]
    BY <2>2 DEF LoadsStayClose
  <2>4. bytes'[workers[i]] - given[g].shard.bytes <= bytes'[workers[j]]
    BY <1>2, <1>4, <1>5, <1>7, <2>1, <2>3
  <2> QED
    BY <1>6, <2>3, <2>4
<1> QED
  BY <1>8, <1>9

LEMMA NextStaysClose ==
    DispatchTypeOK /\ LoadsStayClose /\ [DispatchNext]_dispatchVars => LoadsStayClose'
<1> SUFFICES ASSUME DispatchTypeOK, LoadsStayClose, [DispatchNext]_dispatchVars
             PROVE  LoadsStayClose'
  OBVIOUS
<1>1. ASSUME NEW list \in WorkerLists, SetWorkers(list)
      PROVE  LoadsStayClose'
  <2>1. \A m \in DOMAIN list : list[m] \in Worker
    BY DispatchAssumption
  <2> QED
    BY <1>1, <2>1 DEF SetWorkers, NoLoad, LoadsStayClose
<1>2. ASSUME NEW s \in Shard, PushAll(<<s>>)
      PROVE  LoadsStayClose'
  BY <1>2 DEF PushAll, LoadsStayClose
<1>3. CASE AssignNext
  BY <1>3, AssignStaysClose
<1>4. CASE UNCHANGED dispatchVars
  BY <1>4 DEF dispatchVars, LoadsStayClose
<1> QED
  BY <1>1, <1>2, <1>3, <1>4 DEF DispatchNext

-----------------------------------------------------------------------------
\* The queue, the list of workers and the two tables of loads keep their
\* types.
THEOREM DispatchTyped == DispatchSpec => []DispatchTypeOK
  BY InitDispatchType, NextDispatchType, PTL DEF DispatchSpec

\* However shards of any sizes are pushed and the workers are named, a worker
\* is ahead of another by no more than one shard it was given.
THEOREM DispatchStaysClose == DispatchSpec => []LoadsStayClose
<1>1. DispatchInit => LoadsStayClose
  BY DEF DispatchInit, LoadsStayClose
<1> QED
  BY <1>1, InitDispatchType, NextDispatchType, NextStaysClose, PTL DEF DispatchSpec

-----------------------------------------------------------------------------
\* What the shards given to a worker weigh, as a fold that adds one at a time.
WeightAdd(w) ==
    [x \in Nat \X (1 .. Len(given)) |->
        IF given[x[2]].node = w THEN x[1] + given[x[2]].shard.bytes ELSE x[1]]

IsWeighed(w) ==
    \E it \in [SUBSET (1 .. Len(given)) -> Nat] :
        /\ Folds(it, WeightAdd(w), 0, FromLeft(Len(given)), 1 .. Len(given))
        /\ Weight(w) = it[1 .. Len(given)]

LEMMA GivenWeighs ==
    ASSUME DispatchTypeOK, NEW k \in 1 .. Len(given)
    PROVE  given[k].shard.bytes \in Nat
<1>1. given \in Seq([shard : Shard, node : Worker])
  BY DEF DispatchTypeOK
<1>2. given[k] \in [shard : Shard, node : Worker]
  <2>1. k \in DOMAIN given
    BY <1>1
  <2>2. QED
    BY <1>1, <2>1, ElementOfSequence, Zenon
<1>3. QED
  BY <1>2, ShardWeighs

AllWeighed == \A w : IsWeighed(w)

LEMMA WeightIsFold == DispatchTypeOK => AllWeighed
<1> SUFFICES ASSUME DispatchTypeOK, NEW w PROVE IsWeighed(w)
  BY DEF AllWeighed
<1> DEFINE n == Len(given)
           Raw(f) == [s \in SUBSET DOMAIN given |->
                         IF s = {} THEN 0
                         ELSE IF given[Max(s)].node = w
                              THEN f[s \ {Max(s)}] + given[Max(s)].shard.bytes
                              ELSE f[s \ {Max(s)}]]
<1>1. n \in Nat /\ DOMAIN given = 1 .. n
  BY DEF DispatchTypeOK
<1>2. Weight(w) = (CHOOSE f : f = Raw(f))[DOMAIN given]
  BY Zenon DEF Weight, FoldLeft, MapThenFoldSet
<1>3. WeightAdd(w) \in [Nat \X (1 .. n) -> Nat]
  BY GivenWeighs DEF WeightAdd
<1>4. PICK it \in [SUBSET (1 .. n) -> Nat] :
          Folds(it, WeightAdd(w), 0, FromLeft(n), 1 .. n)
  BY <1>1, <1>3, LeftTakes, FoldExists
<1>5. ASSUME NEW s \in SUBSET (1 .. n), s # {}
      PROVE  /\ Max(s) \in 1 .. n /\ FromLeft(n)[s] = Max(s)
             /\ it[s \ {Max(s)}] \in Nat
             /\ it[s] = IF given[Max(s)].node = w
                        THEN it[s \ {Max(s)}] + given[Max(s)].shard.bytes
                        ELSE it[s \ {Max(s)}]
  <2>1. Max(s) \in 1 .. n /\ FromLeft(n)[s] = Max(s)
    BY <1>1, <1>5, LastPlace DEF FromLeft
  <2>2. it[s \ {Max(s)}] \in Nat
    BY <2>1
  <2>3. it[s] = WeightAdd(w)[<<it[s \ {Max(s)}], Max(s)>>]
    BY <1>4, <1>5, <2>1 DEF Folds
  <2>4. QED
    BY <2>1, <2>2, <2>3 DEF WeightAdd
<1>6. it = Raw(it)
  <2>1. it[{}] = 0
    BY <1>4 DEF Folds
  <2>2. \A s \in SUBSET (1 .. n) : it[s] = Raw(it)[s]
    BY <1>1, <1>5, <2>1
  <2>3. QED
    BY <1>1, <2>2
<1> DEFINE jt == CHOOSE f : f = Raw(f)
<1>7. jt = Raw(jt)
  <2> HIDE DEF Raw
  <2>1. QED
    BY <1>6
<1> HIDE DEF jt
<1>8. jt[{}] = 0
  BY <1>1, <1>7
<1>9. ASSUME NEW s \in SUBSET (1 .. n), s # {},
             jt[s \ {FromLeft(n)[s]}] = it[s \ {FromLeft(n)[s]}]
      PROVE  jt[s] = it[s]
  <2>1. jt[s] = Raw(jt)[s]
    BY <1>7
  <2>2. jt[s] = IF given[Max(s)].node = w
                THEN jt[s \ {Max(s)}] + given[Max(s)].shard.bytes
                ELSE jt[s \ {Max(s)}]
    BY <1>1, <1>9, <2>1
  <2>3. QED
    BY <1>5, <1>9, <2>2
<1> HIDE DEF Raw
<1>10. jt[{}] = it[{}] /\ IsFiniteSet(1 .. n) /\ Takes(FromLeft(n), 1 .. n)
  BY <1>1, <1>4, <1>8, LeftTakes DEF Folds
<1>11. \A s \in SUBSET (1 .. n) : jt[s] = it[s]
  <2> DEFINE S == 1 .. n
             c == FromLeft(n)
             G == {s \in SUBSET S : jt[s] = it[s]}
  <2>1. IsFiniteSet(S) /\ Takes(c, S) /\ {} \in G
    BY <1>10
  <2>2. \A s \in SUBSET S : s # {} /\ s \ {c[s]} \in G => s \in G
    BY <1>9
  <2>3. \A s \in SUBSET S : s \in G
    <3> HIDE DEF S, c, G
    <3>1. QED
      BY <2>1, <2>2, SubsetsOneByOne
  <2>4. QED
    BY <2>3
<1>12. Weight(w) = it[1 .. n]
  BY <1>1, <1>2, <1>11 DEF jt
<1>13. QED
  BY <1>4, <1>12 DEF IsWeighed

\* One more shard given adds what it weighs to its worker, and to no other.
GivenOneMore(e) ==
    /\ DispatchTypeOK /\ DispatchTypeOK'
    /\ e \in [shard : Shard, node : Worker]
    /\ given' = Append(given, e)

LEMMA WeightGrows ==
    ASSUME NEW e, GivenOneMore(e), NEW w
    PROVE  Weight(w)' = IF e.node = w THEN Weight(w) + e.shard.bytes ELSE Weight(w)
<1> DEFINE n == Len(given)
           c == FromLeft(n)
           d == FromLeft(n + 1)
<1>1. AllWeighed /\ AllWeighed'
  <2>1. DispatchTypeOK /\ DispatchTypeOK'
    BY DEF GivenOneMore
  <2>2. QED
    BY <2>1, WeightIsFold, PTL
<1>2. /\ given \in Seq([shard : Shard, node : Worker]) /\ n \in Nat
      /\ DOMAIN given = 1 .. n /\ Len(given') = n + 1
      /\ given'[n + 1] = e /\ \A i \in 1 .. n : given'[i] = given[i]
  BY AppendedAtTheEnd DEF GivenOneMore, DispatchTypeOK
<1>3. e.shard.bytes \in Nat
  BY ShardWeighs DEF GivenOneMore
<1>4. PICK it \in [SUBSET (1 .. n) -> Nat] :
          Folds(it, WeightAdd(w), 0, c, 1 .. n) /\ Weight(w) = it[1 .. n]
  BY <1>1 DEF AllWeighed, IsWeighed
<1>5. PICK jt \in [SUBSET (1 .. n + 1) -> Nat] :
          Folds(jt, WeightAdd(w)', 0, d, 1 .. n + 1) /\ Weight(w)' = jt[1 .. n + 1]
  BY <1>1, <1>2 DEF AllWeighed, IsWeighed
<1>6. \A m \in Nat, i \in 1 .. n : WeightAdd(w)'[<<m, i>>] = WeightAdd(w)[<<m, i>>]
  BY <1>2 DEF WeightAdd
<1>7. \A s \in SUBSET (1 .. n) : s \in SUBSET (1 .. n + 1) /\ d[s] = c[s]
  BY <1>2 DEF FromLeft
<1>8. IsFiniteSet(1 .. n) /\ Takes(c, 1 .. n)
  BY <1>2, LeftTakes
<1>9. \A s \in SUBSET (1 .. n) : jt[s] = it[s]
  <2> DEFINE S == 1 .. n
             G == {s \in SUBSET S : jt[s] = it[s]}
  <2>1. {} \in G
    BY <1>4, <1>5 DEF Folds
  <2>2. ASSUME NEW s \in SUBSET (1 .. n), s # {}, s \ {c[s]} \in G PROVE s \in G
    <3>1. c[s] \in 1 .. n /\ s \ {c[s]} \in SUBSET (1 .. n)
      BY <1>8, <2>2 DEF Takes
    <3>2. it[s] = WeightAdd(w)[<<it[s \ {c[s]}], c[s]>>]
      BY <1>4, <2>2 DEF Folds
    <3>3. jt[s] = WeightAdd(w)'[<<jt[s \ {d[s]}], d[s]>>]
      BY <1>5, <1>7, <2>2 DEF Folds
    <3>4. it[s \ {c[s]}] \in Nat /\ jt[s \ {c[s]}] = it[s \ {c[s]}]
      BY <2>2, <3>1
    <3>5. QED
      BY <1>6, <1>7, <2>2, <3>1, <3>2, <3>3, <3>4
  <2>3. IsFiniteSet(S) /\ Takes(c, S)
    BY <1>8
  <2>4. \A s \in SUBSET S : s # {} /\ s \ {c[s]} \in G => s \in G
    BY <2>2
  <2>5. \A s \in SUBSET S : s \in G
    <3> HIDE DEF S, G, c
    <3>1. QED
      BY <2>1, <2>3, <2>4, SubsetsOneByOne
  <2>6. QED
    BY <2>5
<1>10. jt[1 .. n + 1] = WeightAdd(w)'[<<jt[1 .. n], n + 1>>]
  <2>1. d[1 .. n + 1] = n + 1 /\ (1 .. n + 1) \ {n + 1} = 1 .. n
    BY <1>2, LastOfAll DEF FromLeft
  <2> DEFINE D == 1 .. n + 1
  <2>2. D # {} /\ D \in SUBSET D
    BY <1>2
  <2>3. jt[D] = WeightAdd(w)'[<<jt[D \ {d[D]}], d[D]>>]
    <3> HIDE DEF D, d
    <3>1. QED
      BY <1>5, <2>2 DEF Folds, D
  <2>4. QED
    BY <2>1, <2>3
<1>11. jt[1 .. n] = Weight(w) /\ Weight(w) \in Nat
  BY <1>4, <1>9
<1>12. WeightAdd(w)'[<<Weight(w), n + 1>>] =
           IF e.node = w THEN Weight(w) + e.shard.bytes ELSE Weight(w)
  BY <1>2, <1>11 DEF WeightAdd
<1>13. QED
  BY <1>5, <1>10, <1>11, <1>12

\* To a worker nothing was given.
NothingGiven == given = <<>>
NoWeights == \A w : Weight(w) = 0

LEMMA NothingWeighs == DispatchTypeOK /\ NothingGiven => NoWeights
<1> SUFFICES ASSUME DispatchTypeOK, given = <<>>, NEW w PROVE Weight(w) = 0
  BY DEF NothingGiven, NoWeights
<1>1. IsWeighed(w)
  BY WeightIsFold DEF AllWeighed
<1>2. PICK it \in [SUBSET (1 .. Len(given)) -> Nat] :
          /\ Folds(it, WeightAdd(w), 0, FromLeft(Len(given)), 1 .. Len(given))
          /\ Weight(w) = it[1 .. Len(given)]
  BY <1>1 DEF IsWeighed
<1>3. 1 .. Len(given) = {}
  OBVIOUS
<1>4. QED
  BY <1>2, <1>3 DEF Folds

\* The weights depend on what was given only.
LEMMA WeightsStay == ASSUME given' = given, NEW w PROVE Weight(w)' = Weight(w)
  BY Zenon DEF Weight, FoldLeft, MapThenFoldSet

-----------------------------------------------------------------------------
\* The shards given, in order.
Shards(gs) == [k \in DOMAIN gs |-> gs[k].shard]

LEMMA ShardsOfGiven ==
    ASSUME NEW gs \in Seq([shard : Shard, node : Worker])
    PROVE  Shards(gs) \in Seq(Shard) /\ Len(Shards(gs)) = Len(gs)
<1>1. Len(gs) \in Nat /\ DOMAIN gs = 1 .. Len(gs)
  OBVIOUS
<1>2. ASSUME NEW k \in 1 .. Len(gs) PROVE gs[k].shard \in Shard
  <2>1. gs[k] \in [shard : Shard, node : Worker]
    BY <1>1, ElementOfSequence
  <2>2. QED
    BY <2>1
<1>3. Shards(gs) \in [1 .. Len(gs) -> Shard]
  BY <1>1, <1>2 DEF Shards
<1>4. QED
  BY <1>1, <1>3

LEMMA ShardsOfOneMore ==
    ASSUME NEW gs \in Seq([shard : Shard, node : Worker]),
           NEW e \in [shard : Shard, node : Worker]
    PROVE  Shards(Append(gs, e)) = Append(Shards(gs), e.shard)
<1>1. Append(gs, e) \in Seq([shard : Shard, node : Worker]) /\ e.shard \in Shard
  BY AppendProperties
<1>2. /\ Shards(Append(gs, e)) \in Seq(Shard) /\ Len(Shards(Append(gs, e))) = Len(gs) + 1
      /\ Shards(gs) \in Seq(Shard) /\ Len(Shards(gs)) = Len(gs)
  BY <1>1, ShardsOfGiven, AppendProperties
<1>3. /\ Append(Shards(gs), e.shard) \in Seq(Shard)
      /\ Len(Append(Shards(gs), e.shard)) = Len(gs) + 1
  BY <1>1, <1>2, AppendProperties
<1>4. ASSUME NEW i \in 1 .. Len(gs) + 1
      PROVE  Shards(Append(gs, e))[i] = Append(Shards(gs), e.shard)[i]
  <2>1. /\ DOMAIN Append(gs, e) = 1 .. Len(gs) + 1 /\ Append(gs, e)[Len(gs) + 1] = e
        /\ DOMAIN gs = 1 .. Len(gs) /\ \A k \in DOMAIN gs : Append(gs, e)[k] = gs[k]
    BY AppendedAtTheEnd
  <2>2. Shards(Append(gs, e))[i] = Append(gs, e)[i].shard
    BY <2>1 DEF Shards
  <2>3. CASE i = Len(gs) + 1
    <3>1. Append(Shards(gs), e.shard)[i] = e.shard
      BY <1>1, <1>2, <2>3, AppendProperties
    <3>2. QED
      BY <2>1, <2>2, <2>3, <3>1
  <2>4. CASE i \in 1 .. Len(gs)
    <3>1. Append(Shards(gs), e.shard)[i] = Shards(gs)[i]
      BY <1>1, <1>2, <2>4, AppendProperties
    <3>2. Shards(gs)[i] = gs[i].shard
      BY <2>1, <2>4 DEF Shards
    <3>3. QED
      BY <2>1, <2>2, <2>4, <3>1, <3>2
  <2>5. i = Len(gs) + 1 \/ i \in 1 .. Len(gs)
    <3>1. Len(gs) \in Nat
      BY LenProperties
    <3>2. QED
      BY <3>1
  <2>6. QED
    BY <2>3, <2>4, <2>5
<1>5. QED
  BY <1>2, <1>3, <1>4, SeqEqual

\* The front of a sequence goes over to the end of the one before it.
LEMMA FrontGoesOver ==
    ASSUME NEW S, NEW s \in Seq(S), NEW t \in Seq(S), t # <<>>
    PROVE  Append(s, Head(t)) \o Tail(t) = s \o t
<1>1. /\ Head(t) \in S /\ Tail(t) \in Seq(S) /\ Len(Tail(t)) = Len(t) - 1
      /\ Len(t) \in Nat \ {0} /\ Len(s) \in Nat
  BY EmptySeq, HeadTailProperties, LenProperties
<1>2. Append(s, Head(t)) = s \o <<Head(t)>> /\ <<Head(t)>> \in Seq(S)
  BY <1>1, AppendIsConcat
<1>3. <<Head(t)>> \o Tail(t) = t
  <2>1. <<Head(t)>> \o Tail(t) \in Seq(S) /\ Len(<<Head(t)>> \o Tail(t)) = Len(t)
    BY <1>1, <1>2, ConcatProperties
  <2>2. ASSUME NEW i \in 1 .. Len(t) PROVE (<<Head(t)>> \o Tail(t))[i] = t[i]
    BY <1>1
  <2>3. QED
    BY <2>1, <2>2, SeqEqual
<1>4. QED
  BY <1>1, <1>2, <1>3, ConcatAssociative
-----------------------------------------------------------------------------
\* The invariant of the dispatcher, and the two parts of EachShardOnce.
InOrder == pushed = Shards(given) \o jobs

Weighed == \A w \in Worker : bytes[w] = Weight(w)

LEMMA EachShardParts == EachShardOnce <=> InOrder /\ Weighed
  BY DEF EachShardOnce, InOrder, Weighed, Shards

LEMMA NoShards ==
    ASSUME NEW t \in Seq(Shard)
    PROVE  Shards(<<>>) \o t = t
<1>1. Shards(<<>>) = <<>>
  BY DEF Shards
<1>2. QED
  BY <1>1, ConcatEmptySeq

LEMMA InitEachShard == DispatchInit => EachShardOnce
<1> SUFFICES ASSUME DispatchInit PROVE InOrder /\ Weighed
  BY EachShardParts
<1>1. InOrder
  <2>1. <<>> \in Seq(Shard)
    OBVIOUS
  <2>2. QED
    BY <2>1, NoShards DEF DispatchInit, InOrder
<1>2. DispatchTypeOK /\ given = <<>>
  BY InitDispatchType DEF DispatchInit
<1>3. \A w \in Worker : bytes[w] = 0
  BY DEF DispatchInit, NoLoad
<1>4. Weighed
  BY <1>2, <1>3, NothingWeighs DEF Weighed, NothingGiven, NoWeights
<1>5. QED
  BY <1>1, <1>4

\* An assignment takes the shard in front to the chosen worker's account.
LEMMA AssignKeepsShards ==
    ASSUME DispatchTypeOK, DispatchTypeOK', AssignNext, InOrder, Weighed
    PROVE  InOrder' /\ Weighed'
<1>1. PICK k \in DOMAIN workers :
          /\ bytes' = [bytes EXCEPT ![workers[k]] = @ + Head(jobs).bytes]
          /\ given' = Append(given, [shard |-> Head(jobs), node |-> workers[k]])
  BY DEF AssignNext
<1> DEFINE e == [shard |-> Head(jobs), node |-> workers[k]]
<1>2. /\ jobs \in Seq(Shard) /\ jobs # <<>> /\ jobs' = Tail(jobs) /\ pushed' = pushed
      /\ given \in Seq([shard : Shard, node : Worker])
      /\ bytes \in [Worker -> Nat]
  BY DEF AssignNext, DispatchTypeOK
<1>3. workers[k] \in Worker
  BY DEF DispatchTypeOK
<1>4. e \in [shard : Shard, node : Worker] /\ e.shard = Head(jobs) /\ e.node = workers[k]
  BY <1>2, <1>3, HeadTailProperties
<1>5. given' = Append(given, e) /\ GivenOneMore(e)
  BY <1>1, <1>4 DEF GivenOneMore
<1>6. InOrder'
  <2>1. Shards(given') = Append(Shards(given), Head(jobs))
    BY <1>2, <1>4, <1>5, ShardsOfOneMore
  <2>2. Shards(given) \in Seq(Shard)
    BY <1>2, ShardsOfGiven
  <2>3. Append(Shards(given), Head(jobs)) \o Tail(jobs) = Shards(given) \o jobs
    BY <1>2, <2>2, FrontGoesOver
  <2>4. QED
    BY <1>2, <2>1, <2>3 DEF InOrder
<1>7. ASSUME NEW w \in Worker PROVE bytes'[w] = Weight(w)'
  <2> HIDE DEF e
  <2>1. Weight(w)' = IF e.node = w THEN Weight(w) + e.shard.bytes ELSE Weight(w)
    BY <1>5, WeightGrows
  <2>2. bytes'[w] = IF w = workers[k] THEN bytes[w] + Head(jobs).bytes ELSE bytes[w]
    BY <1>1, <1>2
  <2>3. bytes[w] = Weight(w)
    BY DEF Weighed
  <2>4. QED
    BY <1>4, <2>1, <2>2, <2>3
<1>8. QED
  BY <1>6, <1>7 DEF Weighed

LEMMA NextEachShard ==
    DispatchTypeOK /\ DispatchTypeOK' /\ EachShardOnce /\ [DispatchNext]_dispatchVars
    => EachShardOnce'
<1> SUFFICES ASSUME DispatchTypeOK, DispatchTypeOK', EachShardOnce,
                    [DispatchNext]_dispatchVars
             PROVE  InOrder' /\ Weighed'
  BY EachShardParts, PTL
<1>1. InOrder /\ Weighed
  BY EachShardParts
<1>2. ASSUME NEW list \in WorkerLists, SetWorkers(list)
      PROVE  InOrder' /\ Weighed'
  <2>1. /\ given' = <<>> /\ pushed' = jobs /\ jobs' = jobs
        /\ bytes' = NoLoad /\ jobs \in Seq(Shard)
    BY <1>2 DEF SetWorkers, DispatchTypeOK
  <2>2. InOrder'
    BY <2>1, NoShards DEF InOrder
  <2>3. NoWeights'
    <3>1. NothingGiven'
      BY <2>1 DEF NothingGiven
    <3>2. QED
      BY <3>1, NothingWeighs, PTL
  <2>4. QED
    BY <2>1, <2>2, <2>3 DEF Weighed, NoWeights, NoLoad
<1>3. ASSUME NEW s \in Shard, PushAll(<<s>>)
      PROVE  InOrder' /\ Weighed'
  <2>1. /\ jobs' = jobs \o <<s>> /\ pushed' = pushed \o <<s>>
        /\ given' = given /\ bytes' = bytes
    BY <1>3 DEF PushAll
  <2>2. (Shards(given) \o jobs) \o <<s>> = Shards(given) \o (jobs \o <<s>>)
    <3>1. jobs \in Seq(Shard) /\ <<s>> \in Seq(Shard)
      BY DEF DispatchTypeOK
    <3>2. Shards(given) \in Seq(Shard)
      BY ShardsOfGiven DEF DispatchTypeOK
    <3>3. QED
      BY <3>1, <3>2, ConcatAssociative
  <2>3. InOrder'
    BY <1>1, <2>1, <2>2 DEF InOrder
  <2>4. Weighed'
    BY <1>1, <2>1, WeightsStay DEF Weighed
  <2>5. QED
    BY <2>3, <2>4
<1>4. CASE AssignNext
  BY <1>1, <1>4, AssignKeepsShards
<1>5. CASE UNCHANGED dispatchVars
  <2>1. jobs' = jobs /\ pushed' = pushed /\ given' = given /\ bytes' = bytes
    BY <1>5 DEF dispatchVars
  <2>2. QED
    BY <1>1, <2>1, WeightsStay DEF InOrder, Weighed
<1>6. QED
  BY <1>2, <1>3, <1>4, <1>5 DEF DispatchNext

\* Whatever is pushed and however often the workers are set anew, every shard
\* pushed is assigned once and in order or waits, and the bytes kept for a
\* worker are those of the shards it was given.
THEOREM EachShardOnceAlways == DispatchSpec => []EachShardOnce
  BY InitDispatchType, NextDispatchType, InitEachShard, NextEachShard, PTL
  DEF DispatchSpec

-----------------------------------------------------------------------------
\* The start of a node.  The configuration in use is that of the .conf file
\* it was started with, and was accepted.

Running == {"self", "peers", "load", "serving"}

ConfigInv ==
    /\ stage \in {"edit", "config", "ended"} \cup Running
    /\ stage \in Running => conf \in ConfFiles /\ cfg = LoadConfig(conf) /\ Accepts(cfg)

\* What the overlay holds on the way: nothing, the node and the neighbors
\* before the next one, all of it.
PeersAdded ==
    /\ next <= Len(cfg.neighbors) + 1
    /\ DOMAIN children = {} /\ parents = [n \in Node |-> <<>>]
    /\ DOMAIN nodes = {cfg.node_id} \cup {cfg.neighbors[i].id : i \in 1 .. next - 1}
    /\ nodes[cfg.node_id].ownedFiles = cfg.assigned_files
    /\ \A n \in DOMAIN nodes \ {cfg.node_id} : nodes[n].ownedFiles = <<>>

Built ==
    /\ ChildrenOf(cfg.node_id) = NeighborIds(cfg)
    /\ \A c \in ToSet(NeighborIds(cfg)) : c \in DOMAIN nodes /\ parents[c] = <<cfg.node_id>>
    /\ \A f \in ToSet(cfg.assigned_files) : owner[f] = cfg.node_id

BuildInv ==
    /\ next \in Nat \ {0}
    /\ stage \in {"config", "self"} => GraphInit /\ next = 1
    /\ stage = "peers" => PeersAdded
    /\ stage \in {"load", "serving"} => Built

\* A file keeps its lines, so that what the store says of it stays true.
DiskInv ==
    /\ disk = [f \in File |-> disk[f]]
    /\ \A f \in File :
           IsFile(disk[f]) /\ (TextLines(disk[f]) # {} => ShardIn(disk[f], f) \in Shard)

\* The store has the entries before the next one that are shards, in their
\* order; one that opens now was there when it was loaded.
FileAt(i) == cfg.assigned_files[i]

Stored ==
    /\ next <= Len(cfg.assigned_files) + 1
    /\ store \in Seq([shard : Shard, order : Nat])
    /\ \A k \in DOMAIN store :
           /\ store[k].order + 1 < next
           /\ FileAt(store[k].order + 1) \in CsvFile
           /\ TextLines(disk[FileAt(store[k].order + 1)]) # {}
           /\ store[k].shard = ShardIn(disk[FileAt(store[k].order + 1)],
                                       FileAt(store[k].order + 1))
    /\ \A j, k \in DOMAIN store : j < k => store[j].order < store[k].order
    /\ \A i \in 1 .. next - 1 :
           IsShard(FileAt(i)) => \E k \in DOMAIN store : store[k].order + 1 = i

LoadInv ==
    /\ stage \notin {"load", "serving"} => store = <<>>
    /\ stage \in {"load", "serving"} => Stored
    /\ stage = "serving" => next = Len(cfg.assigned_files) + 1

CountInv ==
    /\ stage # "serving" => ~counted.known
    /\ counted.known => counted = Answer

DispatchInv == DispatchTypeOK /\ EachShardOnce /\ LoadsStayClose

StartInv == GraphInv /\ ConfigInv /\ BuildInv /\ DiskInv /\ LoadInv /\ CountInv /\ DispatchInv

-----------------------------------------------------------------------------
LEMMA ConfigFacts ==
    ASSUME ConfigInv, stage \in Running
    PROVE  /\ cfg \in Config /\ cfg.readable /\ cfg.node_id \in Node
           /\ cfg.assigned_files \in Seq(File)
           /\ NeighborIds(cfg) \in Seq(Node)
           /\ Len(NeighborIds(cfg)) = Len(cfg.neighbors) /\ Len(cfg.neighbors) \in Nat
           /\ \A i \in 1 .. Len(cfg.neighbors) :
                  /\ NeighborIds(cfg)[i] = cfg.neighbors[i].id
                  /\ cfg.neighbors[i].id \in Node /\ cfg.neighbors[i].id # cfg.node_id
           /\ IsInjective(NeighborIds(cfg))
<1> DEFINE list == cfg.neighbors
<1>1. conf \in ConfFiles /\ cfg = LoadConfig(conf) /\ cfg.readable /\ IsValidConfig(cfg)
  BY DEF ConfigInv, Accepts
<1>2. cfg \in Config /\ AllWritten(cfg)
  BY <1>1, LoadConfigSays DEF SaidBy
<1>3. cfg.node_id \in Node /\ cfg.assigned_files \in Seq(File) /\ list \in Seq(Address)
  BY <1>1, <1>2 DEF Config, IsValidConfig
<1>4. Len(list) \in Nat /\ DOMAIN list = 1 .. Len(list) /\ \A i \in DOMAIN list : list[i] \in Address
  BY <1>3, LenProperties, ElementOfSequence
<1>5. \A i \in DOMAIN list : list[i].id \in Node /\ list[i].id # cfg.node_id
  BY <1>1, <1>2, <1>4 DEF AllWritten, IsNeighbor, Address, IsValidConfig
<1>6. NeighborIds(cfg) = [i \in 1 .. Len(list) |-> list[i].id]
  BY <1>4 DEF NeighborIds
<1>7. NeighborIds(cfg) \in Seq(Node) /\ Len(NeighborIds(cfg)) = Len(list)
  BY <1>4, <1>5, <1>6
<1>8. IsInjective(NeighborIds(cfg))
  <2>1. \A i, j \in 1 .. Len(list) : j < i => list[j].id # list[i].id
    <3> SUFFICES ASSUME NEW i \in 1 .. Len(list), NEW j \in 1 .. Len(list), j < i
                 PROVE  list[j].id # list[i].id
      OBVIOUS
    <3>1. i \in DOMAIN list /\ j \in 1 .. i - 1
      BY <1>4
    <3>2. QED
      BY <1>1, <3>1 DEF IsValidConfig
  <2>2. \A i, j \in 1 .. Len(list) : i = j \/ i < j \/ j < i
    BY <1>4
  <2>3. QED
    BY <1>6, <2>1, <2>2 DEF IsInjective
<1>9. QED
  BY <1>1, <1>2, <1>3, <1>4, <1>5, <1>6, <1>7, <1>8

LEMMA DispatchStep == DispatchInv /\ [DispatchNext]_dispatchVars => DispatchInv'
  BY NextDispatchType, NextStaysClose, NextEachShard DEF DispatchInv

LEMMA StoredTyped ==
    ASSUME Stored, NEW k \in DOMAIN store
    PROVE  store[k].shard \in Shard /\ store[k].order \in Nat
<1> DEFINE T == [shard : Shard, order : Nat]
<1>1. store \in Seq(T)
  BY DEF Stored
<1> HIDE DEF T
<1>2. store[k] \in T
  BY <1>1, ElementOfSequence
<1>3. QED
  BY <1>2 DEF T

LEMMA SameDisk == DiskInv /\ UNCHANGED disk => DiskInv'
  BY DEF DiskInv

LEMMA SameConfig == ConfigInv /\ UNCHANGED <<stage, conf, cfg>> => ConfigInv'
  BY DEF ConfigInv

LEMMA SameBuild == BuildInv /\ UNCHANGED <<stage, next, cfg, graphVars>> => BuildInv'
<1> SUFFICES ASSUME BuildInv, UNCHANGED <<stage, next, cfg, graphVars>> PROVE BuildInv'
  OBVIOUS
<1>1. GraphInit => GraphInit'
  BY DEF GraphInit, graphVars
<1>2. (PeersAdded' <=> PeersAdded) /\ (Built' <=> Built)
  BY DEF PeersAdded, Built, graphVars, ChildrenOf
<1>3. QED
  BY <1>1, <1>2 DEF BuildInv

LEMMA SameLoad == LoadInv /\ UNCHANGED <<stage, next, cfg, store, disk>> => LoadInv'
  BY DEF LoadInv, Stored, FileAt, IsShard

LEMMA SameCount == CountInv /\ UNCHANGED <<stage, store, disk, counted>> => CountInv'
  BY DEF CountInv, Answer, StoreIsValid, Sum, Readable, LinesOf

LEMMA InitStartInv == StartInit => StartInv
<1> SUFFICES ASSUME StartInit PROVE StartInv
  OBVIOUS
<1>1. /\ stage \in {"edit", "config"} /\ GraphInit /\ DispatchInit /\ store = <<>>
      /\ next = 1 /\ counted = NothingCounted
      /\ disk \in IF stage = "edit" THEN {NoFiles} ELSE Disks
  BY DEF StartInit
<1>2. GraphInv
  BY <1>1, InitGraph
<1>3. ConfigInv /\ BuildInv /\ LoadInv /\ CountInv
  BY <1>1 DEF ConfigInv, BuildInv, LoadInv, CountInv, Running, NothingCounted
<1>4. DiskInv
  <2>1. CASE disk = NoFiles
    BY <2>1 DEF DiskInv, NoFiles, IsFile, TextLines
  <2>2. CASE disk \in Disks
    BY <2>2, DiskAssumption DEF DiskInv
  <2>3. QED
    BY <1>1, <2>1, <2>2
<1>5. DispatchInv
  <2>1. DispatchTypeOK /\ EachShardOnce
    BY <1>1, InitDispatchType, InitEachShard
  <2>2. LoadsStayClose
    BY <1>1 DEF DispatchInit, LoadsStayClose
  <2>3. QED
    BY <2>1, <2>2 DEF DispatchInv
<1>6. QED
  BY <1>2, <1>3, <1>4, <1>5 DEF StartInv

LEMMA EditKeeps == StartInv /\ Edit => StartInv'
<1> SUFFICES ASSUME StartInv, Edit PROVE StartInv'
  OBVIOUS
<1>1. stage = "edit" /\ GraphNext /\ UNCHANGED startVars /\ UNCHANGED dispatchVars
  BY DEF Edit
<1>2. UNCHANGED <<stage, conf, cfg, disk, store, next, counted>>
  BY <1>1 DEF startVars
<1>3. GraphInv'
  BY <1>1, GraphNextKeeps DEF StartInv
<1>4. BuildInv'
  BY <1>1, <1>2 DEF StartInv, BuildInv
<1>5. DispatchInv'
  BY <1>1, DispatchStep DEF StartInv
<1>6. ConfigInv' /\ DiskInv' /\ LoadInv' /\ CountInv'
  BY <1>2, SameConfig, SameDisk, SameLoad, SameCount DEF StartInv
<1>7. QED
  BY <1>3, <1>4, <1>5, <1>6 DEF StartInv

LEMMA ReadConfigKeeps == StartInv /\ ReadConfig => StartInv'
<1> SUFFICES ASSUME StartInv, ReadConfig PROVE StartInv'
  OBVIOUS
<1>1. /\ stage = "config" /\ conf' \in ConfFiles /\ cfg' = LoadConfig(conf')
      /\ stage' = IF Accepts(cfg') THEN "self" ELSE "ended"
      /\ UNCHANGED <<disk, store, next, counted>>
      /\ UNCHANGED graphVars /\ UNCHANGED dispatchVars
  BY DEF ReadConfig
<1>2. ConfigInv'
  BY <1>1 DEF ConfigInv, Running
<1>3. GraphInv' /\ DispatchInv' /\ DiskInv'
  BY <1>1, GraphNextKeeps, DispatchStep, SameDisk DEF StartInv
<1>4. GraphInit' /\ next' = 1
  BY <1>1 DEF StartInv, BuildInv, graphVars, GraphInit
<1>5. BuildInv'
  BY <1>1, <1>4 DEF BuildInv
<1>6. LoadInv' /\ CountInv'
  BY <1>1 DEF StartInv, LoadInv, CountInv
<1>7. QED
  BY <1>2, <1>3, <1>5, <1>6 DEF StartInv

LEMMA AddSelfKeeps == StartInv /\ AddSelf => StartInv'
<1> SUFFICES ASSUME StartInv, AddSelf PROVE StartInv'
  OBVIOUS
<1> DEFINE info == [isEntryNode |-> cfg.node_id = "A", ownedFiles |-> cfg.assigned_files]
<1>1. /\ stage = "self" /\ AddNode(cfg.node_id, info) /\ stage' = "peers"
      /\ UNCHANGED <<conf, cfg, disk, store, next, counted>> /\ UNCHANGED dispatchVars
  BY DEF AddSelf
<1>2. /\ cfg.node_id \in Node /\ cfg.assigned_files \in Seq(File)
      /\ Len(cfg.neighbors) \in Nat
  BY <1>1, ConfigFacts DEF StartInv, Running
<1>3. info \in NodeInfo
  BY <1>2, ElementsOf DEF NodeInfo
<1>4. GraphInv'
  <2> HIDE DEF info
  <2>1. QED
    BY <1>1, <1>2, <1>3, AddNodeKeeps DEF StartInv
<1>5. DispatchInv' /\ DiskInv'
  BY <1>1, DispatchStep, SameDisk DEF StartInv
<1>6. ConfigInv' /\ LoadInv' /\ CountInv'
  BY <1>1 DEF StartInv, ConfigInv, Running, LoadInv, CountInv
<1>7. BuildInv'
  <2>1. GraphInit /\ next = 1
    BY <1>1 DEF StartInv, BuildInv
  <2>2. nodes' = With(nodes, cfg.node_id, info) /\ UNCHANGED <<children, parents>>
    BY <1>1 DEF AddNode
  <2>3. DOMAIN nodes = {} /\ DOMAIN children = {} /\ parents = [n \in Node |-> <<>>]
    BY <2>1 DEF GraphInit
  <2>4. DOMAIN nodes' = {cfg.node_id} /\ nodes'[cfg.node_id].ownedFiles = cfg.assigned_files
    BY <2>2, <2>3 DEF With
  <2>5. DOMAIN nodes' = {cfg'.node_id} \cup {cfg'.neighbors[i].id : i \in 1 .. next' - 1}
    <3>1. next' - 1 = 0 /\ 1 .. 0 = {}
      BY <1>1, <2>1
    <3>2. {cfg'.neighbors[i].id : i \in 1 .. next' - 1} = {}
      BY <3>1
    <3>3. QED
      BY <1>1, <2>4, <3>2
  <2>6. PeersAdded'
    <3>1. next' <= Len(cfg'.neighbors) + 1
      BY <1>1, <1>2, <2>1
    <3>2. DOMAIN children' = {} /\ parents' = [n \in Node |-> <<>>]
      BY <2>2, <2>3
    <3>3. /\ nodes'[cfg'.node_id].ownedFiles = cfg'.assigned_files
          /\ \A n \in DOMAIN nodes' \ {cfg'.node_id} : nodes'[n].ownedFiles = <<>>
      BY <1>1, <2>4
    <3>4. QED
      BY <2>5, <3>1, <3>2, <3>3 DEF PeersAdded
  <2>7. QED
    BY <1>1, <2>1, <2>6 DEF BuildInv
<1>8. QED
  BY <1>4, <1>5, <1>6, <1>7 DEF StartInv

LEMMA AddPeerKeeps == StartInv /\ AddPeer => StartInv'
<1> SUFFICES ASSUME StartInv, AddPeer PROVE StartInv'
  OBVIOUS
<1> DEFINE info == [isEntryNode |-> FALSE, ownedFiles |-> <<>>]
           id == cfg.neighbors[next].id
<1>1. /\ stage = "peers" /\ next <= Len(cfg.neighbors) /\ AddNode(id, info)
      /\ next' = next + 1
      /\ UNCHANGED <<stage, conf, cfg, disk, store, counted>> /\ UNCHANGED dispatchVars
  BY DEF AddPeer
<1>2. next \in 1 .. Len(cfg.neighbors) /\ Len(cfg.neighbors) \in Nat
  BY <1>1, ConfigFacts DEF StartInv, Running, BuildInv
<1>3. id \in Node /\ id # cfg.node_id
  BY <1>1, <1>2, ConfigFacts DEF StartInv, Running
<1>4. info \in NodeInfo
  BY DEF NodeInfo
<1>5. GraphInv'
  <2> HIDE DEF info, id
  <2>1. QED
    BY <1>1, <1>3, <1>4, AddNodeKeeps DEF StartInv
<1>6. DispatchInv' /\ DiskInv' /\ ConfigInv' /\ CountInv'
  BY <1>1, DispatchStep, SameDisk, SameConfig, SameCount DEF StartInv
<1>7. LoadInv'
  BY <1>1 DEF StartInv, LoadInv
<1>8. BuildInv'
  <2>1. PeersAdded
    BY <1>1 DEF StartInv, BuildInv
  <2>2. nodes' = With(nodes, id, info) /\ UNCHANGED <<children, parents>>
    BY <1>1 DEF AddNode
  <2> HIDE DEF info, id
  <2>3. /\ DOMAIN nodes' = DOMAIN nodes \cup {id} /\ nodes'[id] = info
        /\ \A n \in DOMAIN nodes : n # id => nodes'[n] = nodes[n]
    BY <2>2 DEF With
  <2>4. {cfg.neighbors[i].id : i \in 1 .. next} = {cfg.neighbors[i].id : i \in 1 .. next - 1} \cup {id}
    <3>1. 1 .. next = (1 .. next - 1) \cup {next}
      BY <1>2
    <3>2. QED
      BY <3>1 DEF id
  <2>5. next' \in Nat \ {0} /\ next' - 1 = next /\ next' <= Len(cfg.neighbors) + 1
    BY <1>1, <1>2
  <2>6. DOMAIN nodes' = {cfg.node_id} \cup {cfg.neighbors[i].id : i \in 1 .. next}
    BY <2>1, <2>3, <2>4 DEF PeersAdded
  <2>7. nodes'[cfg.node_id].ownedFiles = cfg.assigned_files
    BY <1>3, <2>1, <2>3 DEF PeersAdded
  <2>8. \A n \in DOMAIN nodes' \ {cfg.node_id} : nodes'[n].ownedFiles = <<>>
    BY <2>1, <2>3 DEF PeersAdded, info
  <2>9. PeersAdded'
    BY <1>1, <2>1, <2>2, <2>5, <2>6, <2>7, <2>8 DEF PeersAdded
  <2>10. QED
    BY <1>1, <2>5, <2>9 DEF BuildInv
<1>9. QED
  BY <1>5, <1>6, <1>7, <1>8 DEF StartInv

\* With the last neighbor added, every file the node owns is its alone.
LEMMA OwnsAlone ==
    ASSUME GraphInv, PeersAdded, cfg.node_id \in Node, cfg.assigned_files \in Seq(File),
           NEW f \in ToSet(cfg.assigned_files)
    PROVE  owner[f] = cfg.node_id
<1>1. f \in File
  BY ElementsOf
<1>2. cfg.node_id \in DOMAIN nodes /\ f \in ToSet(nodes[cfg.node_id].ownedFiles)
  BY DEF PeersAdded
<1>3. cfg.node_id \in Owners(f)
  BY <1>2 DEF Owners
<1>4. owner[f] \in Owners(f)
  BY <1>1, <1>3 DEF GraphInv, IndexesAreCurrent
<1>5. \A n \in Owners(f) : n = cfg.node_id
  BY DEF Owners, PeersAdded, ToSet
<1>6. QED
  BY <1>4, <1>5

LEMMA AddChildrenKeeps == StartInv /\ AddChildren => StartInv'
<1> SUFFICES ASSUME StartInv, AddChildren PROVE StartInv'
  OBVIOUS
<1> DEFINE self == cfg.node_id
           list == NeighborIds(cfg)
<1>1. /\ stage = "peers" /\ next = Len(cfg.neighbors) + 1 /\ SetChildren(self, list)
      /\ SetSelfNodeId(self) /\ stage' = "load" /\ next' = 1
      /\ UNCHANGED <<conf, cfg, disk, store, counted>> /\ UNCHANGED dispatchVars
  BY DEF AddChildren
<1>2. /\ self \in Node /\ cfg.assigned_files \in Seq(File) /\ list \in Seq(Node)
      /\ Len(list) = Len(cfg.neighbors) /\ Len(list) \in Nat /\ IsInjective(list)
      /\ \A i \in 1 .. Len(list) : list[i] = cfg.neighbors[i].id /\ list[i] # self
  BY <1>1, ConfigFacts DEF StartInv, Running
<1> HIDE DEF self, list
<1>3. GraphInv'
  BY <1>1, <1>2, SetChildrenKeeps DEF StartInv, SetSelfNodeId
<1>4. DispatchInv' /\ DiskInv'
  BY <1>1, DispatchStep, SameDisk DEF StartInv
<1>5. ConfigInv' /\ CountInv'
  BY <1>1 DEF StartInv, ConfigInv, Running, CountInv
<1>6. LoadInv'
  <2>1. store = <<>> /\ store' = <<>>
    BY <1>1 DEF StartInv, LoadInv
  <2>2. Len(cfg'.assigned_files) \in Nat
    BY <1>1, <1>2
  <2>3. next' <= Len(cfg'.assigned_files) + 1
    BY <1>1, <2>2
  <2>4. Stored'
    BY <1>1, <2>1, <2>3 DEF Stored
  <2>5. QED
    BY <1>1, <2>4 DEF LoadInv
<1>7. BuildInv'
  <2>1. PeersAdded
    BY <1>1 DEF StartInv, BuildInv
  <2>2. ChildrenOf(self)' = list
    <3>1. self' = self
      BY <1>1 DEF self
    <3>2. self \in DOMAIN children' /\ children'[self] = list
      BY <1>1 DEF SetChildren, With
    <3>3. QED
      BY <3>1, <3>2 DEF ChildrenOf
  <2>3. nodes' = nodes /\ owner' = owner
    BY <1>1 DEF SetChildren
  <2>4. ASSUME NEW c \in ToSet(list)
        PROVE  c \in DOMAIN nodes' /\ parents'[c] = <<self>>
    <3>1. PICK i \in 1 .. Len(list) : c = list[i]
      BY <1>2, <2>4 DEF ToSet
    <3>2. c \in DOMAIN nodes
      <4>1. i \in 1 .. next - 1 /\ c = cfg.neighbors[i].id
        BY <1>1, <1>2, <3>1
      <4>2. {cfg.neighbors[j].id : j \in 1 .. next - 1} \subseteq DOMAIN nodes
        BY <2>1 DEF PeersAdded
      <4>3. QED
        BY <4>1, <4>2
    <3>3. c \in Node
      BY <1>2, <2>4, ElementsOf
    <3>4. parents[c] = <<>> /\ ~Edge(self, c)
      BY <2>1, <3>3 DEF PeersAdded, Edge, ChildrenOf, ToSet
    <3>5. WithoutIncoming(self)[c] = <<>>
      BY <1>2, <3>3, <3>4, WithoutIncomingIs DEF StartInv
    <3>6. self \notin ToSet(<<>>)
      BY DEF ToSet
    <3>7. parents'[c] = Append(<<>>, self)
      BY <1>1, <2>4, <3>3, <3>5, <3>6 DEF SetChildren
    <3>8. QED
      BY <2>3, <3>2, <3>7
  <2>5. \A f \in ToSet(cfg.assigned_files) : owner'[f] = self
    BY <1>2, <2>1, <2>3, OwnsAlone DEF StartInv, self
  <2>6. cfg' = cfg /\ self' = self /\ list' = list
    BY <1>1 DEF self, list
  <2>7. Built'
    <3>1. ChildrenOf(cfg.node_id)' = NeighborIds(cfg')
      BY <1>1, <2>2, <2>6 DEF self, list
    <3>2. QED
      BY <1>1, <2>4, <2>5, <2>6, <3>1 DEF Built, self, list
  <2>8. QED
    BY <1>1, <2>7 DEF BuildInv
<1>8. QED
  BY <1>3, <1>4, <1>5, <1>6, <1>7 DEF StartInv

LEMMA LoadFileKeeps == StartInv /\ LoadFile => StartInv'
<1> SUFFICES ASSUME StartInv, LoadFile PROVE StartInv'
  OBVIOUS
<1> DEFINE f == cfg.assigned_files[next]
           m == [shard |-> ShardIn(disk[f], f), order |-> next - 1]
<1>1. /\ stage = "load" /\ next <= Len(cfg.assigned_files) /\ next' = next + 1
      /\ IF IsShard(f) THEN store' = Append(store, m) ELSE store' = store
      /\ UNCHANGED <<stage, conf, cfg, disk, counted>>
      /\ UNCHANGED graphVars /\ UNCHANGED dispatchVars
  BY DEF LoadFile
<1>2. cfg.assigned_files \in Seq(File) /\ Len(cfg.assigned_files) \in Nat
  BY <1>1, ConfigFacts DEF StartInv, Running
<1>3. next \in 1 .. Len(cfg.assigned_files) /\ Stored /\ Built
  BY <1>1, <1>2 DEF StartInv, BuildInv, LoadInv
<1>4. f \in File /\ FileAt(next) = f
  BY <1>2, <1>3, ElementOfSequence DEF FileAt
<1>5. GraphInv' /\ DispatchInv' /\ DiskInv' /\ ConfigInv'
  BY <1>1, GraphNextKeeps, DispatchStep, SameDisk, SameConfig DEF StartInv
<1>6. CountInv'
  BY <1>1 DEF StartInv, CountInv
<1>7. BuildInv'
  <2>1. Built'
    BY <1>1, <1>3 DEF Built, ChildrenOf, graphVars
  <2>2. QED
    BY <1>1, <1>3, <2>1 DEF BuildInv
<1>8. next' <= Len(cfg'.assigned_files) + 1 /\ next' - 1 = next
  BY <1>1, <1>2, <1>3
<1>9. \A i : FileAt(i)' = FileAt(i)
  BY <1>1 DEF FileAt
<1>10. \A g : IsShard(g)' <=> IsShard(g)
  BY <1>1 DEF IsShard
<1> HIDE DEF f, m
<1> DEFINE T == [shard : Shard, order : Nat]
           IsOf(e) == /\ FileAt(e.order + 1) \in CsvFile
                      /\ TextLines(disk[FileAt(e.order + 1)]) # {}
                      /\ e.shard = ShardIn(disk[FileAt(e.order + 1)], FileAt(e.order + 1))
<1>11. /\ store \in Seq(T)
       /\ \A k \in DOMAIN store : store[k].order + 1 < next /\ IsOf(store[k])
       /\ \A j, k \in DOMAIN store : j < k => store[j].order < store[k].order
       /\ \A i \in 1 .. next - 1 :
              IsShard(FileAt(i)) => \E k \in DOMAIN store : store[k].order + 1 = i
  BY <1>3 DEF Stored
<1>12. \A i \in 1 .. next : i \in 1 .. next - 1 \/ i = next
  BY <1>3
<1>13. Len(store) \in Nat /\ DOMAIN store = 1 .. Len(store) /\ \A k \in DOMAIN store : store[k] \in T
  BY <1>11, LenProperties, ElementOfSequence
<1>14. CASE IsShard(f)
  <2>1. m \in T /\ m.order + 1 = next /\ m.order \in Nat /\ IsOf(m)
    <3>1. next - 1 \in Nat /\ next - 1 + 1 = next
      BY <1>3
    <3>2. f \in CsvFile /\ TextLines(disk[f]) # {} /\ ShardIn(disk[f], f) \in Shard
      BY <1>4, <1>14 DEF IsShard, StartInv, DiskInv
    <3>3. m.shard = ShardIn(disk[f], f) /\ m.order = next - 1
      BY DEF m
    <3>4. m \in T
      BY <3>1, <3>2 DEF m
    <3>5. QED
      BY <1>4, <3>1, <3>2, <3>3, <3>4
  <2>2. store' = Append(store, m)
    BY <1>1, <1>14
  <2> DEFINE n == Len(store) + 1
  <2> HIDE DEF T, IsOf
  <2>3. /\ store' \in Seq(T) /\ DOMAIN store' = 1 .. n /\ store'[n] = m
        /\ \A k \in DOMAIN store : k \in DOMAIN store' /\ store'[k] = store[k]
    BY <1>11, <2>1, <2>2, AppendedAtTheEnd, AppendProperties
  <2>4. \A k \in DOMAIN store' : k \in DOMAIN store \/ k = n
    BY <1>13, <2>3
  <2>5. \A k \in DOMAIN store' : store'[k].order + 1 < next + 1 /\ IsOf(store'[k])
    <3> SUFFICES ASSUME NEW k \in DOMAIN store'
                 PROVE  store'[k].order + 1 < next + 1 /\ IsOf(store'[k])
      OBVIOUS
    <3>1. CASE k \in DOMAIN store
      <4>1. store[k].order \in Nat
        BY <1>13, <3>1 DEF T
      <4>2. QED
        BY <1>3, <1>11, <2>3, <3>1, <4>1
    <3>2. CASE k = n
      BY <1>3, <2>1, <2>3, <3>2
    <3>3. QED
      BY <2>4, <3>1, <3>2
  <2>6. \A j, k \in DOMAIN store' : j < k => store'[j].order < store'[k].order
    <3> SUFFICES ASSUME NEW j \in DOMAIN store', NEW k \in DOMAIN store', j < k
                 PROVE  store'[j].order < store'[k].order
      OBVIOUS
    <3>1. j \in DOMAIN store
      BY <1>13, <2>3, <2>4
    <3>2. CASE k \in DOMAIN store
      BY <1>11, <2>3, <3>1, <3>2
    <3>3. CASE k = n
      <4>1. store[j].order \in Nat /\ store[j].order + 1 < next
        BY <1>11, <1>13, <3>1 DEF T
      <4>2. QED
        BY <1>3, <2>1, <2>3, <3>1, <3>3, <4>1
    <3>4. QED
      BY <2>4, <3>2, <3>3
  <2>7. \A i \in 1 .. next :
            IsShard(FileAt(i)) => \E k \in DOMAIN store' : store'[k].order + 1 = i
    <3> SUFFICES ASSUME NEW i \in 1 .. next, IsShard(FileAt(i))
                 PROVE  \E k \in DOMAIN store' : store'[k].order + 1 = i
      OBVIOUS
    <3>1. CASE i \in 1 .. next - 1
      BY <1>11, <2>3, <3>1
    <3>2. CASE i = next
      <4>1. n \in DOMAIN store'
        BY <1>13, <2>3
      <4>2. QED
        BY <2>1, <2>3, <3>2, <4>1
    <3>3. QED
      BY <1>12, <3>1, <3>2
  <2>8. Stored'
    BY <1>1, <1>8, <1>9, <1>10, <2>3, <2>5, <2>6, <2>7 DEF Stored, T, IsOf
  <2>9. QED
    BY <1>1, <1>5, <1>6, <1>7, <2>8 DEF StartInv, LoadInv
<1>15. CASE ~IsShard(f)
  <2>1. store' = store
    BY <1>1, <1>15
  <2>2. \A k \in DOMAIN store : store[k].order + 1 < next + 1
    BY <1>3, <1>11, <1>13
  <2>3. \A i \in 1 .. next :
            IsShard(FileAt(i)) => \E k \in DOMAIN store : store[k].order + 1 = i
    BY <1>4, <1>11, <1>12, <1>15
  <2>4. Stored'
    BY <1>1, <1>8, <1>9, <1>10, <1>11, <2>1, <2>2, <2>3 DEF Stored
  <2>5. QED
    BY <1>1, <1>5, <1>6, <1>7, <2>4 DEF StartInv, LoadInv
<1>16. QED
  BY <1>14, <1>15

LEMMA ServeKeeps == StartInv /\ Serve => StartInv'
<1> SUFFICES ASSUME StartInv, Serve PROVE StartInv'
  OBVIOUS
<1>1. /\ stage = "load" /\ next = Len(cfg.assigned_files) + 1 /\ stage' = "serving"
      /\ UNCHANGED <<conf, cfg, disk, store, next, counted>>
      /\ UNCHANGED graphVars /\ UNCHANGED dispatchVars
  BY DEF Serve
<1>2. GraphInv' /\ DispatchInv' /\ DiskInv'
  BY <1>1, GraphNextKeeps, DispatchStep, SameDisk DEF StartInv
<1>3. ConfigInv' /\ CountInv'
  BY <1>1 DEF StartInv, ConfigInv, Running, CountInv
<1>4. Built /\ next \in Nat \ {0} /\ Stored
  BY <1>1 DEF StartInv, BuildInv, LoadInv
<1>5. Built'
  BY <1>1, <1>4 DEF Built, ChildrenOf, graphVars
<1>6. Stored'
  BY <1>1, <1>4 DEF Stored, FileAt, IsShard
<1>7. BuildInv' /\ LoadInv'
  BY <1>1, <1>4, <1>5, <1>6 DEF BuildInv, LoadInv
<1>8. QED
  BY <1>2, <1>3, <1>7 DEF StartInv

LEMMA CountKeeps == StartInv /\ Count => StartInv'
<1> SUFFICES ASSUME StartInv, Count PROVE StartInv'
  OBVIOUS
<1>1. /\ stage = "serving" /\ counted' = Answer
      /\ UNCHANGED <<stage, conf, cfg, disk, store, next>>
      /\ UNCHANGED graphVars /\ UNCHANGED dispatchVars
  BY DEF Count
<1>2. GraphInv' /\ DispatchInv' /\ DiskInv' /\ ConfigInv' /\ BuildInv' /\ LoadInv'
  BY <1>1, GraphNextKeeps, DispatchStep, SameDisk, SameConfig, SameBuild, SameLoad
  DEF StartInv
<1>3. Answer' = Answer
  BY <1>1 DEF Answer, StoreIsValid, Sum, Readable, LinesOf
<1>4. CountInv'
  BY <1>1, <1>3 DEF CountInv
<1>5. QED
  BY <1>2, <1>4 DEF StartInv

LEMMA DispatchKeeps == StartInv /\ Dispatch => StartInv'
<1> SUFFICES ASSUME StartInv, Dispatch PROVE StartInv'
  OBVIOUS
<1>1. /\ stage = "serving" /\ UNCHANGED startVars /\ UNCHANGED graphVars
      /\ \/ \E list \in WorkerLists : SetWorkers(list)
         \/ \E k \in DOMAIN store : PushAll(<<store[k].shard>>)
         \/ AssignNext
  BY DEF Dispatch
<1>2. UNCHANGED <<stage, conf, cfg, disk, store, next, counted>>
  BY <1>1 DEF startVars
<1>3. GraphInv' /\ DiskInv' /\ ConfigInv' /\ BuildInv' /\ LoadInv' /\ CountInv'
  BY <1>1, <1>2, GraphNextKeeps, SameDisk, SameConfig, SameBuild, SameLoad, SameCount
  DEF StartInv
<1>4. \A k \in DOMAIN store : store[k].shard \in Shard
  BY <1>1, StoredTyped DEF StartInv, LoadInv
<1>5. DispatchNext
  BY <1>1, <1>4 DEF DispatchNext
<1>6. DispatchInv'
  BY <1>5, DispatchStep DEF StartInv
<1>7. QED
  BY <1>3, <1>6 DEF StartInv

LEMMA RemoveFileKeeps ==
    ASSUME StartInv, NEW r \in File, RemoveFile(r)
    PROVE  StartInv'
<1>1. /\ stage = "serving" /\ disk' = [disk EXCEPT ![r].present = FALSE]
      /\ counted' = NothingCounted
      /\ UNCHANGED <<stage, conf, cfg, store, next>>
      /\ UNCHANGED graphVars /\ UNCHANGED dispatchVars
  BY DEF RemoveFile
<1>2. GraphInv' /\ DispatchInv' /\ ConfigInv' /\ BuildInv'
  BY <1>1, GraphNextKeeps, DispatchStep, SameConfig, SameBuild DEF StartInv
<1>3. CountInv'
  BY <1>1 DEF CountInv, NothingCounted
<1>4. disk = [f \in File |-> disk[f]] /\ \A f \in File : IsFile(disk[f])
  BY DEF StartInv, DiskInv
<1>5. /\ disk' = [f \in File |-> disk'[f]]
      /\ \A f \in File : /\ IsFile(disk'[f]) /\ disk'[f].lines = disk[f].lines
                         /\ disk'[f].present => disk[f].present
  BY <1>1, <1>4 DEF IsFile
<1>6. \A f \in File : TextLines(disk'[f]) = TextLines(disk[f])
                      /\ ShardIn(disk'[f], f) = ShardIn(disk[f], f)
  BY <1>5 DEF TextLines, ShardIn
<1>7. DiskInv'
  BY <1>5, <1>6 DEF StartInv, DiskInv
<1>8. Stored
  BY <1>1 DEF StartInv, LoadInv
<1>9. cfg.assigned_files \in Seq(File) /\ Len(cfg.assigned_files) \in Nat
  BY <1>1, ConfigFacts DEF StartInv, Running
<1>10. \A i \in 1 .. Len(cfg.assigned_files) : FileAt(i) \in File /\ FileAt(i)' = FileAt(i)
  BY <1>1, <1>9, ElementOfSequence DEF FileAt
<1>11. next \in Nat \ {0} /\ next <= Len(cfg.assigned_files) + 1
  BY <1>8 DEF StartInv, BuildInv, Stored
<1>12. Stored'
  <2>1. ASSUME NEW k \in DOMAIN store
        PROVE  store[k].order + 1 \in 1 .. Len(cfg.assigned_files)
    <3>1. store[k].order \in Nat /\ store[k].order + 1 < next
      BY <1>8, StoredTyped DEF Stored
    <3>2. QED
      BY <1>9, <1>11, <3>1
  <2>2. ASSUME NEW k \in DOMAIN store
        PROVE  LET f == FileAt(store[k].order + 1)'
               IN  /\ f \in CsvFile /\ TextLines(disk'[f]) # {}
                   /\ store[k].shard = ShardIn(disk'[f], f)
    <3> DEFINE g == FileAt(store[k].order + 1)
    <3>1. g \in CsvFile /\ TextLines(disk[g]) # {} /\ store[k].shard = ShardIn(disk[g], g)
      BY <1>8 DEF Stored
    <3>2. g \in File /\ FileAt(store[k].order + 1)' = g
      BY <1>1, <1>10, <2>1 DEF FileAt
    <3> HIDE DEF g
    <3>3. QED
      BY <1>6, <3>1, <3>2
  <2>3. ASSUME NEW i \in 1 .. next - 1, IsShard(FileAt(i))'
        PROVE  \E k \in DOMAIN store : store[k].order + 1 = i
    <3>1. FileAt(i) \in File /\ FileAt(i)' = FileAt(i)
      BY <1>9, <1>10, <1>11
    <3>2. IsShard(FileAt(i))
      BY <1>5, <1>6, <2>3, <3>1 DEF IsShard
    <3>3. QED
      BY <1>8, <3>2 DEF Stored
  <2>4. QED
    BY <1>1, <1>8, <2>2, <2>3 DEF Stored
<1>13. LoadInv'
  BY <1>1, <1>12 DEF StartInv, LoadInv
<1>14. QED
  BY <1>2, <1>3, <1>7, <1>13 DEF StartInv

LEMMA NextStartInv == StartInv /\ [StartNext]_allVars => StartInv'
<1> SUFFICES ASSUME StartInv, [StartNext]_allVars PROVE StartInv'
  OBVIOUS
<1>1. CASE UNCHANGED allVars
  <2>1. /\ UNCHANGED <<stage, conf, cfg, disk, store, next, counted>>
        /\ UNCHANGED graphVars /\ UNCHANGED dispatchVars
    BY <1>1 DEF allVars, startVars
  <2>2. QED
    BY <2>1, GraphNextKeeps, DispatchStep, SameDisk, SameConfig, SameBuild, SameLoad,
       SameCount DEF StartInv
<1>2. QED
  BY <1>1, EditKeeps, ReadConfigKeeps, AddSelfKeeps, AddPeerKeeps, AddChildrenKeeps,
     LoadFileKeeps, ServeKeeps, CountKeeps, DispatchKeeps, RemoveFileKeeps DEF StartNext

\* What holds of a node from its .conf file to its last answer.
THEOREM StartInvariant == StartSpec => []StartInv
  BY InitStartInv, NextStartInv, PTL DEF StartSpec

\* Whatever the .conf file, a node that loads or serves has the overlay it
\* describes.
THEOREM NodeBuiltAsConfigured == StartSpec => []BuiltAsConfigured
<1>1. StartInv => BuiltAsConfigured
  <2> SUFFICES ASSUME StartInv, stage \in {"load", "serving"}
               PROVE  LET self == Says("node_id", "")
                          list == ChildrenOf(self)
                      IN  /\ list = [k \in DOMAIN Says("neighbors", <<>>) |->
                                        Says("neighbors", <<>>)[k].id]
                          /\ IsInjective(list)
                          /\ \A c \in ToSet(list) :
                                 c # self /\ c \in DOMAIN nodes /\ parents[c] = <<self>>
                          /\ \A f \in ToSet(Says("assigned_files", <<>>)) : owner[f] = self
    BY DEF BuiltAsConfigured
  <2>1. stage \in Running /\ Built
    BY DEF StartInv, BuildInv, Running
  <2>2. conf \in ConfFiles /\ cfg = LoadConfig(conf) /\ cfg.readable
    BY <2>1 DEF StartInv, ConfigInv, Accepts
  <2>3. /\ cfg.node_id = Says("node_id", "") /\ cfg.neighbors = Says("neighbors", <<>>)
        /\ cfg.assigned_files = Says("assigned_files", <<>>)
    <3>1. /\ cfg["node_id"] = Says("node_id", EmptyConfig["node_id"])
          /\ cfg["neighbors"] = Says("neighbors", EmptyConfig["neighbors"])
          /\ cfg["assigned_files"] = Says("assigned_files", EmptyConfig["assigned_files"])
      BY <2>2, ConfigSays DEF Keys
    <3>2. /\ EmptyConfig["node_id"] = "" /\ EmptyConfig["neighbors"] = <<>>
          /\ EmptyConfig["assigned_files"] = <<>>
      BY DEF EmptyConfig
    <3>3. QED
      BY <3>1, <3>2
  <2>4. /\ IsInjective(NeighborIds(cfg))
        /\ Len(NeighborIds(cfg)) = Len(cfg.neighbors)
        /\ NeighborIds(cfg) \in Seq(Node)
        /\ \A i \in 1 .. Len(cfg.neighbors) :
               NeighborIds(cfg)[i] = cfg.neighbors[i].id /\ cfg.neighbors[i].id # cfg.node_id
    BY <2>1, ConfigFacts DEF StartInv
  <2>5. \A c \in ToSet(NeighborIds(cfg)) : c # cfg.node_id
    <3> DEFINE ids == NeighborIds(cfg)
    <3>1. DOMAIN ids = 1 .. Len(ids)
      BY <2>4, LenProperties
    <3> HIDE DEF ids
    <3>2. QED
      BY <2>4, <3>1 DEF ToSet, ids
  <2>6. NeighborIds(cfg) = [k \in DOMAIN cfg.neighbors |-> cfg.neighbors[k].id]
    BY DEF NeighborIds
  <2>7. ChildrenOf(cfg.node_id) = NeighborIds(cfg)
    BY <2>1 DEF Built
  <2>8. QED
    BY <2>1, <2>3, <2>4, <2>5, <2>6, <2>7 DEF Built
<1>2. QED
  BY <1>1, StartInvariant, PTL

-----------------------------------------------------------------------------
\* COUNT.

LEMMA LinesAreFinite ==
    ASSUME DiskInv, NEW f \in File, NEW kinds
    PROVE  /\ IsFiniteSet(DOMAIN disk[f].lines)
           /\ IsFiniteSet(LinesOf(f, kinds)) /\ Cardinality(LinesOf(f, kinds)) \in Nat
           /\ IsFiniteSet(TextLines(disk[f])) /\ Cardinality(TextLines(disk[f])) \in Nat
<1>1. disk[f].lines \in Seq(LineKind)
  BY DEF DiskInv, IsFile
<1>2. IsFiniteSet(DOMAIN disk[f].lines)
  <2> DEFINE s == disk[f].lines
  <2> HIDE DEF s
  <2>1. Len(s) \in Nat /\ DOMAIN s = 1 .. Len(s)
    BY <1>1, LenProperties DEF s
  <2>2. IsFiniteSet(1 .. Len(s))
    BY <2>1, FS_Interval
  <2> QED
    BY <2>1, <2>2 DEF s
<1>3. LinesOf(f, kinds) \in SUBSET DOMAIN disk[f].lines
      /\ TextLines(disk[f]) \in SUBSET DOMAIN disk[f].lines
  BY DEF LinesOf, TextLines
<1>4. QED
  BY <1>2, <1>3, FS_Subset, FS_CardinalityType

\* What the store says of each of its shards.
LEMMA StoreFacts ==
    ASSUME StartInv, stage = "serving", NEW k \in DOMAIN store
    PROVE  LET i == store[k].order + 1
               f == FileAt(i)
           IN  /\ i \in 1 .. Len(cfg.assigned_files) /\ f \in File
               /\ f \in ToSet(cfg.assigned_files) /\ f \in CsvFile
               /\ store[k].shard.file = f
               /\ store[k].shard.trips = Cardinality(TextLines(disk[f]))
               /\ store[k].shard.trips \in Nat \ {0}
               /\ store[k].shard.bytes \in Nat \ {0}
<1> DEFINE i == store[k].order + 1
           f == FileAt(i)
<1>1. Stored /\ next = Len(cfg.assigned_files) + 1 /\ DiskInv
  BY DEF StartInv, LoadInv
<1>2. cfg.assigned_files \in Seq(File) /\ Len(cfg.assigned_files) \in Nat
  BY ConfigFacts DEF StartInv, Running
<1>3. store[k].order \in Nat /\ i < next
  BY <1>1, StoredTyped DEF Stored
<1>4. i \in 1 .. Len(cfg.assigned_files)
  BY <1>1, <1>2, <1>3
<1>5. f \in File /\ f \in ToSet(cfg.assigned_files)
  <2>1. i \in DOMAIN cfg.assigned_files
    BY <1>2, <1>4, LenProperties
  <2>2. QED
    BY <1>2, <2>1, ElementOfSequence DEF FileAt, ToSet
<1>6. f \in CsvFile /\ TextLines(disk[f]) # {} /\ store[k].shard = ShardIn(disk[f], f)
  BY <1>1 DEF Stored
<1> HIDE DEF f, i
<1>7. /\ store[k].shard.file = f /\ store[k].shard.bytes = 1 + Len(disk[f].lines)
      /\ store[k].shard.trips = Cardinality(TextLines(disk[f]))
  BY <1>6 DEF ShardIn
<1>8. Cardinality(TextLines(disk[f])) \in Nat \ {0}
  BY <1>1, <1>5, <1>6, LinesAreFinite, FS_EmptySet
<1>9. Len(disk[f].lines) \in Nat
  <2>1. disk[f].lines \in Seq(LineKind)
    BY <1>1, <1>5 DEF DiskInv, IsFile
  <2>2. QED
    BY <2>1, LenProperties
<1>10. QED
  BY <1>4, <1>5, <1>6, <1>7, <1>8, <1>9 DEF f, i

\* What a scan of the store finds of some kinds of lines, shard by shard.
Found(kinds) ==
    [k \in DOMAIN store |->
        LET f == store[k].shard.file
        IN  IF Readable(f) THEN Cardinality(LinesOf(f, kinds)) ELSE 0]

LEMMA FoundNumbers ==
    ASSUME StartInv, stage = "serving", NEW kinds
    PROVE  /\ Found(kinds) \in Seq(Nat) /\ Len(Found(kinds)) = Len(store)
           /\ Sum(kinds) = Total(Found(kinds))
<1>1. DOMAIN store = 1 .. Len(store) /\ Len(store) \in Nat
  BY LenProperties DEF StartInv, LoadInv, Stored
<1>2. \A k \in DOMAIN store : Found(kinds)[k] \in Nat
  <2> SUFFICES ASSUME NEW k \in DOMAIN store PROVE Found(kinds)[k] \in Nat
    OBVIOUS
  <2>1. store[k].shard.file \in File
    BY StoreFacts
  <2>2. Cardinality(LinesOf(store[k].shard.file, kinds)) \in Nat
    BY <2>1, LinesAreFinite DEF StartInv
  <2>3. QED
    BY <2>2 DEF Found
<1>3. Found(kinds) = [k \in 1 .. Len(store) |-> Found(kinds)[k]]
  BY <1>1 DEF Found
<1>4. Found(kinds) \in Seq(Nat) /\ Len(Found(kinds)) = Len(store)
  BY <1>1, <1>2, <1>3
<1>5. Sum(kinds) = Total(Found(kinds))
  BY DEF Sum, Found
<1>6. QED
  BY <1>4, <1>5

LEMMA TripNumbers ==
    ASSUME StartInv, stage = "serving"
    PROVE  LET t == [k \in DOMAIN store |-> store[k].shard.trips]
           IN  t \in Seq(Nat) /\ Len(t) = Len(store)
<1>1. DOMAIN store = 1 .. Len(store) /\ Len(store) \in Nat
  BY LenProperties DEF StartInv, LoadInv, Stored
<1>2. \A k \in DOMAIN store : store[k].shard.trips \in Nat
  BY StoreFacts
<1>3. QED
  BY <1>1, <1>2

\* Matching rows are rows, and of lines with text.
LEMMA MatchesAreFew ==
    ASSUME StartInv, stage = "serving"
    PROVE  /\ Sum({"match"}) \in Nat /\ TotalTripCount \in Nat
           /\ Sum({"match"}) <= Sum(LineKind \ {"empty"})
           /\ Sum({"match"}) <= TotalTripCount
<1> DEFINE m == Found({"match"})
           a == Found(LineKind \ {"empty"})
           t == [k \in DOMAIN store |-> store[k].shard.trips]
           n == Len(store)
<1>1. /\ m \in Seq(Nat) /\ a \in Seq(Nat) /\ t \in Seq(Nat)
      /\ Len(m) = n /\ Len(a) = n /\ Len(t) = n /\ DOMAIN store = 1 .. n
  BY FoundNumbers, TripNumbers, LenProperties DEF StartInv, LoadInv, Stored
<1>2. ASSUME NEW k \in 1 .. n PROVE m[k] <= a[k] /\ m[k] <= t[k]
  <2> DEFINE f == store[k].shard.file
  <2>1. k \in DOMAIN store
    BY <1>1
  <2>2. f \in File /\ t[k] = Cardinality(TextLines(disk[f]))
    BY <2>1, StoreFacts
  <2>3. LinesOf(f, {"match"}) \in SUBSET LinesOf(f, LineKind \ {"empty"})
    BY DEF LinesOf, LineKind
  <2>4. LinesOf(f, {"match"}) \in SUBSET TextLines(disk[f])
    BY DEF LinesOf, TextLines
  <2>5. /\ m[k] = IF Readable(f) THEN Cardinality(LinesOf(f, {"match"})) ELSE 0
        /\ a[k] = IF Readable(f) THEN Cardinality(LinesOf(f, LineKind \ {"empty"})) ELSE 0
    BY <2>1 DEF Found
  <2> HIDE DEF f, m, a, t
  <2>6. /\ Cardinality(LinesOf(f, {"match"})) \in Nat
        /\ Cardinality(TextLines(disk[f])) \in Nat
        /\ IsFiniteSet(LinesOf(f, LineKind \ {"empty"}))
        /\ IsFiniteSet(TextLines(disk[f]))
    BY <2>2, LinesAreFinite DEF StartInv
  <2>7. /\ Cardinality(LinesOf(f, {"match"})) <= Cardinality(LinesOf(f, LineKind \ {"empty"}))
        /\ Cardinality(LinesOf(f, {"match"})) <= Cardinality(TextLines(disk[f]))
    BY <2>3, <2>4, <2>6, FS_Subset
  <2>8. QED
    BY <2>2, <2>5, <2>6, <2>7
<1>3. Sum({"match"}) = Total(m) /\ Sum(LineKind \ {"empty"}) = Total(a) /\ TotalTripCount = Total(t)
  BY FoundNumbers DEF TotalTripCount
<1> HIDE DEF m, a, t
<1>4. Total(m) \in Nat /\ Total(m) <= Total(a)
  BY <1>1, <1>2, TotalAtMost
<1>5. Total(t) \in Nat /\ Total(m) <= Total(t)
  BY <1>1, <1>2, TotalAtMost
<1>6. QED
  BY <1>3, <1>4, <1>5

\* With every file assigned once, the store is valid and its matches are
\* those of the assigned files that open.
LEMMA MatchesAreAll ==
    ASSUME StartInv, stage = "serving", IsInjective(cfg.assigned_files)
    PROVE  /\ StoreIsValid
           /\ Sum({"match"}) =
                  Cardinality(UNION {{f} \X LinesOf(f, {"match"}) :
                      f \in {g \in ToSet(cfg.assigned_files) \cap CsvFile : Readable(g)}})
<1> DEFINE n == Len(store)
           F(k) == store[k].shard.file
           m == Found({"match"})
           P == [k \in 1 .. n |-> IF Readable(F(k)) THEN {F(k)} \X LinesOf(F(k), {"match"}) ELSE {}]
<1>1. /\ Stored /\ n \in Nat /\ DOMAIN store = 1 .. n
      /\ next = Len(cfg.assigned_files) + 1 /\ DiskInv
  BY LenProperties DEF StartInv, LoadInv, Stored
<1>2. cfg.assigned_files \in Seq(File) /\ Len(cfg.assigned_files) \in Nat
      /\ DOMAIN cfg.assigned_files = 1 .. Len(cfg.assigned_files)
  BY ConfigFacts, LenProperties DEF StartInv, Running
<1>3. \A k \in 1 .. n :
          /\ store[k].order + 1 \in 1 .. Len(cfg.assigned_files)
          /\ F(k) = cfg.assigned_files[store[k].order + 1]
          /\ F(k) \in File /\ F(k) \in ToSet(cfg.assigned_files) \cap CsvFile
          /\ store[k].shard.trips # 0 /\ store[k].shard.bytes # 0
  BY <1>1, StoreFacts DEF FileAt
<1>4. \A j, k \in 1 .. n : j # k => F(j) # F(k)
  <2> SUFFICES ASSUME NEW j \in 1 .. n, NEW k \in 1 .. n, j < k PROVE F(j) # F(k)
    BY <1>1
  <2>1. store[j].order < store[k].order
    BY <1>1 DEF Stored
  <2>2. store[j].order \in Nat /\ store[k].order \in Nat
    BY <1>1, StoredTyped
  <2>3. store[j].order + 1 # store[k].order + 1
    BY <2>1, <2>2
  <2>4. QED
    BY <1>2, <1>3, <2>3 DEF IsInjective
<1>5. StoreIsValid
  <2> SUFFICES ASSUME NEW k \in 1 .. n, NEW j \in 1 .. k - 1
               PROVE  F(j) # F(k)
    BY <1>1, <1>3 DEF StoreIsValid
  <2>1. j \in 1 .. n /\ j # k
    BY <1>1
  <2>2. QED
    BY <1>4, <2>1
<1>6. m \in Seq(Nat) /\ Len(m) = n /\ Sum({"match"}) = Total(m)
  BY FoundNumbers
<1>7. ASSUME NEW k \in 1 .. n
      PROVE  IsFiniteSet(P[k]) /\ Cardinality(P[k]) = m[k]
  <2>1. m[k] = IF Readable(F(k)) THEN Cardinality(LinesOf(F(k), {"match"})) ELSE 0
    BY <1>1 DEF Found
  <2>2. CASE ~Readable(F(k))
    BY <2>1, <2>2, FS_EmptySet
  <2>3. CASE Readable(F(k))
    <3> DEFINE S == {F(k)}
               T == LinesOf(F(k), {"match"})
    <3>1. IsFiniteSet(S) /\ Cardinality(S) = 1
      BY FS_Singleton
    <3>2. IsFiniteSet(T) /\ Cardinality(T) \in Nat
      BY <1>1, <1>3, LinesAreFinite
    <3>3. P[k] = S \X T /\ m[k] = Cardinality(T)
      BY <2>1, <2>3
    <3> HIDE DEF S, T, P, m
    <3>4. IsFiniteSet(S \X T) /\ Cardinality(S \X T) = Cardinality(S) * Cardinality(T)
      BY <3>1, <3>2, FS_Product
    <3>5. Cardinality(S) * Cardinality(T) = Cardinality(T)
      BY <3>1, <3>2
    <3>6. QED
      BY <3>3, <3>4, <3>5
  <2>4. QED
    BY <2>2, <2>3
<1>8. ASSUME NEW j \in 1 .. n, NEW k \in 1 .. n, j # k
      PROVE  P[j] \cap P[k] = {}
  <2>1. F(j) # F(k)
    BY <1>4, <1>8
  <2>2. \A pair \in P[j] : pair[1] = F(j)
    OBVIOUS
  <2>3. \A pair \in P[k] : pair[1] = F(k)
    OBVIOUS
  <2>4. QED
    BY <2>1, <2>2, <2>3
<1> DEFINE U == UNION {{f} \X LinesOf(f, {"match"}) :
                           f \in {g \in ToSet(cfg.assigned_files) \cap CsvFile : Readable(g)}}
<1>9. UNION {P[k] : k \in 1 .. n} = U
  <2>1. ASSUME NEW k \in 1 .. n, NEW pair \in P[k] PROVE pair \in U
    <3>1. Readable(F(k)) /\ pair \in {F(k)} \X LinesOf(F(k), {"match"})
      BY <2>1
    <3>2. F(k) \in {g \in ToSet(cfg.assigned_files) \cap CsvFile : Readable(g)}
      BY <1>3, <3>1
    <3>3. QED
      BY <3>1, <3>2
  <2>2. ASSUME NEW f \in ToSet(cfg.assigned_files) \cap CsvFile, Readable(f),
               NEW pair \in {f} \X LinesOf(f, {"match"})
        PROVE  \E k \in 1 .. n : pair \in P[k]
    <3>1. PICK i \in 1 .. Len(cfg.assigned_files) : f = FileAt(i)
      BY <1>2 DEF ToSet, FileAt
    <3>2. LinesOf(f, {"match"}) # {} /\ disk[f].present
      BY <2>2 DEF Readable
    <3>3. LinesOf(f, {"match"}) \subseteq TextLines(disk[f])
      BY DEF LinesOf, TextLines
    <3>4. IsShard(FileAt(i))
      BY <2>2, <3>1, <3>2, <3>3 DEF IsShard
    <3>5. i \in 1 .. next - 1
      BY <1>1, <1>2, <3>1
    <3>6. PICK k \in DOMAIN store : store[k].order + 1 = i
      BY <1>1, <3>4, <3>5 DEF Stored
    <3>7. k \in 1 .. n /\ F(k) = f
      BY <1>1, <1>3, <3>1, <3>6 DEF FileAt
    <3>8. P[k] = {f} \X LinesOf(f, {"match"})
      BY <2>2, <3>7
    <3>9. QED
      BY <2>2, <3>7, <3>8
  <2> HIDE DEF P
  <2>3. QED
    BY <2>1, <2>2
<1> HIDE DEF P, m, U
<1>10. Total(m) = Cardinality(Joined(P, n))
  <2>1. /\ \A k \in 1 .. Len(m) : IsFiniteSet(P[k]) /\ Cardinality(P[k]) = m[k]
        /\ \A j, k \in 1 .. Len(m) : j # k => P[j] \cap P[k] = {}
    BY <1>6, <1>7, <1>8
  <2>2. QED
    BY <1>6, <2>1, TotalOfParts
<1>11. QED
  BY <1>5, <1>6, <1>9, <1>10 DEF U, Joined

\* Every answer to COUNT is the number of matching rows in the assigned files
\* that opened for it, and within what the loader counted.
THEOREM NodeCountsItsFiles == StartSpec => []CountIsOfAssignedFiles
<1>1. StartInv => CountIsOfAssignedFiles
  <2> SUFFICES ASSUME StartInv, counted.known PROVE CountIsOfAssignedFiles
    BY DEF CountIsOfAssignedFiles
  <2>1. stage = "serving" /\ counted = Answer
    BY DEF StartInv, CountInv
  <2>2. CASE StoreIsValid
    <3>1. counted.rowsScanned = Sum(LineKind \ {"empty"}) /\ counted.rowsMatched = Sum({"match"})
      BY <2>1, <2>2 DEF Answer
    <3>2. QED
      BY <2>1, <3>1, MatchesAreFew, MatchesAreAll DEF CountIsOfAssignedFiles
  <2>3. CASE ~StoreIsValid
    <3>1. counted.rowsScanned = 0 /\ counted.rowsMatched = 0
      BY <2>1, <2>3 DEF Answer
    <3>2. 0 <= TotalTripCount
      BY <2>1, MatchesAreFew
    <3>3. ~IsInjective(cfg.assigned_files)
      BY <2>1, <2>3, MatchesAreAll
    <3>4. QED
      BY <3>1, <3>2, <3>3 DEF CountIsOfAssignedFiles
  <2>4. QED
    BY <2>2, <2>3
<1>2. QED
  BY <1>1, StartInvariant, PTL

\* Both indexes of the overlay agree with what they are derived from: after
\* any sequence of edits, and in every node that is started.
THEOREM GraphIndexesAreCurrent == GraphSpec => []IndexesAreCurrent
<1>1. GraphInv => IndexesAreCurrent
  BY DEF GraphInv
<1>2. QED
  BY <1>1, InitGraph, GraphNextKeeps, PTL DEF GraphSpec

THEOREM NodeIndexesAreCurrent == StartSpec => []IndexesAreCurrent
<1>1. StartInv => IndexesAreCurrent
  BY DEF StartInv, GraphInv
<1>2. QED
  BY <1>1, StartInvariant, PTL

\* A node shares out its shards as the dispatcher does: each once, in order,
\* and no worker ahead by more than a shard.
THEOREM NodeDispatches == StartSpec => [](EachShardOnce /\ LoadsStayClose)
<1>1. StartInv => EachShardOnce /\ LoadsStayClose
  BY DEF StartInv, DispatchInv
<1>2. QED
  BY <1>1, StartInvariant, PTL

-----------------------------------------------------------------------------
\* Lists under the three ways the scan builds a result.

\* The empty result lists nothing.
LEMMA ListsEmpty == Lists(<<>>, {})
  BY DEF Lists

\* A row beyond all the listed ones may be appended (push_back in execute).
LEMMA ListsAppend ==
    ASSUME NEW s \in Seq(Nat), NEW S, Lists(s, S),
           NEW x \in Nat, \A y \in S : y < x
    PROVE  Lists(Append(s, x), S \cup {x})
<1> DEFINE t == Append(s, x)
<1>1. /\ DOMAIN s = 1 .. Len(s) /\ Len(s) \in Nat
      /\ DOMAIN t = 1 .. Len(s) + 1
      /\ \A i \in 1 .. Len(s) : t[i] = s[i] /\ s[i] \in Nat
      /\ t[Len(s) + 1] = x
  OBVIOUS
<1> HIDE DEF t
<1>2. {t[i] : i \in DOMAIN t} = S \cup {x}
  <2>1. ASSUME NEW i \in DOMAIN t PROVE t[i] \in S \cup {x}
    BY <1>1 DEF Lists
  <2>2. ASSUME NEW y \in S PROVE \E i \in DOMAIN t : t[i] = y
    <3>1. PICK i \in DOMAIN s : s[i] = y
      BY DEF Lists
    <3>2. QED
      BY <1>1, <3>1
  <2>3. \E i \in DOMAIN t : t[i] = x
    BY <1>1
  <2>4. QED
    BY <2>1, <2>2, <2>3
<1>3. ASSUME NEW i \in DOMAIN t, NEW j \in DOMAIN t, i < j
      PROVE  t[i] < t[j]
  <2>1. CASE j = Len(s) + 1
    <3>1. i \in DOMAIN s
      BY <1>1, <1>3, <2>1
    <3>2. s[i] \in S
      BY <3>1 DEF Lists
    <3>3. QED
      BY <1>1, <2>1, <3>1, <3>2
  <2>2. CASE j \in DOMAIN s
    BY <1>1, <1>3, <2>2 DEF Lists
  <2>3. QED
    BY <1>1, <2>1, <2>2
<1>4. QED
  BY <1>2, <1>3 DEF Lists, t

\* Two results may be joined when the rows of the second lie beyond those of
\* the first (QueryResult::merge).
LEMMA ListsConcat ==
    ASSUME NEW s \in Seq(Nat), NEW S, Lists(s, S),
           NEW t \in Seq(Nat), NEW T, Lists(t, T),
           \A x \in S, y \in T : x < y
    PROVE  Lists(s \o t, S \cup T)
<1> DEFINE u == s \o t
           m == Len(s)
           n == Len(t)
<1>1. /\ m \in Nat /\ n \in Nat
      /\ DOMAIN s = 1 .. m /\ DOMAIN t = 1 .. n /\ DOMAIN u = 1 .. m + n
      /\ \A i \in 1 .. m : u[i] = s[i]
      /\ \A i \in 1 .. n : u[i + m] = t[i]
  OBVIOUS
<1> HIDE DEF u, m, n
<1>2. \A i \in DOMAIN s : s[i] \in S
  BY DEF Lists
<1>3. \A i \in DOMAIN t : t[i] \in T
  BY DEF Lists
<1>4. \A i \in DOMAIN u : \/ i \in DOMAIN s /\ u[i] = s[i]
                          \/ i > m /\ i - m \in DOMAIN t /\ u[i] = t[i - m]
  <2> SUFFICES ASSUME NEW i \in 1 .. m + n
               PROVE  \/ i \in 1 .. m /\ u[i] = s[i]
                      \/ i > m /\ i - m \in 1 .. n /\ u[i] = t[i - m]
    BY <1>1
  <2>1. CASE i > m
    <3>1. i - m \in 1 .. n /\ (i - m) + m = i
      BY <1>1, <2>1
    <3>2. QED
      BY <1>1, <2>1, <3>1
  <2>2. QED
    BY <1>1, <2>1
<1>5. {u[i] : i \in DOMAIN u} = S \cup T
  <2>1. ASSUME NEW i \in DOMAIN u PROVE u[i] \in S \cup T
    BY <1>2, <1>3, <1>4
  <2>2. ASSUME NEW y \in S PROVE \E i \in DOMAIN u : u[i] = y
    <3>1. PICK i \in DOMAIN s : s[i] = y
      BY DEF Lists
    <3>2. QED
      BY <1>1, <3>1
  <2>3. ASSUME NEW y \in T PROVE \E i \in DOMAIN u : u[i] = y
    <3>1. PICK i \in DOMAIN t : t[i] = y
      BY DEF Lists
    <3>2. i + m \in 1 .. m + n
      BY <1>1, <3>1
    <3>3. u[i + m] = y
      BY <1>1, <3>1
    <3>4. QED
      BY <1>1, <3>2, <3>3
  <2>4. QED
    BY <2>1, <2>2, <2>3
<1>6. ASSUME NEW i \in DOMAIN u, NEW j \in DOMAIN u, i < j
      PROVE  u[i] < u[j]
  <2>0. i \in Nat /\ j \in Nat /\ m \in Nat
    BY <1>1
  <2>1. CASE j \in DOMAIN s /\ u[j] = s[j]
    <3>1. i \in DOMAIN s /\ u[i] = s[i]
      BY <1>1, <1>6, <2>0, <2>1
    <3>2. QED
      BY <1>6, <2>1, <3>1 DEF Lists
  <2>2. CASE j > m /\ j - m \in DOMAIN t /\ u[j] = t[j - m]
    <3>1. CASE i \in DOMAIN s /\ u[i] = s[i]
      BY <1>2, <1>3, <2>2, <3>1
    <3>2. CASE i > m /\ i - m \in DOMAIN t /\ u[i] = t[i - m]
      <4>1. i - m < j - m
        BY <1>6, <2>0
      <4>2. QED
        BY <2>2, <3>2, <4>1 DEF Lists
    <3>3. QED
      BY <1>4, <3>1, <3>2
  <2>3. QED
    BY <1>4, <2>1, <2>2
<1>7. QED
  BY <1>5, <1>6 DEF Lists, u

-----------------------------------------------------------------------------
\* The inductive invariant: the call in progress started at the cursor, it
\* has scanned exactly the rows from there to the row in hand, and both the
\* call's result and the request's are complete up to where they have come.
ScanInv ==
    /\ TypeOK
    /\ pc = "scanning" => /\ startRow = nextStartRow
                          /\ ~completed
                          /\ localRowId <= startRow => scannedThisChunk = 0
    /\ scannedThisChunk <= ScanRowBudget
    /\ completed => nextStartRow = NumRows
    /\ CollectedIsPrefix
    /\ CallFindsEveryMatch

USE ScanAssumption

LEMMA InitScanInv == Init => ScanInv
<1> SUFFICES ASSUME Init PROVE ScanInv
  OBVIOUS
<1>1. TypeOK
  <2>1. 0 \in 0 .. NumRows
    OBVIOUS
  <2>2. <<>> \in Seq(Rows)
    OBVIOUS
  <2>3. QED
    BY <2>1, <2>2 DEF Init, TypeOK
<1>2. {r \in Matching : r < nextStartRow} = {}
  BY DEF Init, Matching, Rows
<1>3. CollectedIsPrefix
  BY <1>2, ListsEmpty DEF CollectedIsPrefix, Init
<1>4. QED
  BY <1>1, <1>3 DEF Init, ScanInv, CallFindsEveryMatch

\* What a reply leaves in the request, when the call's result is complete up
\* to the new cursor.
LEMMA ReplyCollects ==
    ASSUME ScanInv, pc = "scanning", kind' = kind,
           NEW hits \in Seq(Rows), NEW end \in 0 .. NumRows,
           startRow <= end,
           Lists(hits, {r \in Matching : startRow <= r /\ r < end}),
           NEW hasMore \in BOOLEAN, Reply(hits, end, hasMore)
    PROVE  collected' \in Seq(Rows) /\ CollectedIsPrefix'
<1> DEFINE S == {r \in Matching : r < startRow}
           T == {r \in Matching : startRow <= r /\ r < end}
<1>1. Rows \subseteq Nat /\ startRow \in Nat /\ end \in Nat
      /\ startRow = nextStartRow /\ Matching \subseteq Nat
  BY DEF ScanInv, TypeOK, Rows, Matching
<1>2. collected \in Seq(Nat) /\ collected \in Seq(Rows) /\ hits \in Seq(Nat)
  BY <1>1, SeqMonotonic DEF ScanInv, TypeOK
<1>3. Lists(collected, S)
  BY <1>1 DEF ScanInv, CollectedIsPrefix
<1>4. \A x \in S, y \in T : x < y
  BY <1>1
<1>5. Lists(collected \o hits, S \cup T)
  BY <1>2, <1>3, <1>4, ListsConcat
<1>6. S \cup T = {r \in Matching : r < end}
  <2>1. \A r \in Matching :
            (r < startRow \/ (startRow <= r /\ r < end)) <=> r < end
    BY <1>1
  <2>2. QED
    BY <2>1
<1>7. /\ collected' = collected \o hits /\ nextStartRow' = end
      /\ Matching' = Matching
  BY DEF Reply, Matching
<1>8. CollectedIsPrefix'
  BY <1>5, <1>6, <1>7 DEF CollectedIsPrefix
<1>9. QED
  BY <1>2, <1>7, <1>8

\* A row appended to the call's result keeps it complete.
LEMMA EmitKeepsComplete ==
    ASSUME ScanInv, MoreRows, localRowId >= startRow,
           kind[localRowId] = "match"
    PROVE  /\ Append(matchedLocalRowIds, localRowId) \in Seq(Rows)
           /\ Lists(Append(matchedLocalRowIds, localRowId),
                    {r \in Matching : startRow <= r /\ r < localRowId + 1})
<1> DEFINE S == {r \in Matching : startRow <= r /\ r < localRowId}
<1>1. /\ Rows \subseteq Nat /\ Matching \subseteq Nat
      /\ localRowId \in Rows /\ localRowId \in Matching
      /\ startRow \in Nat /\ localRowId \in Nat
  BY DEF ScanInv, TypeOK, Rows, Matching, MoreRows
<1>2. matchedLocalRowIds \in Seq(Rows) /\ matchedLocalRowIds \in Seq(Nat)
  BY <1>1, SeqMonotonic DEF ScanInv, TypeOK
<1>3. Lists(matchedLocalRowIds, S)
  BY DEF ScanInv, CallFindsEveryMatch, MoreRows
<1>4. Lists(Append(matchedLocalRowIds, localRowId), S \cup {localRowId})
  BY <1>1, <1>2, <1>3, ListsAppend
<1>5. S \cup {localRowId}
        = {r \in Matching : startRow <= r /\ r < localRowId + 1}
  <2>1. \A r \in Matching :
            (startRow <= r /\ r < localRowId + 1)
                <=> ((startRow <= r /\ r < localRowId) \/ r = localRowId)
    BY <1>1
  <2>2. QED
    BY <1>1, <2>1
<1>6. Append(matchedLocalRowIds, localRowId) \in Seq(Rows)
  BY <1>1, <1>2
<1>7. QED
  BY <1>4, <1>5, <1>6

LEMMA NextScanInv == ScanInv /\ [Next]_vars => ScanInv'
<1> SUFFICES ASSUME ScanInv, [Next]_vars PROVE ScanInv'
  OBVIOUS
<1>0. /\ TypeOK
      /\ localRowId \in Nat /\ startRow \in Nat /\ nextStartRow \in Nat
      /\ scannedThisChunk \in Nat /\ NumRows \in Nat
      /\ Matching \subseteq Nat /\ Rows \subseteq Nat
  BY DEF ScanInv, TypeOK, Rows, Matching
<1>1. CASE BeginCall
  <2>1. TypeOK'
    BY <1>0, <1>1 DEF BeginCall, TypeOK, progressVars
  <2>2. {r \in Matching : startRow <= r /\ r < localRowId}' = {}
    BY <1>0, <1>1 DEF BeginCall, TypeOK, Matching, Rows
  <2>3. CallFindsEveryMatch'
    BY <1>1, <2>2, ListsEmpty DEF BeginCall, CallFindsEveryMatch
  <2>4. CollectedIsPrefix'
    BY <1>1 DEF ScanInv, BeginCall, CollectedIsPrefix, Matching, progressVars
  <2>5. QED
    BY <1>0, <1>1, <2>1, <2>3, <2>4
       DEF ScanInv, BeginCall, progressVars
<1>2. CASE SkipServedRow
  <2>1. TypeOK'
    BY <1>0, <1>2 DEF SkipServedRow, MoreRows, TypeOK, progressVars, callVars
  <2>2. {r \in Matching : startRow <= r /\ r < localRowId}'
          = {r \in Matching : startRow <= r /\ r < localRowId}
    BY <1>0, <1>2 DEF SkipServedRow, MoreRows, Matching, callVars
  <2>3. CallFindsEveryMatch'
    BY <1>2, <2>2
       DEF ScanInv, SkipServedRow, MoreRows, CallFindsEveryMatch
  <2>4. CollectedIsPrefix'
    BY <1>2 DEF ScanInv, SkipServedRow, CollectedIsPrefix, Matching,
                progressVars
  <2>5. QED
    BY <1>0, <1>2, <2>1, <2>3, <2>4
       DEF ScanInv, SkipServedRow, MoreRows, progressVars, callVars
<1>3. CASE BudgetStop
  <2>1. Lists(matchedLocalRowIds,
              {r \in Matching : startRow <= r /\ r < localRowId})
    BY <1>3 DEF ScanInv, CallFindsEveryMatch, BudgetStop, MoreRows
  <2>2. collected' \in Seq(Rows) /\ CollectedIsPrefix'
    BY <1>0, <1>3, <2>1, ReplyCollects
       DEF BudgetStop, MoreRows, TypeOK
  <2>3. TypeOK'
    BY <1>0, <1>3, <2>2 DEF BudgetStop, MoreRows, Reply, TypeOK, callVars
  <2>4. QED
    BY <1>0, <1>3, <2>2, <2>3
       DEF ScanInv, BudgetStop, MoreRows, Reply, CallFindsEveryMatch
<1>4. CASE PassOverRow
  <2>1. TypeOK'
    BY <1>0, <1>4 DEF PassOverRow, MoreRows, TypeOK, progressVars, callVars
  <2>2. {r \in Matching : startRow <= r /\ r < localRowId}'
          = {r \in Matching : startRow <= r /\ r < localRowId}
    BY <1>0, <1>4 DEF PassOverRow, MoreRows, Matching, callVars
  <2>3. CallFindsEveryMatch'
    BY <1>4, <2>2
       DEF ScanInv, PassOverRow, MoreRows, CallFindsEveryMatch
  <2>4. CollectedIsPrefix'
    BY <1>4 DEF ScanInv, PassOverRow, CollectedIsPrefix, Matching,
                progressVars
  <2>5. QED
    BY <1>0, <1>4, <2>1, <2>3, <2>4
       DEF ScanInv, PassOverRow, MoreRows, progressVars, callVars
<1>5. CASE EmitRow
  <2>1. /\ matchedLocalRowIds' \in Seq(Rows)
        /\ Lists(matchedLocalRowIds',
                 {r \in Matching : startRow <= r /\ r < localRowId + 1})
    BY <1>5, EmitKeepsComplete DEF EmitRow
  <2>2. TypeOK'
    BY <1>0, <1>5, <2>1 DEF EmitRow, MoreRows, TypeOK, progressVars, callVars
  <2>3. CallFindsEveryMatch'
    BY <1>5, <2>1 DEF EmitRow, CallFindsEveryMatch, Matching, callVars
  <2>4. CollectedIsPrefix'
    BY <1>5 DEF ScanInv, EmitRow, CollectedIsPrefix, Matching, progressVars
  <2>5. QED
    BY <1>0, <1>5, <2>2, <2>3, <2>4
       DEF ScanInv, EmitRow, MoreRows, progressVars, callVars
<1>6. CASE EmitLastRow
  <2> DEFINE hits == Append(matchedLocalRowIds, localRowId)
  <2>1. /\ hits \in Seq(Rows)
        /\ Lists(hits,
                 {r \in Matching : startRow <= r /\ r < localRowId + 1})
    BY <1>6, EmitKeepsComplete DEF EmitLastRow
  <2>2. /\ pc = "scanning" /\ localRowId < NumRows /\ localRowId >= startRow
        /\ Reply(hits, localRowId + 1, TRUE)
        /\ kind' = kind /\ localRowId' = localRowId + 1
        /\ scannedThisChunk' = scannedThisChunk + 1
        /\ scannedThisChunk < ScanRowBudget
    BY <1>6 DEF EmitLastRow, MoreRows
  <2>3. localRowId + 1 \in 0 .. NumRows /\ startRow <= localRowId + 1
    BY <1>0, <2>2
  <2> HIDE DEF hits
  <2>4. collected' \in Seq(Rows) /\ CollectedIsPrefix'
    BY <2>1, <2>2, <2>3, ReplyCollects
  <2>5. TypeOK'
    BY <1>0, <2>1, <2>2, <2>3, <2>4 DEF Reply, TypeOK, callVars
  <2>6. pc' = "idle" /\ ~completed'
    BY <2>2 DEF Reply
  <2>7. scannedThisChunk' <= ScanRowBudget
    BY <1>0, <2>2
  <2>8. QED
    BY <2>4, <2>5, <2>6, <2>7 DEF ScanInv, CallFindsEveryMatch
<1>7. CASE EndOfStore
  <2>1. Lists(matchedLocalRowIds,
              {r \in Matching : startRow <= r /\ r < localRowId})
    BY <1>7 DEF ScanInv, CallFindsEveryMatch, EndOfStore
  <2>a. /\ pc = "scanning" /\ kind' = kind
        /\ localRowId = NumRows
        /\ Reply(matchedLocalRowIds, localRowId, FALSE)
    BY <1>7 DEF EndOfStore
  <2>b. matchedLocalRowIds \in Seq(Rows) /\ startRow \in 0 .. NumRows
    BY <1>0 DEF TypeOK
  <2>c. localRowId \in 0 .. NumRows /\ startRow <= localRowId
    BY <1>0, <2>a, <2>b
  <2>2. collected' \in Seq(Rows) /\ CollectedIsPrefix'
    BY <2>1, <2>a, <2>b, <2>c, ReplyCollects
  <2>3. TypeOK'
    BY <1>0, <1>7, <2>2 DEF EndOfStore, Reply, TypeOK, callVars
  <2>4. QED
    BY <1>0, <1>7, <2>2, <2>3
       DEF ScanInv, EndOfStore, Reply, CallFindsEveryMatch
<1>8. CASE UNCHANGED vars
  BY <1>8 DEF vars, callVars, progressVars, ScanInv, TypeOK,
              CollectedIsPrefix, CallFindsEveryMatch, Matching
<1>9. QED
  BY <1>1, <1>2, <1>3, <1>4, <1>5, <1>6, <1>7, <1>8 DEF Next, ScanRow

-----------------------------------------------------------------------------
\* Type correctness of the scan.
THEOREM ScanTyped == Spec => []TypeOK
<1>1. ScanInv => TypeOK
  BY DEF ScanInv
<1>2. QED
  BY <1>1, InitScanInv, NextScanInv, PTL DEF Spec

\* LocalQueryEngine::execute driven by fetchLocalExecuteChunk never loses or
\* repeats a matching row across chunk, budget and end-of-store stops.
THEOREM ScanCollectsExactly == Spec => []CollectedIsPrefix
<1>1. ScanInv => CollectedIsPrefix
  BY DEF ScanInv
<1>2. QED
  BY <1>1, InitScanInv, NextScanInv, PTL DEF Spec

\* A completed worker has handed over every matching row of its store.
THEOREM ScanCompletedMeansAll == Spec => []CompletedMeansAll
<1>1. ScanInv => CompletedMeansAll
  <2> SUFFICES ASSUME ScanInv, completed PROVE Lists(collected, Matching)
    BY DEF CompletedMeansAll
  <2>1. {r \in Matching : r < nextStartRow} = Matching
    BY DEF ScanInv, Matching, Rows
  <2>2. QED
    BY <2>1 DEF ScanInv, CollectedIsPrefix
<1>2. QED
  BY <1>1, InitScanInv, NextScanInv, PTL DEF Spec

\* No call scans beyond the budget.
THEOREM ScanIsBounded == Spec => []CallIsBounded
<1>1. ScanInv => CallIsBounded
  BY DEF ScanInv, CallIsBounded
<1>2. QED
  BY <1>1, InitScanInv, NextScanInv, PTL DEF Spec

\* A reply with hasMore = true has moved the cursor.
THEOREM ScanHasMoreMovesCursor == Spec => HasMoreMovesCursor
<1> DEFINE Moves == (pc = "scanning" /\ pc' = "idle" /\ ~completed')
                        => nextStartRow' > nextStartRow
<1>1. ScanInv /\ [Next]_vars => [Moves]_vars
  <2> SUFFICES ASSUME ScanInv, Next, pc = "scanning", pc' = "idle",
                      ~completed'
               PROVE  nextStartRow' > nextStartRow
    OBVIOUS
  <2>1. /\ localRowId \in Nat /\ startRow \in Nat /\ scannedThisChunk \in Nat
        /\ startRow = nextStartRow
    BY DEF ScanInv, TypeOK
  <2>2. CASE BudgetStop
    BY <2>1, <2>2 DEF ScanInv, BudgetStop, Reply
  <2>3. CASE EmitLastRow
    BY <2>1, <2>3 DEF EmitLastRow, Reply
  <2>4. CASE EndOfStore
    BY <2>4 DEF EndOfStore, Reply
  <2>5. QED
    BY <2>2, <2>3, <2>4
       DEF Next, ScanRow, BeginCall, SkipServedRow, PassOverRow, EmitRow
<1>2. QED
  BY <1>1, InitScanInv, NextScanInv, PTL DEF Spec, HasMoreMovesCursor
-----------------------------------------------------------------------------
\* The refinement of ChunkStream.

\* What was handed over before a reply and what the reply adds.
LEMMA ReplyExtends ==
    ASSUME NEW S, NEW s \in Seq(S), NEW t \in Seq(S)
    PROVE  /\ Len(s \o t) >= Len(s)
           /\ SubSeq(s \o t, 1, Len(s)) = s
           /\ SubSeq(s \o t, Len(s) + 1, Len(s \o t)) = t
<1> DEFINE u == s \o t
<1>1. /\ u \in Seq(S) /\ Len(u) = Len(s) + Len(t)
      /\ Len(s) \in Nat /\ Len(t) \in Nat
      /\ \A i \in 1 .. Len(s) + Len(t) :
             u[i] = IF i <= Len(s) THEN s[i] ELSE t[i - Len(s)]
  BY ConcatProperties, LenProperties
<1> HIDE DEF u
<1>2. \A i \in 1 .. Len(u) : u[i] \in S
  BY <1>1, ElementOfSeq
<1>3. SubSeq(u, 1, Len(s)) = s
  <2>1. /\ SubSeq(u, 1, Len(s)) \in Seq(S)
        /\ Len(SubSeq(u, 1, Len(s))) = Len(s)
        /\ \A i \in 1 .. Len(s) : SubSeq(u, 1, Len(s))[i] = u[i]
    <3>1. \A i \in 1 .. Len(s) : u[i] \in S
      BY <1>1, <1>2
    <3>2. QED
      BY <1>1, <3>1, SubSeqProperties
  <2>2. \A i \in 1 .. Len(s) : u[i] = s[i]
    BY <1>1
  <2>3. QED
    BY <2>1, <2>2, SeqEqual
<1>4. SubSeq(u, Len(s) + 1, Len(u)) = t
  <2> DEFINE v == SubSeq(u, Len(s) + 1, Len(u))
  <2>1. /\ v \in Seq(S)
        /\ Len(v) = Len(t)
        /\ \A i \in 1 .. Len(t) : v[i] = u[Len(s) + i]
    <3>1. \A i \in Len(s) + 1 .. Len(u) : u[i] \in S
      BY <1>1, <1>2
    <3>2. /\ v \in Seq(S)
          /\ Len(v) = IF Len(s) + 1 <= Len(u) THEN Len(u) - (Len(s) + 1) + 1 ELSE 0
          /\ \A i \in 1 .. Len(u) - (Len(s) + 1) + 1 : v[i] = u[Len(s) + 1 + i - 1]
      BY <1>1, <3>1, SubSeqProperties
    <3>3. \A i \in 1 .. Len(t) : Len(s) + 1 + i - 1 = Len(s) + i
      BY <1>1
    <3>4. Len(u) - (Len(s) + 1) + 1 = Len(t)
      BY <1>1
    <3>5. QED
      BY <1>1, <3>2, <3>3, <3>4
  <2> HIDE DEF v
  <2>2. \A i \in 1 .. Len(t) : u[Len(s) + i] = t[i]
    <3>1. \A i \in 1 .. Len(t) :
              /\ Len(s) + i \in 1 .. Len(s) + Len(t)
              /\ ~(Len(s) + i <= Len(s)) /\ (Len(s) + i) - Len(s) = i
      BY <1>1
    <3>2. QED
      BY <1>1, <3>1
  <2>3. v = t
    BY <2>1, <2>2, SeqEqual
  <2>4. QED
    BY <2>3 DEF v
<1>5. QED
  BY <1>1, <1>3, <1>4 DEF u

\* A reply of execute, merged by the coordinator, is a reply of the stream.
LEMMA ReplyRefines ==
    ASSUME ScanInv, pc = "scanning", kind' = kind,
           NEW hits \in Seq(Rows), NEW end \in 0 .. NumRows,
           startRow <= end,
           Lists(hits, {r \in Matching : startRow <= r /\ r < end}),
           NEW hasMore \in BOOLEAN, hasMore \/ end = NumRows,
           Reply(hits, end, hasMore)
    PROVE  Stream!Reply
<1> DEFINE owed == {r \in Matching : r >= nextStartRow}
           batch == SubSeq(collected', Len(collected) + 1, Len(collected'))
<1>1. /\ Rows \subseteq Nat /\ Matching \subseteq Rows /\ startRow \in Nat
      /\ end \in Nat /\ startRow = nextStartRow /\ ~completed
      /\ collected \in Seq(Rows)
  BY DEF ScanInv, TypeOK, Rows, Matching
<1>2. /\ collected' = collected \o hits /\ nextStartRow' = end
      /\ completed' = ~hasMore /\ Matching' = Matching
  BY DEF Reply, Matching
<1>3. /\ Len(collected') >= Len(collected)
      /\ SubSeq(collected', 1, Len(collected)) = collected
      /\ batch = hits
  BY <1>1, <1>2, ReplyExtends
<1> HIDE DEF batch
<1>4. Stream!ElementsOf(batch) = {r \in Matching : startRow <= r /\ r < end}
  BY <1>3 DEF Lists, Stream!ElementsOf
<1>5. \A i, j \in DOMAIN batch : batch[i] = batch[j] => i = j
  <2>1. DOMAIN hits \subseteq Nat /\ \A i \in DOMAIN hits : hits[i] \in Nat
    <3>1. hits \in Seq(Nat)
      BY <1>1, SeqMonotonic
    <3>2. QED
      BY <3>1
  <2>2. \A i, j \in DOMAIN hits : i < j => hits[i] < hits[j]
    BY DEF Lists
  <2>3. \A i, j \in DOMAIN hits : i = j \/ i < j \/ j < i
    BY <2>1
  <2>4. QED
    BY <1>3, <2>1, <2>2, <2>3
<1>6. {r \in Matching : r >= nextStartRow}' = owed \ Stream!ElementsOf(batch)
  <2>1. {r \in Matching : r >= nextStartRow}' = {r \in Matching : r >= end}
    BY <1>2
  <2>2. \A r \in Matching : r >= end <=> (r >= startRow /\ ~(startRow <= r /\ r < end))
    BY <1>1
  <2>3. QED
    BY <1>1, <1>4, <2>1, <2>2
<1>7. Stream!ElementsOf(batch) \subseteq owed
  BY <1>1, <1>4
<1>8. completed' \in {FALSE, {r \in Matching : r >= nextStartRow}' = {}}
  <2>1. CASE hasMore
    BY <1>2, <2>1
  <2>2. CASE ~hasMore
    <3>1. \A r \in Matching : ~(r >= NumRows)
      BY <1>1 DEF Rows
    <3>2. {r \in Matching : r >= nextStartRow}' = {}
      BY <1>2, <2>2, <3>1
    <3>3. QED
      BY <1>2, <2>2, <3>2
  <2>3. QED
    BY <2>1, <2>2
<1>9. QED
  BY <1>1, <1>3, <1>5, <1>6, <1>7, <1>8 DEF Stream!Reply, batch

LEMMA InitRefines == Init => Stream!Init
  BY DEF Init, Stream!Init, Matching, Rows

LEMMA StepRefines == ScanInv /\ [Next]_vars => [Stream!Next]_(Stream!vars)
<1> SUFFICES ASSUME ScanInv, [Next]_vars
             PROVE  Stream!Reply \/ UNCHANGED Stream!vars
  BY DEF Stream!Next
<1>1. CASE BudgetStop
  <2>1. Lists(matchedLocalRowIds,
              {r \in Matching : startRow <= r /\ r < localRowId})
    BY <1>1 DEF ScanInv, CallFindsEveryMatch, BudgetStop, MoreRows
  <2>2. /\ matchedLocalRowIds \in Seq(Rows) /\ localRowId \in 0 .. NumRows
        /\ startRow \in Nat /\ startRow <= localRowId
    BY <1>1 DEF ScanInv, TypeOK, BudgetStop
  <2>3. QED
    BY <1>1, <2>1, <2>2, ReplyRefines DEF BudgetStop, MoreRows
<1>2. CASE EmitLastRow
  <2>1. /\ Append(matchedLocalRowIds, localRowId) \in Seq(Rows)
        /\ Lists(Append(matchedLocalRowIds, localRowId),
                 {r \in Matching : startRow <= r /\ r < localRowId + 1})
    BY <1>2, EmitKeepsComplete DEF EmitLastRow
  <2>2. localRowId + 1 \in 0 .. NumRows /\ startRow <= localRowId + 1
    BY <1>2 DEF ScanInv, TypeOK, EmitLastRow, MoreRows
  <2>3. /\ pc = "scanning" /\ kind' = kind
        /\ Reply(Append(matchedLocalRowIds, localRowId), localRowId + 1, TRUE)
    BY <1>2 DEF EmitLastRow, MoreRows
  <2>4. QED
    BY <2>1, <2>2, <2>3, ReplyRefines
<1>3. CASE EndOfStore
  <2>1. /\ pc = "scanning" /\ kind' = kind /\ localRowId = NumRows
        /\ Reply(matchedLocalRowIds, localRowId, FALSE)
    BY <1>3 DEF EndOfStore
  <2>2. Lists(matchedLocalRowIds,
              {r \in Matching : startRow <= r /\ r < localRowId})
    BY <2>1 DEF ScanInv, CallFindsEveryMatch
  <2>3. /\ matchedLocalRowIds \in Seq(Rows) /\ localRowId \in 0 .. NumRows
        /\ startRow <= localRowId
    BY <2>1 DEF ScanInv, TypeOK
  <2>4. QED
    BY <2>1, <2>2, <2>3, ReplyRefines
<1>4. CASE BeginCall \/ SkipServedRow \/ PassOverRow \/ EmitRow \/ UNCHANGED vars
  BY <1>4 DEF BeginCall, SkipServedRow, PassOverRow, EmitRow, vars, progressVars,
              Stream!vars, Matching
<1>5. QED
  BY <1>1, <1>2, <1>3, <1>4 DEF Next, ScanRow

\* The chunked scan is a ChunkStream: every reply of execute hands over rows
\* still owed, each once, and hasMore = false comes only when none is owed.
THEOREM ScanImplementsStream == Spec => ImplementsStream
<1>1. Spec => Stream!Spec
  BY InitScanInv, NextScanInv, InitRefines, StepRefines, PTL DEF Spec, Stream!Spec
<1>2. QED
  BY <1>1 DEF ImplementsStream

HIDE ScanAssumption

-----------------------------------------------------------------------------
\* The cutting of a line.
Quotes(l, a, b) == {i \in DOMAIN l : a <= i /\ i < b /\ l[i] = Quote}

LEMMA QuotesFinite ==
    ASSUME NEW l \in Seq(Token), NEW a, NEW b
    PROVE  IsFiniteSet(Quotes(l, a, b)) /\ Cardinality(Quotes(l, a, b)) \in Nat
<1>1. IsFiniteSet(1 .. Len(l))
  BY FS_Interval
<1>2. Quotes(l, a, b) \subseteq 1 .. Len(l)
  BY DEF Quotes
<1>3. IsFiniteSet(Quotes(l, a, b))
  BY <1>1, <1>2, FS_Subset
<1> QED
  BY <1>3, FS_CardinalityType

\* Between a position and itself there is no quote.
LEMMA NothingIsEven ==
    ASSUME NEW l \in Seq(Token), NEW a \in Nat
    PROVE  EvenQuotes(l, a, a)
<1>1. Quotes(l, a, a) = {}
  BY DEF Quotes
<1>2. Cardinality(Quotes(l, a, a)) = 0
  BY <1>1, FS_EmptySet
<1>3. Cardinality(Quotes(l, a, a)) % 2 = 0
  BY <1>2
<1> QED
  BY <1>3 DEF EvenQuotes, Quotes

\* One more quote makes an even number odd and an odd number even.
LEMMA QuoteToggles ==
    ASSUME NEW l \in Seq(Token), NEW a \in Nat, NEW i \in DOMAIN l,
           a <= i, l[i] = Quote
    PROVE  EvenQuotes(l, a, i + 1) <=> ~EvenQuotes(l, a, i)
<1>1. Quotes(l, a, i + 1) = Quotes(l, a, i) \cup {i}
  BY DEF Quotes
<1>2. i \notin Quotes(l, a, i)
  BY DEF Quotes
<1>3. Cardinality(Quotes(l, a, i + 1)) = Cardinality(Quotes(l, a, i)) + 1
  BY <1>1, <1>2, QuotesFinite, FS_AddElement
<1>4. \A n \in Nat : (n + 1) % 2 = 0 <=> ~(n % 2 = 0)
  OBVIOUS
<1>5. (Cardinality(Quotes(l, a, i)) + 1) % 2 = 0 <=> ~(Cardinality(Quotes(l, a, i)) % 2 = 0)
  BY <1>4, QuotesFinite
<1> QED
  BY <1>3, <1>5 DEF EvenQuotes, Quotes

\* Any other character leaves the number as it is.
LEMMA OthersDoNot ==
    ASSUME NEW l \in Seq(Token), NEW a \in Nat, NEW i \in DOMAIN l, l[i] # Quote
    PROVE  EvenQuotes(l, a, i + 1) <=> EvenQuotes(l, a, i)
<1>1. Quotes(l, a, i + 1) = Quotes(l, a, i)
  BY DEF Quotes
<1> QED
  BY <1>1 DEF EvenQuotes, Quotes

-----------------------------------------------------------------------------
\* Between two steps of the loop: inQuotes tells whether a quote is open, since
\* the line began and since the field in hand began; the fields cut so far lie
\* end to end up to the field in hand, at exactly the commas passed outside
\* quotes, and none holds a quote without its partner.
EndToEnd ==
    /\ fields # <<>> => fields[1].a = 1
    /\ \A k \in 1 .. Len(fields) - 1 : fields[k + 1].a = fields[k].b + 1
    /\ fieldStart = IF fields = <<>> THEN 1 ELSE fields[Len(fields)].b + 1

Balanced ==
    \A k \in DOMAIN fields :
        fields[k].a <= fields[k].b /\ EvenQuotes(line, fields[k].a, fields[k].b)

Midway ==
    /\ fieldStart <= p
    /\ inQuotes <=> ~EvenQuotes(line, 1, p)
    /\ inQuotes <=> ~EvenQuotes(line, fieldStart, p)
    /\ EndToEnd
    /\ Balanced
    /\ {fields[k].b : k \in DOMAIN fields} = {i \in Cuts(line) : i < p}

LineInv ==
    /\ ScanTypeOK
    /\ verdict = "scanning" => Midway
    /\ CutsAreExact

LEMMA InitLineInv == line \in Seq(Token) /\ Begun => LineInv
<1> SUFFICES ASSUME line \in Seq(Token), Begun PROVE LineInv
  OBVIOUS
<1>1. ScanTypeOK
  <2>1. Len(line) \in Nat /\ 1 \in 1 .. Len(line) + 1
    OBVIOUS
  <2>2. <<>> \in Seq(Field)
    OBVIOUS
  <2> QED
    BY <2>1, <2>2 DEF Begun, ScanTypeOK
<1>2. EvenQuotes(line, 1, 1)
  BY NothingIsEven
<1>3. {i \in Cuts(line) : i < 1} = {}
  BY DEF Cuts
<1>4. {fields[k].b : k \in DOMAIN fields} = {}
  BY DEF Begun
<1>5. Midway
  BY <1>2, <1>3, <1>4 DEF Begun, Midway, EndToEnd, Balanced
<1>6. CutsAreExact
  BY DEF Begun, CutsAreExact
<1> QED
  BY <1>1, <1>5, <1>6 DEF LineInv

\* The next character is looked at: no cut lies there unless it is a comma
\* outside quotes.
LEMMA NoNewCut ==
    ASSUME ScanTypeOK, Midway, Scanning, line[p] = Comma => inQuotes
    PROVE  {i \in Cuts(line) : i < p + 1} = {i \in Cuts(line) : i < p}
<1>1. p \notin Cuts(line)
  BY DEF Cuts, Midway
<1>2. \A i \in Cuts(line) : i \in Nat
  BY DEF Cuts, ScanTypeOK
<1> QED
  BY <1>1, <1>2 DEF ScanTypeOK

LEMMA ToggleKeepsInv ==
    ASSUME ScanTypeOK, Midway, ToggleQuote
    PROVE  LineInv'
<1>1. p \in DOMAIN line /\ p \in Nat /\ fieldStart \in Nat /\ line \in Seq(Token)
  BY DEF ToggleQuote, Scanning, ScanTypeOK
<1>2. ScanTypeOK'
  BY <1>1 DEF ToggleQuote, Scanning, ScanTypeOK
<1>3. EvenQuotes(line, 1, p + 1) <=> ~EvenQuotes(line, 1, p)
  BY <1>1, QuoteToggles DEF ToggleQuote
<1>4. EvenQuotes(line, fieldStart, p + 1) <=> ~EvenQuotes(line, fieldStart, p)
  BY <1>1, QuoteToggles DEF ToggleQuote, Midway
<1>5. {i \in Cuts(line) : i < p + 1} = {i \in Cuts(line) : i < p}
  BY NoNewCut, TextAssumption DEF ToggleQuote
<1>6. UNCHANGED <<line, fieldStart, fields, verdict>> /\ p' = p + 1 /\ inQuotes' = ~inQuotes
  BY DEF ToggleQuote
<1>7. fieldStart' <= p'
  BY <1>1, <1>6 DEF Midway
<1>8. inQuotes' <=> ~EvenQuotes(line', 1, p')
  BY <1>3, <1>6 DEF Midway
<1>9. inQuotes' <=> ~EvenQuotes(line', fieldStart', p')
  BY <1>4, <1>6 DEF Midway
<1>10. EndToEnd' /\ Balanced'
  BY <1>6 DEF Midway, EndToEnd, Balanced
<1>11. {fields'[k].b : k \in DOMAIN fields'} = {i \in Cuts(line') : i < p'}
  BY <1>5, <1>6 DEF Midway
<1>12. CutsAreExact'
  BY <1>6 DEF ToggleQuote, Scanning, CutsAreExact
<1> QED
  BY <1>2, <1>7, <1>8, <1>9, <1>10, <1>11, <1>12 DEF LineInv, Midway

LEMMA PassOverKeepsInv ==
    ASSUME ScanTypeOK, Midway, PassOver
    PROVE  LineInv'
<1>1. p \in DOMAIN line /\ p \in Nat /\ fieldStart \in Nat /\ line \in Seq(Token)
  BY DEF PassOver, Scanning, ScanTypeOK
<1>2. ScanTypeOK'
  BY <1>1 DEF PassOver, Scanning, ScanTypeOK
<1>3. EvenQuotes(line, 1, p + 1) <=> EvenQuotes(line, 1, p)
  BY <1>1, OthersDoNot DEF PassOver
<1>4. EvenQuotes(line, fieldStart, p + 1) <=> EvenQuotes(line, fieldStart, p)
  BY <1>1, OthersDoNot DEF PassOver
<1>5. {i \in Cuts(line) : i < p + 1} = {i \in Cuts(line) : i < p}
  BY NoNewCut DEF PassOver
<1>6. UNCHANGED <<line, inQuotes, fieldStart, fields, verdict>> /\ p' = p + 1
  BY DEF PassOver
<1>7. fieldStart' <= p'
  BY <1>1, <1>6 DEF Midway
<1>8. inQuotes' <=> ~EvenQuotes(line', 1, p')
  BY <1>3, <1>6 DEF Midway
<1>9. inQuotes' <=> ~EvenQuotes(line', fieldStart', p')
  BY <1>4, <1>6 DEF Midway
<1>10. EndToEnd' /\ Balanced'
  BY <1>6 DEF Midway, EndToEnd, Balanced
<1>11. {fields'[k].b : k \in DOMAIN fields'} = {i \in Cuts(line') : i < p'}
  BY <1>5, <1>6 DEF Midway
<1>12. CutsAreExact'
  BY <1>6 DEF PassOver, Scanning, CutsAreExact
<1> QED
  BY <1>2, <1>7, <1>8, <1>9, <1>10, <1>11, <1>12 DEF LineInv, Midway

\* What the end of the field in hand makes of the fields cut so far.
LEMMA FieldCut ==
    ASSUME ScanTypeOK, Midway, ~inQuotes, p \in Nat,
           fields' = Append(fields, [a |-> fieldStart, b |-> p])
    PROVE  /\ fields' \in Seq(Field)
           /\ fields' # <<>> /\ fields'[1].a = 1 /\ fields'[Len(fields')].b = p
           /\ \A k \in 1 .. Len(fields') - 1 : fields'[k + 1].a = fields'[k].b + 1
           /\ {fields'[k].b : k \in 1 .. Len(fields') - 1} = {i \in Cuts(line) : i < p}
           /\ \A k \in DOMAIN fields' :
                  fields'[k].a <= fields'[k].b /\ EvenQuotes(line, fields'[k].a, fields'[k].b)
<1> DEFINE last == [a |-> fieldStart, b |-> p]
<1>1. fields \in Seq(Field) /\ last \in Field
  BY DEF ScanTypeOK, Field
<1>2. /\ fields' \in Seq(Field) /\ Len(fields') = Len(fields) + 1
      /\ fields'[Len(fields) + 1] = last
      /\ \A k \in 1 .. Len(fields) : fields'[k] = fields[k]
  BY <1>1
<1>3. Len(fields) \in Nat /\ DOMAIN fields = 1 .. Len(fields)
      /\ DOMAIN fields' = 1 .. Len(fields) + 1
  BY <1>1, <1>2
<1>4. fields' # <<>> /\ fields'[Len(fields')].b = p
  BY <1>2, <1>3
<1>5. fields'[1].a = 1
  <2>1. CASE fields = <<>>
    BY <2>1, <1>2 DEF Midway, EndToEnd
  <2>2. CASE fields # <<>>
    <3>1. 1 \in 1 .. Len(fields)
      BY <1>1, <2>2
    <3> QED
      BY <3>1, <2>2, <1>2 DEF Midway, EndToEnd
  <2> QED
    BY <2>1, <2>2
<1>6. ASSUME NEW k \in 1 .. Len(fields') - 1
      PROVE  fields'[k + 1].a = fields'[k].b + 1
  <2>1. CASE k = Len(fields)
    <3>1. fields # <<>>
      BY <1>1, <1>2, <1>3, <2>1
    <3>2. fieldStart = fields[Len(fields)].b + 1
      BY <3>1 DEF Midway, EndToEnd
    <3>3. fields'[k + 1] = last /\ fields'[k] = fields[Len(fields)]
      BY <1>2, <1>3, <2>1
    <3> QED
      BY <3>2, <3>3
  <2>2. CASE k # Len(fields)
    <3>1. k \in 1 .. Len(fields) - 1 /\ k \in 1 .. Len(fields) /\ k + 1 \in 1 .. Len(fields)
      <4>1. Len(fields) \in Nat /\ k \in 1 .. (Len(fields) + 1) - 1
        BY <1>2, <1>3
      <4> QED
        BY <4>1, <2>2
    <3>2. fields[k + 1].a = fields[k].b + 1
      BY <3>1 DEF Midway, EndToEnd
    <3>3. fields'[k + 1] = fields[k + 1] /\ fields'[k] = fields[k]
      BY <1>2, <3>1
    <3> QED
      BY <3>2, <3>3
  <2> QED
    BY <2>1, <2>2
<1>7. {fields'[k].b : k \in 1 .. Len(fields') - 1} = {i \in Cuts(line) : i < p}
  <2>1. 1 .. Len(fields') - 1 = DOMAIN fields
    BY <1>2, <1>3
  <2>2. \A k \in DOMAIN fields : fields'[k].b = fields[k].b
    BY <1>2, <1>3
  <2>3. {fields'[k].b : k \in DOMAIN fields} = {fields[k].b : k \in DOMAIN fields}
    BY <2>2
  <2> QED
    BY <2>1, <2>3 DEF Midway
<1>8. ASSUME NEW k \in DOMAIN fields'
      PROVE  fields'[k].a <= fields'[k].b /\ EvenQuotes(line, fields'[k].a, fields'[k].b)
  <2>1. CASE k = Len(fields) + 1
    <3>1. fields'[k] = last
      BY <1>2, <2>1
    <3>2. last.a = fieldStart /\ last.b = p
      OBVIOUS
    <3>3. fieldStart <= p /\ EvenQuotes(line, fieldStart, p)
      BY DEF Midway
    <3> HIDE DEF last
    <3> QED
      BY <3>1, <3>2, <3>3
  <2>2. CASE k # Len(fields) + 1
    <3>1. k \in DOMAIN fields /\ fields'[k] = fields[k]
      BY <1>2, <1>3, <2>2
    <3> QED
      BY <3>1 DEF Midway, Balanced
  <2> QED
    BY <2>1, <2>2
<1> QED
  BY <1>2, <1>4, <1>5, <1>6, <1>7, <1>8

LEMMA EndFieldKeepsInv ==
    ASSUME ScanTypeOK, Midway, EndField
    PROVE  LineInv'
<1>1. p \in DOMAIN line /\ p \in Nat /\ fieldStart \in Nat /\ line \in Seq(Token)
  BY DEF EndField, Scanning, ScanTypeOK
<1>2. /\ UNCHANGED <<line, inQuotes, verdict>> /\ p' = p + 1 /\ fieldStart' = p + 1
      /\ ~inQuotes /\ line[p] = Comma /\ line[p] # Quote
      /\ fields' = Append(fields, [a |-> fieldStart, b |-> p])
  BY TextAssumption DEF EndField
<1>3. /\ fields' \in Seq(Field)
      /\ fields' # <<>> /\ fields'[1].a = 1 /\ fields'[Len(fields')].b = p
      /\ \A k \in 1 .. Len(fields') - 1 : fields'[k + 1].a = fields'[k].b + 1
      /\ {fields'[k].b : k \in 1 .. Len(fields') - 1} = {i \in Cuts(line) : i < p}
      /\ \A k \in DOMAIN fields' :
             fields'[k].a <= fields'[k].b /\ EvenQuotes(line, fields'[k].a, fields'[k].b)
  BY <1>1, <1>2, FieldCut
<1>4. ScanTypeOK'
  BY <1>1, <1>2, <1>3 DEF ScanTypeOK, EndField, Scanning
<1>5. ~EvenQuotes(line, 1, p + 1) <=> inQuotes
  BY <1>1, <1>2, OthersDoNot DEF Midway
<1>6. EvenQuotes(line, p + 1, p + 1)
  BY <1>1, NothingIsEven
<1>7. p \in Cuts(line)
  BY <1>1, <1>2 DEF Cuts, Midway
<1>8. {i \in Cuts(line) : i < p + 1} = {i \in Cuts(line) : i < p} \cup {p}
  <2>1. \A i \in Cuts(line) : i \in Nat
    BY <1>1 DEF Cuts
  <2> QED
    BY <1>1, <1>7, <2>1
<1>9. {fields'[k].b : k \in DOMAIN fields'} =
          {fields'[k].b : k \in 1 .. Len(fields') - 1} \cup {p}
  <2>1. DOMAIN fields' = (1 .. Len(fields') - 1) \cup {Len(fields')}
    <3>1. DOMAIN fields' = 1 .. Len(fields') /\ Len(fields') \in Nat /\ Len(fields') # 0
      BY <1>3
    <3> QED
      BY <3>1
  <2> QED
    BY <1>3, <2>1
<1>10. EndToEnd' /\ Balanced'
  BY <1>2, <1>3 DEF EndToEnd, Balanced
<1>11. fieldStart' <= p' /\ (inQuotes' <=> ~EvenQuotes(line', 1, p'))
       /\ (inQuotes' <=> ~EvenQuotes(line', fieldStart', p'))
  BY <1>1, <1>2, <1>5, <1>6
<1>12. {fields'[k].b : k \in DOMAIN fields'} = {i \in Cuts(line') : i < p'}
  BY <1>2, <1>3, <1>8, <1>9
<1>13. CutsAreExact'
  BY <1>2 DEF EndField, Scanning, CutsAreExact
<1> QED
  BY <1>4, <1>10, <1>11, <1>12, <1>13 DEF LineInv, Midway

LEMMA EndLineKeepsInv ==
    ASSUME ScanTypeOK, Midway, EndLine
    PROVE  LineInv'
<1>1. p = Len(line) + 1 /\ p \in Nat /\ line \in Seq(Token)
      /\ UNCHANGED <<line, p, inQuotes, fieldStart>>
  BY DEF EndLine, ScanTypeOK
<1>2. CASE inQuotes
  <2>1. verdict' = "unbalanced" /\ fields' = fields
    BY <1>2 DEF EndLine
  <2>2. ~EvenQuotes(line, 1, Len(line) + 1)
    BY <1>1, <1>2 DEF Midway
  <2>3. ScanTypeOK'
    BY <1>1, <2>1 DEF ScanTypeOK
  <2>4. CutsAreExact'
    BY <1>1, <2>1, <2>2 DEF CutsAreExact
  <2> QED
    BY <2>1, <2>3, <2>4 DEF LineInv
<1>3. CASE ~inQuotes
  <2>1. verdict' = "cut" /\ fields' = Append(fields, [a |-> fieldStart, b |-> p])
    BY <1>3 DEF EndLine
  <2>2. /\ fields' \in Seq(Field)
        /\ fields' # <<>> /\ fields'[1].a = 1 /\ fields'[Len(fields')].b = p
        /\ \A k \in 1 .. Len(fields') - 1 : fields'[k + 1].a = fields'[k].b + 1
        /\ {fields'[k].b : k \in 1 .. Len(fields') - 1} = {i \in Cuts(line) : i < p}
        /\ \A k \in DOMAIN fields' :
               fields'[k].a <= fields'[k].b /\ EvenQuotes(line, fields'[k].a, fields'[k].b)
    BY <1>1, <1>3, <2>1, FieldCut
  <2>3. {i \in Cuts(line) : i < p} = Cuts(line)
    BY <1>1 DEF Cuts
  <2>4. ScanTypeOK'
    BY <1>1, <2>1, <2>2 DEF ScanTypeOK
  <2>5. CutsAreExact'
    BY <1>1, <2>1, <2>2, <2>3 DEF CutsAreExact
  <2> QED
    BY <2>1, <2>4, <2>5 DEF LineInv
<1> QED
  BY <1>2, <1>3

LEMMA NextLineInv == LineInv /\ [ScanNext]_lineVars => LineInv'
<1> SUFFICES ASSUME LineInv, [ScanNext]_lineVars PROVE LineInv'
  OBVIOUS
<1>1. ScanNext => verdict = "scanning"
  BY DEF ScanNext, ToggleQuote, EndField, PassOver, EndLine, Scanning
<1>2. ScanNext => ScanTypeOK /\ Midway
  BY <1>1 DEF LineInv
<1>3. CASE ToggleQuote
  BY <1>2, <1>3, ToggleKeepsInv DEF ScanNext
<1>4. CASE EndField
  BY <1>2, <1>4, EndFieldKeepsInv DEF ScanNext
<1>5. CASE PassOver
  BY <1>2, <1>5, PassOverKeepsInv DEF ScanNext
<1>6. CASE EndLine
  BY <1>2, <1>6, EndLineKeepsInv DEF ScanNext
<1>7. CASE UNCHANGED lineVars
  BY <1>7 DEF lineVars, scanVars, LineInv, ScanTypeOK, Midway, EndToEnd, Balanced, CutsAreExact
<1> QED
  BY <1>3, <1>4, <1>5, <1>6, <1>7 DEF ScanNext

-----------------------------------------------------------------------------
\* The positions of the loop stay inside the line.
THEOREM LineTyped == LineSpec => []ScanTypeOK
<1>1. LineInv => ScanTypeOK
  BY DEF LineInv
<1> QED
  BY <1>1, InitLineInv, NextLineInv, PTL DEF LineSpec

\* Every line is cut at exactly its commas outside quotes or given up for a
\* quote without a partner, and no field is left with one quote.
THEOREM LineCutsAreExact == LineSpec => []CutsAreExact
<1>1. LineInv => CutsAreExact
  BY DEF LineInv
<1> QED
  BY <1>1, InitLineInv, NextLineInv, PTL DEF LineSpec

-----------------------------------------------------------------------------
\* The calendar.

LEMMA OtherFormIsStamp ==
    ASSUME NEW st \in Stamp, IsDate(st)
    PROVE  /\ OtherForm(st).y = st.y /\ OtherForm(st).mo = st.mo /\ OtherForm(st).d = st.d
           /\ OtherForm(st).mi = st.mi /\ OtherForm(st).s = st.s
           /\ OtherForm(st).bad = {} /\ OtherForm(st).cased
           /\ st.form = "24h" => /\ OtherForm(st).form = "12h"
                                 /\ OtherForm(st).h \in 1 .. 12 /\ Hour(OtherForm(st)) = st.h
           /\ st.form = "12h" => /\ OtherForm(st).form = "24h"
                                 /\ OtherForm(st).h \in 0 .. 23 /\ OtherForm(st).h = Hour(st)
<1>1. CASE st.form = "24h"
  <2>1. st.h \in 0 .. 23
    BY <1>1 DEF IsDate
  <2>2. /\ OtherForm(st) = [st EXCEPT !.form = "12h", !.half = IF st.h >= 12 THEN "PM" ELSE "AM",
                                      !.h = ((st.h + 11) % 12) + 1]
    BY <1>1 DEF OtherForm
  <2>3. ((st.h + 11) % 12) + 1 \in 1 .. 12
    BY <2>1
  <2>4. /\ OtherForm(st).h = ((st.h + 11) % 12) + 1 /\ OtherForm(st).form = "12h"
        /\ OtherForm(st).half = IF st.h >= 12 THEN "PM" ELSE "AM"
    BY <2>2 DEF Stamp
  <2>5. Hour(OtherForm(st)) = st.h
    BY <2>1, <2>4 DEF Hour
  <2> QED
    BY <1>1, <2>2, <2>3, <2>4, <2>5 DEF Stamp, IsDate
<1>2. CASE st.form = "12h"
  <2>1. st.h \in 1 .. 12
    BY <1>2 DEF IsDate
  <2>2. OtherForm(st) = [st EXCEPT !.form = "24h",
                                   !.h = (st.h % 12) + (IF st.half = "PM" THEN 12 ELSE 0)]
    BY <1>2 DEF OtherForm
  <2>3. (st.h % 12) + (IF st.half = "PM" THEN 12 ELSE 0) \in 0 .. 23
    BY <2>1
  <2>4. /\ OtherForm(st).h = (st.h % 12) + (IF st.half = "PM" THEN 12 ELSE 0)
        /\ OtherForm(st).form = "24h" /\ OtherForm(st).half = st.half
    BY <2>2 DEF Stamp
  <2>5. OtherForm(st).h = Hour(st)
    BY <2>1, <2>4 DEF Hour, Stamp
  <2> QED
    BY <1>2, <2>2, <2>3, <2>4, <2>5 DEF Stamp, IsDate
<1> QED
  BY <1>1, <1>2 DEF IsDate

\* A date is the same time in either form.
LEMMA FormsAgree ==
    ASSUME NEW st \in Stamp, IsDate(st)
    PROVE  PartitionTime(st) = PartitionTime(OtherForm(st))
<1> DEFINE ot == OtherForm(st)
<1>1. /\ st.mo \in 1 .. 12 /\ st.d \in 1 .. 31 /\ st.mi \in 0 .. 59 /\ st.s \in 0 .. 60
      /\ st.bad = {} /\ st.cased
  BY DEF IsDate
<1>2. CASE st.form = "24h"
  <2>1. st.h \in 0 .. 23
    BY <1>2 DEF IsDate
  <2>2. PartitionTime(st) = Timegm(st.y, st.mo, st.d, st.h, st.mi, st.s)
    BY <1>1, <1>2, <2>1 DEF PartitionTime, Partition24h, Partition12h
  <2>3. PartitionTime(ot) = Timegm(ot.y, ot.mo, ot.d, Hour(ot), ot.mi, ot.s)
    <3>1. Partition24h(ot) = NoTime
      BY <1>2, OtherFormIsStamp DEF Partition24h
    <3>2. Partition12h(ot) = Timegm(ot.y, ot.mo, ot.d, Hour(ot), ot.mi, ot.s)
      BY <1>1, <1>2, OtherFormIsStamp DEF Partition12h
    <3> QED
      BY <3>1, <3>2 DEF PartitionTime
  <2> QED
    BY <1>2, <2>2, <2>3, OtherFormIsStamp
<1>3. CASE st.form = "12h"
  <2>1. st.h \in 1 .. 12
    BY <1>3 DEF IsDate
  <2>2. PartitionTime(st) = Timegm(st.y, st.mo, st.d, Hour(st), st.mi, st.s)
    BY <1>1, <1>3, <2>1 DEF PartitionTime, Partition24h, Partition12h
  <2>3. PartitionTime(ot) = Timegm(ot.y, ot.mo, ot.d, ot.h, ot.mi, ot.s)
    <3>1. Partition12h(ot) = NoTime
      BY <1>3, OtherFormIsStamp DEF Partition12h
    <3>2. Partition24h(ot) = Timegm(ot.y, ot.mo, ot.d, ot.h, ot.mi, ot.s)
      BY <1>1, <1>3, OtherFormIsStamp DEF Partition24h
    <3> QED
      BY <3>1, <3>2 DEF PartitionTime
  <2> QED
    BY <1>3, <2>2, <2>3, OtherFormIsStamp
<1> QED
  BY <1>2, <1>3 DEF IsDate

\* The laxer parsers read what the stricter ones accept.
LEMMA LaxerAgree ==
    ASSUME NEW st \in Stamp
    PROVE  /\ Partition24h(st) # NoTime => TaxiTime(st) = Partition24h(st)
           /\ Partition12h(st) # NoTime => InMemoryTime(st) = Partition12h(st)
<1>1. ASSUME Partition24h(st) # NoTime PROVE TaxiTime(st) = Partition24h(st)
  BY <1>1 DEF Partition24h, TaxiTime
<1>2. ASSUME Partition12h(st) # NoTime PROVE InMemoryTime(st) = Partition12h(st)
  <2>1. /\ st.form = "12h" /\ st.bad = {} /\ st.mo \in 1 .. 12 /\ st.h \in 1 .. 12
        /\ Partition12h(st) = Timegm(st.y, st.mo, st.d, Hour(st), st.mi, st.s)
    BY <1>2 DEF Partition12h
  <2>2. Hour(st) = (IF st.h = 12 THEN 0 ELSE st.h) + (IF st.half = "PM" THEN 12 ELSE 0)
    BY <2>1 DEF Hour
  <2> QED
    BY <2>1, <2>2 DEF InMemoryTime
<1> QED
  BY <1>1, <1>2

-----------------------------------------------------------------------------
\* The days of the calendar in their order.

YearLength(y) == 365 + (IF Leap(y) THEN 1 ELSE 0)

MonthLength(y, mo) ==
    CASE mo = 2 -> IF Leap(y) THEN 29 ELSE 28
      [] mo \in {4, 6, 9, 11} -> 30
      [] OTHER -> 31

LEMMA NextYear ==
    ASSUME NEW y \in Nat
    PROVE  DaysBeforeYear(y + 1) = DaysBeforeYear(y) + YearLength(y)
<1>1. (y - 1968) \div 4 = (y - 1969) \div 4 + (IF y % 4 = 0 THEN 1 ELSE 0)
  OBVIOUS
<1>2. (y - 1900) \div 100 = (y - 1901) \div 100 + (IF y % 100 = 0 THEN 1 ELSE 0)
  OBVIOUS
<1>3. (y - 1600) \div 400 = (y - 1601) \div 400 + (IF y % 400 = 0 THEN 1 ELSE 0)
  OBVIOUS
<1>4. /\ y % 400 = 0 => y % 100 = 0
      /\ y % 100 = 0 => y % 4 = 0
  OBVIOUS
<1>5. /\ y + 1 - 1970 = y - 1970 + 1 /\ y + 1 - 1969 = y - 1968
      /\ y + 1 - 1901 = y - 1900 /\ y + 1 - 1601 = y - 1600
  OBVIOUS
<1> QED
  BY <1>1, <1>2, <1>3, <1>4, <1>5 DEF DaysBeforeYear, YearLength, Leap

LEMMA LaterYear ==
    ASSUME NEW y \in Nat, NEW z \in Nat, y < z
    PROVE  /\ DaysBeforeYear(y) \in Int /\ DaysBeforeYear(z) \in Int
           /\ DaysBeforeYear(y) + YearLength(y) <= DaysBeforeYear(z)
<1>1. DaysBeforeYear(y) \in Int /\ DaysBeforeYear(z) \in Int
  BY DEF DaysBeforeYear
<1>2. CASE z = y + 1
  BY <1>1, <1>2, NextYear DEF YearLength
<1>3. CASE z >= y + 2
  BY <1>1, <1>3 DEF DaysBeforeYear, YearLength
<1> QED
  BY <1>1, <1>2, <1>3

\* A month begins where the one before it ends, and the last one ends with
\* the year.
LEMMA NextMonth ==
    ASSUME NEW y \in Nat
    PROVE  /\ \A mo \in 1 .. 12 : DaysBeforeMonth(y, mo) \in Int /\ 0 <= DaysBeforeMonth(y, mo)
           /\ DaysBeforeMonth(y, 12) + MonthLength(y, 12) = YearLength(y)
           /\ \A mo \in 1 .. 11 :
                  DaysBeforeMonth(y, mo + 1) = DaysBeforeMonth(y, mo) + MonthLength(y, mo)
<1>1. \A mo \in 1 .. 12 : mo = 1 \/ mo = 2 \/ mo = 3 \/ mo = 4 \/ mo = 5 \/ mo = 6
          \/ mo = 7 \/ mo = 8 \/ mo = 9 \/ mo = 10 \/ mo = 11 \/ mo = 12
  OBVIOUS
<1> QED
  BY <1>1 DEF DaysBeforeMonth, MonthLength, YearLength

LEMMA LaterMonth ==
    ASSUME NEW y \in Nat, NEW mo \in 1 .. 12, NEW no \in 1 .. 12, mo < no
    PROVE  DaysBeforeMonth(y, mo) + MonthLength(y, mo) <= DaysBeforeMonth(y, no)
<1>1. \A m \in 1 .. 12 : m = 1 \/ m = 2 \/ m = 3 \/ m = 4 \/ m = 5 \/ m = 6
          \/ m = 7 \/ m = 8 \/ m = 9 \/ m = 10 \/ m = 11 \/ m = 12
  OBVIOUS
<1> QED
  BY <1>1 DEF DaysBeforeMonth, MonthLength

\* The day of a date.
DayOf(st) == DaysBeforeYear(st.y) + DaysBeforeMonth(st.y, st.mo) + st.d - 1

SecondOf(st) == 3600 * st.h + 60 * st.mi + st.s

IsSecond(x) == x \in Nat /\ x < 86400

LEMMA WithinDay ==
    ASSUME NEW x, IsSecond(x)
    PROVE  x \in Int /\ x \div 86400 = 0 /\ x % 86400 = x
  BY DEF IsSecond

LEMMA WithinTwelve ==
    ASSUME NEW mo \in 1 .. 12
    PROVE  (mo - 1) \div 12 = 0 /\ ((mo - 1) % 12) + 1 = mo
  OBVIOUS

LEMMA DaysAreInts ==
    ASSUME NEW y \in Nat, NEW mo \in 1 .. 12
    PROVE  /\ DaysBeforeYear(y) \in Int /\ YearLength(y) \in Int
           /\ DaysBeforeMonth(y, mo) \in Int /\ 0 <= DaysBeforeMonth(y, mo)
           /\ MonthLength(y, mo) \in Int /\ 0 <= MonthLength(y, mo)
<1>1. DaysBeforeYear(y) \in Int
  BY DEF DaysBeforeYear
<1>2. YearLength(y) \in Int
  BY DEF YearLength
<1>3. DaysBeforeMonth(y, mo) \in Int /\ 0 <= DaysBeforeMonth(y, mo)
  BY NextMonth
<1>4. MonthLength(y, mo) \in Int /\ 0 <= MonthLength(y, mo)
  BY DEF MonthLength
<1> QED
  BY <1>1, <1>2, <1>3, <1>4

LEMMA TimeOfAnyDate ==
    ASSUME NEW st \in Stamp, IsDate(st), st.form = "24h"
    PROVE  /\ PartitionTime(st) = IF <<DayOf(st), SecondOf(st)>> = <<-1, 86399>> THEN NoTime
                                  ELSE <<DayOf(st), SecondOf(st)>>
           /\ DayOf(st) \in Int /\ IsSecond(SecondOf(st)) /\ SecondOf(st) \in Int
<1>1. /\ st.y \in Nat /\ st.mo \in 1 .. 12 /\ st.d \in 1 .. 31
      /\ st.h \in 0 .. 23 /\ st.mi \in 0 .. 59 /\ st.s \in 0 .. 59
  BY DEF IsDate, Stamp
<1>2. PartitionTime(st) = Timegm(st.y, st.mo, st.d, st.h, st.mi, st.s)
  BY <1>1 DEF PartitionTime, Partition24h, Partition12h, IsDate
<1>3. IsSecond(SecondOf(st))
  <2>1. /\ st.h \in Nat /\ st.mi \in Nat /\ st.s \in Nat
        /\ st.h <= 23 /\ st.mi <= 59 /\ st.s <= 59
    BY <1>1
  <2> QED
    BY <2>1 DEF SecondOf, IsSecond
<1>4. /\ SecondOf(st) \div 86400 = 0 /\ SecondOf(st) % 86400 = SecondOf(st)
      /\ SecondOf(st) \in Int
  BY <1>3, WithinDay
<1>5. (st.mo - 1) \div 12 = 0 /\ ((st.mo - 1) % 12) + 1 = st.mo
  BY <1>1, WithinTwelve
<1>6. DaysBeforeYear(st.y) \in Int /\ DaysBeforeMonth(st.y, st.mo) \in Int
  BY <1>1, DaysAreInts
<1>7. st.y + (st.mo - 1) \div 12 = st.y
  BY <1>1, <1>5
<1> DEFINE t == <<DaysBeforeYear(st.y) + DaysBeforeMonth(st.y, st.mo) + st.d - 1
                     + SecondOf(st) \div 86400,
                  SecondOf(st) % 86400>>
<1>8. Timegm(st.y, st.mo, st.d, st.h, st.mi, st.s) = IF t = <<-1, 86399>> THEN NoTime ELSE t
  BY <1>5, <1>7 DEF Timegm, SecondOf
<1>9. DayOf(st) \in Int /\ DayOf(st) + 0 = DayOf(st)
  BY <1>1, <1>6 DEF DayOf
<1>10. t = <<DayOf(st), SecondOf(st)>>
  BY <1>4, <1>9 DEF DayOf
<1> QED
  BY <1>2, <1>3, <1>4, <1>8, <1>9, <1>10

LEMMA TimeOfDate ==
    ASSUME NEW st \in Stamp, IsDate(st), st.form = "24h", PartitionTime(st) # NoTime
    PROVE  /\ PartitionTime(st) = <<DayOf(st), SecondOf(st)>>
           /\ DayOf(st) \in Int /\ SecondOf(st) \in Int
<1>1. /\ PartitionTime(st) = IF <<DayOf(st), SecondOf(st)>> = <<-1, 86399>> THEN NoTime
                             ELSE <<DayOf(st), SecondOf(st)>>
      /\ DayOf(st) \in Int /\ SecondOf(st) \in Int
  BY TimeOfAnyDate
<1> QED
  BY <1>1

LEMMA WithinYear ==
    ASSUME NEW y \in Nat, NEW mo \in 1 .. 12
    PROVE  DaysBeforeMonth(y, mo) + MonthLength(y, mo) <= YearLength(y)
<1>1. mo = 12 \/ mo < 12
  OBVIOUS
<1>2. 12 \in 1 .. 12
  OBVIOUS
<1>3. /\ DaysBeforeMonth(y, 12) + MonthLength(y, 12) = YearLength(y)
      /\ DaysBeforeMonth(y, 12) \in Int /\ MonthLength(y, 12) \in Int
      /\ 0 <= MonthLength(y, 12) /\ DaysBeforeMonth(y, mo) \in Int
      /\ MonthLength(y, mo) \in Int /\ YearLength(y) \in Int
  BY <1>2, NextMonth, DaysAreInts
<1>4. CASE mo = 12
  BY <1>3, <1>4
<1>5. CASE mo < 12
  <2>1. DaysBeforeMonth(y, mo) + MonthLength(y, mo) <= DaysBeforeMonth(y, 12)
    BY <1>2, <1>5, LaterMonth
  <2> QED
    BY <1>3, <2>1
<1> QED
  BY <1>1, <1>4, <1>5

\* Of two dates the earlier has the smaller day, or the smaller second of
\* the same day.
LEMMA EarlierIsBefore ==
    ASSUME NEW a \in Stamp, IsDate(a), a.form = "24h", PartitionTime(a) # NoTime,
           NEW b \in Stamp, IsDate(b), b.form = "24h", PartitionTime(b) # NoTime,
           Earlier(a, b)
    PROVE  Before(PartitionTime(a), PartitionTime(b))
<1>1. /\ a.y \in Nat /\ a.mo \in 1 .. 12 /\ a.d \in 1 .. MonthLength(a.y, a.mo)
      /\ b.y \in Nat /\ b.mo \in 1 .. 12 /\ b.d \in 1 .. MonthLength(b.y, b.mo)
  BY DEF IsDate, Stamp, MonthLength
<1>2. /\ PartitionTime(a) = <<DayOf(a), SecondOf(a)>>
      /\ PartitionTime(b) = <<DayOf(b), SecondOf(b)>>
      /\ DayOf(a) \in Int /\ DayOf(b) \in Int
  BY TimeOfDate
<1>3. /\ DaysBeforeYear(a.y) \in Int /\ DaysBeforeYear(b.y) \in Int
      /\ DaysBeforeMonth(a.y, a.mo) \in Int
      /\ DaysBeforeMonth(b.y, b.mo) \in Int /\ 0 <= DaysBeforeMonth(b.y, b.mo)
      /\ MonthLength(a.y, a.mo) \in Int /\ YearLength(a.y) \in Int
      /\ a.d \in Int /\ a.d <= MonthLength(a.y, a.mo) /\ b.d \in Int /\ 1 <= b.d
  <2>1. MonthLength(a.y, a.mo) \in Int /\ MonthLength(b.y, b.mo) \in Int
    BY <1>1, DaysAreInts
  <2>2. /\ a.d \in Int /\ a.d <= MonthLength(a.y, a.mo) /\ b.d \in Int /\ 1 <= b.d
    BY <1>1, <2>1
  <2> QED
    BY <1>1, <2>1, <2>2, DaysAreInts
<1>4. DaysBeforeMonth(a.y, a.mo) + MonthLength(a.y, a.mo) <= YearLength(a.y)
  BY <1>1, WithinYear
<1>5. CASE a.y < b.y
  <2>1. DaysBeforeYear(a.y) + YearLength(a.y) <= DaysBeforeYear(b.y)
    BY <1>1, <1>5, LaterYear
  <2>2. DayOf(a) < DayOf(b)
    BY <1>3, <1>4, <2>1 DEF DayOf
  <2> QED
    BY <1>2, <2>2 DEF Before
<1>6. CASE a.y = b.y /\ a.mo < b.mo
  <2>1. DaysBeforeMonth(a.y, a.mo) + MonthLength(a.y, a.mo) <= DaysBeforeMonth(b.y, b.mo)
    BY <1>1, <1>6, LaterMonth
  <2>2. DayOf(a) < DayOf(b)
    BY <1>3, <1>6, <2>1 DEF DayOf
  <2> QED
    BY <1>2, <2>2 DEF Before
<1>7. CASE a.y = b.y /\ a.mo = b.mo /\ a.d < b.d
  <2>1. DayOf(a) < DayOf(b)
    BY <1>3, <1>7 DEF DayOf
  <2> QED
    BY <1>2, <2>1 DEF Before
<1>8. CASE a.y = b.y /\ a.mo = b.mo /\ a.d = b.d /\ SecondOf(a) < SecondOf(b)
  <2>1. DayOf(a) = DayOf(b)
    BY <1>8 DEF DayOf
  <2> QED
    BY <1>2, <1>8, <2>1 DEF Before
<1> QED
  BY <1>5, <1>6, <1>7, <1>8 DEF Earlier, SecondOf

\* And the other way round: of two dates one is earlier, or they are the
\* same.
LEMMA BeforeIsEarlier ==
    ASSUME NEW a \in Stamp, IsDate(a), a.form = "24h", PartitionTime(a) # NoTime,
           NEW b \in Stamp, IsDate(b), b.form = "24h", PartitionTime(b) # NoTime,
           Before(PartitionTime(a), PartitionTime(b))
    PROVE  Earlier(a, b)
<1>1. /\ PartitionTime(a) = <<DayOf(a), SecondOf(a)>>
      /\ PartitionTime(b) = <<DayOf(b), SecondOf(b)>>
      /\ DayOf(a) \in Int /\ DayOf(b) \in Int
      /\ SecondOf(a) \in Int /\ SecondOf(b) \in Int
  BY TimeOfDate
<1>2. ~Before(PartitionTime(b), PartitionTime(a))
  BY <1>1 DEF Before
<1>3. ~Earlier(b, a)
  BY <1>2, EarlierIsBefore
<1>4. /\ a.y \in Nat /\ a.mo \in Nat /\ a.d \in Nat
      /\ b.y \in Nat /\ b.mo \in Nat /\ b.d \in Nat
  BY DEF Stamp
<1>5. CASE a.y = b.y /\ a.mo = b.mo /\ a.d = b.d /\ SecondOf(a) = SecondOf(b)
  <2>1. DayOf(a) = DayOf(b)
    BY <1>5 DEF DayOf
  <2> QED
    BY <1>1, <1>5, <2>1 DEF Before
<1> QED
  BY <1>1, <1>3, <1>4, <1>5 DEF Earlier, SecondOf

\* The days next to the beginning of 1970.
LEMMA FirstDays ==
    ASSUME NEW st \in Stamp, IsDate(st)
    PROVE  /\ DayOf(st) = 0 => st.y = 1970 /\ st.mo = 1 /\ st.d = 1
           /\ DayOf(st) = -1 => st.y = 1969 /\ st.mo = 12 /\ st.d = 31
<1>1. st.y \in Nat /\ st.mo \in 1 .. 12 /\ st.d \in 1 .. MonthLength(st.y, st.mo)
  BY DEF IsDate, Stamp, MonthLength
<1> DEFINE B == DaysBeforeYear(st.y)
           M == DaysBeforeMonth(st.y, st.mo)
           E == MonthLength(st.y, st.mo)
<1>2. /\ B \in Int /\ M \in Int /\ 0 <= M /\ E \in Int
      /\ YearLength(st.y) \in Int
  BY <1>1, DaysAreInts
<1>3. st.d \in Int /\ 1 <= st.d /\ st.d <= E
  BY <1>1, <1>2
<1>4. M + E <= YearLength(st.y)
  BY <1>1, WithinYear
<1>5. DayOf(st) = B + M + st.d - 1
  BY DEF DayOf
<1>6. /\ DaysBeforeYear(1969) = -365 /\ YearLength(1969) = 365
      /\ DaysBeforeYear(1970) = 0 /\ YearLength(1970) = 365
  BY DEF DaysBeforeYear, YearLength, Leap
<1>7. CASE st.y < 1969
  <2>1. B + YearLength(st.y) <= -365
    BY <1>1, <1>6, <1>7, LaterYear
  <2> QED
    BY <1>2, <1>3, <1>4, <1>5, <2>1
<1>8. CASE st.y = 1969
  <2>1. st.mo < 12 => M + E <= 334
    <3>1. ASSUME st.mo < 12 PROVE M + E <= DaysBeforeMonth(st.y, 12)
      BY <1>1, <3>1, LaterMonth
    <3>2. DaysBeforeMonth(1969, 12) = 334
      BY DEF DaysBeforeMonth, Leap
    <3> QED
      BY <1>8, <3>1, <3>2
  <2>2. st.mo = 12 => M = 334 /\ E = 31
    BY <1>8 DEF DaysBeforeMonth, MonthLength, Leap
  <2>3. B = -365
    BY <1>6, <1>8
  <2> HIDE DEF B, M, E
  <2>4. CASE st.mo < 12
    <3>1. DayOf(st) < -1
      BY <1>2, <1>3, <1>5, <2>1, <2>3, <2>4
    <3> QED
      BY <3>1
  <2>5. CASE st.mo = 12
    <3>1. DayOf(st) = st.d - 32 /\ st.d <= 31
      BY <1>2, <1>3, <1>5, <2>2, <2>3, <2>5
    <3>2. DayOf(st) # 0 /\ (DayOf(st) = -1 => st.d = 31)
      BY <1>3, <3>1
    <3> QED
      BY <1>8, <2>5, <3>2
  <2> QED
    BY <1>1, <2>4, <2>5
<1>9. CASE st.y = 1970
  <2>1. st.mo > 1 => M >= 31
    <3>1. ASSUME st.mo > 1
          PROVE  DaysBeforeMonth(st.y, 1) + MonthLength(st.y, 1) <= M
      BY <1>1, <3>1, LaterMonth
    <3>2. DaysBeforeMonth(1970, 1) + MonthLength(1970, 1) = 31
      BY DEF DaysBeforeMonth, MonthLength, Leap
    <3> QED
      BY <1>9, <3>1, <3>2
  <2>2. B = 0
    BY <1>6, <1>9
  <2>3. st.mo = 1 => M = 0
    BY <1>9 DEF DaysBeforeMonth, Leap
  <2> HIDE DEF B, M, E
  <2>4. DayOf(st) >= 0 /\ (st.mo > 1 => DayOf(st) > 0)
    BY <1>1, <1>2, <1>3, <1>5, <2>1, <2>2
  <2>5. st.mo = 1 => DayOf(st) = st.d - 1
    BY <1>2, <1>3, <1>5, <2>2, <2>3
  <2>6. DayOf(st) # -1 /\ (DayOf(st) = 0 => st.mo = 1 /\ st.d = 1)
    BY <1>1, <1>3, <2>4, <2>5
  <2> QED
    BY <1>9, <2>6
<1>10. CASE st.y > 1970
  <2>1. 0 + 365 <= B
    BY <1>1, <1>6, <1>10, LaterYear
  <2> HIDE DEF B, M, E
  <2> QED
    BY <1>2, <1>3, <1>5, <2>1
<1> QED
  BY <1>1, <1>7, <1>8, <1>9, <1>10

LEMMA LostDates ==
    ASSUME NEW st \in Stamp, IsDate(st), st.form = "24h"
    PROVE  PartitionTime(st) = NoTime <=> IsLost(st)
<1>1. /\ PartitionTime(st) = IF <<DayOf(st), SecondOf(st)>> = <<-1, 86399>> THEN NoTime
                             ELSE <<DayOf(st), SecondOf(st)>>
      /\ DayOf(st) \in Int /\ SecondOf(st) \in Int
  BY TimeOfAnyDate
<1>2. /\ st.h \in 0 .. 23 /\ st.mi \in 0 .. 59 /\ st.s \in 0 .. 59
  BY DEF IsDate
<1>3. ASSUME PartitionTime(st) = NoTime PROVE IsLost(st)
  <2>1. \/ DayOf(st) = -1 /\ SecondOf(st) = 86399
        \/ DayOf(st) = 0 /\ SecondOf(st) = 0
    BY <1>1, <1>3 DEF NoTime
  <2>2. /\ SecondOf(st) = 0 => st.h = 0 /\ st.mi = 0 /\ st.s = 0
        /\ SecondOf(st) = 86399 => st.h = 23 /\ st.mi = 59 /\ st.s = 59
    <3>1. PICK h \in 0 .. 23, mi \in 0 .. 59, s \in 0 .. 59 :
              st.h = h /\ st.mi = mi /\ st.s = s
      BY <1>2
    <3>2. /\ 3600 * h + 60 * mi + s = 0 => h = 0 /\ mi = 0 /\ s = 0
          /\ 3600 * h + 60 * mi + s = 86399 => h = 23 /\ mi = 59 /\ s = 59
      OBVIOUS
    <3>3. SecondOf(st) = 3600 * h + 60 * mi + s
      BY <3>1 DEF SecondOf
    <3> QED
      BY <3>1, <3>2, <3>3
  <2> QED
    BY <2>1, <2>2, FirstDays DEF IsLost
<1>4. ASSUME IsLost(st) PROVE PartitionTime(st) = NoTime
  <2>1. \/ DayOf(st) = -1 /\ SecondOf(st) = 86399
        \/ DayOf(st) = 0 /\ SecondOf(st) = 0
    <3>1. /\ DaysBeforeYear(1969) = -365 /\ DaysBeforeMonth(1969, 12) = 334
          /\ DaysBeforeYear(1970) = 0 /\ DaysBeforeMonth(1970, 1) = 0
      BY DEF DaysBeforeYear, DaysBeforeMonth, Leap
    <3> QED
      BY <1>4, <3>1 DEF IsLost, DayOf, SecondOf
  <2> QED
    BY <1>1, <2>1 DEF NoTime
<1> QED
  BY <1>3, <1>4

\* Whatever a file holds, the parsers agree on the times in a line: a date
\* has one time in every form, two dates have none, and earlier dates have
\* smaller times.
THEOREM TimesAlwaysAgree == FileSpec => []TimesAgree
<1>1. TimesAgree
  <2>1. SUFFICES ASSUME NEW st \in StampsIn(line), NEW other \in StampsIn(line)
        PROVE /\ IsDate(st) => PartitionTime(st) = PartitionTime(OtherForm(st))
              /\ IsDate(st) /\ st.form = "24h" => (PartitionTime(st) = NoTime <=> IsLost(st))
              /\ Partition24h(st) # NoTime => TaxiTime(st) = Partition24h(st)
              /\ Partition12h(st) # NoTime => InMemoryTime(st) = Partition12h(st)
              /\ /\ IsDate(st) /\ st.form = "24h"
                 /\ IsDate(other) /\ other.form = "24h"
                 /\ PartitionTime(st) # NoTime /\ PartitionTime(other) # NoTime
                 => (Earlier(st, other)
                        <=> Before(PartitionTime(st), PartitionTime(other)))
    BY DEF TimesAgree
  <2>2. st \in Stamp /\ other \in Stamp
    BY FilesAssumption DEF StampsIn
  <2> QED
    BY <2>2, FormsAgree, LostDates, LaxerAgree, EarlierIsBefore, BeforeIsEarlier
<1> QED
  BY <1>1, PTL

-----------------------------------------------------------------------------
\* The fields of a line, found by counting cuts or one after the other.

\* The numbers in an ascending list of k are k.
LEMMA CountAscending ==
    ASSUME NEW k \in Nat, NEW f \in [1 .. k -> Nat],
           \A i \in 1 .. k, j \in 1 .. k : i < j => f[i] < f[j]
    PROVE  Cardinality({f[j] : j \in 1 .. k}) = k
<1> DEFINE S == {f[j] : j \in 1 .. k}
<1>1. f \in [1 .. k -> S]
  OBVIOUS
<1>2. \A i \in 1 .. k, j \in 1 .. k : f[i] = f[j] => i = j
  OBVIOUS
<1>3. \A y \in S : \E j \in 1 .. k : f[j] = y
  OBVIOUS
<1>4. f \in Bijection(1 .. k, S)
  BY <1>1, <1>2, <1>3 DEF Bijection, Injection, IsInjective, Surjection
<1>5. ExistsBijection(1 .. k, S)
  BY <1>4 DEF ExistsBijection
<1> HIDE DEF S
<1>6. Cardinality(S) = k
  BY <1>5, FS_CountingElements
<1> QED
  BY <1>6 DEF S

LEMMA EndsAscend ==
    ASSUME ScanTypeOK, CutsAreExact, verdict = "cut"
    PROVE  /\ Len(fields) \in Nat \ {0} /\ DOMAIN fields = 1 .. Len(fields)
           /\ \A k \in 1 .. Len(fields) : fields[k] \in Field /\ fields[k].b \in Nat
           /\ \A k \in 1 .. Len(fields), j \in 1 .. Len(fields) :
                  j < k => fields[j].b < fields[k].b
<1> DEFINE n == Len(fields)
           G == {k \in 0 .. n : \A j \in 1 .. n : j < k => fields[j].b < fields[k].b}
<1>1. /\ n \in Nat \ {0} /\ DOMAIN fields = 1 .. n
      /\ \A k \in 1 .. n : fields[k] \in Field
  <2>1. fields \in Seq(Field) /\ fields # <<>>
    BY DEF ScanTypeOK, CutsAreExact
  <2> QED
    BY <2>1
<1>2. \A k \in 1 .. n : fields[k].a \in Nat /\ fields[k].b \in Nat
  BY <1>1 DEF Field
<1>3. \A k \in 1 .. n - 1 : fields[k].b < fields[k + 1].b
  <2> SUFFICES ASSUME NEW k \in 1 .. n - 1 PROVE fields[k].b < fields[k + 1].b
    OBVIOUS
  <2>1. k \in 1 .. n /\ k + 1 \in 1 .. n
    BY <1>1
  <2>2. fields[k + 1].a = fields[k].b + 1 /\ fields[k + 1].a <= fields[k + 1].b
    BY <1>1, <2>1 DEF CutsAreExact
  <2> QED
    BY <1>2, <2>1, <2>2
<1>4. 0 \in G
  BY <1>1
<1>5. ASSUME NEW k \in 0 .. n - 1, k \in G PROVE k + 1 \in G
  <2>1. k + 1 \in 0 .. n /\ k \in Nat
    BY <1>1
  <2>2. ASSUME NEW j \in 1 .. n, j < k + 1 PROVE fields[j].b < fields[k + 1].b
    <3>1. k \in 1 .. n /\ k \in 1 .. n - 1 /\ (j = k \/ j < k) /\ k + 1 \in 1 .. n
      BY <1>1, <2>1, <2>2
    <3>2. fields[k].b < fields[k + 1].b
      BY <1>3, <3>1
    <3>3. j < k => fields[j].b < fields[k].b
      BY <1>5
    <3> QED
      BY <1>2, <3>1, <3>2, <3>3
  <2> QED
    BY <2>1, <2>2
<1> HIDE DEF G
<1>6. \A k \in 0 .. n : k \in G
  BY <1>1, <1>4, <1>5, StepByStep
<1> QED
  BY <1>1, <1>2, <1>6 DEF G

LEMMA CellsOfLine ==
    ASSUME ScanTypeOK, CutsAreExact, verdict = "cut"
    PROVE  /\ DOMAIN Cells(line) = DOMAIN fields
           /\ Len(fields) \in Nat /\ DOMAIN fields = 1 .. Len(fields)
           /\ \A k \in DOMAIN fields : Cells(line)[k] = Cell(k)
<1> DEFINE n == Len(fields)
           ends == Cuts(line) \cup {Len(line) + 1}
           End(k) == CHOOSE e \in ends : Cardinality({x \in ends : x <= e}) = k
<1>1. /\ n \in Nat \ {0} /\ DOMAIN fields = 1 .. n
      /\ \A k \in 1 .. n : fields[k].b \in Nat
      /\ \A k \in 1 .. n, j \in 1 .. n : j < k => fields[j].b < fields[k].b
  BY EndsAscend
<1>2. ends = {fields[k].b : k \in 1 .. n}
  <2>1. /\ {fields[k].b : k \in 1 .. n - 1} = Cuts(line)
        /\ fields[n].b = Len(line) + 1
    BY DEF CutsAreExact
  <2>2. 1 .. n = (1 .. n - 1) \cup {n}
    BY <1>1
  <2> QED
    BY <2>1, <2>2
<1> HIDE DEF ends
<1>3. ASSUME NEW k \in 1 .. n
      PROVE  Cardinality({x \in ends : x <= fields[k].b}) = k
  <2> DEFINE f == [j \in 1 .. k |-> fields[j].b]
  <2>1. k \in Nat /\ \A j \in 1 .. k : j \in 1 .. n
    BY <1>1
  <2>2. {x \in ends : x <= fields[k].b} = {f[j] : j \in 1 .. k}
    <3>1. ASSUME NEW x \in ends, x <= fields[k].b PROVE \E j \in 1 .. k : f[j] = x
      <4>1. PICK j \in 1 .. n : x = fields[j].b
        BY <1>2
      <4>2. ~(k < j)
        BY <1>1, <3>1, <4>1
      <4>3. j \in 1 .. k
        BY <1>1, <4>2
      <4> QED
        BY <4>1, <4>3
    <3>2. ASSUME NEW j \in 1 .. k PROVE f[j] \in ends /\ f[j] <= fields[k].b
      <4>1. j \in 1 .. n /\ (j = k \/ j < k)
        BY <2>1
      <4>2. fields[j].b <= fields[k].b
        BY <1>1, <4>1
      <4> QED
        BY <1>2, <4>1, <4>2
    <3> QED
      BY <3>1, <3>2
  <2>3. f \in [1 .. k -> Nat] /\ \A i \in 1 .. k, j \in 1 .. k : i < j => f[i] < f[j]
    BY <1>1, <2>1
  <2> HIDE DEF f
  <2> QED
    BY <2>1, <2>2, <2>3, CountAscending
<1>4. Cardinality(ends) = n
  <2>1. {x \in ends : x <= fields[n].b} = ends
    <3>1. \A k \in 1 .. n : fields[k].b <= fields[n].b
      BY <1>1
    <3> QED
      BY <1>2, <3>1
  <2>2. n \in 1 .. n
    BY <1>1
  <2>3. Cardinality({x \in ends : x <= fields[n].b}) = n
    BY <1>3, <2>2
  <2> QED
    BY <2>1, <2>3
<1>5. ASSUME NEW k \in 1 .. n PROVE End(k) = fields[k].b
  <2>1. fields[k].b \in ends /\ Cardinality({x \in ends : x <= fields[k].b}) = k
    BY <1>2, <1>3
  <2>2. ASSUME NEW e \in ends, Cardinality({x \in ends : x <= e}) = k
        PROVE  e = fields[k].b
    <3>1. PICK j \in 1 .. n : e = fields[j].b
      BY <1>2
    <3>2. j = k
      BY <1>3, <2>2, <3>1
    <3> QED
      BY <3>1, <3>2
  <2> QED
    BY <2>1, <2>2
<1>6. Cells(line) = [k \in 1 .. n |->
          Strip(SubSeq(line, IF k = 1 THEN 1 ELSE End(k - 1) + 1, End(k) - 1))]
  BY <1>4 DEF Cells, ends
<1> HIDE DEF End
<1>7. ASSUME NEW k \in 1 .. n
      PROVE  (IF k = 1 THEN 1 ELSE End(k - 1) + 1) = fields[k].a
  <2>1. CASE k = 1
    BY <2>1 DEF CutsAreExact
  <2>2. CASE k # 1
    <3>1. k - 1 \in 1 .. n - 1 /\ k - 1 \in 1 .. n /\ k - 1 + 1 = k
      BY <1>1, <2>2
    <3>2. fields[k].a = fields[k - 1].b + 1
      BY <3>1 DEF CutsAreExact
    <3> QED
      BY <1>5, <2>2, <3>1, <3>2
  <2> QED
    BY <2>1, <2>2
<1>8. \A k \in 1 .. n : Cells(line)[k] = Cell(k)
  BY <1>5, <1>6, <1>7 DEF Cell
<1> QED
  BY <1>1, <1>6, <1>8

-----------------------------------------------------------------------------
\* Reading a file.

CutMeansEven ==
    verdict # "scanning" => (verdict = "cut" <=> EvenQuotes(line, 1, Len(line) + 1))

\* The names in the header as Cells finds them, and the positions they give.
HeaderNames ==
    [k \in DOMAIN Cells(Header[csv]) |-> Normal(Cells(Header[csv])[k])]

Usable ==
    /\ EvenQuotes(Header[csv], 1, Len(Header[csv]) + 1)
    /\ Needed(parser) \subseteq Range(HeaderNames)

PositionsIn(names) ==
    [c \in Known(parser) \cap Range(names) |-> Max({k \in DOMAIN names : names[k] = c})]

IdxInv ==
    /\ ~Usable => parser = "taxi"
    /\ idx = IF Usable THEN PositionsIn(HeaderNames) ELSE Standard

TripRead ==
    IF verdict = "unbalanced" \/ Parsed("tpep_pickup_datetime") = NoTime
    THEN NoTrip
    ELSE [accepted |-> TRUE, of |-> [c \in Known(parser) |-> Parsed(c)]]

FileInv ==
    /\ LineInv
    /\ CutMeansEven
    /\ parser \in {"partition", "taxi"}
    /\ csv \in DOMAIN Header
    /\ phase \in {"header", "ready", "row", "judged", "skipped"}
    /\ phase = "header" => line = Header[csv]
    /\ phase \in {"ready", "row", "judged"} => IdxInv
    /\ phase = "judged" => verdict # "scanning" /\ trip = TripRead

LEMMA NeededAreKnown ==
    ASSUME parser \in {"partition", "taxi"}
    PROVE  Needed(parser) \subseteq Known(parser)
<1>1. {"vendorid", "tpep_pickup_datetime", "tpep_dropoff_datetime"} \subseteq Range(FixedOrder)
  <2>1. DOMAIN FixedOrder = 1 .. 19 /\ 1 \in 1 .. 19 /\ 2 \in 1 .. 19 /\ 3 \in 1 .. 19
    BY DEF FixedOrder
  <2>2. /\ FixedOrder[1] = "vendorid" /\ FixedOrder[2] = "tpep_pickup_datetime"
        /\ FixedOrder[3] = "tpep_dropoff_datetime"
    BY DEF FixedOrder
  <2> QED
    BY <2>1, <2>2 DEF Range
<1> QED
  BY <1>1 DEF Needed, Known

LEMMA ScanKeepsCut ==
    ASSUME LineInv, CutMeansEven, ScanNext
    PROVE  LineInv' /\ CutMeansEven'
<1>1. LineInv'
  BY NextLineInv
<1>2. verdict = "scanning" /\ Midway /\ ScanTypeOK
  BY DEF ScanNext, ToggleQuote, EndField, PassOver, EndLine, Scanning, LineInv
<1>3. CASE EndLine
  <2>1. p = Len(line) + 1 /\ line' = line
    BY <1>3 DEF EndLine
  <2>2. inQuotes <=> ~EvenQuotes(line, 1, Len(line) + 1)
    BY <1>2, <2>1 DEF Midway
  <2>3. verdict' = "cut" <=> ~inQuotes
    BY <1>3 DEF EndLine
  <2> QED
    BY <1>1, <2>1, <2>2, <2>3 DEF CutMeansEven
<1>4. CASE ToggleQuote \/ EndField \/ PassOver
  <2>1. verdict' = "scanning"
    BY <1>2, <1>4 DEF ToggleQuote, EndField, PassOver
  <2> QED
    BY <1>1, <2>1 DEF CutMeansEven
<1> QED
  BY <1>3, <1>4 DEF ScanNext

LEMMA BegunLineInv == (line \in Seq(Token) /\ Begun => LineInv /\ CutMeansEven)'
<1>1. line \in Seq(Token) /\ Begun => LineInv /\ CutMeansEven
  BY InitLineInv DEF Begun, CutMeansEven
<1> QED
  BY <1>1, PTL

LEMMA InitFileInv == FileInit => FileInv
<1> SUFFICES ASSUME FileInit PROVE FileInv
  OBVIOUS
<1>1. line \in Seq(Token) /\ Begun
  BY FilesAssumption DEF FileInit
<1>2. LineInv /\ CutMeansEven
  BY <1>1, InitLineInv DEF Begun, CutMeansEven
<1> QED
  BY <1>2, FilesAssumption DEF FileInit, FileInv

LEMMA ScanKeepsFileInv ==
    ASSUME FileInv, Scan
    PROVE  FileInv'
<1>1. /\ phase \in {"header", "row"} /\ ScanNext
      /\ UNCHANGED <<parser, csv, phase, idx, trip>>
  BY DEF Scan
<1>2. line' = line
  BY <1>1 DEF ScanNext, ToggleQuote, EndField, PassOver, EndLine
<1>3. LineInv' /\ CutMeansEven'
  BY <1>1, ScanKeepsCut DEF FileInv
<1>4. IdxInv => IdxInv'
  BY <1>1 DEF IdxInv, Usable, HeaderNames, PositionsIn
<1> QED
  BY <1>1, <1>2, <1>3, <1>4 DEF FileInv

\* The loop over the fields of the header finds what Cells finds.
LEMMA HeaderIsCells ==
    ASSUME FileInv, HeaderRead
    PROVE  /\ (verdict = "cut" /\ Needed(parser) \subseteq DOMAIN Columns(parser)) <=> Usable
           /\ Usable => Columns(parser) = PositionsIn(HeaderNames)
<1>1. phase = "header" /\ verdict # "scanning" /\ line = Header[csv]
  BY DEF HeaderRead, FileInv
<1>2. verdict = "cut" <=> EvenQuotes(Header[csv], 1, Len(Header[csv]) + 1)
  BY <1>1 DEF FileInv, CutMeansEven
<1>3. ASSUME verdict = "cut"
      PROVE  /\ Columns(parser) = PositionsIn(HeaderNames)
             /\ Needed(parser) \subseteq DOMAIN Columns(parser)
                   <=> Needed(parser) \subseteq Range(HeaderNames)
  <2> DEFINE names == [k \in DOMAIN fields |-> Normal(Cell(k))]
  <2>1. names = HeaderNames
    <3>1. /\ DOMAIN Cells(line) = DOMAIN fields
          /\ \A k \in DOMAIN fields : Cells(line)[k] = Cell(k)
      BY <1>3, CellsOfLine DEF FileInv, LineInv
    <3> QED
      BY <1>1, <3>1 DEF HeaderNames
  <2>2. Columns(parser) = PositionsIn(names)
    BY DEF Columns, PositionsIn
  <2>3. DOMAIN Columns(parser) = Known(parser) \cap Range(names)
    BY DEF Columns
  <2>4. Needed(parser) \subseteq Known(parser)
    BY NeededAreKnown DEF FileInv
  <2> QED
    BY <2>1, <2>2, <2>3, <2>4
<1> QED
  BY <1>2, <1>3 DEF Usable

LEMMA HeaderKeepsFileInv ==
    ASSUME FileInv, HeaderRead
    PROVE  FileInv'
<1>1. /\ UNCHANGED <<parser, csv, trip>> /\ line' = <<>> /\ BeginAnew
      /\ parser \in {"partition", "taxi"}
  BY DEF HeaderRead, FileInv
<1>2. Begun' /\ line' \in Seq(Token)
  BY <1>1 DEF BeginAnew, Begun
<1>3. LineInv' /\ CutMeansEven'
  BY <1>2, BegunLineInv
<1>4. UNCHANGED <<Usable, HeaderNames, PositionsIn(HeaderNames)>>
  BY <1>1 DEF Usable, HeaderNames, PositionsIn
<1>5. CASE Usable
  <2>1. idx' = PositionsIn(HeaderNames) /\ phase' = "ready"
    BY <1>5, HeaderIsCells DEF HeaderRead
  <2>2. IdxInv'
    BY <1>4, <1>5, <2>1 DEF IdxInv
  <2> QED
    BY <1>1, <1>3, <2>1, <2>2 DEF FileInv
<1>6. CASE ~Usable /\ parser = "taxi"
  <2>1. idx' = Standard /\ phase' = "ready"
    BY <1>6, HeaderIsCells DEF HeaderRead
  <2>2. IdxInv'
    BY <1>1, <1>4, <1>6, <2>1 DEF IdxInv, Standard
  <2> QED
    BY <1>1, <1>3, <2>1, <2>2 DEF FileInv
<1>7. CASE ~Usable /\ parser = "partition"
  <2>1. phase' = "skipped"
    BY <1>7, HeaderIsCells DEF HeaderRead
  <2> QED
    BY <1>1, <1>3, <2>1 DEF FileInv
<1> QED
  BY <1>1, <1>5, <1>6, <1>7

LEMMA NextLineKeepsFileInv ==
    ASSUME FileInv, NextLine \/ TripUsed
    PROVE  FileInv'
<1>1. /\ UNCHANGED <<parser, csv, idx>> /\ BeginAnew
      /\ phase \in {"ready", "judged"} /\ phase' \in {"row", "ready"}
  BY DEF NextLine, TripUsed
<1>2. line' \in Seq(Token)
  <2>1. CASE NextLine
    <3>1. line' \in FileRows[csv]
      BY <2>1 DEF NextLine
    <3>2. FileRows[csv] \subseteq Seq(Token)
      BY FilesAssumption DEF FileInv
    <3> QED
      BY <3>1, <3>2
  <2>2. CASE TripUsed
    <3>1. line' = <<>>
      BY <2>2 DEF TripUsed
    <3>2. <<>> \in Seq(Token)
      OBVIOUS
    <3> QED
      BY <3>1, <3>2
  <2> QED
    BY <2>1, <2>2
<1>3. LineInv' /\ CutMeansEven'
  BY <1>1, <1>2, BegunLineInv DEF BeginAnew, Begun
<1>4. IdxInv'
  BY <1>1 DEF FileInv, IdxInv, Usable, HeaderNames, PositionsIn
<1> QED
  BY <1>1, <1>3, <1>4 DEF FileInv

LEMMA RowReadKeepsFileInv ==
    ASSUME FileInv, RowRead
    PROVE  FileInv'
<1>1. /\ UNCHANGED <<lineVars, parser, csv, idx>> /\ phase = "row" /\ phase' = "judged"
      /\ verdict # "scanning" /\ trip' = TripRead
  BY DEF RowRead, TripRead
<1>2. UNCHANGED <<line, p, inQuotes, fieldStart, fields, verdict>>
  BY <1>1 DEF lineVars, scanVars
<1>3. LineInv' /\ CutMeansEven'
  BY <1>2 DEF FileInv, LineInv, ScanTypeOK, Midway, EndToEnd, Balanced, CutsAreExact,
              CutMeansEven
<1>4. IdxInv'
  BY <1>1 DEF FileInv, IdxInv, Usable, HeaderNames, PositionsIn
<1>5. TripRead' = TripRead
  BY <1>1, <1>2 DEF TripRead, Parsed, Cell
<1> QED
  BY <1>1, <1>2, <1>3, <1>4, <1>5 DEF FileInv

LEMMA NextFileInv == FileInv /\ [FileNext]_fileVars => FileInv'
<1> SUFFICES ASSUME FileInv, [FileNext]_fileVars PROVE FileInv'
  OBVIOUS
<1>1. CASE UNCHANGED fileVars
  <2>1. UNCHANGED <<parser, csv, phase, idx, trip,
                    line, p, inQuotes, fieldStart, fields, verdict>>
    BY <1>1 DEF fileVars, lineVars, scanVars
  <2>2. LineInv' /\ CutMeansEven'
    BY <2>1 DEF FileInv, LineInv, ScanTypeOK, Midway, EndToEnd, Balanced, CutsAreExact,
                CutMeansEven
  <2>3. IdxInv => IdxInv'
    BY <2>1 DEF IdxInv, Usable, HeaderNames, PositionsIn
  <2>4. TripRead' = TripRead
    BY <2>1 DEF TripRead, Parsed, Cell
  <2> QED
    BY <2>1, <2>2, <2>3, <2>4 DEF FileInv
<1> QED
  BY <1>1, ScanKeepsFileInv, HeaderKeepsFileInv, NextLineKeepsFileInv, RowReadKeepsFileInv
     DEF FileNext

-----------------------------------------------------------------------------
\* What a row says, and what the parser reads of it.

LEMMA NamesStandOnce ==
    ASSUME NEW i \in DOMAIN FixedOrder, NEW j \in DOMAIN FixedOrder,
           FixedOrder[i] = FixedOrder[j]
    PROVE  i = j
  BY DEF FixedOrder

LEMMA CellsAreCounted ==
    ASSUME NEW S, NEW l \in Seq(S)
    PROVE  Len(Cells(l)) \in Nat /\ DOMAIN Cells(l) = 1 .. Len(Cells(l))
<1> DEFINE ends == Cuts(l) \cup {Len(l) + 1}
<1>1. ends \subseteq 1 .. Len(l) + 1
  BY DEF Cuts
<1>2. IsFiniteSet(1 .. Len(l) + 1)
  BY FS_Interval
<1>3. Cardinality(ends) \in Nat
  BY <1>1, <1>2, FS_Subset, FS_CardinalityType
<1>4. DOMAIN Cells(l) = 1 .. Cardinality(ends)
  BY DEF Cells, ends
<1>5. Len(Cells(l)) = Cardinality(ends)
  <2> HIDE DEF ends
  <2> DEFINE End(k) == CHOOSE e \in ends : Cardinality({x \in ends : x <= e}) = k
  <2> DEFINE body(k) == Strip(SubSeq(l, IF k = 1 THEN 1 ELSE End(k - 1) + 1, End(k) - 1))
  <2>1. Cells(l) = [k \in 1 .. Cardinality(ends) |-> body(k)]
    BY DEF Cells, ends
  <2> HIDE DEF body, End
  <2> QED
    BY <1>3, <2>1
<1> QED
  BY <1>3, <1>4, <1>5

\* The place of a column in the index is the last field of its name.
LEMMA IdxIsLast ==
    ASSUME FileInv, IdxInv, NEW c \in Known(parser)
    PROVE  /\ \E n \in Nat : DOMAIN Order = 1 .. n
           /\ c \in DOMAIN idx <=> {k \in DOMAIN Order : Order[k] = c} # {}
           /\ c \in DOMAIN idx => idx[c] = Max({k \in DOMAIN Order : Order[k] = c})
<1>1. CASE Usable
  <2>1. Order = HeaderNames
    BY <1>1 DEF Order, Usable, HeaderNames
  <2>2. \E n \in Nat : DOMAIN HeaderNames = 1 .. n
    <3>1. Header[csv] \in Seq(Token)
      BY FilesAssumption DEF FileInv
    <3>2. DOMAIN HeaderNames = DOMAIN Cells(Header[csv])
      BY DEF HeaderNames
    <3> QED
      BY <3>1, <3>2, CellsAreCounted
  <2>3. idx = PositionsIn(HeaderNames)
    BY <1>1 DEF IdxInv
  <2>4. /\ DOMAIN idx = Known(parser) \cap Range(HeaderNames)
        /\ c \in DOMAIN idx =>
              idx[c] = Max({k \in DOMAIN HeaderNames : HeaderNames[k] = c})
    BY <2>3 DEF PositionsIn
  <2>5. c \in Range(HeaderNames) <=> {k \in DOMAIN HeaderNames : HeaderNames[k] = c} # {}
    BY DEF Range
  <2> QED
    BY <2>1, <2>2, <2>4, <2>5
<1>2. CASE ~Usable
  <2>1. parser = "taxi" /\ idx = Standard /\ Order = FixedOrder
    BY <1>2 DEF IdxInv, Order, Usable, HeaderNames
  <2>2. c \in Range(FixedOrder) /\ DOMAIN FixedOrder = 1 .. 19
    BY <2>1 DEF Known, FixedOrder
  <2>3. PICK i \in DOMAIN FixedOrder : FixedOrder[i] = c
    BY <2>2 DEF Range
  <2>4. \A k \in DOMAIN FixedOrder : FixedOrder[k] = c => k = i
    BY <2>3, NamesStandOnce
  <2>5. {k \in DOMAIN FixedOrder : FixedOrder[k] = c} = {i}
    BY <2>3, <2>4
  <2>6. Max({i}) = i
    <3>1. {i} \in SUBSET (1 .. 19) /\ {i} # {}
      BY <2>2
    <3> QED
      BY <3>1, LastPlace
  <2>7. (CHOOSE k \in DOMAIN FixedOrder : FixedOrder[k] = c) = i
    BY <2>3, <2>4
  <2>8. c \in DOMAIN idx /\ idx[c] = i
    BY <2>1, <2>2, <2>7 DEF Standard
  <2> QED
    BY <2>1, <2>2, <2>5, <2>6, <2>8
<1> QED
  BY <1>1, <1>2

LEMMA ParsedIsSaid ==
    ASSUME FileInv, IdxInv, verdict = "cut", NEW c \in Known(parser)
    PROVE  Parsed(c) = Said(c, Order, Cells(line))
<1> DEFINE under == {k \in DOMAIN Order : Order[k] = c}
<1>1. /\ DOMAIN Cells(line) = DOMAIN fields
      /\ Len(Cells(line)) \in Nat /\ DOMAIN Cells(line) = 1 .. Len(Cells(line))
      /\ \A k \in DOMAIN fields : Cells(line)[k] = Cell(k)
  BY CellsOfLine, CellsAreCounted DEF FileInv, LineInv, ScanTypeOK
<1>2. CASE under = {}
  <2>1. c \notin DOMAIN idx
    BY <1>2, IdxIsLast
  <2> QED
    BY <1>2, <2>1 DEF Parsed, Said
<1>3. CASE under # {}
  <2>1. c \in DOMAIN idx /\ idx[c] = Max(under)
    BY <1>3, IdxIsLast
  <2>2. Max(under) \in Nat \ {0}
    <3>1. PICK n \in Nat : DOMAIN Order = 1 .. n
      BY IdxIsLast
    <3>2. under \in SUBSET (1 .. n)
      BY <3>1
    <3>3. Max(under) \in under
      BY <1>3, <3>2, LastPlace
    <3> QED
      BY <3>2, <3>3
  <2>3. idx[c] \in DOMAIN fields <=> Max(under) <= Len(Cells(line))
    BY <1>1, <2>1, <2>2
  <2>4. idx[c] \in DOMAIN fields => Cell(idx[c]) = Cells(line)[Max(under)]
    BY <1>1, <2>1
  <2> QED
    BY <1>3, <2>1, <2>3, <2>4 DEF Parsed, Said
<1> QED
  BY <1>2, <1>3

\* A row says a pickup time exactly if its cell begins with one.
LEMMA SaidIsPickup ==
    ASSUME NEW order, NEW cells
    PROVE  Said("tpep_pickup_datetime", order, cells) # NoTime
               <=> \E st \in PickupStamps(order, cells) : TimeRead(parser, st) # NoTime
<1> DEFINE c == "tpep_pickup_datetime"
           under == {k \in DOMAIN order : order[k] = c}
           text == cells[Max(under)]
<1>1. c \in Times
  BY DEF Times
<1>a. Said(c, order, cells) = IF under # {} /\ Max(under) <= Len(cells)
                              THEN TimeOf(parser, text) ELSE NoTime
  <2>1. Said(c, order, cells) = IF under # {} /\ Max(under) <= Len(cells)
                                THEN Convert(parser, c, text) ELSE NoTime
    BY <1>1, Zenon DEF Said
  <2>2. Convert(parser, c, text) = TimeOf(parser, text)
    BY DEF Convert, Times, Money
  <2> QED
    BY <2>1, <2>2
<1>2. CASE under # {} /\ Max(under) <= Len(cells) /\ text # <<>> /\ Head(text) \in DOMAIN StampOf
  <2>1. Said(c, order, cells) = TimeRead(parser, StampOf[Head(text)])
    BY <1>a, <1>2, Zenon DEF TimeOf
  <2>2. PickupStamps(order, cells) = {StampOf[Head(text)]}
    BY <1>2 DEF PickupStamps
  <2> QED
    BY <2>1, <2>2
<1>3. CASE ~(under # {} /\ Max(under) <= Len(cells) /\ text # <<>> /\ Head(text) \in DOMAIN StampOf)
  <2>1. Said(c, order, cells) = NoTime
    BY <1>a, <1>3, Zenon DEF TimeOf
  <2>2. PickupStamps(order, cells) = {}
    BY <1>3 DEF PickupStamps
  <2> QED
    BY <2>1, <2>2
<1> QED
  BY <1>2, <1>3

LEMMA FileInvIsByName == FileInv => RowIsByName
<1> SUFFICES ASSUME FileInv, phase = "judged" PROVE RowIsByName
  BY DEF RowIsByName
<1>1. /\ IdxInv /\ trip = TripRead /\ CutMeansEven
      /\ verdict \in {"cut", "unbalanced"}
      /\ verdict = "cut" <=> EvenQuotes(line, 1, Len(line) + 1)
  BY DEF FileInv, LineInv, ScanTypeOK, CutMeansEven
<1>2. "tpep_pickup_datetime" \in Known(parser)
  BY NeededAreKnown DEF FileInv, Needed
<1>3. CASE verdict = "unbalanced"
  <2>1. trip = NoTrip
    BY <1>1, <1>3 DEF TripRead
  <2> QED
    BY <1>1, <1>3, <2>1 DEF RowIsByName, NoTrip
<1>4. CASE verdict = "cut"
  <2>1. \A c \in Known(parser) : Parsed(c) = Said(c, Order, Cells(line))
    BY <1>1, <1>4, ParsedIsSaid
  <2>2. CASE Parsed("tpep_pickup_datetime") = NoTime
    <3>1. trip.accepted = FALSE
      BY <1>1, <2>2 DEF TripRead, NoTrip
    <3> QED
      BY <1>2, <2>1, <2>2, <3>1, SaidIsPickup DEF RowIsByName
  <2>3. CASE Parsed("tpep_pickup_datetime") # NoTime
    <3>1. /\ trip.accepted = TRUE
          /\ \A c \in Known(parser) : trip.of[c] = Parsed(c)
      BY <1>1, <1>4, <2>3 DEF TripRead
    <3> QED
      BY <1>1, <1>2, <1>4, <2>1, <2>3, <3>1, SaidIsPickup DEF RowIsByName
  <2> QED
    BY <2>2, <2>3
<1> QED
  BY <1>1, <1>3, <1>4

\* Whatever order, spelling and number of columns a header has, both parsers
\* put under each name what the row says of it, and accept exactly the rows
\* whose quotes are closed and whose pickup cell begins with a timestamp that
\* the parser takes for a time.
THEOREM RowIsByNameAlways == FileSpec => []RowIsByName
<1>1. FileInit => FileInv
  BY InitFileInv
<1>2. FileInv /\ [FileNext]_fileVars => FileInv'
  BY NextFileInv
<1>3. FileInv => RowIsByName
  BY FileInvIsByName
<1> QED
  BY <1>1, <1>2, <1>3, PTL DEF FileSpec

-----------------------------------------------------------------------------
\* The splitter of the in-memory engines beside the loop of the parsers.

SplitState ==
    [curr : Seq(Token), inQuotes : BOOLEAN, skip : BOOLEAN, res : Seq(Seq(Token))]

Escaped(st, i, l) == st.inQuotes /\ i < Len(l) /\ l[i + 1] = Quote

\* The four ways of a step.
LEMMA SplitSteps ==
    ASSUME NEW st \in SplitState, NEW l \in Seq(Token), NEW i \in 1 .. Len(l)
    PROVE  /\ SplitStep(st, i, l) \in SplitState
           /\ st.skip =>
                  SplitStep(st, i, l) = [st EXCEPT !.skip = FALSE]
           /\ ~st.skip /\ l[i] = Quote /\ Escaped(st, i, l) =>
                  SplitStep(st, i, l) = [st EXCEPT !.curr = Append(@, Quote), !.skip = TRUE]
           /\ ~st.skip /\ l[i] = Quote /\ ~Escaped(st, i, l) =>
                  SplitStep(st, i, l) = [st EXCEPT !.inQuotes = ~@]
           /\ ~st.skip /\ l[i] = Comma /\ ~st.inQuotes =>
                  SplitStep(st, i, l) = [st EXCEPT !.res = Append(@, st.curr), !.curr = <<>>]
           /\ ~st.skip /\ l[i] # Quote /\ (l[i] = Comma => st.inQuotes) =>
                  SplitStep(st, i, l) = [st EXCEPT !.curr = Append(@, l[i])]
<1>1. l[i] \in Token /\ Quote \in Token /\ Comma # Quote
  BY TextAssumption, ElementOfSequence
<1>a. /\ st.curr \in Seq(Token) /\ st.inQuotes \in BOOLEAN /\ st.skip \in BOOLEAN
      /\ st.res \in Seq(Seq(Token))
      /\ st = [curr |-> st.curr, inQuotes |-> st.inQuotes, skip |-> st.skip, res |-> st.res]
  BY DEF SplitState
<1>b. /\ Append(st.curr, Quote) \in Seq(Token) /\ Append(st.curr, l[i]) \in Seq(Token)
      /\ Append(st.res, st.curr) \in Seq(Seq(Token)) /\ <<>> \in Seq(Token)
  BY <1>1, <1>a, AppendProperties
<1>2. CASE st.skip
  <2>1. SplitStep(st, i, l) = [st EXCEPT !.skip = FALSE]
    BY <1>2 DEF SplitStep
  <2>2. SplitStep(st, i, l) \in SplitState
    BY <1>a, <1>b, <2>1 DEF SplitState
  <2> QED
    BY <1>1, <1>2, <2>1, <2>2
<1>3. CASE ~st.skip /\ l[i] = Quote /\ Escaped(st, i, l)
  <2>1. SplitStep(st, i, l) = [st EXCEPT !.curr = Append(@, Quote), !.skip = TRUE]
    BY <1>1, <1>3 DEF SplitStep, Escaped
  <2>2. SplitStep(st, i, l) \in SplitState
    BY <1>a, <1>b, <2>1 DEF SplitState
  <2> QED
    BY <1>1, <1>3, <2>1, <2>2
<1>4. CASE ~st.skip /\ l[i] = Quote /\ ~Escaped(st, i, l)
  <2>1. SplitStep(st, i, l) = [st EXCEPT !.inQuotes = ~@]
    BY <1>1, <1>4 DEF SplitStep, Escaped
  <2>2. SplitStep(st, i, l) \in SplitState
    BY <1>a, <1>b, <2>1 DEF SplitState
  <2> QED
    BY <1>1, <1>4, <2>1, <2>2
<1>5. CASE ~st.skip /\ l[i] = Comma /\ ~st.inQuotes
  <2>1. SplitStep(st, i, l) = [st EXCEPT !.res = Append(@, st.curr), !.curr = <<>>]
    BY <1>1, <1>5 DEF SplitStep
  <2>2. SplitStep(st, i, l) \in SplitState
    BY <1>a, <1>b, <2>1 DEF SplitState
  <2> QED
    BY <1>1, <1>5, <2>1, <2>2
<1>6. CASE ~st.skip /\ l[i] # Quote /\ (l[i] = Comma => st.inQuotes)
  <2>1. SplitStep(st, i, l) = [st EXCEPT !.curr = Append(@, l[i])]
    BY <1>1, <1>6 DEF SplitStep
  <2>2. SplitStep(st, i, l) \in SplitState
    BY <1>a, <1>b, <2>1 DEF SplitState
  <2> QED
    BY <1>1, <1>6, <2>1, <2>2
<1> QED
  BY <1>2, <1>3, <1>4, <1>5, <1>6

LEMMA SplitEscapes ==
    ASSUME NEW st \in SplitState, NEW l \in Seq(Token), NEW i \in 1 .. Len(l),
           ~st.skip, l[i] = Quote, Escaped(st, i, l)
    PROVE  LET nt == SplitStep(st, i, l)
           IN  /\ nt.skip /\ nt.inQuotes = st.inQuotes /\ nt.res = st.res
               /\ nt.curr = Append(st.curr, Quote)
  BY TextAssumption DEF SplitStep, Escaped, SplitState

LEMMA SplitToggles ==
    ASSUME NEW st \in SplitState, NEW l \in Seq(Token), NEW i \in 1 .. Len(l),
           ~st.skip, l[i] = Quote, ~Escaped(st, i, l)
    PROVE  SplitStep(st, i, l) = [st EXCEPT !.inQuotes = ~@]
  BY TextAssumption DEF SplitStep, Escaped

LEMMA SplitPasses ==
    ASSUME NEW st \in SplitState, NEW l \in Seq(Token), NEW i \in 1 .. Len(l),
           ~st.skip, l[i] # Quote, l[i] = Comma => st.inQuotes
    PROVE  LET nt == SplitStep(st, i, l)
           IN  /\ ~nt.skip /\ nt.inQuotes = st.inQuotes /\ nt.res = st.res
               /\ nt.curr = Append(st.curr, l[i])
  BY TextAssumption DEF SplitStep, SplitState

Splits(g, l, n) ==
    /\ g \in [0 .. n -> SplitState]
    /\ g[0] = SplitBegun /\ SplitSoFar(l, n) = g[n]
    /\ \A k \in 1 .. n : g[k] = SplitStep(g[k - 1], k, l)

LEMMA SplitPath ==
    ASSUME NEW l, l \in Seq(Token), NEW n, n \in 0 .. Len(l)
    PROVE  \E g : Splits(g, l, n)
<1> DEFINE places == [i \in 1 .. n |-> i]
           A == SplitState
           F == [x \in A \X (1 .. n) |-> SplitStep(x[1], x[2], l)]
           Raw(g) == [t \in SUBSET DOMAIN places |->
                         IF t = {} THEN SplitBegun
                         ELSE SplitStep(g[t \ {Max(t)}], places[Max(t)], l)]
           jt == CHOOSE g : g = Raw(g)
<1>1. n \in Nat /\ DOMAIN places = 1 .. n /\ \A i \in 1 .. n : places[i] = i /\ i \in 1 .. Len(l)
  BY LenProperties
<1>2. SplitSoFar(l, n) = jt[DOMAIN places]
  BY Zenon DEF SplitSoFar, FoldLeft, MapThenFoldSet
<1>3. F \in [A \X (1 .. n) -> A]
  <2>1. \A v \in A, j \in 1 .. n : SplitStep(v, j, l) \in A
    BY <1>1, SplitSteps
  <2> QED
    BY <2>1
<1>4. SplitBegun \in A
  BY DEF SplitBegun, SplitState
<1>5. \A v \in A, j \in 1 .. n : F[<<v, j>>] = SplitStep(v, j, l)
  OBVIOUS
<1> HIDE DEF A, F, places
<1>6. PICK it : FoldsLeft(it, F, SplitBegun, n, A)
  BY <1>1, <1>3, <1>4, LeftFold
<1>7. it = Raw(it)
  <2>1. ASSUME NEW t \in SUBSET (1 .. n), t # {}
        PROVE  it[t] = SplitStep(it[t \ {Max(t)}], places[Max(t)], l)
    <3>1. /\ Max(t) \in 1 .. n /\ it[t \ {Max(t)}] \in A
          /\ it[t] = F[<<it[t \ {Max(t)}], Max(t)>>]
      BY <1>6, <2>1 DEF FoldsLeft
    <3>2. places[Max(t)] = Max(t)
      BY <1>1, <3>1
    <3> QED
      BY <1>5, <3>1, <3>2
  <2>2. it = [t \in SUBSET (1 .. n) |-> it[t]] /\ it[{}] = SplitBegun
    BY <1>6 DEF FoldsLeft
  <2> QED
    BY <1>1, <2>1, <2>2
<1>8. jt = Raw(jt)
  <2> HIDE DEF Raw
  <2> QED
    BY <1>7
<1> HIDE DEF jt
<1>9. /\ jt[{}] = SplitBegun
      /\ \A t \in SUBSET (1 .. n) : t # {} =>
             jt[t] = SplitStep(jt[t \ {Max(t)}], places[Max(t)], l)
  BY <1>1, <1>8
<1> HIDE DEF Raw
<1>10. FoldsOn(jt, F, SplitBegun, n, A)
  <2>1. \A t \in SUBSET (1 .. n) : t # {} => Max(t) \in 1 .. n
    BY <1>6 DEF FoldsLeft
  <2>2. ASSUME NEW t \in SUBSET (1 .. n), t # {}, jt[t \ {Max(t)}] \in A
        PROVE  jt[t] = F[<<jt[t \ {Max(t)}], Max(t)>>]
    <3>1. Max(t) \in 1 .. n /\ places[Max(t)] = Max(t)
      BY <1>1, <2>1, <2>2
    <3> QED
      BY <1>5, <1>9, <2>2, <3>1
  <2> QED
    BY <1>9, <2>2 DEF FoldsOn
<1> DEFINE h == PathOf(jt, n)
<1>11. IsPath(h, F, SplitBegun, n, A)
  BY <1>1, <1>3, <1>4, <1>10, PathOfFold
<1>12. h[n] = jt[1 .. n]
  BY <1>1 DEF PathOf
<1> HIDE DEF h
<1>13. \A k \in 1 .. n : h[k] = SplitStep(h[k - 1], k, l)
  <2> SUFFICES ASSUME NEW k \in 1 .. n PROVE h[k] = SplitStep(h[k - 1], k, l)
    OBVIOUS
  <2>1. k - 1 \in 0 .. n
    BY <1>1
  <2>2. h[k - 1] \in A /\ h[k] = F[<<h[k - 1], k>>]
    BY <1>11, <2>1 DEF IsPath
  <2> QED
    BY <1>5, <2>2
<1> QED
  BY <1>1, <1>2, <1>11, <1>12, <1>13 DEF IsPath, A, Splits

LEMMA SplitBegins ==
    ASSUME NEW l \in Seq(Token)
    PROVE  SplitSoFar(l, 0) = SplitBegun
<1>1. 0 \in 0 .. Len(l)
  BY LenProperties
<1>2. PICK g : Splits(g, l, 0)
  BY <1>1, SplitPath
<1> QED
  BY <1>2 DEF Splits

LEMMA SplitGoesOn ==
    ASSUME NEW l \in Seq(Token), NEW n \in 0 .. Len(l) - 1
    PROVE  /\ SplitSoFar(l, n) \in SplitState
           /\ SplitSoFar(l, n + 1) = SplitStep(SplitSoFar(l, n), n + 1, l)
<1>1. /\ n \in 0 .. Len(l) /\ n + 1 \in 0 .. Len(l) /\ n \in Nat
      /\ n \in 0 .. n /\ n + 1 \in 1 .. n + 1 /\ n + 1 - 1 = n
  BY LenProperties
<1>2. PICK g : Splits(g, l, n)
  BY <1>1, SplitPath
<1>3. PICK h : Splits(h, l, n + 1)
  BY <1>1, SplitPath
<1>4. \A k \in 1 .. n : g[k - 1] = h[k - 1] => g[k] = h[k]
  <2> SUFFICES ASSUME NEW k \in 1 .. n, g[k - 1] = h[k - 1] PROVE g[k] = h[k]
    OBVIOUS
  <2>1. k \in 1 .. n + 1
    BY <1>1
  <2>2. g[k] = SplitStep(g[k - 1], k, l) /\ h[k] = SplitStep(h[k - 1], k, l)
    BY <1>2, <1>3, <2>1 DEF Splits
  <2> QED
    BY <2>2
<1>5. g[n] = h[n]
  <2>1. g[0] = h[0]
    BY <1>2, <1>3 DEF Splits
  <2> QED
    BY <1>1, <1>4, <2>1, SamePath
<1>6. h[n + 1] = SplitStep(h[n], n + 1, l) /\ SplitSoFar(l, n + 1) = h[n + 1]
  BY <1>1, <1>3 DEF Splits
<1>7. SplitSoFar(l, n) = g[n] /\ g[n] \in SplitState
  BY <1>1, <1>2 DEF Splits
<1> QED
  BY <1>5, <1>6, <1>7

LEMMA OneLonger ==
    ASSUME NEW S, NEW l \in Seq(S), NEW a \in Nat \ {0}, NEW i \in DOMAIN l, a <= i
    PROVE  /\ SubSeq(l, a, i - 1) \in Seq(S)
           /\ SubSeq(l, a, i) = Append(SubSeq(l, a, i - 1), l[i])
<1>1. /\ Len(l) \in Nat /\ DOMAIN l = 1 .. Len(l) /\ a \in Nat /\ i \in Nat
      /\ \A j \in 1 .. Len(l) : l[j] \in S
  BY LenProperties
<1>2. i - 1 \in Int /\ a \in 1 .. Len(l) + 1 /\ i - 1 \in a - 1 .. Len(l) /\ i \in a - 1 .. Len(l)
  BY <1>1
<1>3. /\ SubSeq(l, a, i - 1) \in Seq(S)
      /\ Len(SubSeq(l, a, i - 1)) = i - a
      /\ \A j \in 1 .. i - a : SubSeq(l, a, i - 1)[j] = l[a + j - 1]
  BY <1>1, <1>2
<1>4. /\ SubSeq(l, a, i) \in Seq(S)
      /\ Len(SubSeq(l, a, i)) = i - a + 1
      /\ \A j \in 1 .. i - a + 1 : SubSeq(l, a, i)[j] = l[a + j - 1]
  BY <1>1, <1>2
<1> DEFINE t == SubSeq(l, a, i - 1)
           u == SubSeq(l, a, i)
<1> HIDE DEF t, u
<1>5. /\ Append(t, l[i]) \in Seq(S) /\ Len(Append(t, l[i])) = i - a + 1
      /\ \A j \in 1 .. i - a : Append(t, l[i])[j] = l[a + j - 1]
      /\ Append(t, l[i])[i - a + 1] = l[i]
  BY <1>1, <1>3, AppendProperties DEF t
<1>6. /\ u \in Seq(S) /\ Len(u) = i - a + 1
      /\ \A j \in 1 .. i - a + 1 : u[j] = l[a + j - 1]
  BY <1>4 DEF u
<1>7. ASSUME NEW j \in 1 .. i - a + 1 PROVE Append(t, l[i])[j] = u[j]
  <2>1. j \in 1 .. i - a \/ j = i - a + 1
    BY <1>1
  <2>2. a + (i - a + 1) - 1 = i /\ i - a + 1 \in 1 .. i - a + 1
    BY <1>1
  <2> QED
    BY <1>5, <1>6, <2>1, <2>2
<1>8. u = Append(t, l[i])
  BY <1>5, <1>6, <1>7, SeqEqual
<1> QED
  BY <1>3, <1>8 DEF t, u

LEMMA BareAppend ==
    ASSUME NEW text \in Seq(Token), NEW c \in Token
    PROVE  Bare(Append(text, c)) = IF c = Quote THEN Bare(text) ELSE Append(Bare(text), c)
  BY FilteredAppend DEF Bare, Keeping

\* While the parsers scan a line, the splitter has the same fields behind it
\* and the same field in hand, but for quotes; inside a pair of quotes it
\* still counts itself within quotes when the parsers do not.
Alongside(st, l, i, quoted, start, cut) ==
    /\ st.skip => i <= Len(l) /\ l[i] = Quote /\ st.inQuotes /\ ~quoted
    /\ ~st.skip => st.inQuotes = quoted
    /\ Len(st.res) = Len(cut)
    /\ \A k \in DOMAIN cut : Bare(st.res[k]) = Bare(SubSeq(l, cut[k].a, cut[k].b - 1))
    /\ Bare(st.curr) = Bare(SubSeq(l, start, i - 1))

SplitInv ==
    /\ verdict = "scanning" => Alongside(SplitSoFar(line, p - 1), line, p, inQuotes, fieldStart, fields)
    /\ SplittersAgree

LEMMA BegunSplitInv == line \in Seq(Token) /\ Begun => SplitInv
<1> SUFFICES ASSUME line \in Seq(Token), Begun PROVE SplitInv
  OBVIOUS
<1>1. SplitSoFar(line, 0) = SplitBegun /\ p - 1 = 0
  BY SplitBegins DEF Begun
<1>2. SubSeq(line, 1, 0) = <<>>
  BY SubSeqEmpty
<1>3. Alongside(SplitBegun, line, 1, FALSE, 1, <<>>)
  <2>1. DOMAIN <<>> = {} /\ 1 - 1 = 0
    OBVIOUS
  <2> QED
    BY <1>2, <2>1 DEF Alongside, SplitBegun
<1> QED
  BY <1>1, <1>3 DEF SplitInv, Begun, SplittersAgree

\* What both make of the character at p.
LEMMA SplitNext ==
    ASSUME ScanTypeOK, Midway, SplitInv, Scanning
    PROVE  /\ p \in DOMAIN line /\ line[p] \in Token /\ fieldStart \in 1 .. p
           /\ Alongside(SplitSoFar(line, p - 1), line, p, inQuotes, fieldStart, fields)
           /\ SplitSoFar(line, p - 1) \in SplitState
           /\ SplitSoFar(line, p) = SplitStep(SplitSoFar(line, p - 1), p, line)
           /\ Bare(SubSeq(line, fieldStart, p)) =
                  IF line[p] = Quote THEN Bare(SubSeq(line, fieldStart, p - 1))
                  ELSE Append(Bare(SubSeq(line, fieldStart, p - 1)), line[p])
<1>1. /\ line \in Seq(Token) /\ p \in DOMAIN line /\ p \in 1 .. Len(line)
      /\ Len(line) \in Nat /\ fieldStart \in 1 .. p
  BY DEF ScanTypeOK, Midway, Scanning
<1>2. p - 1 \in 0 .. Len(line) - 1 /\ p - 1 + 1 = p
  BY <1>1
<1>3. line[p] \in Token
  BY <1>1, ElementOfSequence
<1>4. Alongside(SplitSoFar(line, p - 1), line, p, inQuotes, fieldStart, fields)
  BY DEF SplitInv, Scanning
<1>5. /\ SplitSoFar(line, p - 1) \in SplitState
      /\ SplitSoFar(line, p) = SplitStep(SplitSoFar(line, p - 1), p, line)
  BY <1>1, <1>2, SplitGoesOn
<1>6. /\ SubSeq(line, fieldStart, p - 1) \in Seq(Token)
      /\ SubSeq(line, fieldStart, p) = Append(SubSeq(line, fieldStart, p - 1), line[p])
  <2>1. fieldStart \in Nat \ {0} /\ fieldStart <= p
    BY <1>1
  <2> QED
    BY <1>1, <2>1, OneLonger
<1>7. Bare(SubSeq(line, fieldStart, p)) =
          IF line[p] = Quote THEN Bare(SubSeq(line, fieldStart, p - 1))
          ELSE Append(Bare(SubSeq(line, fieldStart, p - 1)), line[p])
  BY <1>3, <1>6, BareAppend
<1> QED
  BY <1>1, <1>3, <1>4, <1>5, <1>7

LEMMA ToggleKeepsSplit ==
    ASSUME ScanTypeOK, Midway, SplitInv, ToggleQuote
    PROVE  SplitInv'
<1> DEFINE st == SplitSoFar(line, p - 1)
           nt == SplitSoFar(line, p)
<1>1. /\ Scanning /\ line[p] = Quote /\ inQuotes' = ~inQuotes /\ p' = p + 1
      /\ UNCHANGED <<line, fieldStart, fields, verdict>> /\ verdict = "scanning"
  BY DEF ToggleQuote, Scanning
<1>2. /\ p \in DOMAIN line /\ Alongside(st, line, p, inQuotes, fieldStart, fields) /\ st \in SplitState
      /\ nt = SplitStep(st, p, line)
      /\ Bare(SubSeq(line, fieldStart, p)) = Bare(SubSeq(line, fieldStart, p - 1))
  BY <1>1, SplitNext
<1>3. p \in 1 .. Len(line) /\ Len(line) \in Nat /\ p + 1 - 1 = p /\ inQuotes \in BOOLEAN
      /\ line \in Seq(Token)
  BY <1>2 DEF ScanTypeOK
<1> HIDE DEF st, nt
<1>4. /\ nt.skip => p + 1 <= Len(line) /\ line[p + 1] = Quote /\ nt.inQuotes /\ inQuotes
      /\ ~nt.skip => nt.inQuotes = ~inQuotes
      /\ nt.res = st.res /\ Bare(nt.curr) = Bare(st.curr)
  <2>1. CASE st.skip
    <3>1. nt = [st EXCEPT !.skip = FALSE]
      BY <1>2, <1>3, <2>1, SplitSteps
    <3> QED
      BY <1>2, <2>1, <3>1 DEF SplitState, Alongside
  <2>2. CASE ~st.skip /\ Escaped(st, p, line)
    <3>1. Bare(Append(st.curr, Quote)) = Bare(st.curr)
      BY <1>2, TextAssumption, BareAppend DEF SplitState
    <3>2. /\ nt.skip /\ nt.inQuotes = st.inQuotes /\ nt.res = st.res
          /\ nt.curr = Append(st.curr, Quote)
      BY <1>1, <1>2, <1>3, <2>2, SplitEscapes
    <3>3. st.inQuotes = inQuotes
      BY <1>2, <2>2 DEF Alongside
    <3> QED
      BY <1>3, <2>2, <3>1, <3>2, <3>3 DEF Escaped
  <2>3. CASE ~st.skip /\ ~Escaped(st, p, line)
    <3>1. nt = [st EXCEPT !.inQuotes = ~@]
      BY <1>1, <1>2, <1>3, <2>3, SplitToggles
    <3> QED
      BY <1>2, <2>3, <3>1 DEF SplitState, Alongside
  <2> QED
    BY <2>1, <2>2, <2>3
<1>5. SplitSoFar(line', p' - 1) = nt
  BY <1>1, <1>3 DEF nt
<1>6. Alongside(nt, line, p + 1, ~inQuotes, fieldStart, fields)
  <2>1. /\ Len(nt.res) = Len(fields)
        /\ \A k \in DOMAIN fields :
               Bare(nt.res[k]) = Bare(SubSeq(line, fields[k].a, fields[k].b - 1))
        /\ Bare(nt.curr) = Bare(SubSeq(line, fieldStart, p))
    BY <1>2, <1>4 DEF Alongside
  <2> QED
    BY <1>3, <1>4, <2>1 DEF Alongside
<1> QED
  BY <1>1, <1>5, <1>6 DEF SplitInv, SplittersAgree

LEMMA EndFieldKeepsSplit ==
    ASSUME ScanTypeOK, Midway, SplitInv, EndField
    PROVE  SplitInv'
<1> DEFINE st == SplitSoFar(line, p - 1)
           nt == SplitSoFar(line, p)
           last == [a |-> fieldStart, b |-> p]
<1>1. /\ Scanning /\ line[p] = Comma /\ ~inQuotes /\ p' = p + 1 /\ fieldStart' = p + 1
      /\ fields' = Append(fields, last)
      /\ UNCHANGED <<line, inQuotes, verdict>> /\ verdict = "scanning"
  BY DEF EndField, Scanning
<1>2. /\ p \in DOMAIN line /\ Alongside(st, line, p, inQuotes, fieldStart, fields)
      /\ st \in SplitState /\ nt = SplitStep(st, p, line)
  BY <1>1, SplitNext
<1>3. p \in 1 .. Len(line) /\ Len(line) \in Nat /\ p + 1 - 1 = p /\ line \in Seq(Token)
  BY <1>2 DEF ScanTypeOK
<1> HIDE DEF st, nt
<1>4. ~st.skip /\ ~st.inQuotes
  BY <1>1, <1>2, TextAssumption DEF Alongside
<1>5. /\ ~nt.skip /\ ~nt.inQuotes
      /\ nt.res = Append(st.res, st.curr) /\ nt.curr = <<>>
  <2>1. nt = [st EXCEPT !.res = Append(@, st.curr), !.curr = <<>>]
    BY <1>1, <1>2, <1>3, <1>4, SplitSteps
  <2> QED
    BY <1>2, <1>4, <2>1 DEF SplitState
<1>6. /\ st.res \in Seq(Seq(Token)) /\ st.curr \in Seq(Token)
      /\ fields \in Seq(Field) /\ last \in Field
      /\ Len(st.res) = Len(fields)
  BY <1>2, <1>3 DEF SplitState, Alongside, ScanTypeOK, Field
<1>7. /\ DOMAIN fields = 1 .. Len(fields) /\ Len(fields) \in Nat
      /\ Len(nt.res) = Len(fields) + 1 /\ Len(fields') = Len(fields) + 1
      /\ DOMAIN fields' = 1 .. Len(fields) + 1
      /\ \A k \in 1 .. Len(fields) : nt.res[k] = st.res[k] /\ fields'[k] = fields[k]
      /\ nt.res[Len(fields) + 1] = st.curr /\ fields'[Len(fields) + 1] = last
  BY <1>1, <1>5, <1>6
<1>8. ASSUME NEW k \in DOMAIN fields'
      PROVE  Bare(nt.res[k]) = Bare(SubSeq(line, fields'[k].a, fields'[k].b - 1))
  <2>1. CASE k \in 1 .. Len(fields)
    BY <1>2, <1>7, <2>1 DEF Alongside
  <2>2. CASE k = Len(fields) + 1
    <3>1. last.a = fieldStart /\ last.b = p
      OBVIOUS
    <3> QED
      BY <1>2, <1>7, <2>2, <3>1 DEF Alongside
  <2> QED
    BY <1>7, <1>8, <2>1, <2>2
<1>9. SubSeq(line, p + 1, p) = <<>>
  BY <1>3
<1>10. Alongside(nt, line, p + 1, inQuotes, p + 1, fields')
  <2>1. inQuotes = FALSE /\ nt.inQuotes = FALSE
    <3>1. inQuotes \in BOOLEAN /\ nt.inQuotes \in BOOLEAN
      BY <1>2, <1>3, SplitSteps DEF ScanTypeOK, SplitState
    <3> QED
      BY <1>1, <1>5, <3>1
  <2> DEFINE q == p + 1
             cut == fields'
  <2>2. q - 1 = p
    BY <1>3
  <2>3. /\ Len(nt.res) = Len(cut)
        /\ \A k \in DOMAIN cut : Bare(nt.res[k]) = Bare(SubSeq(line, cut[k].a, cut[k].b - 1))
    BY <1>7, <1>8
  <2>4. SubSeq(line, q, p) = <<>>
    BY <1>9
  <2> HIDE DEF q, cut
  <2>5. Bare(nt.curr) = Bare(SubSeq(line, q, q - 1))
    BY <1>5, <2>2, <2>4
  <2>6. Alongside(nt, line, q, inQuotes, q, cut)
    BY <1>5, <2>1, <2>3, <2>5 DEF Alongside
  <2> QED
    BY <2>6 DEF q, cut
<1>11. SplitSoFar(line', p' - 1) = nt
  BY <1>1, <1>3 DEF nt
<1> QED
  BY <1>1, <1>10, <1>11 DEF SplitInv, SplittersAgree

LEMMA PassOverKeepsSplit ==
    ASSUME ScanTypeOK, Midway, SplitInv, PassOver
    PROVE  SplitInv'
<1> DEFINE st == SplitSoFar(line, p - 1)
           nt == SplitSoFar(line, p)
<1>1. /\ Scanning /\ line[p] # Quote /\ (line[p] = Comma => inQuotes) /\ p' = p + 1
      /\ UNCHANGED <<line, inQuotes, fieldStart, fields, verdict>> /\ verdict = "scanning"
  BY DEF PassOver, Scanning
<1>2. /\ p \in DOMAIN line /\ line[p] \in Token
      /\ Alongside(st, line, p, inQuotes, fieldStart, fields)
      /\ st \in SplitState /\ nt = SplitStep(st, p, line)
      /\ Bare(SubSeq(line, fieldStart, p)) =
             Append(Bare(SubSeq(line, fieldStart, p - 1)), line[p])
  BY <1>1, SplitNext
<1>3. p \in 1 .. Len(line) /\ Len(line) \in Nat /\ p + 1 - 1 = p /\ line \in Seq(Token)
  BY <1>2 DEF ScanTypeOK
<1> HIDE DEF st, nt
<1>4. ~st.skip /\ st.inQuotes = inQuotes
  BY <1>1, <1>2 DEF Alongside
<1>5. /\ ~nt.skip /\ nt.inQuotes = inQuotes
      /\ nt.res = st.res /\ nt.curr = Append(st.curr, line[p])
  <2>1. line[p] = Comma => st.inQuotes
    BY <1>1, <1>4
  <2>2. /\ ~nt.skip /\ nt.inQuotes = st.inQuotes /\ nt.res = st.res
        /\ nt.curr = Append(st.curr, line[p])
    BY <1>1, <1>2, <1>3, <1>4, <2>1, SplitPasses
  <2> QED
    BY <1>4, <2>2
<1>6. Bare(nt.curr) = Append(Bare(st.curr), line[p])
  BY <1>1, <1>2, <1>5, BareAppend DEF SplitState
<1>7. Alongside(nt, line, p + 1, inQuotes, fieldStart, fields)
  BY <1>2, <1>3, <1>5, <1>6 DEF Alongside
<1>8. SplitSoFar(line', p' - 1) = nt
  BY <1>1, <1>3 DEF nt
<1> QED
  BY <1>1, <1>7, <1>8 DEF SplitInv, SplittersAgree

LEMMA EndLineKeepsSplit ==
    ASSUME ScanTypeOK, Midway, SplitInv, EndLine
    PROVE  SplitInv'
<1> DEFINE st == SplitSoFar(line, p - 1)
           last == [a |-> fieldStart, b |-> p]
<1>1. /\ verdict = "scanning" /\ p = Len(line) + 1 /\ line' = line
      /\ line \in Seq(Token) /\ Len(line) \in Nat /\ p - 1 = Len(line)
  BY DEF EndLine, ScanTypeOK
<1>2. CASE inQuotes
  BY <1>1, <1>2 DEF EndLine, SplitInv, SplittersAgree
<1>3. CASE ~inQuotes
  <2>1. verdict' = "cut" /\ fields' = Append(fields, last)
    BY <1>3 DEF EndLine
  <2>2. Alongside(st, line, p, inQuotes, fieldStart, fields)
    BY <1>1 DEF SplitInv
  <2>3. SplitCSV(line) = Append(st.res, st.curr)
    BY <1>1 DEF SplitCSV
  <2>4. st \in SplitState
    <3>1. PICK g : Splits(g, line, Len(line))
      BY <1>1, SplitPath
    <3> QED
      BY <1>1, <3>1 DEF Splits
  <2> HIDE DEF st
  <2>5. /\ st.res \in Seq(Seq(Token)) /\ st.curr \in Seq(Token)
        /\ fields \in Seq(Field) /\ last \in Field
        /\ Len(st.res) = Len(fields)
    BY <1>1, <2>2, <2>4 DEF SplitState, Alongside, ScanTypeOK, Field
  <2> DEFINE split == Append(st.res, st.curr)
  <2>6. /\ DOMAIN fields = 1 .. Len(fields) /\ Len(fields) \in Nat
        /\ Len(split) = Len(fields) + 1 /\ Len(fields') = Len(fields) + 1
        /\ DOMAIN fields' = 1 .. Len(fields) + 1
        /\ \A k \in 1 .. Len(fields) : split[k] = st.res[k] /\ fields'[k] = fields[k]
        /\ split[Len(fields) + 1] = st.curr /\ fields'[Len(fields) + 1] = last
    BY <2>1, <2>5
  <2> HIDE DEF split
  <2>7. ASSUME NEW k \in DOMAIN fields'
        PROVE  Bare(split[k]) = Bare(SubSeq(line, fields'[k].a, fields'[k].b - 1))
    <3>1. CASE k \in 1 .. Len(fields)
      BY <2>2, <2>6, <3>1 DEF Alongside
    <3>2. CASE k = Len(fields) + 1
      <4>1. last.a = fieldStart /\ last.b = p
        OBVIOUS
      <4> QED
        BY <2>2, <2>6, <3>2, <4>1 DEF Alongside
    <3> QED
      BY <2>6, <2>7, <3>1, <3>2
  <2>8. SplitCSV(line') = split
    BY <1>1, <2>3 DEF split
  <2>9. SplittersAgree'
    BY <1>1, <2>6, <2>7, <2>8 DEF SplittersAgree
  <2> QED
    BY <2>1, <2>9 DEF SplitInv
<1> QED
  BY <1>2, <1>3

\* In whichever order fields, quotes and blanks stand, the in-memory engines
\* cut a line into as many fields as the streaming engine and the nodes, and
\* into the same ones when the quotes are left aside.
THEOREM SplittersAlwaysAgree == FileSpec => []SplittersAgree
<1> DEFINE Inv == FileInv /\ SplitInv
<1>1. FileInit => Inv
  <2> SUFFICES ASSUME FileInit PROVE SplitInv
    BY InitFileInv
  <2>1. line \in Seq(Token) /\ Begun
    BY FilesAssumption DEF FileInit
  <2> QED
    BY <2>1, BegunSplitInv
<1>2. Inv /\ [FileNext]_fileVars => Inv'
  <2> SUFFICES ASSUME Inv, [FileNext]_fileVars PROVE SplitInv'
    BY NextFileInv
  <2>1. CASE Scan
    <3>1. ScanNext /\ verdict = "scanning"
      BY <2>1 DEF Scan, ScanNext, ToggleQuote, EndField, PassOver, EndLine, Scanning
    <3>2. ScanTypeOK /\ Midway
      BY <3>1 DEF FileInv, LineInv
    <3> QED
      BY <3>1, <3>2, ToggleKeepsSplit, EndFieldKeepsSplit, PassOverKeepsSplit,
         EndLineKeepsSplit DEF ScanNext
  <2>2. CASE HeaderRead \/ NextLine \/ TripUsed
    <3>1. Begun'
      BY <2>2 DEF HeaderRead, NextLine, TripUsed, BeginAnew, Begun
    <3>2. line' \in Seq(Token)
      BY NextFileInv DEF FileInv, LineInv, ScanTypeOK
    <3>3. (line \in Seq(Token) /\ Begun => SplitInv)'
      BY BegunSplitInv, PTL
    <3> QED
      BY <3>1, <3>2, <3>3
  <2>3. CASE RowRead \/ UNCHANGED fileVars
    <3>1. UNCHANGED <<line, p, inQuotes, fieldStart, fields, verdict>>
      BY <2>3 DEF RowRead, fileVars, lineVars, scanVars
    <3> QED
      BY <3>1 DEF SplitInv, SplittersAgree
  <2> QED
    BY <2>1, <2>2, <2>3 DEF FileNext
<1>3. Inv => SplittersAgree
  BY DEF SplitInv
<1> QED
  BY <1>1, <1>2, <1>3, PTL DEF FileSpec

-----------------------------------------------------------------------------
\* Numbers, digit by digit.

LEMMA ValuesOfDigits ==
    /\ \A d \in Digit : DigitValue[d] \in 0 .. 9
    /\ {".", "+", "-"} \cap Digit = {}
  BY DEF Digit, DigitValue

LEMMA NextDigitType ==
    ASSUME NEW n \in Nat, NEW d \in Digit
    PROVE  NextDigit(n, d) \in Nat
  BY ValuesOfDigits DEF NextDigit

Counts(g, s) ==
    /\ g \in [0 .. Len(s) -> Nat]
    /\ g[0] = 0 /\ Number(s) = g[Len(s)]
    /\ \A k \in 1 .. Len(s) : g[k] = NextDigit(g[k - 1], s[k])

LEMMA NumberPath ==
    ASSUME NEW s, s \in Seq(Digit)
    PROVE  \E g : Counts(g, s)
<1> DEFINE n == Len(s)
           A == Nat
           F == [x \in A \X (1 .. n) |-> NextDigit(x[1], s[x[2]])]
           Raw(g) == [t \in SUBSET DOMAIN s |->
                         IF t = {} THEN 0 ELSE NextDigit(g[t \ {Max(t)}], s[Max(t)])]
           jt == CHOOSE g : g = Raw(g)
<1>1. n \in Nat /\ DOMAIN s = 1 .. n /\ \A i \in 1 .. n : s[i] \in Digit
  BY LenProperties
<1>2. Number(s) = jt[DOMAIN s]
  BY Zenon DEF Number, FoldLeft, MapThenFoldSet
<1>3. \A v \in A, j \in 1 .. n : NextDigit(v, s[j]) \in A
  BY <1>1, NextDigitType
<1>4. F \in [A \X (1 .. n) -> A]
  BY <1>3
<1>5. \A v \in A, j \in 1 .. n : F[<<v, j>>] = NextDigit(v, s[j])
  OBVIOUS
<1> HIDE DEF A, F, n
<1>6. PICK it : FoldsLeft(it, F, 0, n, A)
  BY <1>1, <1>4, LeftFold DEF A
<1>7. it = Raw(it)
  <2>1. ASSUME NEW t \in SUBSET (1 .. n), t # {}
        PROVE  it[t] = NextDigit(it[t \ {Max(t)}], s[Max(t)])
    <3>1. /\ Max(t) \in 1 .. n /\ it[t \ {Max(t)}] \in A
          /\ it[t] = F[<<it[t \ {Max(t)}], Max(t)>>]
      BY <1>6, <2>1 DEF FoldsLeft
    <3> QED
      BY <1>5, <3>1
  <2>2. it = [t \in SUBSET (1 .. n) |-> it[t]] /\ it[{}] = 0
    BY <1>6 DEF FoldsLeft
  <2> QED
    BY <1>1, <2>1, <2>2
<1>8. jt = Raw(jt)
  <2> HIDE DEF Raw
  <2> QED
    BY <1>7
<1> HIDE DEF jt
<1>9. /\ jt[{}] = 0
      /\ \A t \in SUBSET (1 .. n) : t # {} =>
             jt[t] = NextDigit(jt[t \ {Max(t)}], s[Max(t)])
  BY <1>1, <1>8
<1> HIDE DEF Raw
<1>10. FoldsOn(jt, F, 0, n, A)
  <2>1. ASSUME NEW t \in SUBSET (1 .. n), t # {}, jt[t \ {Max(t)}] \in A
        PROVE  jt[t] = F[<<jt[t \ {Max(t)}], Max(t)>>]
    <3>1. Max(t) \in 1 .. n
      BY <1>6, <2>1 DEF FoldsLeft
    <3> QED
      BY <1>5, <1>9, <2>1, <3>1
  <2> QED
    BY <1>9, <2>1 DEF FoldsOn
<1> DEFINE h == PathOf(jt, n)
<1>11. IsPath(h, F, 0, n, A)
  BY <1>1, <1>4, <1>10, PathOfFold DEF A
<1>12. h[n] = jt[1 .. n]
  BY <1>1 DEF PathOf
<1> HIDE DEF h
<1>13. \A k \in 1 .. n : h[k] = NextDigit(h[k - 1], s[k])
  <2> SUFFICES ASSUME NEW k \in 1 .. n PROVE h[k] = NextDigit(h[k - 1], s[k])
    OBVIOUS
  <2>1. k - 1 \in 0 .. n
    BY <1>1
  <2>2. h[k - 1] \in A /\ h[k] = F[<<h[k - 1], k>>]
    BY <1>11, <2>1 DEF IsPath
  <2> QED
    BY <1>5, <2>2
<1> QED
  BY <1>1, <1>2, <1>11, <1>12, <1>13 DEF IsPath, A, n, Counts

LEMMA NumberNone == Number(<<>>) = 0
<1>1. <<>> \in Seq(Digit) /\ Len(<<>>) = 0
  OBVIOUS
<1>2. PICK g : Counts(g, <<>>)
  BY <1>1, NumberPath
<1> QED
  BY <1>1, <1>2 DEF Counts

LEMMA NumberAppend ==
    ASSUME NEW s \in Seq(Digit), NEW e \in Digit
    PROVE  /\ Number(s) \in Nat
           /\ Number(Append(s, e)) = 10 * Number(s) + DigitValue[e]
<1> DEFINE n == Len(s)
           u == Append(s, e)
<1>1. /\ n \in Nat /\ u \in Seq(Digit) /\ Len(u) = n + 1
      /\ u[n + 1] = e /\ \A i \in 1 .. n : u[i] = s[i]
  BY AppendProperties, LenProperties
<1>2. PICK g : Counts(g, s)
  BY NumberPath
<1>3. PICK h : Counts(h, u)
  BY <1>1, NumberPath
<1> HIDE DEF n, u
<1>4. \A k \in 1 .. n : g[k - 1] = h[k - 1] => g[k] = h[k]
  <2> SUFFICES ASSUME NEW k \in 1 .. n, g[k - 1] = h[k - 1] PROVE g[k] = h[k]
    OBVIOUS
  <2>1. k \in 1 .. n + 1 /\ u[k] = s[k]
    BY <1>1
  <2>2. g[k] = NextDigit(g[k - 1], s[k])
    BY <1>2 DEF Counts, n
  <2>3. h[k] = NextDigit(h[k - 1], u[k])
    BY <1>1, <1>3, <2>1 DEF Counts
  <2> QED
    BY <2>1, <2>2, <2>3
<1>5. g[n] = h[n]
  <2>1. g[0] = h[0] /\ n \in Nat
    BY <1>1, <1>2, <1>3 DEF Counts
  <2> QED
    BY <1>4, <2>1, SamePath
<1>6. n + 1 \in 1 .. n + 1 /\ n + 1 - 1 = n /\ n \in 0 .. n
  BY <1>1
<1>7. h[n + 1] = NextDigit(h[n], e) /\ Number(u) = h[n + 1]
  BY <1>1, <1>3, <1>6 DEF Counts
<1>8. Number(s) = g[n] /\ g[n] \in Nat
  BY <1>2, <1>6 DEF Counts, n
<1> QED
  BY <1>5, <1>7, <1>8 DEF u, NextDigit

\* The powers of ten.
Tens(g, s) ==
    /\ g \in [0 .. Len(s) -> Nat]
    /\ g[0] = 1 /\ FoldLeft(LAMBDA m, i : 10 * m, 1, s) = g[Len(s)]
    /\ \A k \in 1 .. Len(s) : g[k] = 10 * g[k - 1]

LEMMA TenPath ==
    ASSUME NEW s, s \in Seq(Nat)
    PROVE  \E g : Tens(g, s)
<1> DEFINE n == Len(s)
           A == Nat
           F == [x \in A \X (1 .. n) |-> 10 * x[1]]
           Raw(g) == [t \in SUBSET DOMAIN s |->
                         IF t = {} THEN 1 ELSE 10 * g[t \ {Max(t)}]]
           jt == CHOOSE g : g = Raw(g)
<1>1. n \in Nat /\ DOMAIN s = 1 .. n /\ \A i \in 1 .. n : s[i] \in Nat
  BY LenProperties
<1>2. FoldLeft(LAMBDA m, i : 10 * m, 1, s) = jt[DOMAIN s]
  BY Zenon DEF FoldLeft, MapThenFoldSet
<1>3. \A v \in A, j \in 1 .. n : 10 * v \in A
  OBVIOUS
<1>4. F \in [A \X (1 .. n) -> A]
  BY <1>3
<1>5. \A v \in A, j \in 1 .. n : F[<<v, j>>] = 10 * v
  OBVIOUS
<1> HIDE DEF A, F, n
<1>6. PICK it : FoldsLeft(it, F, 1, n, A)
  BY <1>1, <1>4, LeftFold DEF A
<1>7. it = Raw(it)
  <2>1. ASSUME NEW t \in SUBSET (1 .. n), t # {}
        PROVE  it[t] = 10 * it[t \ {Max(t)}]
    <3>1. /\ Max(t) \in 1 .. n /\ it[t \ {Max(t)}] \in A
          /\ it[t] = F[<<it[t \ {Max(t)}], Max(t)>>]
      BY <1>6, <2>1 DEF FoldsLeft
    <3> QED
      BY <1>5, <3>1
  <2>2. it = [t \in SUBSET (1 .. n) |-> it[t]] /\ it[{}] = 1
    BY <1>6 DEF FoldsLeft
  <2> QED
    BY <1>1, <2>1, <2>2
<1>8. jt = Raw(jt)
  <2> HIDE DEF Raw
  <2> QED
    BY <1>7
<1> HIDE DEF jt
<1>9. /\ jt[{}] = 1
      /\ \A t \in SUBSET (1 .. n) : t # {} =>
             jt[t] = 10 * jt[t \ {Max(t)}]
  BY <1>1, <1>8
<1> HIDE DEF Raw
<1>10. FoldsOn(jt, F, 1, n, A)
  <2>1. ASSUME NEW t \in SUBSET (1 .. n), t # {}, jt[t \ {Max(t)}] \in A
        PROVE  jt[t] = F[<<jt[t \ {Max(t)}], Max(t)>>]
    <3>1. Max(t) \in 1 .. n
      BY <1>6, <2>1 DEF FoldsLeft
    <3> QED
      BY <1>5, <1>9, <2>1, <3>1
  <2> QED
    BY <1>9, <2>1 DEF FoldsOn
<1> DEFINE h == PathOf(jt, n)
<1>11. IsPath(h, F, 1, n, A)
  BY <1>1, <1>4, <1>10, PathOfFold DEF A
<1>12. h[n] = jt[1 .. n]
  BY <1>1 DEF PathOf
<1> HIDE DEF h
<1>13. \A k \in 1 .. n : h[k] = 10 * h[k - 1]
  <2> SUFFICES ASSUME NEW k \in 1 .. n PROVE h[k] = 10 * h[k - 1]
    OBVIOUS
  <2>1. k - 1 \in 0 .. n
    BY <1>1
  <2>2. h[k - 1] \in A /\ h[k] = F[<<h[k - 1], k>>]
    BY <1>11, <2>1 DEF IsPath
  <2> QED
    BY <1>5, <2>2
<1> QED
  BY <1>1, <1>2, <1>11, <1>12, <1>13 DEF IsPath, A, n, Tens

LEMMA TenToSteps ==
    ASSUME NEW k \in Nat
    PROVE  TenTo(0) = 1 /\ TenTo(k) \in Nat /\ TenTo(k + 1) = 10 * TenTo(k)
<1> DEFINE Upto(m) == [i \in 1 .. m |-> i]
<1>1. \A m \in Nat : Upto(m) \in Seq(Nat) /\ Len(Upto(m)) = m
  OBVIOUS
<1>2. \A m \in Nat : TenTo(m) = FoldLeft(LAMBDA x, i : 10 * x, 1, Upto(m))
  BY Zenon DEF TenTo
<1> HIDE DEF Upto
<1>3. \A m \in Nat : \E g : Tens(g, Upto(m))
  BY <1>1, TenPath
<1>4. PICK g : Tens(g, Upto(k))
  BY <1>3
<1>5. PICK h : Tens(h, Upto(k + 1))
  BY <1>3
<1>6. PICK z : Tens(z, Upto(0))
  BY <1>3
<1>7. /\ g \in [0 .. k -> Nat] /\ g[0] = 1 /\ TenTo(k) = g[k]
      /\ \A j \in 1 .. k : g[j] = 10 * g[j - 1]
  BY <1>1, <1>2, <1>4 DEF Tens
<1>8. /\ h \in [0 .. k + 1 -> Nat] /\ h[0] = 1 /\ TenTo(k + 1) = h[k + 1]
      /\ \A j \in 1 .. k + 1 : h[j] = 10 * h[j - 1]
  <2>1. k + 1 \in Nat
    OBVIOUS
  <2>2. Len(Upto(k + 1)) = k + 1
    BY <1>1, <2>1
  <2>3. TenTo(k + 1) = FoldLeft(LAMBDA x, i : 10 * x, 1, Upto(k + 1))
    BY <1>2, <2>1
  <2> QED
    BY <1>5, <2>2, <2>3 DEF Tens
<1>9. TenTo(0) = 1
  BY <1>1, <1>2, <1>6 DEF Tens
<1>10. \A j \in 1 .. k : g[j - 1] = h[j - 1] => g[j] = h[j]
  <2> SUFFICES ASSUME NEW j \in 1 .. k, g[j - 1] = h[j - 1] PROVE g[j] = h[j]
    OBVIOUS
  <2>1. j \in 1 .. k + 1
    OBVIOUS
  <2> QED
    BY <1>7, <1>8, <2>1
<1>11. g[k] = h[k]
  <2>1. g[0] = h[0]
    BY <1>7, <1>8
  <2> QED
    BY <1>10, <2>1, SamePath
<1>12. k + 1 \in 1 .. k + 1 /\ k + 1 - 1 = k /\ k \in 0 .. k
  OBVIOUS
<1>13. h[k + 1] = 10 * h[k] /\ g[k] \in Nat
  BY <1>7, <1>8, <1>12
<1> QED
  BY <1>7, <1>8, <1>9, <1>11, <1>13

LEMMA TenToPositive == \A k \in Nat : TenTo(k) \in Nat \ {0}
<1> DEFINE G == {k \in Nat : TenTo(k) \in Nat \ {0}}
<1> SUFFICES ASSUME NEW k \in Nat PROVE k \in G
  OBVIOUS
<1>1. 0 \in G
  BY TenToSteps
<1>2. ASSUME NEW j \in 0 .. k - 1, j \in G PROVE j + 1 \in G
  <2>1. j \in Nat /\ j + 1 \in Nat /\ TenTo(j + 1) = 10 * TenTo(j)
    BY TenToSteps
  <2> QED
    BY <1>2, <2>1
<1> HIDE DEF G
<1> QED
  BY <1>1, <1>2, StepByStep

-----------------------------------------------------------------------------
\* The pass of parseMoneyCents over an amount.

MoneyState ==
    [part : {"sign", "dollars", "cents", "rest", "blank", "broken"},
     neg : BOOLEAN, dollars : Nat, sawDigit : BOOLEAN,
     cents : Nat, fracDigits : 0 .. 2, roundUp : BOOLEAN]

LEMMA MoneyStepType ==
    ASSUME NEW st \in MoneyState, NEW c
    PROVE  MoneyStep(st, c) \in MoneyState
<1>1. CASE c \in Digit
  <2>1. DigitValue[c] \in Nat
    BY <1>1, ValuesOfDigits
  <2>2. /\ 10 * st.dollars + DigitValue[c] \in Nat /\ 10 * st.cents + DigitValue[c] \in Nat
        /\ st.fracDigits < 2 => st.fracDigits + 1 \in 0 .. 2
        /\ (DigitValue[c] >= 5) \in BOOLEAN
    BY <2>1 DEF MoneyState
  <2> QED
    BY <1>1, <2>2 DEF MoneyStep, MoneyState
<1>2. CASE c \notin Digit
  BY <1>2 DEF MoneyStep, MoneyState
<1> QED
  BY <1>1, <1>2

MoneyOf(b, s) == FoldLeft(MoneyStep, b, s)

Passes(g, b, s) ==
    /\ g \in [0 .. Len(s) -> MoneyState]
    /\ g[0] = b /\ MoneyOf(b, s) = g[Len(s)]
    /\ \A k \in 1 .. Len(s) : g[k] = MoneyStep(g[k - 1], s[k])

LEMMA MoneyPath ==
    ASSUME NEW S, NEW s, s \in Seq(S), NEW b, b \in MoneyState
    PROVE  \E g : Passes(g, b, s)
<1> DEFINE n == Len(s)
           A == MoneyState
           F == [x \in A \X (1 .. n) |-> MoneyStep(x[1], s[x[2]])]
           Raw(g) == [t \in SUBSET DOMAIN s |->
                         IF t = {} THEN b ELSE MoneyStep(g[t \ {Max(t)}], s[Max(t)])]
           jt == CHOOSE g : g = Raw(g)
<1>1. n \in Nat /\ DOMAIN s = 1 .. n /\ \A i \in 1 .. n : s[i] \in S
  BY LenProperties
<1>2. MoneyOf(b, s) = jt[DOMAIN s]
  BY Zenon DEF MoneyOf, FoldLeft, MapThenFoldSet
<1>3. \A v \in A, j \in 1 .. n : MoneyStep(v, s[j]) \in A
  BY <1>1, MoneyStepType
<1>4. F \in [A \X (1 .. n) -> A]
  BY <1>3
<1>5. \A v \in A, j \in 1 .. n : F[<<v, j>>] = MoneyStep(v, s[j])
  OBVIOUS
<1> HIDE DEF A, F, n
<1>6. PICK it : FoldsLeft(it, F, b, n, A)
  BY <1>1, <1>4, LeftFold DEF A
<1>7. it = Raw(it)
  <2>1. ASSUME NEW t \in SUBSET (1 .. n), t # {}
        PROVE  it[t] = MoneyStep(it[t \ {Max(t)}], s[Max(t)])
    <3>1. /\ Max(t) \in 1 .. n /\ it[t \ {Max(t)}] \in A
          /\ it[t] = F[<<it[t \ {Max(t)}], Max(t)>>]
      BY <1>6, <2>1 DEF FoldsLeft
    <3> QED
      BY <1>5, <3>1
  <2>2. it = [t \in SUBSET (1 .. n) |-> it[t]] /\ it[{}] = b
    BY <1>6 DEF FoldsLeft
  <2> QED
    BY <1>1, <2>1, <2>2
<1>8. jt = Raw(jt)
  <2> HIDE DEF Raw
  <2> QED
    BY <1>7
<1> HIDE DEF jt
<1>9. /\ jt[{}] = b
      /\ \A t \in SUBSET (1 .. n) : t # {} =>
             jt[t] = MoneyStep(jt[t \ {Max(t)}], s[Max(t)])
  BY <1>1, <1>8
<1> HIDE DEF Raw
<1>10. FoldsOn(jt, F, b, n, A)
  <2>1. ASSUME NEW t \in SUBSET (1 .. n), t # {}, jt[t \ {Max(t)}] \in A
        PROVE  jt[t] = F[<<jt[t \ {Max(t)}], Max(t)>>]
    <3>1. Max(t) \in 1 .. n
      BY <1>6, <2>1 DEF FoldsLeft
    <3> QED
      BY <1>5, <1>9, <2>1, <3>1
  <2> QED
    BY <1>9, <2>1 DEF FoldsOn
<1> DEFINE h == PathOf(jt, n)
<1>11. IsPath(h, F, b, n, A)
  BY <1>1, <1>4, <1>10, PathOfFold DEF A
<1>12. h[n] = jt[1 .. n]
  BY <1>1 DEF PathOf
<1> HIDE DEF h
<1>13. \A k \in 1 .. n : h[k] = MoneyStep(h[k - 1], s[k])
  <2> SUFFICES ASSUME NEW k \in 1 .. n PROVE h[k] = MoneyStep(h[k - 1], s[k])
    OBVIOUS
  <2>1. k - 1 \in 0 .. n
    BY <1>1
  <2>2. h[k - 1] \in A /\ h[k] = F[<<h[k - 1], k>>]
    BY <1>11, <2>1 DEF IsPath
  <2> QED
    BY <1>5, <2>2
<1> QED
  BY <1>1, <1>2, <1>11, <1>12, <1>13 DEF IsPath, A, n, Passes

LEMMA MoneyNone ==
    ASSUME NEW b \in MoneyState
    PROVE  MoneyOf(b, <<>>) = b
<1>1. <<>> \in Seq({}) /\ Len(<<>>) = 0
  OBVIOUS
<1>2. PICK g : Passes(g, b, <<>>)
  BY <1>1, MoneyPath
<1> QED
  BY <1>1, <1>2 DEF Passes

LEMMA MoneyAppend ==
    ASSUME NEW S, NEW s \in Seq(S), NEW e \in S, NEW b \in MoneyState
    PROVE  /\ MoneyOf(b, s) \in MoneyState
           /\ MoneyOf(b, Append(s, e)) = MoneyStep(MoneyOf(b, s), e)
<1> DEFINE n == Len(s)
           u == Append(s, e)
<1>1. /\ n \in Nat /\ u \in Seq(S) /\ Len(u) = n + 1
      /\ u[n + 1] = e /\ \A i \in 1 .. n : u[i] = s[i]
  BY AppendProperties, LenProperties
<1>2. PICK g : Passes(g, b, s)
  BY MoneyPath
<1>3. PICK h : Passes(h, b, u)
  BY <1>1, MoneyPath
<1> HIDE DEF n, u
<1>4. \A k \in 1 .. n : g[k - 1] = h[k - 1] => g[k] = h[k]
  <2> SUFFICES ASSUME NEW k \in 1 .. n, g[k - 1] = h[k - 1] PROVE g[k] = h[k]
    OBVIOUS
  <2>1. k \in 1 .. n + 1 /\ u[k] = s[k]
    BY <1>1
  <2>2. g[k] = MoneyStep(g[k - 1], s[k])
    BY <1>2 DEF Passes, n
  <2>3. h[k] = MoneyStep(h[k - 1], u[k])
    BY <1>1, <1>3, <2>1 DEF Passes
  <2> QED
    BY <2>1, <2>2, <2>3
<1>5. g[n] = h[n]
  <2>1. g[0] = h[0] /\ n \in Nat
    BY <1>1, <1>2, <1>3 DEF Passes
  <2> QED
    BY <1>4, <2>1, SamePath
<1>6. n + 1 \in 1 .. n + 1 /\ n + 1 - 1 = n /\ n \in 0 .. n
  BY <1>1
<1>7. h[n + 1] = MoneyStep(h[n], e) /\ MoneyOf(b, u) = h[n + 1]
  BY <1>1, <1>3, <1>6 DEF Passes
<1>8. MoneyOf(b, s) = g[n] /\ g[n] \in MoneyState
  BY <1>2, <1>6 DEF Passes, n
<1> QED
  BY <1>5, <1>7, <1>8 DEF u

\* Where the pass is when it expects digits, with or without a sign before.
BehindSign(neg) ==
    [part |-> "dollars", neg |-> neg, dollars |-> 0, sawDigit |-> FALSE,
     cents |-> 0, fracDigits |-> 0, roundUp |-> FALSE]

LEMMA BeginningsAreStates ==
    /\ MoneyBegun \in MoneyState
    /\ \A neg \in BOOLEAN : BehindSign(neg) \in MoneyState
<1>1. MoneyBegun \in MoneyState
  BY DEF MoneyBegun, MoneyState
<1>2. ASSUME NEW neg \in BOOLEAN PROVE BehindSign(neg) \in MoneyState
  BY DEF BehindSign, MoneyState
<1> QED
  BY <1>1, <1>2

\* What a step makes of each part of the state.

LEMMA DigitOfDollars ==
    ASSUME NEW st \in MoneyState, NEW c \in Digit, st.part \in {"sign", "dollars"}
    PROVE  LET nt == MoneyStep(st, c)
           IN  /\ nt.part = "dollars" /\ nt.neg = st.neg /\ nt.dollars = 10 * st.dollars + DigitValue[c]
               /\ nt.sawDigit = TRUE /\ nt.cents = st.cents
               /\ nt.fracDigits = st.fracDigits /\ nt.roundUp = st.roundUp
<1>1. MoneyStep(st, c) = [st EXCEPT !.part = "dollars", !.sawDigit = TRUE, !.dollars = 10 * st.dollars + DigitValue[c]]
  BY BlankAssumption, ValuesOfDigits DEF MoneyStep
<1> QED
  BY <1>1 DEF MoneyState

LEMMA DigitOfCents ==
    ASSUME NEW st \in MoneyState, NEW c \in Digit, st.part = "cents", st.fracDigits < 2
    PROVE  LET nt == MoneyStep(st, c)
           IN  /\ nt.part = st.part /\ nt.neg = st.neg /\ nt.dollars = st.dollars
               /\ nt.sawDigit = st.sawDigit /\ nt.cents = 10 * st.cents + DigitValue[c]
               /\ nt.fracDigits = st.fracDigits + 1 /\ nt.roundUp = st.roundUp
<1>1. MoneyStep(st, c) = [st EXCEPT !.cents = 10 * st.cents + DigitValue[c], !.fracDigits = st.fracDigits + 1]
  BY BlankAssumption, ValuesOfDigits DEF MoneyStep
<1> QED
  BY <1>1 DEF MoneyState

LEMMA ThirdDigit ==
    ASSUME NEW st \in MoneyState, NEW c \in Digit, st.part = "cents", st.fracDigits = 2
    PROVE  LET nt == MoneyStep(st, c)
           IN  /\ nt.part = "rest" /\ nt.neg = st.neg /\ nt.dollars = st.dollars
               /\ nt.sawDigit = st.sawDigit /\ nt.cents = st.cents
               /\ nt.fracDigits = st.fracDigits /\ nt.roundUp = (DigitValue[c] >= 5)
<1>1. MoneyStep(st, c) = [st EXCEPT !.part = "rest", !.roundUp = (DigitValue[c] >= 5)]
  BY BlankAssumption, ValuesOfDigits DEF MoneyStep
<1> QED
  BY <1>1 DEF MoneyState

LEMMA SignFirst ==
    ASSUME NEW st \in MoneyState, NEW c \in {"+", "-"}, st = MoneyBegun
    PROVE  LET nt == MoneyStep(st, c)
           IN  /\ nt.part = "dollars" /\ nt.neg = (c = "-") /\ nt.dollars = st.dollars
               /\ nt.sawDigit = st.sawDigit /\ nt.cents = st.cents
               /\ nt.fracDigits = st.fracDigits /\ nt.roundUp = st.roundUp
<1>1. MoneyStep(st, c) = [st EXCEPT !.part = "dollars", !.neg = (c = "-")]
  BY BlankAssumption, ValuesOfDigits DEF MoneyStep
<1> QED
  BY <1>1 DEF MoneyState

LEMMA PointBehindDollars ==
    ASSUME NEW st \in MoneyState, NEW c, c = ".", st.part \in {"sign", "dollars"}
    PROVE  LET nt == MoneyStep(st, c)
           IN  /\ nt.part = "cents" /\ nt.neg = st.neg /\ nt.dollars = st.dollars
               /\ nt.sawDigit = st.sawDigit /\ nt.cents = st.cents
               /\ nt.fracDigits = st.fracDigits /\ nt.roundUp = st.roundUp
<1>1. MoneyStep(st, c) = [st EXCEPT !.part = "cents"]
  BY BlankAssumption, ValuesOfDigits DEF MoneyStep
<1> QED
  BY <1>1 DEF MoneyState

LEMMA Elsewhere ==
    ASSUME NEW st \in MoneyState, NEW c, c \notin Digit \cup {".", "+", "-"},
           st.part # "broken"
    PROVE  LET nt == MoneyStep(st, c)
           IN  /\ nt.part = IF c \in Blank THEN "blank" ELSE "broken"
               /\ nt.neg = st.neg /\ nt.dollars = st.dollars
               /\ nt.sawDigit = st.sawDigit /\ nt.cents = st.cents
               /\ nt.fracDigits = st.fracDigits /\ nt.roundUp = st.roundUp
<1>1. CASE c \in Blank
  <2>1. MoneyStep(st, c) = [st EXCEPT !.part = "blank"]
    BY <1>1 DEF MoneyStep
  <2> QED
    BY <1>1, <2>1 DEF MoneyState
<1>2. CASE c \notin Blank
  <2>1. MoneyStep(st, c) = [st EXCEPT !.part = "broken"]
    BY <1>2 DEF MoneyStep
  <2> QED
    BY <1>2, <2>1 DEF MoneyState
<1> QED
  BY <1>1, <1>2

LEMMA LaterDigit ==
    ASSUME NEW st \in MoneyState, NEW c \in Digit, st.part = "rest"
    PROVE  MoneyStep(st, c) = st
  BY DEF MoneyStep

\* Where the pass ends when there is no amount.
LEMMA Astray ==
    ASSUME NEW st \in MoneyState, NEW c
    PROVE  LET part == MoneyStep(st, c).part
           IN  /\ c \in Blank => part \in {"blank", "broken"}
               /\ c \notin Blank /\ st.part \in {"blank", "broken"} => part = "broken"
               /\ c \notin Blank /\ c \notin Digit /\ c # "." /\ st # MoneyBegun =>
                      part = "broken"
               /\ c \notin Blank /\ c = "." /\ st.part \notin {"sign", "dollars"} =>
                      part = "broken"
<1>1. st.part \in {"blank", "broken"} => st # MoneyBegun
  BY DEF MoneyBegun
<1>2. CASE c \in Blank
  <2>1. c \notin Digit /\ c # "." /\ c \notin {"+", "-"}
    BY <1>2, BlankAssumption
  <2>2. CASE st.part # "broken"
    <3>1. MoneyStep(st, c) = [st EXCEPT !.part = "blank"]
      BY <1>2, <2>1, <2>2 DEF MoneyStep
    <3> QED
      BY <1>2, <3>1 DEF MoneyState
  <2>3. CASE st.part = "broken"
    <3>1. MoneyStep(st, c) = [st EXCEPT !.part = "broken"]
      BY <1>2, <2>1, <2>3 DEF MoneyStep
    <3> QED
      BY <1>2, <3>1 DEF MoneyState
  <2> QED
    BY <2>2, <2>3
<1>3. CASE c \notin Blank /\ c \in Digit
  <2>1. c # "."
    BY <1>3, ValuesOfDigits
  <2>2. CASE st.part \in {"blank", "broken"}
    <3>1. MoneyStep(st, c) = [st EXCEPT !.part = "broken"]
      BY <1>3, <2>2 DEF MoneyStep
    <3> QED
      BY <1>3, <2>1, <3>1 DEF MoneyState
  <2> QED
    BY <1>3, <2>1, <2>2
<1>4. CASE c \notin Blank /\ c \notin Digit
  <2>1. CASE /\ ~(c \in {"+", "-"} /\ st = MoneyBegun)
             /\ ~(c = "." /\ st.part \in {"sign", "dollars"})
    <3>1. MoneyStep(st, c) = [st EXCEPT !.part = "broken"]
      BY <1>4, <2>1 DEF MoneyStep
    <3> QED
      BY <1>4, <3>1 DEF MoneyState
  <2>2. CASE c \in {"+", "-"} /\ st = MoneyBegun
    <3>1. c # "."
      BY <2>2
    <3> QED
      BY <1>1, <1>4, <2>2, <3>1
  <2>3. CASE c = "." /\ st.part \in {"sign", "dollars"}
    BY <1>4, <2>3
  <2> QED
    BY <2>1, <2>2, <2>3
<1> QED
  BY <1>2, <1>3, <1>4

LEMMA SameState ==
    ASSUME NEW a \in MoneyState, NEW b \in MoneyState,
           a.part = b.part, a.neg = b.neg, a.dollars = b.dollars, a.sawDigit = b.sawDigit,
           a.cents = b.cents, a.fracDigits = b.fracDigits, a.roundUp = b.roundUp
    PROVE  a = b
  BY DEF MoneyState

LEMMA FirstCharacter ==
    ASSUME NEW c
    PROVE  /\ c \in {"+", "-"} => MoneyStep(MoneyBegun, c) = BehindSign(c = "-")
           /\ c \notin {"+", "-"} =>
                  MoneyStep(MoneyBegun, c) = MoneyStep(BehindSign(FALSE), c)
<1> DEFINE st == MoneyBegun
           b == BehindSign(FALSE)
<1>1. /\ st \in MoneyState /\ MoneyStep(st, c) \in MoneyState
      /\ b \in MoneyState /\ MoneyStep(b, c) \in MoneyState
      /\ BehindSign(c = "-") \in MoneyState
  BY BeginningsAreStates, MoneyStepType
<1>2. /\ st.part = "sign" /\ st.neg = FALSE /\ st.dollars = 0 /\ st.sawDigit = FALSE
      /\ st.cents = 0 /\ st.fracDigits = 0 /\ st.roundUp = FALSE
  BY DEF MoneyBegun
<1>3. /\ b.part = "dollars" /\ b.neg = FALSE /\ b.dollars = 0 /\ b.sawDigit = FALSE
      /\ b.cents = 0 /\ b.fracDigits = 0 /\ b.roundUp = FALSE
  BY DEF BehindSign
<1>0. st.part \in {"sign", "dollars"} /\ b.part \in {"sign", "dollars"}
  BY <1>2, <1>3
<1> HIDE DEF st, b
<1>4. CASE c \in {"+", "-"}
  <2> DEFINE nt == MoneyStep(st, c)
             r == BehindSign(c = "-")
  <2>1. /\ nt.part = "dollars" /\ nt.neg = (c = "-") /\ nt.dollars = st.dollars
        /\ nt.sawDigit = st.sawDigit /\ nt.cents = st.cents
        /\ nt.fracDigits = st.fracDigits /\ nt.roundUp = st.roundUp
    BY <1>1, <1>4, SignFirst DEF st
  <2>2. /\ r.part = "dollars" /\ r.neg = (c = "-") /\ r.dollars = 0 /\ r.sawDigit = FALSE
        /\ r.cents = 0 /\ r.fracDigits = 0 /\ r.roundUp = FALSE
    BY DEF BehindSign
  <2> HIDE DEF nt, r
  <2>3. nt \in MoneyState /\ r \in MoneyState
    BY <1>1 DEF nt, r
  <2>4. nt = r
    BY <1>2, <2>1, <2>2, <2>3, SameState
  <2> QED
    BY <1>4, <2>4 DEF nt, r, st
<1>5. CASE c \in Digit
  <2> DEFINE x == MoneyStep(st, c)
             y == MoneyStep(b, c)
  <2>1. /\ x.part = "dollars" /\ x.neg = st.neg /\ x.dollars = 10 * st.dollars + DigitValue[c]
        /\ x.sawDigit = TRUE /\ x.cents = st.cents
        /\ x.fracDigits = st.fracDigits /\ x.roundUp = st.roundUp
    BY <1>0, <1>1, <1>5, DigitOfDollars
  <2>2. /\ y.part = "dollars" /\ y.neg = b.neg /\ y.dollars = 10 * b.dollars + DigitValue[c]
        /\ y.sawDigit = TRUE /\ y.cents = b.cents
        /\ y.fracDigits = b.fracDigits /\ y.roundUp = b.roundUp
    BY <1>0, <1>1, <1>5, DigitOfDollars
  <2>3. c \notin {"+", "-"}
    BY <1>5, ValuesOfDigits
  <2> HIDE DEF x, y
  <2>4. x \in MoneyState /\ y \in MoneyState
    BY <1>1 DEF x, y
  <2>5. /\ x.part = y.part /\ x.neg = y.neg /\ x.dollars = y.dollars
        /\ x.sawDigit = y.sawDigit /\ x.cents = y.cents
        /\ x.fracDigits = y.fracDigits /\ x.roundUp = y.roundUp
    BY <1>2, <1>3, <2>1, <2>2
  <2>6. x = y
    BY <2>4, <2>5, SameState
  <2> QED
    BY <2>3, <2>6 DEF x, y, st, b
<1>6. CASE c = "."
  <2> DEFINE x == MoneyStep(st, c)
             y == MoneyStep(b, c)
  <2>1. /\ x.part = "cents" /\ x.neg = st.neg /\ x.dollars = st.dollars
        /\ x.sawDigit = st.sawDigit /\ x.cents = st.cents
        /\ x.fracDigits = st.fracDigits /\ x.roundUp = st.roundUp
    BY <1>0, <1>1, <1>6, PointBehindDollars
  <2>2. /\ y.part = "cents" /\ y.neg = b.neg /\ y.dollars = b.dollars
        /\ y.sawDigit = b.sawDigit /\ y.cents = b.cents
        /\ y.fracDigits = b.fracDigits /\ y.roundUp = b.roundUp
    BY <1>0, <1>1, <1>6, PointBehindDollars
  <2>3. c \notin {"+", "-"}
    BY <1>6
  <2> HIDE DEF x, y
  <2>4. x \in MoneyState /\ y \in MoneyState
    BY <1>1 DEF x, y
  <2>5. /\ x.part = y.part /\ x.neg = y.neg /\ x.dollars = y.dollars
        /\ x.sawDigit = y.sawDigit /\ x.cents = y.cents
        /\ x.fracDigits = y.fracDigits /\ x.roundUp = y.roundUp
    BY <1>2, <1>3, <2>1, <2>2
  <2>6. x = y
    BY <2>4, <2>5, SameState
  <2> QED
    BY <2>3, <2>6 DEF x, y, st, b
<1>7. CASE c \notin Digit \cup {".", "+", "-"}
  <2> DEFINE x == MoneyStep(st, c)
             y == MoneyStep(b, c)
  <2>1. /\ x.neg = st.neg /\ x.dollars = st.dollars
        /\ x.sawDigit = st.sawDigit /\ x.cents = st.cents
        /\ x.fracDigits = st.fracDigits /\ x.roundUp = st.roundUp
        /\ x.part = IF c \in Blank THEN "blank" ELSE "broken"
    BY <1>1, <1>2, <1>7, Elsewhere
  <2>2. /\ y.neg = b.neg /\ y.dollars = b.dollars
        /\ y.sawDigit = b.sawDigit /\ y.cents = b.cents
        /\ y.fracDigits = b.fracDigits /\ y.roundUp = b.roundUp
        /\ y.part = IF c \in Blank THEN "blank" ELSE "broken"
    BY <1>1, <1>3, <1>7, Elsewhere
  <2> HIDE DEF x, y
  <2>3. x \in MoneyState /\ y \in MoneyState
    BY <1>1 DEF x, y
  <2>4. /\ x.part = y.part /\ x.neg = y.neg /\ x.dollars = y.dollars
        /\ x.sawDigit = y.sawDigit /\ x.cents = y.cents
        /\ x.fracDigits = y.fracDigits /\ x.roundUp = y.roundUp
    BY <1>2, <1>3, <2>1, <2>2
  <2>5. x = y
    BY <2>3, <2>4, SameState
  <2> QED
    BY <1>7, <2>5 DEF x, y, st, b
<1> QED
  BY <1>4, <1>5, <1>6, <1>7

\* An amount without a sign could as well begin where one with a sign goes on.
LEMMA WithoutSign ==
    ASSUME NEW S, NEW s \in Seq(S), s # <<>>, s[1] \notin {"+", "-"}
    PROVE  MoneyOf(MoneyBegun, s) = MoneyOf(BehindSign(FALSE), s)
<1> DEFINE n == Len(s) - 1
<1>1. n \in Nat /\ Len(s) = n + 1 /\ 1 \in 1 .. n + 1 /\ n + 1 \in 1 .. n + 1
  BY LenProperties
<1>2. PICK g : Passes(g, MoneyBegun, s)
  BY MoneyPath, BeginningsAreStates
<1>3. PICK h : Passes(h, BehindSign(FALSE), s)
  BY MoneyPath, BeginningsAreStates
<1> DEFINE gg == [k \in 0 .. n |-> g[k + 1]]
           hh == [k \in 0 .. n |-> h[k + 1]]
<1>4. MoneyStep(MoneyBegun, s[1]) = MoneyStep(BehindSign(FALSE), s[1])
  BY FirstCharacter
<1>5. /\ g[0] = MoneyBegun /\ h[0] = BehindSign(FALSE)
      /\ \A k \in 1 .. n + 1 : g[k] = MoneyStep(g[k - 1], s[k])
      /\ \A k \in 1 .. n + 1 : h[k] = MoneyStep(h[k - 1], s[k])
      /\ MoneyOf(MoneyBegun, s) = g[n + 1] /\ MoneyOf(BehindSign(FALSE), s) = h[n + 1]
  BY <1>1, <1>2, <1>3 DEF Passes
<1>6. gg[0] = hh[0]
  <2>1. 1 - 1 = 0 /\ 0 \in 0 .. n /\ 0 + 1 = 1
    BY <1>1
  <2>2. g[1] = MoneyStep(g[0], s[1]) /\ h[1] = MoneyStep(h[0], s[1])
    BY <1>1, <1>5, <2>1
  <2>3. g[1] = h[1]
    BY <1>4, <1>5, <2>2
  <2> QED
    BY <2>1, <2>3
<1>7. ASSUME NEW k \in 1 .. n, gg[k - 1] = hh[k - 1]
      PROVE  gg[k] = hh[k]
  <2>1. /\ k + 1 \in 1 .. n + 1 /\ k + 1 - 1 = k /\ k - 1 + 1 = k
        /\ k \in 0 .. n /\ k - 1 \in 0 .. n
    BY <1>1
  <2>2. g[k] = h[k]
    BY <1>7, <2>1
  <2>3. g[k + 1] = MoneyStep(g[k], s[k + 1]) /\ h[k + 1] = MoneyStep(h[k], s[k + 1])
    BY <1>5, <2>1
  <2> QED
    BY <2>1, <2>2, <2>3
<1>8. gg[n] = g[n + 1] /\ hh[n] = h[n + 1]
  BY <1>1
<1> HIDE DEF gg, hh, n
<1>9. gg[n] = hh[n]
  BY <1>1, <1>6, <1>7, SamePath
<1> QED
  BY <1>5, <1>8, <1>9

LEMMA WithSign ==
    ASSUME NEW S, NEW s \in Seq(S), s # <<>>, s[1] \in {"+", "-"}
    PROVE  MoneyOf(MoneyBegun, s) = MoneyOf(BehindSign(s[1] = "-"), Tail(s))
<1> DEFINE n == Len(s) - 1
           u == Tail(s)
           b == BehindSign(s[1] = "-")
<1>1. /\ n \in Nat /\ Len(s) = n + 1 /\ 1 \in 1 .. n + 1 /\ n + 1 \in 1 .. n + 1
      /\ u \in Seq(S) /\ Len(u) = n /\ \A k \in 1 .. n : u[k] = s[k + 1]
  BY LenProperties
<1>2. PICK g : Passes(g, MoneyBegun, s)
  BY MoneyPath, BeginningsAreStates
<1>3. b \in MoneyState
  BY BeginningsAreStates
<1>4. PICK h : Passes(h, b, u)
  BY <1>1, <1>3, MoneyPath
<1> DEFINE gg == [k \in 0 .. n |-> g[k + 1]]
<1>5. MoneyStep(MoneyBegun, s[1]) = b
  BY FirstCharacter
<1> HIDE DEF b, u
<1>6. /\ g[0] = MoneyBegun /\ h[0] = b
      /\ \A k \in 1 .. n + 1 : g[k] = MoneyStep(g[k - 1], s[k])
      /\ \A k \in 1 .. n : h[k] = MoneyStep(h[k - 1], u[k])
      /\ MoneyOf(MoneyBegun, s) = g[n + 1] /\ MoneyOf(b, u) = h[n]
  BY <1>1, <1>2, <1>4 DEF Passes
<1>7. gg[0] = h[0]
  <2>1. g[1] = MoneyStep(g[0], s[1])
    BY <1>1, <1>6
  <2> QED
    BY <1>1, <1>5, <1>6, <2>1
<1>8. ASSUME NEW k \in 1 .. n, gg[k - 1] = h[k - 1]
      PROVE  gg[k] = h[k]
  <2>1. /\ k + 1 \in 1 .. n + 1 /\ k + 1 - 1 = k /\ k - 1 + 1 = k
        /\ k \in 0 .. n /\ k - 1 \in 0 .. n
    BY <1>1
  <2>2. g[k] = h[k - 1]
    BY <1>8, <2>1
  <2>3. g[k + 1] = MoneyStep(g[k], s[k + 1]) /\ h[k] = MoneyStep(h[k - 1], s[k + 1])
    BY <1>1, <1>6, <2>1
  <2> QED
    BY <2>1, <2>2, <2>3
<1>9. gg[n] = g[n + 1]
  BY <1>1
<1> HIDE DEF gg, n
<1>10. gg[n] = h[n]
  BY <1>1, <1>7, <1>8, SamePath
<1> QED
  BY <1>6, <1>9, <1>10 DEF b, u

-----------------------------------------------------------------------------
\* What the pass has read of a text without a sign.

Points(u) == {i \in DOMAIN u : u[i] = "."}
DigitsOf(u) == Filtered(u, Digit)

\* Only digits and at most one point.
Plain(u) ==
    /\ Cardinality(Points(u)) <= 1
    /\ Len(DigitsOf(u)) + Cardinality(Points(u)) = Len(u)

LEMMA Counted ==
    ASSUME NEW S, NEW u \in Seq(S)
    PROVE  /\ Len(u) \in Nat /\ DigitsOf(u) \in Seq(Digit) /\ Len(DigitsOf(u)) \in Nat
           /\ Points(u) \subseteq 1 .. Len(u) /\ Cardinality(Points(u)) \in Nat
           /\ IsFiniteSet(Points(u))
<1>1. Len(u) \in Nat /\ DOMAIN u = 1 .. Len(u)
  BY LenProperties
<1>2. Points(u) \subseteq 1 .. Len(u)
  BY <1>1 DEF Points
<1>3. IsFiniteSet(Points(u)) /\ Cardinality(Points(u)) \in Nat
  <2>1. IsFiniteSet(1 .. Len(u))
    BY <1>1, FS_Interval
  <2>2. IsFiniteSet(Points(u))
    BY <1>2, <2>1, FS_Subset
  <2> QED
    BY <2>2, FS_CardinalityType
<1>4. DigitsOf(u) \in Seq(S) /\ ToSet(DigitsOf(u)) \subseteq Digit
  BY FilteredProperties DEF DigitsOf
<1>5. DigitsOf(u) \in Seq(Digit)
  <2> DEFINE f == DigitsOf(u)
  <2> HIDE DEF f
  <2>1. f \in Seq(S) /\ \A i \in DOMAIN f : f[i] \in Digit
    BY <1>4 DEF f, ToSet
  <2>2. f \in Seq(Digit)
    BY <2>1
  <2> QED
    BY <2>2 DEF f
<1> QED
  BY <1>1, <1>2, <1>3, <1>5, LenProperties

LEMMA Tally ==
    ASSUME NEW S, NEW u \in Seq(S), NEW c \in S
    PROVE  LET v == Append(u, c)
           IN  /\ Len(v) = Len(u) + 1 /\ v[Len(v)] = c
               /\ c \in Digit =>
                      /\ Points(v) = Points(u)
                      /\ DigitsOf(v) = Append(DigitsOf(u), c)
                      /\ Len(DigitsOf(v)) = Len(DigitsOf(u)) + 1
               /\ c = "." =>
                      /\ Points(v) = Points(u) \cup {Len(u) + 1}
                      /\ Cardinality(Points(v)) = Cardinality(Points(u)) + 1
                      /\ DigitsOf(v) = DigitsOf(u)
               /\ c \notin Digit \cup {"."} =>
                      Points(v) = Points(u) /\ DigitsOf(v) = DigitsOf(u)
<1> DEFINE v == Append(u, c)
<1>1. /\ Len(u) \in Nat /\ Len(v) = Len(u) + 1 /\ v[Len(u) + 1] = c
      /\ DOMAIN u = 1 .. Len(u) /\ DOMAIN v = 1 .. Len(u) + 1
      /\ \A i \in 1 .. Len(u) : v[i] = u[i]
  BY LenProperties, AppendProperties
<1>2. DigitsOf(v) = IF c \in Digit THEN Append(DigitsOf(u), c) ELSE DigitsOf(u)
  BY FilteredAppend DEF DigitsOf, Keeping
<1> HIDE DEF v
<1>3. Points(v) = IF c = "." THEN Points(u) \cup {Len(u) + 1} ELSE Points(u)
  BY <1>1 DEF Points
<1>4. c \in Digit => c # "."
  BY ValuesOfDigits
<1>5. /\ DigitsOf(u) \in Seq(Digit) /\ IsFiniteSet(Points(u)) /\ Len(u) + 1 \notin Points(u)
  BY <1>1, Counted
<1>6. c \in Digit => Len(Append(DigitsOf(u), c)) = Len(DigitsOf(u)) + 1
  BY <1>5, AppendProperties
<1>7. Cardinality(Points(u) \cup {Len(u) + 1}) = Cardinality(Points(u)) + 1
  BY <1>5, FS_AddElement
<1> QED
  BY <1>1, <1>2, <1>3, <1>4, <1>6, <1>7 DEF v

\* How the digits n behind dollars and k places of cents are kept: two
\* places, and of the third whether it rounds up.
CentsKept(st, n, k) ==
    \/ k = 0 /\ n = st.dollars /\ st.cents = 0 /\ st.fracDigits = 0 /\ st.roundUp = FALSE
    \/ k = 1 /\ n = 10 * st.dollars + st.cents /\ st.fracDigits = 1 /\ st.roundUp = FALSE
    \/ k = 2 /\ n = 100 * st.dollars + st.cents /\ st.fracDigits = 2 /\ st.roundUp = FALSE
    \/ /\ k >= 3 /\ st.fracDigits = 2
       /\ \E d \in 0 .. 9, r \in Nat :
              /\ r < TenTo(k - 3)
              /\ n = (1000 * st.dollars + 10 * st.cents + d) * TenTo(k - 3) + r
              /\ (st.roundUp <=> d >= 5)

WholeRead(u, st) ==
    /\ Points(u) = {} /\ Len(DigitsOf(u)) = Len(u)
    /\ st.part = "dollars" /\ st.dollars = Number(DigitsOf(u))
    /\ (st.sawDigit <=> Len(u) > 0)
    /\ st.cents = 0 /\ st.fracDigits = 0 /\ st.roundUp = FALSE

PointRead(u, st) ==
    \E q \in 1 .. Len(u) :
        /\ Points(u) = {q} /\ Len(DigitsOf(u)) + 1 = Len(u)
        /\ st.part = IF Len(u) - q <= 2 THEN "cents" ELSE "rest"
        /\ (st.sawDigit <=> q > 1)
        /\ CentsKept(st, Number(DigitsOf(u)), Len(u) - q)

NoAmountRead(u, st) ==
    /\ st.part \in {"blank", "broken"}
    /\ st.part = "blank" => u[Len(u)] \in Blank
    /\ ~Plain(u)

AmountRead(u, st, neg) ==
    /\ Len(DigitsOf(u)) + Cardinality(Points(u)) <= Len(u)
    /\ \/ NoAmountRead(u, st)
       \/ st.neg = neg /\ (WholeRead(u, st) \/ PointRead(u, st))

\* Another digit behind the point.
LEMMA CentsGoOn ==
    ASSUME NEW st \in MoneyState, NEW n \in Nat, NEW k \in Nat, NEW c \in Digit,
           CentsKept(st, n, k), st.part = IF k <= 2 THEN "cents" ELSE "rest"
    PROVE  LET nt == MoneyStep(st, c)
           IN  /\ CentsKept(nt, 10 * n + DigitValue[c], k + 1)
               /\ nt.part = IF k + 1 <= 2 THEN "cents" ELSE "rest"
               /\ nt.neg = st.neg /\ nt.sawDigit = st.sawDigit
<1> DEFINE nt == MoneyStep(st, c)
           e == DigitValue[c]
<1>1. e \in 0 .. 9 /\ st.dollars \in Nat /\ st.cents \in Nat /\ st.roundUp \in BOOLEAN
  BY ValuesOfDigits DEF MoneyState
<1> HIDE DEF e
<1>2. CASE k < 2
  <2>1. st.part = "cents" /\ st.fracDigits < 2
    BY <1>2 DEF CentsKept
  <2>2. /\ nt.part = "cents" /\ nt.neg = st.neg /\ nt.dollars = st.dollars
        /\ nt.sawDigit = st.sawDigit /\ nt.cents = 10 * st.cents + e
        /\ nt.fracDigits = st.fracDigits + 1 /\ nt.roundUp = st.roundUp
    BY <2>1, DigitOfCents DEF e
  <2> HIDE DEF nt
  <2> SUFFICES /\ CentsKept(nt, 10 * n + DigitValue[c], k + 1)
               /\ nt.part = IF k + 1 <= 2 THEN "cents" ELSE "rest"
               /\ nt.neg = st.neg /\ nt.sawDigit = st.sawDigit
    BY DEF nt
  <2>3. CASE k = 0
    <3>1. n = st.dollars /\ st.cents = 0 /\ st.fracDigits = 0 /\ st.roundUp = FALSE
      BY <2>3 DEF CentsKept
    <3>2. /\ k + 1 = 1 /\ nt.fracDigits = 1 /\ nt.roundUp = FALSE
          /\ 10 * n + e = 10 * nt.dollars + nt.cents
      BY <1>1, <2>2, <2>3, <3>1
    <3>3. CentsKept(nt, 10 * n + e, k + 1)
      BY <3>2 DEF CentsKept
    <3> QED
      BY <2>2, <2>3, <3>3 DEF e
  <2>4. CASE k = 1
    <3>1. n = 10 * st.dollars + st.cents /\ st.fracDigits = 1 /\ st.roundUp = FALSE
      BY <2>4 DEF CentsKept
    <3>2. /\ k + 1 = 2 /\ nt.fracDigits = 2 /\ nt.roundUp = FALSE
          /\ 10 * n + e = 100 * nt.dollars + nt.cents
      BY <1>1, <2>2, <2>4, <3>1
    <3>3. CentsKept(nt, 10 * n + e, k + 1)
      BY <3>2 DEF CentsKept
    <3> QED
      BY <2>2, <2>4, <3>3 DEF e
  <2> QED
    BY <1>2, <2>3, <2>4
<1>3. CASE k = 2
  <2>1. st.part = "cents" /\ st.fracDigits = 2 /\ n = 100 * st.dollars + st.cents
    BY <1>3 DEF CentsKept
  <2>2. /\ nt.part = "rest" /\ nt.neg = st.neg /\ nt.dollars = st.dollars
        /\ nt.sawDigit = st.sawDigit /\ nt.cents = st.cents
        /\ nt.fracDigits = st.fracDigits /\ nt.roundUp = (e >= 5)
    BY <2>1, ThirdDigit DEF e
  <2> HIDE DEF nt
  <2>3. 0 < TenTo(k + 1 - 3) /\ k + 1 - 3 = 0
    BY <1>3, TenToSteps
  <2>4. 10 * n + e = (1000 * nt.dollars + 10 * nt.cents + e) * TenTo(k + 1 - 3) + 0
    <3>1. TenTo(k + 1 - 3) = 1
      BY <2>3, TenToSteps
    <3>2. 10 * n + e = 1000 * nt.dollars + 10 * nt.cents + e
      BY <1>1, <2>1, <2>2
    <3>3. 1000 * nt.dollars + 10 * nt.cents + e \in Nat
      BY <1>1, <2>2
    <3> QED
      BY <3>1, <3>2, <3>3
  <2>5. CentsKept(nt, 10 * n + e, k + 1)
    <3>1. nt.roundUp <=> e >= 5
      BY <2>2, Zenon
    <3>2. /\ nt.fracDigits = 2 /\ 0 \in Nat /\ k + 1 >= 3
      BY <1>3, <2>1, <2>2
    <3> DEFINE Third(d, r) ==
                   /\ r < TenTo(k + 1 - 3)
                   /\ 10 * n + e = (1000 * nt.dollars + 10 * nt.cents + d) * TenTo(k + 1 - 3) + r
                   /\ (nt.roundUp <=> d >= 5)
    <3>3. \E d \in 0 .. 9, r \in Nat : Third(d, r)
      <4>1. Third(e, 0)
        BY <2>3, <2>4, <3>1, Zenon
      <4> HIDE DEF Third
      <4> QED
        BY <1>1, <3>2, <4>1
    <3> QED
      BY <3>2, <3>3 DEF CentsKept
  <2> QED
    BY <1>3, <2>2, <2>5 DEF nt, e
<1>4. CASE k >= 3
  <2>1. nt = st
    BY <1>4, LaterDigit
  <2>2. st.fracDigits = 2
    BY <1>4 DEF CentsKept
  <2> DEFINE t == TenTo(k - 3)
  <2>3. PICK d \in 0 .. 9, r \in Nat :
            /\ r < t
            /\ n = (1000 * st.dollars + 10 * st.cents + d) * t + r
            /\ (st.roundUp <=> d >= 5)
    BY <1>4 DEF CentsKept
  <2>4. k - 3 \in Nat /\ k + 1 - 3 = k - 3 + 1
    BY <1>4
  <2>5. t \in Nat /\ TenTo(k + 1 - 3) = 10 * t
    BY <2>4, TenToSteps
  <2> DEFINE m == 1000 * st.dollars + 10 * st.cents + d
  <2>6. m \in Nat
    BY <1>1
  <2> HIDE DEF t, m
  <2>7. 10 * r + e \in Nat /\ 10 * r + e < 10 * t
    BY <1>1, <2>3, <2>5
  <2>8. 10 * n + e = m * (10 * t) + (10 * r + e)
    <3>1. n = m * t + r
      BY <2>3 DEF m
    <3>2. m * t \in Nat /\ m * (10 * t) = 10 * (m * t)
      BY <2>5, <2>6
    <3> QED
      BY <1>1, <3>1, <3>2
  <2>9. CentsKept(st, 10 * n + e, k + 1)
    <3>1. \E dd \in 0 .. 9, rr \in Nat :
              /\ rr < TenTo(k + 1 - 3)
              /\ 10 * n + e = (1000 * st.dollars + 10 * st.cents + dd) * TenTo(k + 1 - 3) + rr
              /\ (st.roundUp <=> dd >= 5)
      BY <2>3, <2>5, <2>7, <2>8 DEF m
    <3> QED
      BY <1>4, <2>2, <3>1 DEF CentsKept
  <2> QED
    BY <1>4, <2>1, <2>9 DEF nt, e
<1> QED
  BY <1>2, <1>3, <1>4

LEMMA WholeGoesOn ==
    ASSUME NEW S, NEW u \in Seq(S), NEW c \in S, NEW st \in MoneyState, NEW neg,
           WholeRead(u, st), st.neg = neg
    PROVE  AmountRead(Append(u, c), MoneyStep(st, c), neg)
<1> DEFINE v == Append(u, c)
           nt == MoneyStep(st, c)
<1>1. /\ Len(u) \in Nat /\ DigitsOf(u) \in Seq(Digit) /\ Len(v) = Len(u) + 1
      /\ v[Len(v)] = c
  BY Counted, Tally
<1>2. /\ Points(u) = {} /\ Len(DigitsOf(u)) = Len(u)
      /\ st.part = "dollars" /\ st.dollars = Number(DigitsOf(u))
      /\ (st.sawDigit <=> Len(u) > 0)
      /\ st.cents = 0 /\ st.fracDigits = 0 /\ st.roundUp = FALSE
  BY DEF WholeRead
<1>3. Cardinality(Points(u)) = 0
  BY <1>2, FS_EmptySet
<1>4. CASE c \in Digit
  <2>1. /\ Points(v) = {} /\ DigitsOf(v) = Append(DigitsOf(u), c)
        /\ Len(DigitsOf(v)) = Len(v)
    BY <1>1, <1>2, <1>4, Tally
  <2>2. Number(DigitsOf(v)) = 10 * Number(DigitsOf(u)) + DigitValue[c]
    BY <1>1, <1>4, <2>1, NumberAppend
  <2>3. /\ nt.part = "dollars" /\ nt.neg = st.neg
        /\ nt.dollars = 10 * st.dollars + DigitValue[c]
        /\ nt.sawDigit = TRUE /\ nt.cents = st.cents
        /\ nt.fracDigits = st.fracDigits /\ nt.roundUp = st.roundUp
    BY <1>2, <1>4, DigitOfDollars
  <2> HIDE DEF nt, v
  <2>4. nt.sawDigit <=> Len(v) > 0
    BY <1>1, <2>3
  <2>5. WholeRead(v, nt)
    BY <1>2, <2>1, <2>2, <2>3, <2>4 DEF WholeRead
  <2>6. Len(DigitsOf(v)) + Cardinality(Points(v)) <= Len(v)
    BY <1>1, <1>2, <1>3, <2>1
  <2> QED
    BY <2>3, <2>5, <2>6 DEF AmountRead, nt, v
<1>5. CASE c = "."
  <2>1. /\ Points(v) = {Len(v)} /\ DigitsOf(v) = DigitsOf(u)
        /\ Cardinality(Points(v)) = 1
    <3>1. /\ Points(v) = Points(u) \cup {Len(u) + 1} /\ DigitsOf(v) = DigitsOf(u)
          /\ Cardinality(Points(v)) = Cardinality(Points(u)) + 1
      BY <1>5, Tally
    <3> HIDE DEF v
    <3> QED
      BY <1>1, <1>2, <1>3, <3>1
  <2>2. /\ nt.part = "cents" /\ nt.neg = st.neg /\ nt.dollars = st.dollars
        /\ nt.sawDigit = st.sawDigit /\ nt.cents = st.cents
        /\ nt.fracDigits = st.fracDigits /\ nt.roundUp = st.roundUp
    BY <1>2, <1>5, PointBehindDollars
  <2> HIDE DEF nt, v
  <2>3. CentsKept(nt, Number(DigitsOf(v)), Len(v) - Len(v))
    <3>1. Len(v) - Len(v) = 0
      BY <1>1
    <3> QED
      BY <1>2, <2>1, <2>2, <3>1 DEF CentsKept
  <2>4. /\ Len(v) \in 1 .. Len(v) /\ Len(DigitsOf(v)) + 1 = Len(v)
        /\ Len(v) - Len(v) <= 2 /\ (nt.sawDigit <=> Len(v) > 1)
    BY <1>1, <1>2, <2>1, <2>2
  <2>5. PointRead(v, nt)
    BY <2>1, <2>2, <2>3, <2>4 DEF PointRead
  <2> QED
    BY <2>1, <2>2, <2>4, <2>5 DEF AmountRead, nt, v
<1>6. CASE c \notin Digit \cup {"."}
  <2>1. Points(v) = Points(u) /\ DigitsOf(v) = DigitsOf(u)
    BY <1>6, Tally
  <2>2. ~Plain(v) /\ Len(DigitsOf(v)) + Cardinality(Points(v)) <= Len(v)
    BY <1>1, <1>2, <1>3, <2>1 DEF Plain
  <2>3. nt.part \in {"blank", "broken"} /\ (nt.part = "blank" => c \in Blank)
    <3>1. st # MoneyBegun
      BY <1>2 DEF MoneyBegun
    <3> QED
      BY <1>6, <3>1, Astray
  <2> QED
    BY <1>1, <2>2, <2>3 DEF AmountRead, NoAmountRead
<1> QED
  BY <1>4, <1>5, <1>6

LEMMA PointGoesOn ==
    ASSUME NEW S, NEW u \in Seq(S), NEW c \in S, NEW st \in MoneyState, NEW neg,
           PointRead(u, st), st.neg = neg
    PROVE  AmountRead(Append(u, c), MoneyStep(st, c), neg)
<1> DEFINE v == Append(u, c)
           nt == MoneyStep(st, c)
           n == Number(DigitsOf(u))
<1>1. /\ Len(u) \in Nat /\ DigitsOf(u) \in Seq(Digit) /\ Len(v) = Len(u) + 1
      /\ v[Len(v)] = c
  BY Counted, Tally
<1>2. PICK q \in 1 .. Len(u) :
          /\ Points(u) = {q} /\ Len(DigitsOf(u)) + 1 = Len(u)
          /\ st.part = IF Len(u) - q <= 2 THEN "cents" ELSE "rest"
          /\ (st.sawDigit <=> q > 1)
          /\ CentsKept(st, n, Len(u) - q)
  BY DEF PointRead
<1>3. Cardinality(Points(u)) = 1
  BY <1>2, FS_Singleton
<1>4. CASE c \in Digit
  <2>1. /\ Points(v) = {q} /\ DigitsOf(v) = Append(DigitsOf(u), c)
        /\ Len(DigitsOf(v)) = Len(DigitsOf(u)) + 1
    BY <1>2, <1>4, Tally
  <2>2. n \in Nat /\ Number(DigitsOf(v)) = 10 * n + DigitValue[c]
    BY <1>1, <1>4, <2>1, NumberAppend
  <2>3. Len(u) - q \in Nat /\ Len(v) - q = Len(u) - q + 1 /\ q \in 1 .. Len(v)
    BY <1>1, <1>2
  <2>4. /\ CentsKept(nt, 10 * n + DigitValue[c], Len(u) - q + 1)
        /\ nt.part = IF Len(u) - q + 1 <= 2 THEN "cents" ELSE "rest"
        /\ nt.neg = st.neg /\ nt.sawDigit = st.sawDigit
    BY <1>2, <1>4, <2>2, <2>3, CentsGoOn
  <2> HIDE DEF nt, v, n
  <2>5. Len(DigitsOf(v)) + 1 = Len(v)
    BY <1>1, <1>2, <2>1
  <2>6. PointRead(v, nt)
    BY <1>2, <2>1, <2>2, <2>3, <2>4, <2>5 DEF PointRead
  <2>7. Len(DigitsOf(v)) + Cardinality(Points(v)) <= Len(v)
    <3>1. Cardinality(Points(v)) = 1
      BY <2>1, FS_Singleton
    <3> QED
      BY <1>1, <2>5, <3>1
  <2> QED
    BY <2>4, <2>6, <2>7 DEF AmountRead, nt, v
<1>5. CASE c = "."
  <2>1. Cardinality(Points(v)) = 2 /\ DigitsOf(v) = DigitsOf(u)
    BY <1>1, <1>3, <1>5, Tally
  <2>2. ~Plain(v) /\ Len(DigitsOf(v)) + Cardinality(Points(v)) <= Len(v)
    BY <1>1, <1>2, <2>1 DEF Plain
  <2>3. c \notin Blank
    BY <1>5, BlankAssumption
  <2>4. nt.part = "broken"
    <3>1. st.part \notin {"sign", "dollars"}
      BY <1>2
    <3> QED
      BY <1>5, <2>3, <3>1, Astray
  <2> QED
    BY <2>2, <2>4 DEF AmountRead, NoAmountRead
<1>6. CASE c \notin Digit \cup {"."}
  <2>1. Points(v) = Points(u) /\ DigitsOf(v) = DigitsOf(u)
    BY <1>6, Tally
  <2>2. ~Plain(v) /\ Len(DigitsOf(v)) + Cardinality(Points(v)) <= Len(v)
    BY <1>1, <1>2, <1>3, <2>1 DEF Plain
  <2>3. nt.part \in {"blank", "broken"} /\ (nt.part = "blank" => c \in Blank)
    <3>1. st # MoneyBegun
      BY <1>2 DEF MoneyBegun
    <3> QED
      BY <1>6, <3>1, Astray
  <2> QED
    BY <1>1, <2>2, <2>3 DEF AmountRead, NoAmountRead
<1> QED
  BY <1>4, <1>5, <1>6

LEMMA NoAmountGoesOn ==
    ASSUME NEW S, NEW u \in Seq(S), NEW c \in S, NEW st \in MoneyState, NEW neg,
           NoAmountRead(u, st), Len(DigitsOf(u)) + Cardinality(Points(u)) <= Len(u)
    PROVE  AmountRead(Append(u, c), MoneyStep(st, c), neg)
<1> DEFINE v == Append(u, c)
           nt == MoneyStep(st, c)
<1>1. /\ Len(u) \in Nat /\ Len(DigitsOf(u)) \in Nat /\ Cardinality(Points(u)) \in Nat
      /\ Len(v) = Len(u) + 1 /\ v[Len(v)] = c
  BY Counted, Tally
<1>2. ~Plain(v) /\ Len(DigitsOf(v)) + Cardinality(Points(v)) <= Len(v)
  <2>1. ~Plain(u)
    BY DEF NoAmountRead
  <2>2. CASE c \in Digit
    <3>1. Points(v) = Points(u) /\ Len(DigitsOf(v)) = Len(DigitsOf(u)) + 1
      BY <2>2, Tally
    <3> QED
      BY <1>1, <2>1, <3>1 DEF Plain
  <2>3. CASE c = "."
    <3>1. Cardinality(Points(v)) = Cardinality(Points(u)) + 1 /\ DigitsOf(v) = DigitsOf(u)
      BY <2>3, Tally
    <3> QED
      BY <1>1, <2>1, <3>1 DEF Plain
  <2>4. CASE c \notin Digit \cup {"."}
    <3>1. Points(v) = Points(u) /\ DigitsOf(v) = DigitsOf(u)
      BY <2>4, Tally
    <3> QED
      BY <1>1, <2>1, <3>1 DEF Plain
  <2> QED
    BY <2>2, <2>3, <2>4
<1>3. nt.part \in {"blank", "broken"} /\ (nt.part = "blank" => c \in Blank)
  <2>1. st.part \in {"blank", "broken"}
    BY DEF NoAmountRead
  <2> QED
    BY <2>1, Astray
<1> QED
  BY <1>1, <1>2, <1>3 DEF AmountRead, NoAmountRead

LEMMA AmountsRead ==
    ASSUME NEW S, NEW neg \in BOOLEAN
    PROVE  \A u \in Seq(S) : AmountRead(u, MoneyOf(BehindSign(neg), u), neg)
<1> DEFINE b == BehindSign(neg)
           G == {u \in Seq(S) : AmountRead(u, MoneyOf(b, u), neg)}
<1>1. b \in MoneyState
  BY BeginningsAreStates
<1>2. <<>> \in G
  <2>1. MoneyOf(b, <<>>) = b
    BY <1>1, MoneyNone
  <2>2. /\ Points(<<>>) = {} /\ DigitsOf(<<>>) = <<>> /\ Len(<<>>) = 0
        /\ Cardinality({}) = 0
    BY FilteredNone, FS_EmptySet DEF Points, DigitsOf
  <2>3. /\ b.part = "dollars" /\ b.neg = neg /\ b.dollars = 0 /\ b.sawDigit = FALSE
        /\ b.cents = 0 /\ b.fracDigits = 0 /\ b.roundUp = FALSE
    BY DEF BehindSign
  <2> HIDE DEF b
  <2>4. WholeRead(<<>>, b)
    BY <2>2, <2>3, NumberNone DEF WholeRead
  <2>5. Len(DigitsOf(<<>>)) + Cardinality(Points(<<>>)) = 0
    <3>1. Len(DigitsOf(<<>>)) = 0
      BY <2>2
    <3>2. Cardinality(Points(<<>>)) = 0
      BY <2>2
    <3> QED
      BY <3>1, <3>2
  <2>6. Len(DigitsOf(<<>>)) + Cardinality(Points(<<>>)) <= Len(<<>>)
    BY <2>2, <2>5
  <2>7. AmountRead(<<>>, b, neg)
    BY <2>3, <2>4, <2>6 DEF AmountRead
  <2> QED
    BY <2>1, <2>7
<1>3. ASSUME NEW u \in Seq(S), NEW c \in S, u \in G PROVE Append(u, c) \in G
  <2> DEFINE st == MoneyOf(b, u)
  <2>1. st \in MoneyState /\ MoneyOf(b, Append(u, c)) = MoneyStep(st, c)
    BY <1>1, MoneyAppend
  <2>2. AmountRead(u, st, neg)
    BY <1>3
  <2> HIDE DEF st, b
  <2>3. AmountRead(Append(u, c), MoneyStep(st, c), neg)
    <3>1. CASE NoAmountRead(u, st)
      <4>1. Len(DigitsOf(u)) + Cardinality(Points(u)) <= Len(u)
        BY <2>2 DEF AmountRead
      <4> QED
        BY <2>1, <3>1, <4>1, NoAmountGoesOn
    <3>2. CASE st.neg = neg /\ WholeRead(u, st)
      BY <2>1, <3>2, WholeGoesOn
    <3>3. CASE st.neg = neg /\ PointRead(u, st)
      BY <2>1, <3>3, PointGoesOn
    <3> QED
      BY <2>2, <3>1, <3>2, <3>3 DEF AmountRead
  <2>4. Append(u, c) \in Seq(S)
    BY AppendProperties
  <2> QED
    BY <2>1, <2>3, <2>4
<1> HIDE DEF G
<1>4. \A u \in Seq(S) : u \in G
  BY <1>2, <1>3, SequencesOneByOne
<1> QED
  BY <1>4 DEF G, b

-----------------------------------------------------------------------------
\* Rounding.

Leaves(a, b, q, r) == a = q * b + r /\ r < b

LEMMA Quotient ==
    ASSUME NEW a \in Nat, NEW b \in Nat \ {0}, NEW q \in Nat, NEW r \in Nat,
           Leaves(a, b, q, r)
    PROVE  a \div b = q
  BY DEF Leaves

HalfUp(n, k) == (200 * n + k) \div (2 * k)

\* The digits of n are m, then d, then a rest below t, a power of ten.
Parts(n, m, d, t, r) == n = (10 * m + d) * t + r /\ r < t

\* Half a cent and more makes a cent more, less does not: what lies behind
\* the third place of cents does not matter.
LEMMA RoundsAtThird ==
    ASSUME NEW m \in Nat, NEW d \in Nat, d <= 9, NEW r \in Nat, NEW t \in Nat, t > 0,
           NEW n \in Nat, Parts(n, m, d, t, r), NEW k \in Nat, k = 1000 * t
    PROVE  /\ d >= 5 => HalfUp(n, k) = m + 1
           /\ ~(d >= 5) => HalfUp(n, k) = m
<1> DEFINE x == m * t
           y == d * t
           b == 2 * k
           a == 200 * n + k
<1>0. n = (10 * m + d) * t + r /\ r < t
  BY DEF Parts
<1>1. x \in Nat /\ y \in Nat /\ b \in Nat \ {0} /\ b = 2000 * t
  OBVIOUS
<1>2. (10 * m + d) * t = 10 * x + y
  OBVIOUS
<1>3. m * b = 2000 * x
  OBVIOUS
<1>4. (m + 1) * b = 2000 * x + 2000 * t
  OBVIOUS
<1>5. d >= 5 => y >= 5 * t
  OBVIOUS
<1>6. y <= 9 * t
  OBVIOUS
<1>7. ~(d >= 5) => y <= 4 * t
  OBVIOUS
<1>8. a = 2000 * x + 200 * y + 200 * r + 1000 * t
  BY <1>0, <1>1, <1>2
<1> HIDE DEF x, y, a, b
<1>9. CASE d >= 5
  <2> DEFINE rest == 200 * y + 200 * r - 1000 * t
  <2>1. rest \in Nat /\ rest < b /\ a = (m + 1) * b + rest /\ a \in Nat
    BY <1>0, <1>1, <1>4, <1>5, <1>6, <1>8, <1>9
  <2> HIDE DEF rest
  <2>2. rest \in Nat /\ a \in Nat /\ Leaves(a, b, m + 1, rest)
    BY <2>1 DEF Leaves
  <2>3. HalfUp(n, k) = a \div b
    BY DEF HalfUp, a, b
  <2>4. m + 1 \in Nat /\ a \div b = m + 1
    BY <1>1, <2>2, Quotient
  <2> QED
    BY <1>9, <2>3, <2>4
<1>10. CASE ~(d >= 5)
  <2> DEFINE rest == 200 * y + 200 * r + 1000 * t
  <2>1. rest \in Nat /\ rest < b /\ a = m * b + rest /\ a \in Nat
    BY <1>0, <1>1, <1>3, <1>7, <1>8, <1>10
  <2> HIDE DEF rest
  <2>2. rest \in Nat /\ a \in Nat /\ Leaves(a, b, m, rest)
    BY <2>1 DEF Leaves
  <2>3. HalfUp(n, k) = a \div b
    BY DEF HalfUp, a, b
  <2>4. m \in Nat /\ a \div b = m
    BY <1>1, <2>2, Quotient
  <2> QED
    BY <1>10, <2>3, <2>4
<1> QED
  BY <1>9, <1>10

\* The end of parseMoneyCents.
Carried(st) ==
    100 * st.dollars + (IF st.fracDigits = 1 THEN 10 * st.cents ELSE st.cents)
        + (IF st.roundUp THEN 1 ELSE 0)

LEMMA CentsAreRounded ==
    ASSUME NEW st \in MoneyState, NEW n \in Nat, NEW k \in Nat, CentsKept(st, n, k)
    PROVE  HalfUp(n, TenTo(k)) = Carried(st)
<1>1. st.dollars \in Nat /\ st.cents \in Nat /\ st.roundUp \in BOOLEAN
  BY DEF MoneyState
<1>2. /\ TenTo(0) = 1 /\ TenTo(1) = 10 /\ TenTo(2) = 100
  <2>1. TenTo(0) = 1 /\ TenTo(0 + 1) = 10 * TenTo(0) /\ TenTo(1 + 1) = 10 * TenTo(1)
    BY TenToSteps
  <2>2. 0 + 1 = 1 /\ 1 + 1 = 2
    OBVIOUS
  <2> QED
    BY <2>1, <2>2
<1>3. CASE k = 0
  <2>1. /\ n = st.dollars /\ st.cents = 0 /\ st.fracDigits = 0 /\ st.roundUp = FALSE
    BY <1>3 DEF CentsKept
  <2>2. Carried(st) = 100 * n
    BY <1>1, <2>1 DEF Carried
  <2>3. HalfUp(n, 1) = 100 * n
    BY DEF HalfUp
  <2> QED
    BY <1>2, <1>3, <2>2, <2>3
<1>4. CASE k = 1
  <2>1. /\ n = 10 * st.dollars + st.cents /\ st.fracDigits = 1 /\ st.roundUp = FALSE
    BY <1>4 DEF CentsKept
  <2>2. Carried(st) = 10 * n
    BY <1>1, <2>1 DEF Carried
  <2>3. HalfUp(n, 10) = 10 * n
    BY DEF HalfUp
  <2> QED
    BY <1>2, <1>4, <2>2, <2>3
<1>5. CASE k = 2
  <2>1. /\ n = 100 * st.dollars + st.cents /\ st.fracDigits = 2 /\ st.roundUp = FALSE
    BY <1>5 DEF CentsKept
  <2>2. Carried(st) = n
    BY <1>1, <2>1 DEF Carried
  <2>3. HalfUp(n, 100) = n
    BY DEF HalfUp
  <2> QED
    BY <1>2, <1>5, <2>2, <2>3
<1>6. CASE k >= 3
  <2> DEFINE t == TenTo(k - 3)
             m == 100 * st.dollars + st.cents
  <2>1. st.fracDigits = 2
    BY <1>6 DEF CentsKept
  <2>2. PICK d \in 0 .. 9, r \in Nat :
            /\ r < t
            /\ n = (1000 * st.dollars + 10 * st.cents + d) * t + r
            /\ (st.roundUp <=> d >= 5)
    BY <1>6 DEF CentsKept
  <2>3. t \in Nat \ {0} /\ TenTo(k) = 1000 * t
    <3>1. /\ k - 3 \in Nat /\ k - 2 \in Nat /\ k - 1 \in Nat
          /\ k - 3 + 1 = k - 2 /\ k - 2 + 1 = k - 1 /\ k - 1 + 1 = k
      BY <1>6
    <3>2. TenTo(k - 2) = 10 * t /\ TenTo(k - 1) = 10 * TenTo(k - 2) /\ TenTo(k) = 10 * TenTo(k - 1)
      BY <3>1, TenToSteps
    <3>3. t \in Nat \ {0}
      BY <3>1, TenToPositive
    <3> HIDE DEF t
    <3> QED
      BY <3>2, <3>3
  <2>4. m \in Nat /\ 1000 * st.dollars + 10 * st.cents + d = 10 * m + d
    BY <1>1
  <2>5. Carried(st) = IF d >= 5 THEN m + 1 ELSE m
    <3>1. Carried(st) = m + (IF st.roundUp THEN 1 ELSE 0)
      BY <1>1, <2>1 DEF Carried
    <3> HIDE DEF m
    <3>2. CASE d >= 5
      <4>1. st.roundUp
        BY <2>2, <3>2
      <4> QED
        BY <3>1, <3>2, <4>1
    <3>3. CASE ~(d >= 5)
      <4>1. ~st.roundUp
        BY <2>2, <3>3
      <4> QED
        BY <2>4, <3>1, <3>3, <4>1
    <3> QED
      BY <3>2, <3>3
  <2> HIDE DEF t, m
  <2>6. Parts(n, m, d, t, r)
    BY <2>2, <2>4 DEF Parts
  <2>7. HalfUp(n, TenTo(k)) = IF d >= 5 THEN m + 1 ELSE m
    <3> DEFINE tk == TenTo(k)
    <3>1. /\ m \in Nat /\ d \in Nat /\ d <= 9 /\ r \in Nat /\ t \in Nat /\ t > 0
          /\ tk \in Nat /\ tk = 1000 * t
      BY <2>2, <2>3, <2>4
    <3> HIDE DEF tk
    <3>2. /\ d >= 5 => HalfUp(n, tk) = m + 1
          /\ ~(d >= 5) => HalfUp(n, tk) = m
      BY <2>6, <3>1, RoundsAtThird
    <3> QED
      BY <3>2 DEF tk
  <2> QED
    BY <2>5, <2>7
<1> QED
  BY <1>3, <1>4, <1>5, <1>6 DEF CentsKept

-----------------------------------------------------------------------------
\* An amount, trimmed.

LEMMA GreatestIs ==
    ASSUME NEW T \in SUBSET Nat, NEW x \in T, \A y \in T : x >= y
    PROVE  Max(T) = x
<1>1. /\ Max(T) \in T /\ \A y \in T : Max(T) >= y
  BY Zenon DEF Max
<1>2. Max(T) \in Nat /\ x \in Nat /\ Max(T) >= x /\ x >= Max(T)
  BY <1>1
<1> QED
  BY <1>2

LEMMA FirstPlace ==
    ASSUME NEW n \in Nat, NEW s \in SUBSET (1 .. n), s # {}
    PROVE  Min(s) \in s
<1>1. s \in SUBSET Nat
  OBVIOUS
<1>2. PICK x \in s : \A y \in s : x <= y
  BY <1>1, LeastNumber
<1> QED
  BY <1>2, Zenon DEF Min

LEMMA TrimProperties ==
    ASSUME NEW S, NEW text \in Seq(S)
    PROVE  LET t == Trim(text)
           IN  t \in Seq(S) /\ (t # <<>> => t[Len(t)] \notin Blank)
<1> DEFINE kept == {i \in DOMAIN text : text[i] \notin Blank}
<1>1. Len(text) \in Nat /\ DOMAIN text = 1 .. Len(text)
  BY LenProperties
<1>2. CASE kept = {}
  BY <1>2 DEF Trim
<1>3. CASE kept # {}
  <2> DEFINE a == Min(kept)
             b == Max(kept)
             t == SubSeq(text, a, b)
  <2>1. Trim(text) = t
    BY <1>3 DEF Trim
  <2>2. kept \in SUBSET (1 .. Len(text))
    BY <1>1
  <2>3. a \in kept
    BY <1>1, <1>3, <2>2, FirstPlace
  <2>4. b \in kept /\ \A y \in kept : y <= b
    BY <1>1, <1>3, <2>2, LastPlace
  <2>5. a <= b /\ a \in 1 .. Len(text) /\ b \in 1 .. Len(text) /\ text[b] \notin Blank
    BY <2>2, <2>3, <2>4
  <2> HIDE DEF a, b, kept
  <2>6. t \in Seq(S) /\ Len(t) = b - a + 1 /\ Len(t) \in 1 .. b - a + 1
    BY <1>1, <2>5
  <2>7. t[b - a + 1] = text[a + (b - a + 1) - 1]
    BY <1>1, <2>5
  <2>8. a + (b - a + 1) - 1 = b
    BY <1>1, <2>5
  <2> HIDE DEF t
  <2> QED
    BY <2>1, <2>5, <2>6, <2>7, <2>8
<1> QED
  BY <1>2, <1>3

LEMMA StripProperties ==
    ASSUME NEW S, NEW text \in Seq(S)
    PROVE  LET t == Strip(text)
           IN  t \in Seq(S) /\ (t # <<>> => t[Len(t)] \notin Blank)
<1> DEFINE t == Trim(text)
           inner == SubSeq(t, 2, Len(t) - 1)
<1>1. t \in Seq(S) /\ (t # <<>> => t[Len(t)] \notin Blank)
  BY TrimProperties
<1>2. CASE t # <<>> /\ Head(t) = Quote /\ Last(t) = Quote
  <2>1. Strip(text) = Trim(inner)
    BY <1>2 DEF Strip
  <2>2. inner \in Seq(S)
    <3> HIDE DEF t
    <3>1. Len(t) \in Nat /\ \A i \in 1 .. Len(t) : t[i] \in S
      BY <1>1, LenProperties
    <3> QED
      BY <1>1, <3>1
  <2> HIDE DEF inner
  <2> QED
    BY <2>1, <2>2, TrimProperties
<1>3. CASE ~(t # <<>> /\ Head(t) = Quote /\ Last(t) = Quote)
  <2>1. Strip(text) = t
    BY <1>3 DEF Strip
  <2> QED
    BY <1>1, <2>1
<1> QED
  BY <1>2, <1>3

\* The pass over a trimmed text without a sign ends as the text is: with an
\* amount, its cents rounded, or with none.
LEMMA AmountJudged ==
    ASSUME NEW S, NEW u \in Seq(S), NEW neg \in BOOLEAN,
           u # <<>> => u[Len(u)] \notin Blank
    PROVE  LET st == MoneyOf(BehindSign(neg), u)
               none == st.part = "broken" \/ (~st.sawDigit /\ st.fracDigits = 0)
           IN  /\ none <=> ~IsAmount(u)
               /\ ~none => st.neg = neg /\ RoundedCents(u) = Carried(st)
<1> DEFINE st == MoneyOf(BehindSign(neg), u)
           none == st.part = "broken" \/ (~st.sawDigit /\ st.fracDigits = 0)
           ds == DigitsOf(u)
           N == Number(ds)
<1>1. /\ Len(u) \in Nat /\ ds \in Seq(Digit) /\ Len(ds) \in Nat
      /\ (ds = <<>> <=> Len(ds) = 0)
  BY Counted, EmptySeq
<1>2. IsAmount(u) <=> Plain(u) /\ ds # <<>>
  BY DEF IsAmount, Plain, Points, DigitsOf
<1>3. AmountRead(u, st, neg)
  BY AmountsRead
<1>4. st \in MoneyState
  <2>1. PICK g : Passes(g, BehindSign(neg), u)
    BY MoneyPath, BeginningsAreStates
  <2> QED
    BY <1>1, <2>1 DEF Passes
<1>5. N \in Nat
  <2>1. "0" \in Digit
    BY DEF Digit, DigitValue
  <2> QED
    BY <1>1, <2>1, NumberAppend
<1>6. /\ \A k \in Nat : CentsKept(st, N, k) =>
             HalfUp(N, TenTo(k)) = Carried(st)
  BY <1>4, <1>5, CentsAreRounded
<1>7. RoundedCents(u) =
             LET point == Max(Points(u) \cup {0})
                 k == IF point = 0 THEN 0 ELSE Len(u) - point
             IN  HalfUp(N, TenTo(k))
  BY DEF RoundedCents, Points, DigitsOf, HalfUp
<1> HIDE DEF st, ds, N
<1>8. CASE NoAmountRead(u, st)
  <2>1. ~Plain(u) /\ st.part \in {"blank", "broken"}
    BY <1>8 DEF NoAmountRead
  <2>2. u # <<>>
    <3>1. SUFFICES ASSUME u = <<>> PROVE Plain(u)
      BY <2>1
    <3>2. /\ Points(u) = {} /\ DigitsOf(u) = <<>> /\ Len(u) = 0
      BY <3>1, FilteredNone DEF Points, DigitsOf
    <3>3. Cardinality(Points(u)) = 0
      BY <3>2, FS_EmptySet
    <3>4. Len(DigitsOf(u)) = 0
      BY <3>2
    <3> QED
      BY <3>2, <3>3, <3>4 DEF Plain
  <2>3. st.part = "broken"
    BY <1>8, <2>1, <2>2 DEF NoAmountRead
  <2> QED
    BY <1>2, <2>1, <2>3 DEF st
<1>9. CASE st.neg = neg /\ WholeRead(u, st)
  <2>1. /\ Points(u) = {} /\ Len(ds) = Len(u)
        /\ st.part = "dollars" /\ st.dollars = N
        /\ (st.sawDigit <=> Len(u) > 0)
        /\ st.cents = 0 /\ st.fracDigits = 0 /\ st.roundUp = FALSE
    BY <1>9 DEF WholeRead, ds, N
  <2>2. CentsKept(st, N, 0)
    BY <2>1 DEF CentsKept
  <2>3. RoundedCents(u) = HalfUp(N, TenTo(0))
    <3>1. Max({0}) = 0
      BY GreatestIs
    <3>2. Points(u) \cup {0} = {0}
      BY <2>1
    <3> QED
      BY <1>7, <3>1, <3>2
  <2>4. RoundedCents(u) = Carried(st)
    BY <1>6, <2>2, <2>3
  <2>5. Plain(u)
    <3>1. Cardinality(Points(u)) = 0
      BY <2>1, FS_EmptySet
    <3> QED
      BY <1>1, <2>1, <3>1 DEF Plain, ds
  <2>6. none <=> ~IsAmount(u)
    BY <1>1, <1>2, <2>1, <2>5
  <2> QED
    BY <1>9, <2>4, <2>6 DEF st
<1>10. CASE st.neg = neg /\ PointRead(u, st)
  <2>1. PICK q \in 1 .. Len(u) :
            /\ Points(u) = {q} /\ Len(ds) + 1 = Len(u)
            /\ st.part = IF Len(u) - q <= 2 THEN "cents" ELSE "rest"
            /\ (st.sawDigit <=> q > 1)
            /\ CentsKept(st, N, Len(u) - q)
    BY <1>10 DEF PointRead, ds, N
  <2>2. Len(u) - q \in Nat /\ q \in Nat \ {0}
    BY <1>1
  <2>3. RoundedCents(u) = HalfUp(N, TenTo(Len(u) - q))
    <3>1. Max({q, 0}) = q
      BY <2>2, GreatestIs
    <3>2. Points(u) \cup {0} = {q, 0}
      BY <2>1
    <3> QED
      BY <1>7, <2>2, <3>1, <3>2
  <2>4. RoundedCents(u) = Carried(st)
    BY <1>6, <2>1, <2>2, <2>3
  <2>5. Plain(u)
    <3>1. Cardinality(Points(u)) = 1
      BY <2>1, FS_Singleton
    <3> QED
      BY <1>1, <2>1, <3>1 DEF Plain, ds
  <2>6. st.part # "broken"
    BY <2>1
  <2>7. st.fracDigits = 0 <=> q = Len(u)
    BY <1>1, <2>1, <2>2 DEF CentsKept
  <2>8. none <=> ~IsAmount(u)
    BY <1>1, <1>2, <2>1, <2>2, <2>5, <2>6, <2>7
  <2> QED
    BY <1>10, <2>4, <2>8 DEF st
<1> QED
  BY <1>3, <1>8, <1>9, <1>10 DEF AmountRead

\* parseMoneyCents computes the amount a field states.
LEMMA MoneyIsExact ==
    ASSUME NEW S, NEW text \in Seq(S)
    PROVE  ParseMoneyCents(text) = Amount(text)
<1> DEFINE t == Strip(text)
           read == MoneyOf(MoneyBegun, t)
           none(st) == st.part = "broken" \/ (~st.sawDigit /\ st.fracDigits = 0)
<1>1. t \in Seq(S) /\ (t # <<>> => t[Len(t)] \notin Blank)
  BY StripProperties
<1>2. ParseMoneyCents(text) =
          IF none(read) THEN 0
          ELSE Clamp(IF read.neg THEN -Carried(read) ELSE Carried(read))
  BY DEF ParseMoneyCents, MoneyOf, Carried
<1>3. Len(t) \in Nat /\ (t = <<>> <=> Len(t) = 0) /\ (t # <<>> => Head(t) = t[1])
  BY <1>1, LenProperties, EmptySeq
<1>4. CASE t = <<>>
  <2>1. read = MoneyBegun
    BY <1>4, MoneyNone, BeginningsAreStates
  <2>2. none(read)
    BY <2>1 DEF MoneyBegun
  <2>3. ~IsAmount(<<>>)
    <3>1. Filtered(<<>>, Digit) = <<>>
      BY FilteredNone
    <3> QED
      BY <3>1 DEF IsAmount
  <2>4. Amount(text) = 0
    BY <1>4, <2>3 DEF Amount
  <2> QED
    BY <1>2, <2>2, <2>4
<1>5. CASE t # <<>> /\ t[1] \in {"+", "-"}
  <2> DEFINE u == Tail(t)
             neg == t[1] = "-"
  <2>1. /\ u \in Seq(S) /\ Len(u) = Len(t) - 1
        /\ \A i \in 1 .. Len(u) : u[i] = t[i + 1]
    BY <1>1, <1>3, <1>5
  <2>2. read = MoneyOf(BehindSign(neg), u)
    BY <1>1, <1>5, WithSign
  <2>3. neg \in BOOLEAN /\ (neg <=> t[1] = "-")
    OBVIOUS
  <2>4. Amount(text) = IF ~IsAmount(u) THEN 0
                       ELSE Clamp(IF t[1] = "-" THEN -RoundedCents(u) ELSE RoundedCents(u))
    BY <1>3, <1>5 DEF Amount
  <2> HIDE DEF neg, u, t
  <2>5. u # <<>> => u[Len(u)] \notin Blank
    <3>1. SUFFICES ASSUME u # <<>> PROVE u[Len(u)] \notin Blank
      OBVIOUS
    <3>2. Len(u) \in 1 .. Len(u) /\ Len(u) + 1 = Len(t)
      BY <1>3, <2>1, <3>1
    <3> QED
      BY <1>1, <1>5, <2>1, <3>2
  <2>6. /\ none(read) <=> ~IsAmount(u)
        /\ ~none(read) => read.neg = neg /\ RoundedCents(u) = Carried(read)
    BY <2>1, <2>2, <2>3, <2>5, AmountJudged
  <2> HIDE DEF read, none
  <2> QED
    BY <1>2, <2>3, <2>4, <2>6
<1>6. CASE t # <<>> /\ t[1] \notin {"+", "-"}
  <2>1. read = MoneyOf(BehindSign(FALSE), t)
    BY <1>1, <1>6, WithoutSign
  <2>2. Amount(text) = IF ~IsAmount(t) THEN 0 ELSE Clamp(RoundedCents(t))
    BY <1>3, <1>6 DEF Amount
  <2> HIDE DEF t
  <2>3. /\ none(read) <=> ~IsAmount(t)
        /\ ~none(read) => read.neg = FALSE /\ RoundedCents(t) = Carried(read)
    BY <1>1, <2>1, AmountJudged
  <2> HIDE DEF read, none
  <2> QED
    BY <1>2, <2>2, <2>3
<1> QED
  BY <1>4, <1>5, <1>6

\* A field's text is text.
LEMMA CellsAreText ==
    ASSUME FileInv, verdict = "cut", NEW k \in DOMAIN fields
    PROVE  SubSeq(line, fields[k].a, fields[k].b - 1) \in Seq(Token)
<1>1. /\ line \in Seq(Token) /\ fields \in Seq(Field) /\ CutsAreExact
  BY DEF FileInv, LineInv, ScanTypeOK
<1>2. /\ Len(line) \in Nat /\ \A i \in 1 .. Len(line) : line[i] \in Token
      /\ Len(fields) \in Nat /\ k \in 1 .. Len(fields)
      /\ \A j \in 1 .. Len(fields) : fields[j].a \in Nat /\ fields[j].b \in Nat
  <2>1. \A j \in 1 .. Len(fields) : fields[j] \in Field
    BY <1>1, LenProperties
  <2> QED
    BY <1>1, <2>1, LenProperties DEF Field
<1>3. fields[k].a >= 1
  <2>1. CASE k = 1
    BY <1>1, <2>1 DEF CutsAreExact
  <2>2. CASE k # 1
    <3>1. k - 1 \in 1 .. Len(fields) - 1 /\ k - 1 \in 1 .. Len(fields) /\ k - 1 + 1 = k
      BY <1>2, <2>2
    <3>2. fields[k].a = fields[k - 1].b + 1
      BY <1>1, <3>1 DEF CutsAreExact
    <3> QED
      BY <1>2, <3>1, <3>2
  <2> QED
    BY <2>1, <2>2
<1>4. fields[k].b <= Len(line) + 1
  <2>1. CASE k = Len(fields)
    BY <1>1, <1>2, <2>1 DEF CutsAreExact
  <2>2. CASE k # Len(fields)
    <3>1. k \in 1 .. Len(fields) - 1
      BY <1>2, <2>2
    <3>2. fields[k].b \in Cuts(line)
      BY <1>1, <3>1 DEF CutsAreExact
    <3>3. fields[k].b \in 1 .. Len(line)
      BY <1>1, <3>2, LenProperties DEF Cuts
    <3> QED
      BY <1>2, <3>3
  <2> QED
    BY <2>1, <2>2
<1> QED
  <2> DEFINE a == fields[k].a
             b == fields[k].b - 1
  <2>1. a \in Nat \ {0} /\ b \in Int /\ b <= Len(line)
    BY <1>2, <1>3, <1>4
  <2> HIDE DEF a, b
  <2>2. SubSeq(line, a, b) \in Seq(Token)
    BY <1>1, <1>2, <2>1
  <2> QED
    BY <2>2 DEF a, b

LEMMA FileInvAmounts == FileInv => AmountsAreExact
<1> SUFFICES ASSUME FileInv, phase = "judged", trip.accepted,
                    NEW c \in Money \cap DOMAIN idx, idx[c] \in DOMAIN fields
             PROVE  trip.of[c] = Amount(Cell(idx[c]))
  BY DEF AmountsAreExact
<1> DEFINE text == SubSeq(line, fields[idx[c]].a, fields[idx[c]].b - 1)
<1>1. trip = TripRead /\ IdxInv /\ verdict \in {"cut", "unbalanced"}
  BY DEF FileInv, LineInv, ScanTypeOK
<1>2. /\ verdict = "cut"
      /\ trip.of = [n \in Known(parser) |-> Parsed(n)]
  BY <1>1 DEF TripRead, NoTrip
<1>3. c \in Known(parser)
  <2>1. CASE Usable
    BY <1>1, <2>1 DEF IdxInv, PositionsIn
  <2>2. CASE ~Usable
    BY <1>1, <2>2 DEF IdxInv, Standard, Known
  <2> QED
    BY <2>1, <2>2
<1>4. c \notin Times
  BY DEF Money, Times
<1>5. trip.of[c] = ParseMoneyCents(Cell(idx[c]))
  <2>1. Parsed(c) = Convert(parser, c, Cell(idx[c]))
    BY DEF Parsed
  <2>2. Convert(parser, c, Cell(idx[c])) = ParseMoneyCents(Cell(idx[c]))
    <3>1. c # "trip_distance" /\ c # "store_and_fwd_flag" /\ c \in Money
      BY DEF Money
    <3> DEFINE field == Cell(idx[c])
    <3> HIDE DEF field
    <3>2. Convert(parser, c, field) = ParseMoneyCents(field)
      BY <1>4, <3>1 DEF Convert
    <3> QED
      BY <3>2 DEF field
  <2> QED
    BY <1>2, <1>3, <2>1, <2>2
<1>6. text \in Seq(Token)
  BY <1>2, CellsAreText
<1>7. Cell(idx[c]) \in Seq(Token)
  BY <1>6, StripProperties DEF Cell
<1> QED
  BY <1>5, <1>7, MoneyIsExact

\* The amounts of every trip the parsers read are those of the row, rounded
\* half up to cents and held within the width of the column.
THEOREM AmountsAlwaysExact == FileSpec => []AmountsAreExact
<1>1. FileInit => FileInv
  BY InitFileInv
<1>2. FileInv /\ [FileNext]_fileVars => FileInv'
  BY NextFileInv
<1>3. FileInv => AmountsAreExact
  BY FileInvAmounts
<1> QED
  BY <1>1, <1>2, <1>3, PTL DEF FileSpec
=============================================================================
