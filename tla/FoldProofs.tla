----------------------------- MODULE FoldProofs -----------------------------
(***************************************************************************)
(* Facts about folds over sequences, for the proofs about modules that are *)
(* specified with them.                                                    *)
(***************************************************************************)
EXTENDS Filtering, FiniteSetTheorems, SequenceTheorems, NaturalsInduction,
        WellFoundedInduction, TLAPS

LEMMA LeastNumber ==
    ASSUME NEW T \in SUBSET Nat, T # {}
    PROVE  \E n \in T : \A m \in T : n <= m
<1> DEFINE R == OpToRel(<, Nat)
<1>1. IsWellFoundedOn(R, Nat)
  BY NatLessThanWellFounded
<1>2. \A m, n \in Nat : <<m, n>> \in R <=> m < n
  BY DEF OpToRel
<1> HIDE DEF R
<1>3. PICK n \in T : \A m \in T : ~(<<m, n>> \in R)
  BY <1>1, WFMin
<1>4. ASSUME NEW m \in T PROVE n <= m
  <2>1. m \in Nat /\ n \in Nat /\ ~(m < n)
    BY <1>2, <1>3
  <2>2. QED
    BY <2>1
<1>5. QED
  BY <1>4

\* c takes an element from every subset of S but the empty one.
Takes(c, S) == \A s \in SUBSET S : s # {} => c[s] \in s

LEMMA TakeOne ==
    ASSUME NEW S, IsFiniteSet(S), NEW c, Takes(c, S), NEW s \in SUBSET S, s # {}
    PROVE  /\ s \ {c[s]} \in SUBSET S
           /\ Cardinality(s) \in Nat /\ Cardinality(s \ {c[s]}) \in Nat
           /\ Cardinality(s) = Cardinality(s \ {c[s]}) + 1
<1>1. IsFiniteSet(s) /\ c[s] \in s
  BY FS_Subset DEF Takes
<1>2. IsFiniteSet(s \ {c[s]}) /\ Cardinality(s \ {c[s]}) = Cardinality(s) - 1
  BY <1>1, FS_RemoveElement
<1>3. QED
  BY <1>1, <1>2, FS_CardinalityType

\* What holds of the empty set, and of a set if it does of the set without
\* the element taken from it, holds of all subsets.
LEMMA SubsetsOneByOne ==
    ASSUME NEW S, IsFiniteSet(S), NEW c, Takes(c, S), NEW G, {} \in G,
           \A s \in SUBSET S : s # {} /\ s \ {c[s]} \in G => s \in G
    PROVE  \A s \in SUBSET S : s \in G
<1> DEFINE T == {Cardinality(s) : s \in (SUBSET S) \ G}
<1>1. SUFFICES ASSUME NEW b \in SUBSET S, b \notin G PROVE FALSE
  OBVIOUS
<1>2. \A s \in SUBSET S : Cardinality(s) \in Nat
  BY FS_Subset, FS_CardinalityType
<1>3. T \in SUBSET Nat /\ T # {}
  BY <1>1, <1>2
<1> HIDE DEF T
<1>4. PICK n \in T : \A m \in T : n <= m
  BY <1>3, LeastNumber
<1>5. PICK s \in (SUBSET S) \ G : n = Cardinality(s)
  BY <1>4 DEF T
<1>6. s # {} /\ s \ {c[s]} \notin G
  BY <1>5
<1>7. Cardinality(s \ {c[s]}) \in T
  BY <1>5, <1>6 DEF T
<1>8. n <= Cardinality(s \ {c[s]})
  BY <1>4, <1>7
<1>9. QED
  BY <1>5, <1>6, <1>8, TakeOne

\* it folds F along the subsets of S.
Folds(it, F, base, c, S) ==
    /\ it[{}] = base
    /\ \A s \in SUBSET S : s # {} => it[s] = F[<<it[s \ {c[s]}], c[s]>>]

\* A fold of a function that stays in A exists.
LEMMA FoldExists ==
    ASSUME NEW S, IsFiniteSet(S), NEW c, Takes(c, S),
           NEW A, NEW base \in A, NEW F \in [A \X S -> A]
    PROVE  \E it \in [SUBSET S -> A] : Folds(it, F, base, c, S)
<1> DEFINE Small(n) == {s \in SUBSET S : Cardinality(s) <= n}
           Good(n, it) == /\ it[{}] = base
                          /\ \A s \in Small(n) :
                                 s # {} => it[s] = F[<<it[s \ {c[s]}], c[s]>>]
           Has(n) == \E it \in [Small(n) -> A] : Good(n, it)
           T == {n \in Nat : ~Has(n)}
<1>1. \A s \in SUBSET S : Cardinality(s) \in Nat /\ (Cardinality(s) = 0 <=> s = {})
  BY FS_Subset, FS_CardinalityType, FS_EmptySet
<1>2. Has(0)
  <2>1. Small(0) = {{}}
    BY <1>1
  <2>2. [s \in Small(0) |-> base] \in [Small(0) -> A]
    OBVIOUS
  <2>3. Good(0, [s \in Small(0) |-> base])
    BY <2>1
  <2>4. QED
    BY <2>2, <2>3
<1>3. ASSUME NEW n \in Nat, Has(n) PROVE Has(n + 1)
  <2>1. PICK it \in [Small(n) -> A] : Good(n, it)
    BY <1>3
  <2> DEFINE jt == [s \in Small(n + 1) |->
                      IF s = {} THEN base ELSE F[<<it[s \ {c[s]}], c[s]>>]]
  <2>2. ASSUME NEW s \in Small(n + 1), s # {}
        PROVE  s \ {c[s]} \in Small(n) /\ c[s] \in S
    <3>1. Cardinality(s) = Cardinality(s \ {c[s]}) + 1 /\ Cardinality(s \ {c[s]}) \in Nat
      BY <2>2, TakeOne
    <3>2. s \ {c[s]} \in SUBSET S /\ c[s] \in S /\ Cardinality(s) <= n + 1
      BY <2>2 DEF Takes
    <3>3. QED
      BY <3>1, <3>2
  <2>3. jt \in [Small(n + 1) -> A]
    BY <2>2
  <2>4. \A s \in Small(n) : s \in Small(n + 1) /\ jt[s] = it[s]
    <3> SUFFICES ASSUME NEW s \in Small(n)
                 PROVE  s \in Small(n + 1) /\ jt[s] = it[s]
      OBVIOUS
    <3>1. s \in Small(n + 1)
      BY <1>1
    <3>2. jt[s] = it[s]
      BY <2>1, <3>1
    <3>3. QED
      BY <3>1, <3>2
  <2>5. {} \in Small(n) /\ {} \in Small(n + 1)
    BY <1>1
  <2>6. Good(n + 1, jt)
    <3>1. jt[{}] = base
      BY <2>5
    <3>2. ASSUME NEW s \in Small(n + 1), s # {}
          PROVE  jt[s] = F[<<jt[s \ {c[s]}], c[s]>>]
      BY <3>2, <2>2, <2>4
    <3>3. QED
      BY <3>1, <3>2
  <2>7. QED
    BY <2>3, <2>6
<1>4. T = {}
  <2> SUFFICES ASSUME T # {} PROVE FALSE
    OBVIOUS
  <2> HIDE DEF Has
  <2>1. T \in SUBSET Nat
    OBVIOUS
  <2>2. PICK n \in T : \A m \in T : n <= m
    BY <2>1, LeastNumber
  <2>3. n # 0 /\ n \in Nat /\ n - 1 \in Nat
    BY <1>2, <2>2
  <2>4. n - 1 \notin T
    BY <2>2, <2>3
  <2>5. Has(n - 1 + 1)
    BY <2>3, <2>4, <1>3
  <2>6. n - 1 + 1 = n
    BY <2>3
  <2>7. QED
    BY <2>2, <2>5, <2>6
<1>5. Has(Cardinality(S))
  BY <1>1, <1>4
<1>6. Small(Cardinality(S)) = SUBSET S
  BY FS_Subset
<1>7. QED
  BY <1>5, <1>6 DEF Folds

\* The subsets of the places of a sequence, the last place taken first.
LEMMA LastPlace ==
    ASSUME NEW n \in Nat, NEW s \in SUBSET (1 .. n), s # {}
    PROVE  Max(s) \in s /\ \A y \in s : y <= Max(s)
<1> DEFINE T == {n - y : y \in s}
<1>1. T \in SUBSET Nat /\ T # {}
  <2>1. ASSUME NEW y \in s PROVE n - y \in Nat
    <3>1. y \in 1 .. n
      OBVIOUS
    <3>2. QED
      BY <3>1
  <2>2. T \in SUBSET Nat
    BY <2>1
  <2>3. T # {}
    OBVIOUS
  <2>4. QED
    BY <2>2, <2>3
<1> HIDE DEF T
<1>2. PICK m \in T : \A k \in T : m <= k
  BY <1>1, LeastNumber
<1>3. PICK x \in s : m = n - x
  BY <1>2 DEF T
<1>4. ASSUME NEW y \in s PROVE x >= y
  <2>1. m <= n - y
    BY <1>2 DEF T
  <2>2. QED
    BY <1>3, <2>1
<1>5. /\ Max(s) \in s /\ \A y \in s : Max(s) >= y
  BY <1>3, <1>4, Zenon DEF Max
<1>6. QED
  BY <1>5

\* The fold over a sequence's places, from the left.
FromLeft(n) == [s \in SUBSET (1 .. n) |-> Max(s)]

LEMMA LeftTakes ==
    ASSUME NEW n \in Nat
    PROVE  IsFiniteSet(1 .. n) /\ Takes(FromLeft(n), 1 .. n)
<1>1. IsFiniteSet(1 .. n)
  BY FS_Interval
<1>2. Takes(FromLeft(n), 1 .. n)
  BY LastPlace DEF Takes, FromLeft
<1>3. QED
  BY <1>1, <1>2

LEMMA LastOfAll ==
    ASSUME NEW n \in Nat
    PROVE  /\ Max(1 .. n + 1) = n + 1
           /\ (1 .. n + 1) \ {n + 1} = 1 .. n
<1>1. Max(1 .. n + 1) \in 1 .. n + 1 /\ \A y \in 1 .. n + 1 : y <= Max(1 .. n + 1)
  <2>1. 1 .. n + 1 \in SUBSET (1 .. n + 1) /\ 1 .. n + 1 # {} /\ n + 1 \in Nat
    OBVIOUS
  <2>2. QED
    BY <2>1, LastPlace
<1>2. QED
  BY <1>1

LEMMA ElementOfSequence ==
    ASSUME NEW S, NEW s \in Seq(S), NEW i \in DOMAIN s
    PROVE  s[i] \in S
  OBVIOUS

\* What an appended element leaves as it is.
LEMMA AppendedAtTheEnd ==
    ASSUME NEW S, NEW s \in Seq(S), NEW e
    PROVE  /\ DOMAIN Append(s, e) = 1 .. Len(s) + 1
           /\ Append(s, e)[Len(s) + 1] = e
           /\ \A i \in DOMAIN s : i \in DOMAIN Append(s, e) /\ Append(s, e)[i] = s[i]
  OBVIOUS

\* What holds at 0 and goes over from each number below n to the next holds
\* up to n.
LEMMA StepByStep ==
    ASSUME NEW n \in Nat, NEW G, 0 \in G, \A k \in 0 .. n - 1 : k \in G => k + 1 \in G
    PROVE  \A k \in 0 .. n : k \in G
<1> DEFINE T == {k \in 0 .. n : k \notin G}
<1>1. SUFFICES ASSUME T # {} PROVE FALSE
  OBVIOUS
<1>2. T \in SUBSET Nat
  OBVIOUS
<1>3. PICK m \in T : \A k \in T : m <= k
  <2> HIDE DEF T
  <2>1. QED
    BY <1>1, <1>2, LeastNumber
<1>4. m \in Nat /\ m # 0 /\ m - 1 \in 0 .. n - 1 /\ m - 1 + 1 = m
  BY <1>3
<1>5. m - 1 \in G
  <2>1. m - 1 \in 0 .. n /\ ~(m <= m - 1)
    BY <1>4
  <2>2. QED
    BY <1>3, <2>1
<1>6. QED
  BY <1>3, <1>4, <1>5

\* A fold over places 1 .. n from the left exists.
FoldsLeft(it, F, base, n, A) ==
    /\ it \in [SUBSET (1 .. n) -> A] /\ it[{}] = base
    /\ \A s \in SUBSET (1 .. n) : s # {} =>
           /\ Max(s) \in 1 .. n /\ it[s \ {Max(s)}] \in A
           /\ it[s] = F[<<it[s \ {Max(s)}], Max(s)>>]

LEMMA LeftFold ==
    ASSUME NEW n, n \in Nat, NEW A, NEW base, base \in A,
           NEW F, F \in [A \X (1 .. n) -> A]
    PROVE  \E it : FoldsLeft(it, F, base, n, A)
<1>1. PICK it \in [SUBSET (1 .. n) -> A] : Folds(it, F, base, FromLeft(n), 1 .. n)
  BY LeftTakes, FoldExists
<1>2. it[{}] = base
  BY <1>1 DEF Folds
<1>3. ASSUME NEW s \in SUBSET (1 .. n), s # {}
      PROVE  /\ Max(s) \in 1 .. n /\ it[s \ {Max(s)}] \in A
             /\ it[s] = F[<<it[s \ {Max(s)}], Max(s)>>]
  <2>1. Max(s) \in s /\ FromLeft(n)[s] = Max(s)
    BY <1>3, LastPlace DEF FromLeft
  <2>2. it[s] = F[<<it[s \ {Max(s)}], Max(s)>>]
    BY <1>1, <1>3, <2>1 DEF Folds
  <2>3. QED
    BY <2>1, <2>2
<1>4. QED
  BY <1>2, <1>3 DEF FoldsLeft

\* What such a fold has made of the first k places, for each k.
IsPath(g, F, base, n, A) ==
    /\ g \in [0 .. n -> A]
    /\ g[0] = base
    /\ \A k \in 1 .. n : g[k] = F[<<g[k - 1], k>>]

FoldsOn(jt, F, base, n, A) ==
    /\ jt[{}] = base
    /\ \A s \in SUBSET (1 .. n) : s # {} /\ jt[s \ {Max(s)}] \in A =>
           jt[s] = F[<<jt[s \ {Max(s)}], Max(s)>>]

PathOf(jt, n) == [k \in 0 .. n |-> jt[1 .. k]]

LEMMA PathOfFold ==
    ASSUME NEW n, n \in Nat, NEW A, NEW base, base \in A,
           NEW F, F \in [A \X (1 .. n) -> A], NEW jt, FoldsOn(jt, F, base, n, A)
    PROVE  IsPath(PathOf(jt, n), F, base, n, A)
<1> USE DEF FoldsOn
<1> DEFINE g == [k \in 0 .. n |-> jt[1 .. k]]
<1>1. g[0] = base
  <2>1. 1 .. 0 = {} /\ 0 \in 0 .. n
    OBVIOUS
  <2>2. QED
    BY <2>1
<1>2. ASSUME NEW k \in 0 .. n - 1, g[k] \in A
      PROVE  g[k + 1] \in A /\ g[k + 1] = F[<<g[k], k + 1>>]
  <2>1. /\ Max(1 .. k + 1) = k + 1 /\ (1 .. k + 1) \ {k + 1} = 1 .. k
        /\ k + 1 \in 1 .. n /\ k + 1 \in 0 .. n /\ k \in 0 .. n /\ k \in Nat
    <3>1. k + 1 \in 1 .. n /\ k + 1 \in 0 .. n /\ k \in 0 .. n /\ k \in Nat
      OBVIOUS
    <3>2. QED
      BY <3>1, LastOfAll
  <2>2. 1 .. k + 1 \in SUBSET (1 .. n) /\ 1 .. k + 1 # {}
    OBVIOUS
  <2>3. jt[(1 .. k + 1) \ {Max(1 .. k + 1)}] \in A
    BY <1>2, <2>1
  <2>4. jt[1 .. k + 1] = F[<<jt[1 .. k], k + 1>>]
    BY <2>1, <2>2, <2>3
  <2>5. g[k + 1] = F[<<g[k], k + 1>>]
    BY <2>1, <2>4
  <2>6. QED
    BY <1>2, <2>1, <2>5
<1> DEFINE G == {k \in 0 .. n : g[k] \in A}
<1>3. \A k \in 0 .. n : k \in G
  <2>1. 0 \in G
    BY <1>1
  <2>2. ASSUME NEW k \in 0 .. n - 1, k \in G PROVE k + 1 \in G
    <3>1. k + 1 \in 0 .. n
      OBVIOUS
    <3> HIDE DEF g
    <3>2. g[k] \in A
      BY <2>2
    <3>3. g[k + 1] \in A
      BY <1>2, <3>2
    <3>4. QED
      BY <3>1, <3>3
  <2> HIDE DEF G
  <2>3. QED
    BY <2>1, <2>2, StepByStep
<1>4. g \in [0 .. n -> A]
  BY <1>3
<1>5. \A k \in 1 .. n : g[k] = F[<<g[k - 1], k>>]
  <2> SUFFICES ASSUME NEW k \in 1 .. n PROVE g[k] = F[<<g[k - 1], k>>]
    OBVIOUS
  <2>1. k - 1 \in 0 .. n - 1 /\ k - 1 + 1 = k /\ k - 1 \in 0 .. n
    OBVIOUS
  <2>2. g[k - 1] \in A
    BY <1>3, <2>1
  <2> HIDE DEF g
  <2>3. QED
    BY <1>2, <2>1, <2>2
<1>6. QED
  BY <1>1, <1>4, <1>5 DEF IsPath, PathOf

\* Two sequences of results that begin alike and go on alike end alike.
LEMMA SamePath ==
    ASSUME NEW n \in Nat, NEW g, NEW h, g[0] = h[0],
           \A k \in 1 .. n : g[k - 1] = h[k - 1] => g[k] = h[k]
    PROVE  g[n] = h[n]
<1> DEFINE G == {k \in 0 .. n : g[k] = h[k]}
<1>1. 0 \in G
  OBVIOUS
<1>2. ASSUME NEW k \in 0 .. n - 1, k \in G PROVE k + 1 \in G
  <2>1. k + 1 \in 1 .. n /\ k + 1 - 1 = k /\ k + 1 \in 0 .. n
    OBVIOUS
  <2>2. g[k + 1 - 1] = h[k + 1 - 1]
    BY <1>2, <2>1
  <2>3. g[k + 1] = h[k + 1]
    BY <2>1, <2>2
  <2>4. QED
    BY <2>1, <2>3
<1> HIDE DEF G
<1>3. n \in G
  BY <1>1, <1>2, StepByStep
<1>4. QED
  BY <1>3 DEF G

\* What holds of the empty sequence and goes over to a sequence with one
\* element more holds of all sequences.
LEMMA SequencesOneByOne ==
    ASSUME NEW E, NEW G, <<>> \in G,
           \A s \in Seq(E), e \in E : s \in G => Append(s, e) \in G
    PROVE  \A s \in Seq(E) : s \in G
<1> SUFFICES ASSUME NEW s \in Seq(E) PROVE s \in G
  OBVIOUS
<1> DEFINE n == Len(s)
           H == {k \in 0 .. n : SubSeq(s, 1, k) \in G}
<1>1. n \in Nat /\ \A i \in 1 .. n : s[i] \in E
  BY LenProperties
<1>2. 0 \in H
  <2>1. SubSeq(s, 1, 0) = <<>> /\ 0 \in 0 .. n
    BY <1>1, SubSeqEmpty
  <2>2. QED
    BY <2>1
<1>3. ASSUME NEW k \in 0 .. n - 1, k \in H PROVE k + 1 \in H
  <2>1. k + 1 \in 1 .. n /\ k + 1 \in 0 .. n /\ s[k + 1] \in E
    BY <1>1
  <2>2. SubSeq(s, 1, k) \in Seq(E) /\ SubSeq(s, 1, k + 1) = Append(SubSeq(s, 1, k), s[k + 1])
    <3>1. /\ SubSeq(s, 1, k) \in Seq(E)
          /\ Len(SubSeq(s, 1, k)) = k
          /\ \A i \in 1 .. k : SubSeq(s, 1, k)[i] = s[i]
      BY <1>1, SubSeqProperties
    <3>2. /\ SubSeq(s, 1, k + 1) \in Seq(E)
          /\ Len(SubSeq(s, 1, k + 1)) = k + 1
          /\ \A i \in 1 .. k + 1 : SubSeq(s, 1, k + 1)[i] = s[i]
      BY <1>1, <2>1, SubSeqProperties
    <3> DEFINE t == SubSeq(s, 1, k)
               u == SubSeq(s, 1, k + 1)
    <3> HIDE DEF t, u
    <3>3. /\ Append(t, s[k + 1]) \in Seq(E) /\ Len(Append(t, s[k + 1])) = k + 1
          /\ \A i \in 1 .. k : Append(t, s[k + 1])[i] = s[i]
          /\ Append(t, s[k + 1])[k + 1] = s[k + 1]
      BY <2>1, <3>1, AppendProperties DEF t
    <3>4. u = Append(t, s[k + 1])
      BY <3>2, <3>3, SeqEqual DEF u
    <3>5. QED
      BY <3>1, <3>4 DEF t, u
  <2>3. SubSeq(s, 1, k) \in G
    BY <1>3
  <2>4. SubSeq(s, 1, k + 1) \in G
    BY <2>1, <2>2, <2>3
  <2>5. QED
    BY <2>1, <2>4
<1>4. n \in H
  <2>1. n \in Nat /\ n \in 0 .. n
    BY <1>1
  <2>2. \A k \in 0 .. n - 1 : k \in H => k + 1 \in H
    BY <1>3
  <2> HIDE DEF H, n
  <2>3. \A k \in 0 .. n : k \in H
    BY <1>2, <2>1, <2>2, StepByStep, Zenon
  <2>4. QED
    BY <2>1, <2>3
<1>5. SubSeq(s, 1, n) = s
  BY SubSeqFull
<1>6. QED
  BY <1>4, <1>5

-----------------------------------------------------------------------------
\* The steps of Filtered.
Filters(g, s, S, E) ==
    /\ g \in [0 .. Len(s) -> Seq(E)]
    /\ g[0] = <<>> /\ Filtered(s, S) = g[Len(s)]
    /\ \A k \in 1 .. Len(s) : g[k] = Keeping(g[k - 1], s[k], S)

LEMMA FilteredPath ==
    ASSUME NEW E, NEW s, s \in Seq(E), NEW S
    PROVE  \E g : Filters(g, s, S, E)
<1> DEFINE n == Len(s)
           A == Seq(E)
           F == [x \in A \X (1 .. n) |-> Keeping(x[1], s[x[2]], S)]
           Raw(g) == [t \in SUBSET DOMAIN s |->
                         IF t = {} THEN <<>> ELSE Keeping(g[t \ {Max(t)}], s[Max(t)], S)]
           jt == CHOOSE g : g = Raw(g)
<1>1. n \in Nat /\ DOMAIN s = 1 .. n /\ \A i \in 1 .. n : s[i] \in E
  BY LenProperties
<1>2. Filtered(s, S) = jt[DOMAIN s]
  BY Zenon DEF Filtered, FoldLeft, MapThenFoldSet
<1>3. F \in [A \X (1 .. n) -> A] /\ <<>> \in A
  BY <1>1 DEF Keeping
<1>4. \A v \in A, j \in 1 .. n : F[<<v, j>>] = Keeping(v, s[j], S)
  OBVIOUS
<1> HIDE DEF A, F, n
<1>5. PICK it : FoldsLeft(it, F, <<>>, n, A)
  BY <1>1, <1>3, LeftFold
<1>6. it = Raw(it)
  BY <1>1, <1>4, <1>5 DEF FoldsLeft
<1>7. jt = Raw(jt)
  <2> HIDE DEF Raw
  <2>1. QED
    BY <1>6
<1> HIDE DEF jt
<1>8. /\ jt[{}] = <<>>
      /\ \A t \in SUBSET (1 .. n) : t # {} =>
             jt[t] = Keeping(jt[t \ {Max(t)}], s[Max(t)], S)
  BY <1>1, <1>7
<1> HIDE DEF Raw
<1>9. FoldsOn(jt, F, <<>>, n, A)
  BY <1>4, <1>5, <1>8 DEF FoldsLeft, FoldsOn
<1> DEFINE h == PathOf(jt, n)
<1>10. IsPath(h, F, <<>>, n, A)
  BY <1>1, <1>3, <1>9, PathOfFold
<1>11. h[n] = jt[1 .. n]
  BY <1>1 DEF PathOf
<1> HIDE DEF h
<1>12. \A k \in 1 .. n : h[k] = Keeping(h[k - 1], s[k], S)
  <2> SUFFICES ASSUME NEW k \in 1 .. n PROVE h[k] = Keeping(h[k - 1], s[k], S)
    OBVIOUS
  <2>1. k - 1 \in 0 .. n
    BY <1>1
  <2>2. h[k - 1] \in A /\ h[k] = F[<<h[k - 1], k>>]
    BY <1>10, <2>1 DEF IsPath
  <2>3. QED
    BY <1>4, <2>2
<1>13. QED
  BY <1>1, <1>2, <1>10, <1>11, <1>12 DEF IsPath, A, n, Filters

LEMMA FilteredNone == \A S : Filtered(<<>>, S) = <<>>
<1> SUFFICES ASSUME NEW S PROVE Filtered(<<>>, S) = <<>>
  OBVIOUS
<1>1. <<>> \in Seq({}) /\ Len(<<>>) = 0
  OBVIOUS
<1>2. PICK g : Filters(g, <<>>, S, {})
  BY <1>1, FilteredPath
<1>3. QED
  BY <1>1, <1>2 DEF Filters

LEMMA FilteredAppend ==
    ASSUME NEW E, NEW s \in Seq(E), NEW e \in E, NEW S
    PROVE  /\ Filtered(s, S) \in Seq(E)
           /\ Filtered(Append(s, e), S) = Keeping(Filtered(s, S), e, S)
<1> DEFINE n == Len(s)
           u == Append(s, e)
<1>1. /\ n \in Nat /\ u \in Seq(E) /\ Len(u) = n + 1
      /\ u[n + 1] = e /\ \A i \in 1 .. n : u[i] = s[i]
  BY AppendProperties, LenProperties
<1>2. PICK g : Filters(g, s, S, E)
  BY FilteredPath
<1>3. PICK h : Filters(h, u, S, E)
  BY <1>1, FilteredPath
<1> HIDE DEF n, u
<1>4. \A k \in 1 .. n : g[k - 1] = h[k - 1] => g[k] = h[k]
  <2> SUFFICES ASSUME NEW k \in 1 .. n, g[k - 1] = h[k - 1] PROVE g[k] = h[k]
    OBVIOUS
  <2>1. k \in 1 .. n + 1 /\ u[k] = s[k]
    BY <1>1
  <2>2. g[k] = Keeping(g[k - 1], s[k], S)
    BY <1>2 DEF Filters, n
  <2>3. h[k] = Keeping(h[k - 1], u[k], S)
    BY <1>1, <1>3, <2>1 DEF Filters
  <2>4. QED
    BY <2>1, <2>2, <2>3
<1>5. g[n] = h[n]
  <2>1. g[0] = h[0] /\ n \in Nat
    BY <1>1, <1>2, <1>3 DEF Filters
  <2>2. QED
    BY <1>4, <2>1, SamePath
<1>6. n + 1 \in 1 .. n + 1 /\ n + 1 - 1 = n /\ n \in 0 .. n
  BY <1>1
<1>7. h[n + 1] = Keeping(h[n], e, S) /\ Filtered(u, S) = h[n + 1]
  BY <1>1, <1>3, <1>6 DEF Filters
<1>8. Filtered(s, S) = g[n] /\ g[n] \in Seq(E)
  BY <1>2, <1>6 DEF Filters, n
<1>9. QED
  BY <1>5, <1>7, <1>8 DEF u

LEMMA ToSetAppend ==
    ASSUME NEW E, NEW s \in Seq(E), NEW e \in E
    PROVE  ToSet(Append(s, e)) = ToSet(s) \cup {e}
<1> DEFINE u == Append(s, e)
<1>1. /\ Len(s) \in Nat /\ Len(u) = Len(s) + 1 /\ u \in Seq(E)
      /\ u[Len(s) + 1] = e /\ \A i \in 1 .. Len(s) : u[i] = s[i]
  BY LenProperties, AppendProperties
<1>2. DOMAIN s = 1 .. Len(s) /\ DOMAIN u = 1 .. Len(s) + 1
  BY <1>1, LenProperties
<1> HIDE DEF u
<1>3. ASSUME NEW x \in ToSet(u) PROVE x \in ToSet(s) \cup {e}
  <2>1. PICK i \in DOMAIN u : x = u[i]
    BY <1>3 DEF ToSet
  <2>2. i \in 1 .. Len(s) \/ i = Len(s) + 1
    BY <1>1, <1>2, <2>1
  <2>3. QED
    BY <1>1, <1>2, <2>1, <2>2 DEF ToSet
<1>4. ASSUME NEW x \in ToSet(s) PROVE x \in ToSet(u)
  <2>1. PICK i \in DOMAIN s : x = s[i]
    BY <1>4 DEF ToSet
  <2>2. i \in DOMAIN u /\ u[i] = x
    BY <1>1, <1>2, <2>1
  <2>3. QED
    BY <2>2 DEF ToSet
<1>5. e \in ToSet(u)
  <2>1. Len(s) + 1 \in DOMAIN u
    BY <1>1, <1>2
  <2>2. QED
    BY <1>1, <2>1 DEF ToSet
<1>6. QED
  BY <1>3, <1>4, <1>5 DEF u

\* What is kept is what was there and is in the set; no element comes twice
\* that did not before.
LEMMA FilteredProperties ==
    ASSUME NEW E, NEW S
    PROVE  \A s \in Seq(E) :
               /\ Filtered(s, S) \in Seq(E)
               /\ ToSet(Filtered(s, S)) = ToSet(s) \cap S
               /\ IsInjective(s) => IsInjective(Filtered(s, S))
<1> DEFINE Fine(s) == /\ Filtered(s, S) \in Seq(E)
                      /\ ToSet(Filtered(s, S)) = ToSet(s) \cap S
                      /\ IsInjective(s) => IsInjective(Filtered(s, S))
           G == {s \in Seq(E) : Fine(s)}
<1>1. <<>> \in G
  <2>1. Filtered(<<>>, S) = <<>>
    BY FilteredNone
  <2>2. <<>> \in Seq(E) /\ ToSet(<<>>) = {} /\ IsInjective(<<>>)
    BY DEF ToSet, IsInjective
  <2>3. QED
    BY <2>1, <2>2
<1>2. ASSUME NEW s \in Seq(E), NEW e \in E, s \in G PROVE Append(s, e) \in G
  <2> DEFINE f == Filtered(s, S)
             u == Append(s, e)
             h == Filtered(u, S)
  <2>1. f \in Seq(E) /\ ToSet(f) = ToSet(s) \cap S /\ (IsInjective(s) => IsInjective(f))
    BY <1>2
  <2>2. h = Keeping(f, e, S) /\ u \in Seq(E)
    BY FilteredAppend
  <2> HIDE DEF f, h
  <2>3. h \in Seq(E)
    BY <2>1, <2>2 DEF Keeping
  <2>4. ToSet(u) = ToSet(s) \cup {e}
    BY ToSetAppend
  <2>5. ToSet(h) = ToSet(u) \cap S
    <3>1. CASE e \in S
      <4>1. h = Append(f, e)
        BY <2>2, <3>1 DEF Keeping
      <4>2. ToSet(h) = ToSet(f) \cup {e}
        BY <2>1, <4>1, ToSetAppend
      <4>3. QED
        BY <2>1, <2>4, <3>1, <4>2
    <3>2. CASE e \notin S
      BY <2>1, <2>2, <2>4, <3>2 DEF Keeping
    <3>3. QED
      BY <3>1, <3>2
  <2>6. IsInjective(u) => IsInjective(h)
    <3> SUFFICES ASSUME IsInjective(u) PROVE IsInjective(h)
      OBVIOUS
    <3>1. IsInjective(s) /\ e \notin ToSet(s)
      <4>1. /\ DOMAIN s = 1 .. Len(s) /\ DOMAIN u = 1 .. Len(s) + 1 /\ Len(s) \in Nat
            /\ u[Len(s) + 1] = e /\ \A i \in DOMAIN s : u[i] = s[i]
        BY <2>2, LenProperties, AppendProperties
      <4> HIDE DEF u
      <4>2. ASSUME NEW i \in DOMAIN s PROVE i \in DOMAIN u /\ Len(s) + 1 \in DOMAIN u /\ i # Len(s) + 1
        BY <4>1
      <4>3. QED
        BY <4>1, <4>2 DEF IsInjective, ToSet
    <3>2. IsInjective(f) /\ e \notin ToSet(f)
      BY <2>1, <3>1
    <3>3. CASE e \in S
      <4>1. h = Append(f, e)
        BY <2>2, <3>3 DEF Keeping
      <4>2. /\ DOMAIN f = 1 .. Len(f) /\ DOMAIN h = 1 .. Len(f) + 1 /\ Len(f) \in Nat
            /\ h[Len(f) + 1] = e /\ \A i \in DOMAIN f : h[i] = f[i]
        BY <2>1, <2>3, <4>1, LenProperties, AppendProperties
      <4> HIDE DEF u
      <4>3. \A i \in DOMAIN h : i \in DOMAIN f \/ i = Len(f) + 1
        BY <4>2
      <4>4. QED
        BY <3>2, <4>2, <4>3 DEF IsInjective, ToSet
    <3>4. CASE e \notin S
      BY <2>2, <3>2, <3>4 DEF Keeping
    <3>5. QED
      BY <3>3, <3>4
  <2>7. QED
    BY <2>2, <2>3, <2>5, <2>6 DEF h
<1> HIDE DEF G
<1>3. \A s \in Seq(E) : s \in G
  BY <1>1, <1>2, SequencesOneByOne
<1>4. QED
  BY <1>3 DEF G

=============================================================================
