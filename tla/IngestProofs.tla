---------------------------- MODULE IngestProofs ----------------------------
(***************************************************************************)
(* Proofs about the taking in and the first asking of the data.            *)
(*                                                                         *)
(* TwoPassFill, for any number of rows and threads, any filter and any     *)
(* contiguous division of the rows.  Counters are read as cardinalities: a *)
(* thread's count is the number of matches of its share that it has        *)
(* passed, an offset the number of matches in the shares before.  Shares   *)
(* being contiguous and passed in order, offset plus count is the number   *)
(* of matches before the row in hand, its Rank: the place where            *)
(* executeSerial puts it.                                                  *)
(*                                                                         *)
(* BatchScan, for any number of lines and threads, any batch size and any  *)
(* lines without text.  The invariant says where a round begins, what of   *)
(* the file the batch holds, and how often each line was judged by then.   *)
(*                                                                         *)
(* Then every run of ParallelRun: what holds of each algorithm holds of it *)
(* in a run.                                                               *)
(*                                                                         *)
(* FileTeam, for any team, any files and each of its engines, as it is     *)
(* part of ParallelRun.                                                    *)
(*                                                                         *)
(* The last is specified with folds: the serial reading of a file and the  *)
(* sums of counts.                                                         *)
(***************************************************************************)
EXTENDS ParallelRun, FoldProofs, SequenceTheorems

Share(t) == {r \in Rows : share[r] = t}
SharesBefore(t) == {r \in Rows : share[r] < t}
Matches(S) == Cardinality(matching \cap S)

\* Each thread has passed over the front of its share.
SeenIsFront ==
    \A q \in Rows, r \in seen : q < r /\ share[q] = share[r] => q \in seen

CountsAreMatches ==
    /\ pass = "count" => \A t \in Tid : local[t] = Matches(seen \cap Share(t))
    /\ \A t \in Tid :
           (pass = "count" => t \in ended) => counts[t] = Matches(Share(t))
    /\ pass = "count" /\ ended # {} => seen = Rows

OffsetsAreMatches ==
    /\ pass = "count" => summed = 0
    /\ pass \in {"fill", "done"} => summed = Threads
    /\ \A t \in Tid : t < summed => offsets[t] = Matches(SharesBefore(t))
    /\ total = Matches(SharesBefore(summed))

PlacesAreRanks ==
    pass \in {"fill", "done"} =>
        /\ DOMAIN out = 0 .. total - 1
        /\ \A t \in Tid :
               pos[t] = Matches(SharesBefore(t)) + Matches(seen \cap Share(t))
        /\ \A r \in matching \cap seen : out[Rank(r)] = r
        /\ \A p \in DOMAIN out : out[p] # Unwritten =>
               out[p] \in matching \cap seen /\ Rank(out[p]) = p

DoneMeansSeen == pass = "done" => seen = Rows

(* The inductive invariant.                                                *)
FillInv ==
    /\ TypeOK
    /\ SeenIsFront
    /\ CountsAreMatches
    /\ OffsetsAreMatches
    /\ PlacesAreRanks
    /\ DoneMeansSeen

-----------------------------------------------------------------------------
(* Counting matches: a set of rows has from none to NumRows of them.        *)
LEMMA MatchesType ==
    ASSUME NEW M \in SUBSET Rows, NEW S
    PROVE  /\ IsFiniteSet(M \cap S)
           /\ Cardinality(M \cap S) \in Nat
           /\ Cardinality(M \cap S) \in 0 .. NumRows
<1>1. IsFiniteSet(Rows) /\ Cardinality(Rows) = NumRows
  BY FS_Interval, TeamAssumption DEF Rows
<1>2. (M \cap S) \in SUBSET Rows
  OBVIOUS
<1>3. IsFiniteSet(M \cap S) /\ Cardinality(M \cap S) <= NumRows
  BY <1>1, <1>2, FS_Subset
<1>4. QED
  BY <1>3, FS_CardinalityType, TeamAssumption

(* One more row passed is one more match, or none.                          *)
LEMMA MatchesAdd ==
    ASSUME NEW M \in SUBSET Rows, NEW S, NEW r, r \notin S
    PROVE  Cardinality(M \cap (S \cup {r}))
             = IF r \in M THEN Cardinality(M \cap S) + 1 ELSE Cardinality(M \cap S)
<1>1. IsFiniteSet(M \cap S)
  BY MatchesType
<1>2. CASE r \in M
  <2>1. M \cap (S \cup {r}) = (M \cap S) \cup {r}
    BY <1>2
  <2>2. QED
    BY <1>1, <1>2, <2>1, FS_AddElement
<1>3. CASE r \notin M
  <2>1. M \cap (S \cup {r}) = M \cap S
    BY <1>3
  <2>2. QED
    BY <1>3, <2>1
<1>4. QED
  BY <1>2, <1>3

(* The matches of two parts without a common row add up.                    *)
LEMMA MatchesUnion ==
    ASSUME NEW M \in SUBSET Rows, NEW S, NEW T, S \cap T = {}
    PROVE  Cardinality(M \cap (S \cup T)) = Cardinality(M \cap S) + Cardinality(M \cap T)
<1> DEFINE A == M \cap S
           B == M \cap T
<1>1. /\ IsFiniteSet(A) /\ Cardinality(A) \in Nat
      /\ IsFiniteSet(B) /\ Cardinality(B) \in Nat
  BY MatchesType, TeamAssumption
<1>2. M \cap (S \cup T) = A \cup B
  OBVIOUS
<1>3. A \cap B = {}
  OBVIOUS
<1> HIDE DEF A, B
<1>4. Cardinality(A \cap B) = 0
  BY <1>3, FS_EmptySet
<1>5. Cardinality(A \cup B) = Cardinality(A) + Cardinality(B) - Cardinality(A \cap B)
  BY <1>1, FS_Union
<1>6. Cardinality(A \cup B) = Cardinality(A) + Cardinality(B)
  BY <1>1, <1>4, <1>5
<1>7. QED
  BY <1>2, <1>6 DEF A, B

(* A match is ranked below the number of matches, and after every match     *)
(* before it.                                                               *)
LEMMA RankInRange ==
    ASSUME NEW M \in SUBSET Rows, NEW r \in M
    PROVE  Cardinality({q \in M : q < r}) \in 0 .. Cardinality(M) - 1
<1> DEFINE Earlier == {q \in M : q < r}
<1>1. Earlier = M \cap {q \in Rows : q < r}
  OBVIOUS
<1>2. IsFiniteSet(Earlier) /\ Cardinality(Earlier) \in Nat
  BY <1>1, MatchesType, TeamAssumption
<1>3. M = M \cap Rows
  OBVIOUS
<1>4. IsFiniteSet(M) /\ Cardinality(M) \in Nat
  BY <1>3, MatchesType, TeamAssumption
<1>5. r \in Int /\ ~(r < r)
  BY DEF Rows
<1>6. r \notin Earlier
  BY <1>5
<1>7. Cardinality(Earlier \cup {r}) = Cardinality(Earlier) + 1
  BY <1>2, <1>6, FS_AddElement
<1>8. (Earlier \cup {r}) \in SUBSET M
  OBVIOUS
<1>9. Cardinality(Earlier \cup {r}) <= Cardinality(M)
  BY <1>4, <1>8, FS_Subset
<1>10. QED
  BY <1>2, <1>4, <1>7, <1>9

LEMMA RankIsStrict ==
    ASSUME NEW M \in SUBSET Rows, NEW q \in M, NEW r \in M, q < r
    PROVE  Cardinality({p \in M : p < q}) < Cardinality({p \in M : p < r})
<1> DEFINE Below == {p \in M : p < r}
<1>1. Below \in SUBSET Rows /\ q \in Below
  OBVIOUS
<1>2. Cardinality({p \in Below : p < q}) \in 0 .. Cardinality(Below) - 1
  BY <1>1, RankInRange
<1>3. {p \in Below : p < q} = {p \in M : p < q}
  <2>1. \A p \in M : p < q => p < r
    BY DEF Rows
  <2>2. QED
    BY <2>1
<1>4. Below = M \cap Below
  OBVIOUS
<1>5. Cardinality(Below) \in Nat
  BY <1>4, MatchesType, TeamAssumption
<1>6. QED
  BY <1>2, <1>3, <1>5

(* The shares before a thread's successor are those before it and its own.  *)
LEMMA SharesAddUp ==
    ASSUME TypeOK, NEW t \in Tid
    PROVE  /\ SharesBefore(t + 1) = SharesBefore(t) \cup Share(t)
           /\ SharesBefore(t) \cap Share(t) = {}
           /\ SharesBefore(0) = {}
           /\ SharesBefore(Threads) = Rows
<1>1. \A r \in Rows : share[r] \in Tid
  BY DEF TypeOK, StaticShares
<1>2. QED
  BY <1>1, TeamAssumption DEF SharesBefore, Share, Tid

(* The place of the row a thread comes to is the row's rank: shares are     *)
(* contiguous and passed in order, so the matches in the shares before and  *)
(* those passed in the own share are the matches before the row.            *)
LEMMA PlaceIsRank ==
    ASSUME TypeOK, SeenIsFront, NEW t \in Tid, NEW r \in Rows, IsNextRow(t, r)
    PROVE  Rank(r) = Matches(SharesBefore(t)) + Matches(seen \cap Share(t))
<1> DEFINE Passed == SharesBefore(t) \cup (seen \cap Share(t))
<1>1. \A q \in Rows : share[q] \in Int
  BY DEF TypeOK, StaticShares, Tid
<1>2. share[r] = t /\ r \notin seen
  BY DEF IsNextRow
<1>3. ASSUME NEW q \in Rows, q < r
      PROVE  q \in Passed
  <2>1. share[q] <= t
    BY <1>2, <1>3 DEF TypeOK, StaticShares
  <2>2. share[q] = t => q \in seen
    BY <1>3 DEF IsNextRow
  <2>3. QED
    BY <1>1, <2>1, <2>2 DEF SharesBefore, Share, Tid
<1>4. ASSUME NEW q \in Passed
      PROVE  q \in Rows /\ q < r
  <2>1. q \in Rows
    BY DEF SharesBefore, Share
  <2>2. CASE share[q] < t
    <3>1. ~(r < q) /\ q # r
      BY <1>1, <1>2, <2>1, <2>2 DEF TypeOK, StaticShares, Tid
    <3>2. QED
      BY <2>1, <3>1 DEF Rows
  <2>3. CASE q \in seen /\ share[q] = t
    <3>1. ~(r < q) /\ q # r
      BY <1>2, <2>3 DEF SeenIsFront
    <3>2. QED
      BY <2>1, <3>1 DEF Rows
  <2>4. QED
    BY <2>2, <2>3 DEF SharesBefore, Share
<1>5. {q \in matching : q < r} = matching \cap Passed
  BY <1>3, <1>4 DEF TypeOK
<1>6. SharesBefore(t) \cap (seen \cap Share(t)) = {}
  BY DEF SharesBefore, Share, Tid
<1>7. matching \in SUBSET Rows
  BY DEF TypeOK
<1>8. Cardinality(matching \cap Passed)
        = Cardinality(matching \cap SharesBefore(t))
          + Cardinality(matching \cap (seen \cap Share(t)))
  BY <1>6, <1>7, MatchesUnion
<1>9. QED
  BY <1>5, <1>8 DEF Rank, Matches

-----------------------------------------------------------------------------
LEMMA InitFillInv == Init => FillInv
<1> SUFFICES ASSUME Init
             PROVE  FillInv
  OBVIOUS
<1> USE DEF Init
<1>1. TypeOK
  BY TeamAssumption DEF TypeOK
<1>2. \A t \in Tid : seen \cap Share(t) = {}
  OBVIOUS
<1>3. SharesBefore(0) = {}
  BY <1>1, TeamAssumption, SharesAddUp DEF Tid
<1>4. Matches({}) = 0
  BY FS_EmptySet DEF Matches
<1>5. CountsAreMatches
  BY <1>2, <1>4 DEF CountsAreMatches
<1>6. OffsetsAreMatches
  <2>1. \A t \in Tid : ~(t < summed)
    BY TeamAssumption DEF Tid
  <2>2. total = Matches(SharesBefore(summed))
    BY <1>3, <1>4
  <2>3. QED
    BY <2>1, <2>2 DEF OffsetsAreMatches
<1>7. SeenIsFront /\ PlacesAreRanks /\ DoneMeansSeen
  BY Zenon DEF SeenIsFront, PlacesAreRanks, DoneMeansSeen
<1>8. QED
  BY <1>1, <1>5, <1>6, <1>7 DEF FillInv

(* A thread that passes its next row keeps SeenIsFront, and the rows it has *)
(* passed of its share, but of no other, are one more.                      *)
LEMMA PassingARow ==
    ASSUME TypeOK, SeenIsFront, NEW t \in Tid, NEW r \in Rows, IsNextRow(t, r),
           seen' = seen \cup {r}, UNCHANGED inputVars
    PROVE  /\ SeenIsFront'
           /\ Matches(seen \cap Share(t))'
                = Matches(seen \cap Share(t)) + (IF r \in matching THEN 1 ELSE 0)
           /\ \A u \in Tid \ {t} :
                  Matches(seen \cap Share(u))' = Matches(seen \cap Share(u))
           /\ \A u : Matches(SharesBefore(u))' = Matches(SharesBefore(u))
           /\ \A u : Matches(Share(u))' = Matches(Share(u))
<1> USE DEF inputVars
<1>1. share[r] = t /\ r \notin seen /\ r \in Share(t)
  BY DEF IsNextRow, Share
<1>2. SeenIsFront'
  <2> SUFFICES ASSUME NEW q \in Rows, NEW p \in seen', q < p, share[q] = share[p]
               PROVE  q \in seen'
    BY DEF SeenIsFront
  <2>1. CASE p \in seen
    BY <2>1 DEF SeenIsFront
  <2>2. CASE p = r
    BY <1>1, <2>2 DEF IsNextRow
  <2>3. QED
    BY <2>1, <2>2
<1>3. \A u : Share(u)' = Share(u) /\ SharesBefore(u)' = SharesBefore(u)
  BY DEF Share, SharesBefore
<1>4. Matches(seen \cap Share(t))'
        = Matches(seen \cap Share(t)) + (IF r \in matching THEN 1 ELSE 0)
  <2>1. (seen \cap Share(t))' = (seen \cap Share(t)) \cup {r}
    BY <1>1, <1>3
  <2>2. matching \in SUBSET Rows /\ r \notin seen \cap Share(t)
    BY <1>1 DEF TypeOK
  <2>3. Cardinality(matching \cap ((seen \cap Share(t)) \cup {r}))
          = IF r \in matching THEN Cardinality(matching \cap (seen \cap Share(t))) + 1
                              ELSE Cardinality(matching \cap (seen \cap Share(t)))
    BY <2>2, MatchesAdd
  <2>4. Cardinality(matching \cap (seen \cap Share(t))) \in Nat
    BY <2>2, MatchesType
  <2>5. Matches(seen \cap Share(t))'
          = Cardinality(matching \cap ((seen \cap Share(t)) \cup {r}))
    BY <2>1 DEF Matches
  <2>6. Matches(seen \cap Share(t)) = Cardinality(matching \cap (seen \cap Share(t)))
    BY DEF Matches
  <2>7. CASE r \in matching
    BY <2>3, <2>5, <2>6, <2>7
  <2>8. CASE r \notin matching
    BY <2>3, <2>4, <2>5, <2>6, <2>8
  <2>9. QED
    BY <2>7, <2>8
<1>5. ASSUME NEW u \in Tid \ {t}
      PROVE  Matches(seen \cap Share(u))' = Matches(seen \cap Share(u))
  <2>1. (seen \cap Share(u))' = seen \cap Share(u)
    BY <1>1, <1>3 DEF Share
  <2>2. QED
    BY <2>1 DEF Matches
<1>6. QED
  BY <1>2, <1>3, <1>4, <1>5 DEF Matches

LEMMA CountRowKeeps ==
    ASSUME FillInv, NEW t \in Tid, NEW r \in Rows, CountRow(t, r)
    PROVE  FillInv'
<1> USE DEF CountRow, inputVars, sumVars, fillVars
<1>1. TypeOK /\ SeenIsFront /\ IsNextRow(t, r)
  BY DEF FillInv
<1>2. /\ SeenIsFront'
      /\ Matches(seen \cap Share(t))'
           = Matches(seen \cap Share(t)) + (IF r \in matching THEN 1 ELSE 0)
      /\ \A u \in Tid \ {t} :
             Matches(seen \cap Share(u))' = Matches(seen \cap Share(u))
      /\ \A u : Matches(SharesBefore(u))' = Matches(SharesBefore(u))
      /\ \A u : Matches(Share(u))' = Matches(Share(u))
  BY <1>1, PassingARow
<1>3. ended = {}
  BY DEF FillInv, CountsAreMatches, IsNextRow
<1>4. \A u \in Tid : local'[u] = Matches(seen \cap Share(u))'
  <2>1. \A u \in Tid : local[u] = Matches(seen \cap Share(u))
    BY DEF FillInv, CountsAreMatches
  <2>2. local \in [Tid -> 0 .. NumRows]
    BY <1>1 DEF TypeOK
  <2>3. \A u \in Tid \ {t} : local'[u] = local[u]
    BY <2>2
  <2>4. local'[t] = local[t] + (IF r \in matching THEN 1 ELSE 0)
    <3>1. CASE r \in matching
      BY <2>2, <3>1
    <3>2. CASE r \notin matching
      BY <2>2, <3>2
    <3>3. QED
      BY <3>1, <3>2
  <2>5. QED
    BY <1>2, <2>1, <2>3, <2>4
<1>5. \A u \in Tid : local'[u] \in 0 .. NumRows
  <2>1. matching' \in SUBSET Rows
    BY <1>1 DEF TypeOK
  <2>2. QED
    BY <1>4, <2>1, MatchesType DEF Matches
<1>6. TypeOK'
  BY <1>1, <1>5 DEF TypeOK
<1>7. CountsAreMatches'
  BY <1>3, <1>4 DEF CountsAreMatches
<1>8. OffsetsAreMatches'
  BY <1>2 DEF FillInv, OffsetsAreMatches
<1>9. QED
  BY <1>2, <1>6, <1>7, <1>8 DEF FillInv, PlacesAreRanks, DoneMeansSeen

(* What the invariant says of the inputs and of seen survives a step that   *)
(* leaves them alone.                                                       *)
LEMMA SameCounts ==
    ASSUME UNCHANGED inputVars
    PROVE  /\ \A u : Share(u)' = Share(u) /\ SharesBefore(u)' = SharesBefore(u)
           /\ \A u : Matches(Share(u))' = Matches(Share(u))
           /\ \A u : Matches(SharesBefore(u))' = Matches(SharesBefore(u))
           /\ seen' = seen => \A u :
                  Matches(seen \cap Share(u))' = Matches(seen \cap Share(u))
           /\ \A r : Rank(r)' = Rank(r)
BY DEF inputVars, Share, SharesBefore, Matches, Rank

LEMMA StoreCountKeeps ==
    ASSUME FillInv, NEW t \in Tid, StoreCount(t)
    PROVE  FillInv'
<1> USE DEF StoreCount, inputVars, sumVars, fillVars
<1>1. TypeOK /\ SeenIsFront
  BY DEF FillInv
<1>2. TypeOK'
  BY <1>1 DEF TypeOK
<1>3. CountsAreMatches'
  <2>1. local[t] = Matches(Share(t))
    <3>1. seen \cap Share(t) = Share(t)
      BY DEF Share
    <3>2. QED
      BY <3>1 DEF FillInv, CountsAreMatches
  <2>2. counts \in [Tid -> 0 .. NumRows]
    BY <1>1 DEF TypeOK
  <2>3. QED
    BY <2>1, <2>2, SameCounts DEF FillInv, CountsAreMatches
<1>4. OffsetsAreMatches'
  BY SameCounts DEF FillInv, OffsetsAreMatches
<1>5. QED
  BY <1>1, <1>2, <1>3, <1>4
     DEF FillInv, SeenIsFront, PlacesAreRanks, DoneMeansSeen

LEMMA JoinCountKeeps ==
    ASSUME FillInv, JoinCount
    PROVE  FillInv'
<1> USE DEF JoinCount, inputVars, countVars, sumVars, fillVars
<1>1. TypeOK /\ SeenIsFront
  BY DEF FillInv
<1>2. TypeOK'
  BY <1>1 DEF TypeOK
<1>3. CountsAreMatches'
  BY SameCounts DEF FillInv, CountsAreMatches
<1>4. OffsetsAreMatches'
  BY SameCounts DEF FillInv, OffsetsAreMatches
<1>5. QED
  BY <1>1, <1>2, <1>3, <1>4
     DEF FillInv, SeenIsFront, PlacesAreRanks, DoneMeansSeen

LEMMA AddUpKeeps ==
    ASSUME FillInv, AddUp
    PROVE  FillInv'
<1> USE DEF AddUp, inputVars, countVars, fillVars
<1>1. TypeOK /\ SeenIsFront /\ summed \in Tid /\ summed + 1 \in 0 .. Threads
  <2>1. TypeOK /\ SeenIsFront
    BY DEF FillInv
  <2>2. summed \in 0 .. Threads
    BY <2>1 DEF TypeOK
  <2>3. QED
    BY <2>1, <2>2, TeamAssumption DEF Tid
<1>2. total' = Matches(SharesBefore(summed + 1)) /\ total' \in 0 .. NumRows
  <2>1. total = Matches(SharesBefore(summed)) /\ counts[summed] = Matches(Share(summed))
    BY <1>1 DEF FillInv, OffsetsAreMatches, CountsAreMatches
  <2>2. /\ SharesBefore(summed + 1) = SharesBefore(summed) \cup Share(summed)
        /\ SharesBefore(summed) \cap Share(summed) = {}
    BY <1>1, SharesAddUp
  <2>3. matching \in SUBSET Rows
    BY <1>1 DEF TypeOK
  <2>4. Cardinality(matching \cap (SharesBefore(summed) \cup Share(summed)))
          = Cardinality(matching \cap SharesBefore(summed))
            + Cardinality(matching \cap Share(summed))
    BY <2>2, <2>3, MatchesUnion
  <2>5. total' = Matches(SharesBefore(summed + 1))
    BY <2>1, <2>2, <2>4 DEF Matches
  <2>6. QED
    BY <2>3, <2>5, MatchesType DEF Matches
<1>3. TypeOK'
  <2>1. offsets' \in [Tid -> 0 .. NumRows]
    BY <1>1 DEF TypeOK
  <2>2. out' \in [0 .. (IF pass' \in {"fill", "done"} THEN total' ELSE 0) - 1
                      -> Rows \cup {Unwritten}]
    BY <1>1 DEF TypeOK
  <2>3. QED
    BY <1>1, <1>2, <2>1, <2>2 DEF TypeOK
<1>4. CountsAreMatches'
  BY SameCounts DEF FillInv, CountsAreMatches
<1>5. OffsetsAreMatches'
  <2>1. offsets \in [Tid -> 0 .. NumRows] /\ summed \in Nat
    BY <1>1 DEF TypeOK
  <2>2. ASSUME NEW t \in Tid, t < summed'
        PROVE  offsets'[t] = Matches(SharesBefore(t))
    <3>1. CASE t = summed
      BY <2>1, <3>1 DEF FillInv, OffsetsAreMatches
    <3>2. CASE t # summed
      <4>1. t < summed
        BY <2>1, <2>2, <3>2 DEF Tid
      <4>2. QED
        BY <2>1, <3>2, <4>1 DEF FillInv, OffsetsAreMatches
    <3>3. QED
      BY <3>1, <3>2
  <2>3. \A t : Matches(SharesBefore(t))' = Matches(SharesBefore(t))
    BY SameCounts
  <2>4. QED
    BY <1>2, <2>2, <2>3 DEF OffsetsAreMatches
<1>6. QED
  BY <1>1, <1>3, <1>4, <1>5
     DEF FillInv, SeenIsFront, PlacesAreRanks, DoneMeansSeen

(* Once the offsets are added up, total is the number of matches.           *)
LEMMA TotalIsAll ==
    ASSUME TypeOK, OffsetsAreMatches, summed = Threads
    PROVE  total = Cardinality(matching)
<1>1. SharesBefore(Threads) = Rows
  BY SharesAddUp, TeamAssumption DEF Tid
<1>2. matching \cap Rows = matching
  BY DEF TypeOK
<1>3. QED
  BY <1>1, <1>2 DEF OffsetsAreMatches, Matches

LEMMA AllocateKeeps ==
    ASSUME FillInv, Allocate
    PROVE  FillInv'
<1> USE DEF Allocate, inputVars, countVars, sumVars
<1>1. TypeOK /\ OffsetsAreMatches
  BY DEF FillInv
<1>2. TypeOK'
  BY <1>1 DEF TypeOK
<1>3. CountsAreMatches'
  BY SameCounts DEF FillInv, CountsAreMatches
<1>4. OffsetsAreMatches'
  BY SameCounts DEF FillInv, OffsetsAreMatches
<1>5. PlacesAreRanks'
  <2>1. ASSUME NEW t \in Tid
        PROVE  pos'[t] = Matches(SharesBefore(t))' + Matches(seen \cap Share(t))'
    <3>1. (seen \cap Share(t))' = {}
      OBVIOUS
    <3>2. Matches(seen \cap Share(t))' = 0
      BY <3>1, FS_EmptySet DEF Matches
    <3>3. t < summed
      BY TeamAssumption DEF Tid
    <3>4. pos'[t] = Matches(SharesBefore(t))' /\ pos'[t] \in Nat
      BY <1>1, <3>3, SameCounts DEF OffsetsAreMatches, TypeOK
    <3>5. QED
      BY <3>2, <3>4
  <2>2. DOMAIN out' = 0 .. total' - 1 /\ \A p \in DOMAIN out' : out'[p] = Unwritten
    OBVIOUS
  <2>3. QED
    BY <2>1, <2>2 DEF PlacesAreRanks
<1>6. QED
  BY <1>2, <1>3, <1>4, <1>5 DEF FillInv, SeenIsFront, DoneMeansSeen

(* Two matches have two ranks.                                              *)
LEMMA RankIsInjective ==
    ASSUME TypeOK, NEW q \in matching, NEW r \in matching, q # r
    PROVE  Rank(q) # Rank(r)
<1>1. matching \in SUBSET Rows
  BY DEF TypeOK
<1>2. Rank(q) \in Int /\ Rank(r) \in Int
  BY <1>1, RankInRange DEF Rank
<1>3. CASE q < r
  BY <1>1, <1>2, <1>3, RankIsStrict DEF Rank
<1>4. CASE r < q
  BY <1>1, <1>2, <1>4, RankIsStrict DEF Rank
<1>5. q < r \/ r < q
  BY <1>1 DEF Rows
<1>6. QED
  BY <1>3, <1>4, <1>5

(* A thread about to write a match is at the match's own place, inside the  *)
(* vector, where nobody has written.                                        *)
LEMMA PlaceIsFree ==
    ASSUME FillInv, pass = "fill", NEW t \in Tid, NEW r \in matching, IsNextRow(t, r)
    PROVE  pos[t] = Rank(r) /\ pos[t] \in DOMAIN out /\ out[pos[t]] = Unwritten
<1>1. TypeOK /\ SeenIsFront /\ OffsetsAreMatches /\ summed = Threads
  BY DEF FillInv, OffsetsAreMatches
<1>2. r \in Rows /\ matching \in SUBSET Rows /\ r \notin seen
  BY <1>1 DEF TypeOK, IsNextRow
<1>3. pos[t] = Rank(r)
  BY <1>1, <1>2, PlaceIsRank DEF FillInv, PlacesAreRanks
<1>4. Rank(r) \in DOMAIN out
  <2>1. Rank(r) \in 0 .. total - 1
    BY <1>1, <1>2, TotalIsAll, RankInRange DEF Rank
  <2>2. QED
    BY <2>1 DEF FillInv, PlacesAreRanks
<1>5. out[Rank(r)] = Unwritten
  <2> SUFFICES ASSUME out[Rank(r)] # Unwritten
               PROVE  FALSE
    OBVIOUS
  <2>1. out[Rank(r)] \in matching \cap seen /\ Rank(out[Rank(r)]) = Rank(r)
    BY <1>4 DEF FillInv, PlacesAreRanks
  <2>2. out[Rank(r)] = r
    BY <1>1, <2>1, RankIsInjective
  <2>3. QED
    BY <1>2, <2>1, <2>2
<1>6. QED
  BY <1>3, <1>4, <1>5

LEMMA FillRowKeeps ==
    ASSUME FillInv, NEW t \in Tid, NEW r \in Rows, FillRow(t, r)
    PROVE  FillInv'
<1> USE DEF FillRow, inputVars, countVars, sumVars
<1>1. TypeOK /\ SeenIsFront /\ IsNextRow(t, r)
  BY DEF FillInv
<1>2. /\ SeenIsFront'
      /\ Matches(seen \cap Share(t))'
           = Matches(seen \cap Share(t)) + (IF r \in matching THEN 1 ELSE 0)
      /\ \A u \in Tid \ {t} :
             Matches(seen \cap Share(u))' = Matches(seen \cap Share(u))
      /\ \A u : Matches(SharesBefore(u))' = Matches(SharesBefore(u))
      /\ \A u : Matches(Share(u))' = Matches(Share(u))
  BY <1>1, PassingARow
<1>3. pos \in [Tid -> 0 .. NumRows] /\ pos' \in [Tid -> Int]
  <2>1. pos \in [Tid -> 0 .. NumRows]
    BY <1>1 DEF TypeOK
  <2>2. QED
    BY <2>1, TeamAssumption DEF Write, fillVars
<1>4. ASSUME NEW u \in Tid
      PROVE  pos'[u] = Matches(SharesBefore(u))' + Matches(seen \cap Share(u))'
  <2>1. pos[u] = Matches(SharesBefore(u)) + Matches(seen \cap Share(u))
    BY DEF FillInv, PlacesAreRanks
  <2>2. matching \in SUBSET Rows
    BY <1>1 DEF TypeOK
  <2>3. Matches(SharesBefore(u)) \in Int /\ Matches(seen \cap Share(u)) \in Int
    BY <2>2, MatchesType DEF Matches
  <2>4. CASE u # t
    <3>1. pos'[u] = pos[u]
      BY <1>3, <2>4 DEF Write, fillVars
    <3>2. QED
      BY <1>2, <2>1, <2>4, <3>1
  <2>5. CASE u = t /\ r \in matching
    <3>1. pos'[t] = pos[t] + 1
      BY <1>3, <2>5 DEF Write
    <3>2. QED
      BY <1>2, <2>1, <2>3, <2>5, <3>1
  <2>6. CASE u = t /\ r \notin matching
    <3>1. pos'[t] = pos[t]
      BY <2>6 DEF Write, fillVars
    <3>2. QED
      BY <1>2, <2>1, <2>3, <2>6, <3>1
  <2>7. QED
    BY <2>4, <2>5, <2>6
<1>5. \A u \in Tid : pos'[u] \in 0 .. NumRows
  <2> SUFFICES ASSUME NEW u \in Tid
               PROVE  pos'[u] \in 0 .. NumRows
    OBVIOUS
  <2> DEFINE M == matching'
             S == SharesBefore(u)'
             T == seen' \cap Share(u)'
  <2>1. M \in SUBSET Rows
    BY <1>1 DEF TypeOK
  <2>2. S \cap T = {}
    BY <1>1 DEF SharesBefore, Share, TypeOK, StaticShares, Tid
  <2>3. pos'[u] = Cardinality(M \cap S) + Cardinality(M \cap T)
    BY <1>4 DEF Matches
  <2> HIDE DEF M, S, T
  <2>4. Cardinality(M \cap (S \cup T)) = Cardinality(M \cap S) + Cardinality(M \cap T)
    BY <2>1, <2>2, MatchesUnion
  <2>5. Cardinality(M \cap (S \cup T)) \in 0 .. NumRows
    BY <2>1, MatchesType
  <2>6. QED
    BY <2>3, <2>4, <2>5
<1>6. /\ DOMAIN out' = DOMAIN out
      /\ \A p \in DOMAIN out : out'[p] \in Rows \cup {Unwritten}
      /\ \A q \in matching \cap seen' : out'[Rank(q)] = q
      /\ \A p \in DOMAIN out : out'[p] # Unwritten =>
             out'[p] \in matching \cap seen' /\ Rank(out'[p]) = p
  <2>1. /\ \A p \in DOMAIN out : out[p] \in Rows \cup {Unwritten}
        /\ \A q \in matching \cap seen : out[Rank(q)] = q
        /\ \A p \in DOMAIN out : out[p] # Unwritten =>
               out[p] \in matching \cap seen /\ Rank(out[p]) = p
    BY <1>1 DEF FillInv, PlacesAreRanks, TypeOK
  <2>2. CASE r \notin matching
    <3>1. out' = out
      BY <2>2 DEF Write, fillVars
    <3>2. QED
      BY <2>1, <2>2, <3>1
  <2>3. CASE r \in matching
    <3>1. pos[t] = Rank(r) /\ Rank(r) \in DOMAIN out
      BY <1>1, <2>3, PlaceIsFree
    <3>2. out' = [out EXCEPT ![Rank(r)] = r]
      BY <2>3, <3>1 DEF Write
    <3>3. out'[Rank(r)] = r
      BY <3>1, <3>2
    <3>4. \A p \in DOMAIN out \ {Rank(r)} : out'[p] = out[p]
      BY <3>2
    <3>5. ASSUME NEW q \in matching \cap seen'
          PROVE  out'[Rank(q)] = q
      <4>1. CASE q = r
        BY <3>3, <4>1
      <4>2. CASE q # r
        <5>1. q \in matching \cap seen /\ Rank(q) # Rank(r)
          BY <1>1, <2>3, <4>2, RankIsInjective
        <5>2. out'[Rank(q)] = out[Rank(q)]
          BY <3>2, <5>1
        <5>3. QED
          BY <2>1, <5>1, <5>2
      <4>3. QED
        BY <4>1, <4>2
    <3>6. \A p \in DOMAIN out : out'[p] # Unwritten =>
              out'[p] \in matching \cap seen' /\ Rank(out'[p]) = p
      <4> SUFFICES ASSUME NEW p \in DOMAIN out, out'[p] # Unwritten
                   PROVE  out'[p] \in matching \cap seen' /\ Rank(out'[p]) = p
        OBVIOUS
      <4>1. CASE p = Rank(r)
        BY <2>3, <3>3, <4>1
      <4>2. CASE p # Rank(r)
        BY <2>1, <3>4, <4>2
      <4>3. QED
        BY <4>1, <4>2
    <3>7. \A p \in DOMAIN out : out'[p] \in Rows \cup {Unwritten}
      BY <2>1, <3>3, <3>4
    <3>8. DOMAIN out' = DOMAIN out
      BY <3>2
    <3>9. QED
      BY <3>5, <3>6, <3>7, <3>8
  <2>4. QED
    BY <2>2, <2>3
<1>7. DOMAIN out = 0 .. total - 1
  BY DEF FillInv, PlacesAreRanks
<1>8. TypeOK'
  <2>1. out' \in [0 .. total - 1 -> Rows \cup {Unwritten}]
    <3>1. out \in [0 .. total - 1 -> Rows \cup {Unwritten}]
      BY <1>1 DEF TypeOK
    <3>2. out' = [p \in DOMAIN out' |-> out'[p]]
      BY <3>1 DEF Write, fillVars
    <3>3. QED
      BY <1>6, <1>7, <3>2
  <2>2. pos' \in [Tid -> 0 .. NumRows]
    BY <1>3, <1>5
  <2>3. QED
    BY <1>1, <2>1, <2>2 DEF TypeOK
<1>9. CountsAreMatches'
  BY SameCounts DEF FillInv, CountsAreMatches
<1>10. OffsetsAreMatches'
  BY SameCounts DEF FillInv, OffsetsAreMatches
<1>11. PlacesAreRanks'
  <2>1. \A q : Rank(q)' = Rank(q)
    BY SameCounts
  <2>2. QED
    BY <1>4, <1>6, <1>7, <2>1 DEF PlacesAreRanks
<1>12. QED
  BY <1>2, <1>8, <1>9, <1>10, <1>11 DEF FillInv, DoneMeansSeen

LEMMA ReturnKeeps ==
    ASSUME FillInv, Return
    PROVE  FillInv'
<1> USE DEF Return, inputVars, countVars, sumVars, fillVars
<1>1. TypeOK /\ SeenIsFront
  BY DEF FillInv
<1>2. TypeOK'
  BY <1>1 DEF TypeOK
<1>3. CountsAreMatches'
  BY SameCounts DEF FillInv, CountsAreMatches
<1>4. OffsetsAreMatches'
  BY SameCounts DEF FillInv, OffsetsAreMatches
<1>5. PlacesAreRanks'
  BY SameCounts DEF FillInv, PlacesAreRanks
<1>6. QED
  BY <1>1, <1>2, <1>3, <1>4, <1>5
     DEF FillInv, SeenIsFront, DoneMeansSeen

LEMMA StutterKeeps ==
    ASSUME FillInv, UNCHANGED vars
    PROVE  FillInv'
<1> USE DEF vars, inputVars, countVars, sumVars, fillVars
<1>1. TypeOK'
  BY DEF FillInv, TypeOK
<1>2. CountsAreMatches'
  BY SameCounts DEF FillInv, CountsAreMatches
<1>3. OffsetsAreMatches'
  BY SameCounts DEF FillInv, OffsetsAreMatches
<1>4. PlacesAreRanks'
  BY SameCounts DEF FillInv, PlacesAreRanks
<1>5. QED
  BY <1>1, <1>2, <1>3, <1>4 DEF FillInv, SeenIsFront, DoneMeansSeen

LEMMA NextKeepsFillInv == FillInv /\ [Next]_vars => FillInv'
<1> SUFFICES ASSUME FillInv, [Next]_vars
             PROVE  FillInv'
  OBVIOUS
<1>1. CASE \E t \in Tid, r \in Rows : CountRow(t, r)
  BY <1>1, CountRowKeeps
<1>2. CASE \E t \in Tid, r \in Rows : FillRow(t, r)
  BY <1>2, FillRowKeeps
<1>3. CASE \E t \in Tid : StoreCount(t)
  BY <1>3, StoreCountKeeps
<1>4. CASE JoinCount
  BY <1>4, JoinCountKeeps
<1>5. CASE AddUp
  BY <1>5, AddUpKeeps
<1>6. CASE Allocate
  BY <1>6, AllocateKeeps
<1>7. CASE Return
  BY <1>7, ReturnKeeps
<1>8. CASE UNCHANGED vars
  BY <1>8, StutterKeeps
<1>9. QED
  BY <1>1, <1>2, <1>3, <1>4, <1>5, <1>6, <1>7, <1>8 DEF Next

(* The inductive invariant holds in every state of executeOpenMP.            *)
THEOREM FillInvariant == Spec => []FillInv
<1>1. Init => FillInv
  BY InitFillInv
<1>2. FillInv /\ [Next]_vars => FillInv'
  BY NextKeepsFillInv
<1>3. QED
  BY <1>1, <1>2, PTL DEF Spec

(* The variables of executeOpenMP keep their types, counters and places      *)
(* within the number of rows, the result as long as the counts say.         *)
THEOREM FillTypeOK == Spec => []TypeOK
<1>1. FillInv => TypeOK
  BY DEF FillInv
<1>2. QED
  BY <1>1, FillInvariant, PTL

LEMMA InvResultIsSerial == FillInv => ResultIsSerial
<1> SUFFICES ASSUME FillInv, pass = "done"
             PROVE  /\ total = Cardinality(matching)
                    /\ \A r \in matching : Rank(r) \in DOMAIN out /\ out[Rank(r)] = r
  BY DEF ResultIsSerial
<1>1. TypeOK /\ OffsetsAreMatches /\ summed = Threads /\ seen = Rows
  BY DEF FillInv, OffsetsAreMatches, DoneMeansSeen
<1>2. total = Cardinality(matching)
  BY <1>1, TotalIsAll
<1>3. matching \in SUBSET Rows
  BY <1>1 DEF TypeOK
<1>4. \A r \in matching : Rank(r) \in 0 .. total - 1
  BY <1>2, <1>3, RankInRange DEF Rank
<1>5. QED
  BY <1>1, <1>2, <1>3, <1>4 DEF FillInv, PlacesAreRanks

(* The parallel query returns what the serial one returns, for every store,  *)
(* filter, number of threads and contiguous division of the rows.           *)
THEOREM FillResultIsSerial == Spec => []ResultIsSerial
<1>1. FillInv => ResultIsSerial
  BY InvResultIsSerial
<1>2. QED
  BY <1>1, FillInvariant, PTL

LEMMA InvWritesStayInside == FillInv => WritesStayInside
BY PlaceIsFree DEF WritesStayInside

(* No thread writes outside the vector that the counts have sized.          *)
THEOREM FillWritesStayInside == Spec => []WritesStayInside
<1>1. FillInv => WritesStayInside
  BY InvWritesStayInside
<1>2. QED
  BY <1>1, FillInvariant, PTL

LEMMA PlacesKept ==
    ASSUME FillInv, [Next]_vars, NEW p \in DOMAIN out, out[p] # Unwritten
    PROVE  out'[p] = out[p]
<1>1. ASSUME NEW t \in Tid, NEW r \in Rows, FillRow(t, r)
      PROVE  out'[p] = out[p]
  <2>1. CASE r \in matching
    <3>1. out[pos[t]] = Unwritten /\ pos[t] # p
      BY <1>1, <2>1, PlaceIsFree DEF FillRow
    <3>2. QED
      BY <1>1, <2>1, <3>1 DEF FillRow, Write
  <2>2. CASE r \notin matching
    BY <1>1, <2>2 DEF FillRow, Write, fillVars
  <2>3. QED
    BY <2>1, <2>2
<1>2. CASE Allocate
  <2>1. DOMAIN out = 0 .. -1
    BY <1>2 DEF FillInv, TypeOK, Allocate
  <2>2. QED
    BY <2>1
<1>3. QED
  BY <1>1, <1>2
     DEF Next, CountRow, StoreCount, JoinCount, AddUp, Return, vars, fillVars

(* No two threads write one place, and no thread writes one twice.          *)
THEOREM FillNoPlaceWrittenTwice == Spec => NoPlaceWrittenTwice
<1>1. FillInv /\ [Next]_vars
        => [\A p \in DOMAIN out : out[p] # Unwritten => out'[p] = out[p]]_vars
  BY PlacesKept
<1>2. QED
  BY <1>1, FillInvariant, PTL DEF Spec, NoPlaceWrittenTwice

-----------------------------------------------------------------------------
\* Where the threads are: before the barrier that ends `single`, or behind it.
Before == {"top", "fill", "filled"}
Behind == {"test", "loop", "looped", "end"}

InLoop == \A t \in Thread : pc[t] \in Behind

BatchTypeOK ==
    /\ blank \subseteq Line
    /\ position \in 0 .. NumLines /\ read \in 0 .. BatchSize /\ read <= position
    /\ batch \in Seq(Line)
    /\ done \in BOOLEAN /\ claimed \in BOOLEAN
    /\ pc \in [Thread -> Before \cup Behind]
    /\ judged \in [Line -> Nat]

PhaseInv ==
    /\ (\A t \in Thread : pc[t] \in Before) \/ InLoop
    /\ ~claimed => \A t \in Thread : pc[t] = "top"
    /\ \A t, u \in Thread : pc[t] = "fill" /\ pc[u] = "fill" => t = u
    /\ InLoop => \A t \in Thread :
                     pc[t] \in IF done THEN {"test", "end"}
                               ELSE {"test", "loop", "looped"}

\* The lines of the rounds before this one.
From == IF claimed THEN position - read ELSE position

\* Rounds begin at the beginning of a batch or at the end of the file, and all
\* batches before had a line with text.
StartInv ==
    /\ From = NumLines \/ \E k \in Nat : From = k * BatchSize
    /\ \A k \in Nat : k * BatchSize < From => ~BlankBatch(k + 1)

\* The batch holds the lines with text that this round has read, once each.
BatchInv ==
    /\ claimed =>
           /\ \A i \in DOMAIN batch : /\ batch[i] \notin blank
                                      /\ From < batch[i] /\ batch[i] <= position
           /\ \A l \in Line \ blank :
                  From < l /\ l <= position => \E i \in DOMAIN batch : batch[i] = l
           /\ \A i, j \in DOMAIN batch : batch[i] = batch[j] => i = j
    /\ claimed /\ (\A t \in Thread : pc[t] # "fill") =>
           /\ read = BatchSize \/ position = NumLines
           /\ done <=> batch = <<>>

\* Lines of earlier rounds were judged once, those of this round as taken.
JudgedInv ==
    /\ \A l \in Line :
           judged[l] = IF l \in blank THEN 0
                       ELSE IF l <= From THEN 1
                       ELSE IF InLoop /\ \E i \in taken : batch[i] = l THEN 1 ELSE 0
    /\ InLoop => /\ taken \subseteq DOMAIN batch
                 /\ \/ taken = DOMAIN batch
                    \/ \E t \in Thread : pc[t] \in {"test", "loop"}

ScanInv == BatchTypeOK /\ PhaseInv /\ StartInv /\ BatchInv /\ JudgedInv
-----------------------------------------------------------------------------
(* Products with the batch size keep the order.                             *)
LEMMA BatchesInOrder ==
    ASSUME NEW j \in Nat, NEW k \in Nat
    PROVE  /\ j * BatchSize \in Nat
           /\ (j + 1) * BatchSize = j * BatchSize + BatchSize
           /\ j <= j * BatchSize
           /\ j <= k => j * BatchSize <= k * BatchSize
<1>1. BatchSize \in Nat /\ BatchSize >= 1
  BY BatchAssumption
<1>2. j * BatchSize \in Nat
  BY <1>1
<1>3. (j + 1) * BatchSize = j * BatchSize + BatchSize
  BY <1>1
<1>4. j <= j * BatchSize
  BY <1>1
<1>5. ASSUME j <= k PROVE j * BatchSize <= k * BatchSize
  BY <1>1, <1>5
<1>6. QED
  BY <1>2, <1>3, <1>4, <1>5

(* There is a thread, and a thread behind the barrier means all are.        *)
LEMMA SomeThread == \E t \in Thread : TRUE
<1>1. 1 \in Thread
  BY BatchAssumption DEF Thread
<1>2. QED
  BY <1>1

LEMMA OneIsAll ==
    ASSUME BatchTypeOK, PhaseInv, NEW t \in Thread
    PROVE  /\ pc[t] \in Before => \A u \in Thread : pc[u] \in Before
           /\ pc[t] \in Behind => InLoop
           /\ pc[t] \in Before <=> ~InLoop
           /\ pc[t] # "top" => claimed
<1>1. ~(pc[t] \in Before /\ pc[t] \in Behind)
  BY DEF Before, Behind
<1>2. QED
  BY <1>1 DEF PhaseInv, InLoop, Before, Behind


-----------------------------------------------------------------------------
(* It holds at the start: no line was read or judged.                       *)
LEMMA ScanInit == BatchInit => ScanInv
<1> SUFFICES ASSUME BatchInit PROVE ScanInv
  OBVIOUS
<1> USE BatchAssumption DEF BatchInit
<1>1. BatchTypeOK
  <2>1. blank \subseteq Line /\ batch \in Seq(Line)
    OBVIOUS
  <2>2. pc \in [Thread -> Before \cup Behind]
    BY DEF Before
  <2>3. judged \in [Line -> Nat]
    OBVIOUS
  <2>4. position \in 0 .. NumLines /\ read \in 0 .. BatchSize /\ read <= position
    OBVIOUS
  <2>5. done \in BOOLEAN /\ claimed \in BOOLEAN
    OBVIOUS
  <2> HIDE DEF BatchInit
  <2>6. QED
    BY <2>1, <2>2, <2>3, <2>4, <2>5 DEF BatchTypeOK, BatchInit
<1>2. \A t \in Thread : pc[t] = "top"
  OBVIOUS
<1>3. ~InLoop
  BY <1>2, SomeThread DEF InLoop, Behind
<1>4. PhaseInv
  BY <1>2, <1>3 DEF PhaseInv, Before
<1>5. From = 0 /\ 0 = 0 * BatchSize /\ 0 \in Nat
  BY DEF From
<1>6. \A k \in Nat : k * BatchSize \in Nat
  BY BatchesInOrder
<1>7. StartInv
  BY <1>5, <1>6 DEF StartInv
<1>8. BatchInv
  BY DEF BatchInv
<1>9. JudgedInv
  BY <1>3, <1>5 DEF JudgedInv, Line
<1>10. QED
  BY <1>1, <1>4, <1>7, <1>8, <1>9 DEF ScanInv

(* A step of the loop changes the thread's own place in it alone.           *)
LEMMA StartStays ==
    ASSUME StartInv, From' = From, UNCHANGED blank
    PROVE  StartInv'
BY DEF StartInv, BlankBatch

LEMMA ScanFill ==
    ASSUME ScanInv, NEW t \in Thread, Fill(t)
    PROVE  ScanInv'
<1> USE DEF ScanInv
<1>1. \A u \in Thread : pc[u] = "top"
  BY DEF Fill, PhaseInv
<1>2. \A u \in Thread : pc'[u] = IF u = t THEN "fill" ELSE "top"
  BY <1>1 DEF Fill, BatchTypeOK
<1>3. BatchTypeOK'
  BY BatchAssumption DEF Fill, BatchTypeOK, Before, Line
<1>4. ~InLoop /\ ~InLoop'
  BY <1>1, <1>2 DEF InLoop, Behind
<1>5. PhaseInv'
  BY <1>2, <1>4 DEF PhaseInv, Fill, Before
<1>6. From' = From
  BY DEF From, Fill, BatchTypeOK
<1>7. StartInv'
  BY <1>6, StartStays DEF Fill
<1>8. From = position
  BY DEF From, Fill
<1>9. BatchInv'
  <2>1. position' = From' /\ batch' = <<>> /\ DOMAIN batch' = {}
    BY <1>6, <1>8 DEF Fill
  <2>2. \A l \in Line : ~(From' < l /\ l <= position')
    BY <2>1, <1>3 DEF BatchTypeOK, Line
  <2>3. pc'[t] = "fill"
    BY <1>2
  <2>4. QED
    BY <2>1, <2>2, <2>3 DEF BatchInv, Fill
<1>10. JudgedInv'
  BY <1>4, <1>6 DEF JudgedInv, Fill
<1>11. QED
  BY <1>3, <1>5, <1>7, <1>9, <1>10

LEMMA ScanPassBy ==
    ASSUME ScanInv, NEW t \in Thread, PassBy(t)
    PROVE  ScanInv'
<1> USE DEF ScanInv
<1>1. ~InLoop /\ \A u \in Thread : pc[u] \in Before
  BY OneIsAll DEF PassBy, Before
<1>2. /\ pc[t] = "top"
      /\ \A u \in Thread : pc'[u] = IF u = t THEN "filled" ELSE pc[u]
  BY DEF PassBy, BatchTypeOK
<1>3. BatchTypeOK'
  BY DEF PassBy, BatchTypeOK, Before
<1>4. ~InLoop'
  BY <1>2 DEF InLoop, Behind
<1>5. PhaseInv'
  BY <1>1, <1>2, <1>4 DEF PhaseInv, PassBy, Before
<1>6. From' = From
  BY DEF From, PassBy
<1>7. StartInv'
  BY <1>6, StartStays DEF PassBy
<1>8. (\A u \in Thread : pc'[u] # "fill") => \A u \in Thread : pc[u] # "fill"
  BY <1>2
<1>9. BatchInv'
  BY <1>6, <1>8 DEF BatchInv, PassBy
<1>10. JudgedInv'
  BY <1>1, <1>4, <1>6 DEF JudgedInv, PassBy
<1>11. QED
  BY <1>3, <1>5, <1>7, <1>9, <1>10

LEMMA ScanReadLine ==
    ASSUME ScanInv, NEW t \in Thread, ReadLine(t)
    PROVE  ScanInv'
<1> USE DEF ScanInv
<1> DEFINE next == position + 1
<1>1. ~InLoop /\ claimed
  BY OneIsAll DEF ReadLine, Before
<1>2. ~InLoop' /\ claimed' /\ pc' = pc /\ pc[t] = "fill"
  BY <1>1 DEF InLoop, ReadLine
<1>3. next \in Line /\ position' = next /\ read' = read + 1
  BY BatchAssumption DEF ReadLine, BatchTypeOK, Line
<1>4. BatchTypeOK'
  BY <1>3, BatchAssumption DEF ReadLine, BatchTypeOK
<1>5. PhaseInv'
  BY <1>1, <1>2 DEF PhaseInv, ReadLine
<1>6. From' = From /\ From <= position
  BY <1>1, <1>2, <1>3 DEF From, BatchTypeOK
<1>7. StartInv'
  BY <1>6, StartStays DEF ReadLine
<1>8. JudgedInv'
  BY <1>1, <1>2, <1>6 DEF JudgedInv, ReadLine
<1>9. BatchInv'
  <2>1. CASE next \in blank
    <3>1. batch' = batch /\ blank' = blank
      BY <2>1, <1>3 DEF ReadLine
    <3>2. \A l \in Line \ blank : l <= next => l <= position
      BY <2>1 DEF BatchTypeOK, Line
    <3>3. ASSUME NEW i \in DOMAIN batch, batch[i] <= position
          PROVE  batch[i] <= next
      <4>1. batch[i] \in Line
        BY DEF BatchTypeOK
      <4>2. QED
        BY <3>3, <4>1 DEF BatchTypeOK, Line
    <3>4. QED
      BY <3>1, <3>2, <3>3, <1>1, <1>2, <1>3, <1>6 DEF BatchInv
  <2>2. CASE next \notin blank
    <3>1. batch' = Append(batch, next) /\ blank' = blank
      BY <2>2, <1>3 DEF ReadLine
    <3>2. /\ Len(batch) \in Nat
          /\ DOMAIN batch = 1 .. Len(batch)
          /\ DOMAIN batch' = 1 .. Len(batch) + 1
          /\ batch'[Len(batch) + 1] = next
          /\ \A i \in DOMAIN batch : batch'[i] = batch[i] /\ batch[i] \in Line
      BY <3>1, <1>3 DEF BatchTypeOK
    <3>3. \A i \in DOMAIN batch' : i \in DOMAIN batch \/ i = Len(batch) + 1
      BY <3>2
    <3>4. \A i \in DOMAIN batch : batch[i] # next /\ batch[i] <= next
      BY <1>1, <3>2 DEF BatchInv, BatchTypeOK, Line
    <3>5. \A i \in DOMAIN batch' : /\ batch'[i] \notin blank'
                                   /\ From' < batch'[i] /\ batch'[i] <= position'
      <4>1. From < next /\ next <= next
        BY <1>6, <1>3 DEF From, BatchTypeOK
      <4>2. QED
        BY <4>1, <3>1, <3>2, <3>3, <3>4, <2>2, <1>1, <1>3, <1>6 DEF BatchInv
    <3>6. ASSUME NEW l \in Line, l \notin blank, From < l, l <= next
          PROVE  \E i \in DOMAIN batch' : batch'[i] = l
      <4>1. l = next \/ l <= position
        BY <3>6 DEF BatchTypeOK, Line
      <4>2. CASE l = next
        BY <4>2, <3>2
      <4>3. CASE l <= position
        BY <4>3, <3>6, <3>2, <1>1 DEF BatchInv
      <4>4. QED
        BY <4>1, <4>2, <4>3
    <3>7. \A i, j \in DOMAIN batch' : batch'[i] = batch'[j] => i = j
      BY <3>2, <3>3, <3>4, <1>1 DEF BatchInv
    <3>8. QED
      BY <3>1, <3>5, <3>6, <3>7, <1>2, <1>3, <1>6 DEF BatchInv
  <2>3. QED
    BY <2>1, <2>2
<1>10. QED
  BY <1>4, <1>5, <1>7, <1>8, <1>9

LEMMA ScanEndFill ==
    ASSUME ScanInv, NEW t \in Thread, EndFill(t)
    PROVE  ScanInv'
<1> USE DEF ScanInv
<1>1. ~InLoop /\ claimed /\ \A u \in Thread : pc[u] \in Before
  BY OneIsAll DEF EndFill, Before
<1>2. \A u \in Thread : pc'[u] = IF u = t THEN "filled" ELSE pc[u]
  BY DEF EndFill, BatchTypeOK
<1>3. BatchTypeOK'
  BY DEF EndFill, BatchTypeOK, Before
<1>4. ~InLoop'
  BY <1>2 DEF InLoop, Behind
<1>5. PhaseInv'
  BY <1>1, <1>2, <1>4 DEF PhaseInv, EndFill, Before
<1>6. From' = From
  BY DEF From, EndFill
<1>7. StartInv'
  BY <1>6, StartStays DEF EndFill
<1>8. BatchInv'
  BY <1>1, <1>6 DEF BatchInv, EndFill
<1>9. JudgedInv'
  BY <1>1, <1>4, <1>6 DEF JudgedInv, EndFill
<1>10. QED
  BY <1>3, <1>5, <1>7, <1>8, <1>9

LEMMA ScanBarrierAfterSingle ==
    ASSUME ScanInv, BarrierAfterSingle
    PROVE  ScanInv'
<1> USE DEF ScanInv
<1>1. PICK t \in Thread : pc[t] = "filled"
  BY SomeThread DEF BarrierAfterSingle
<1>2. ~InLoop /\ claimed
  BY <1>1, OneIsAll DEF Before
<1>3. \A u \in Thread : pc[u] = "filled" /\ pc'[u] = "test"
  BY DEF BarrierAfterSingle
<1>4. BatchTypeOK'
  BY DEF BarrierAfterSingle, BatchTypeOK, Behind
<1>5. InLoop'
  BY <1>3 DEF InLoop, Behind
<1>6. PhaseInv'
  BY <1>2, <1>3, <1>5 DEF PhaseInv, BarrierAfterSingle
<1>7. From' = From
  BY DEF From, BarrierAfterSingle
<1>8. StartInv'
  BY <1>7, StartStays DEF BarrierAfterSingle
<1>9. BatchInv'
  BY <1>3, <1>7 DEF BatchInv, BarrierAfterSingle
<1>10. JudgedInv'
  BY <1>1, <1>2, <1>3, <1>7 DEF JudgedInv, BarrierAfterSingle
<1>11. QED
  BY <1>4, <1>6, <1>8, <1>9, <1>10

(* Behind the barrier the batch is complete.                                *)
LEMMA LoopIsFilled ==
    ASSUME ScanInv, NEW t \in Thread, pc[t] \in Behind
    PROVE  /\ InLoop /\ claimed
           /\ \A u \in Thread : pc[u] # "fill"
           /\ read = BatchSize \/ position = NumLines
           /\ done <=> batch = <<>>
<1>1. InLoop /\ claimed
  BY OneIsAll DEF ScanInv, Behind
<1>2. \A u \in Thread : pc[u] # "fill"
  BY <1>1 DEF InLoop, Behind
<1>3. QED
  BY <1>1, <1>2 DEF ScanInv, BatchInv

LEMMA ScanTest ==
    ASSUME ScanInv, NEW t \in Thread, Test(t)
    PROVE  ScanInv'
<1> USE DEF ScanInv
<1>1. pc[t] = "test" /\ pc[t] \in Behind
  BY DEF Test, Behind
<1>2. /\ InLoop /\ claimed
      /\ \A u \in Thread : pc[u] # "fill"
      /\ done <=> batch = <<>>
  BY <1>1, LoopIsFilled
<1>3. \A u \in Thread : pc'[u] = IF u = t THEN IF done THEN "end" ELSE "loop"
                                 ELSE pc[u]
  BY DEF Test, BatchTypeOK
<1>4. BatchTypeOK'
  BY DEF Test, BatchTypeOK, Behind
<1>5. InLoop'
  BY <1>2, <1>3 DEF InLoop, Behind
<1>6. PhaseInv'
  BY <1>2, <1>3, <1>5 DEF PhaseInv, Test, InLoop, Behind
<1>7. From' = From
  BY DEF From, Test
<1>8. StartInv'
  BY <1>7, StartStays DEF Test
<1>9. BatchInv'
  BY <1>2, <1>7 DEF BatchInv, Test
<1>10. JudgedInv'
  <2>1. taken' \subseteq DOMAIN batch' /\ taken' = taken /\ batch' = batch
    BY <1>2 DEF JudgedInv, Test
  <2>2. taken' = DOMAIN batch' \/ \E u \in Thread : pc'[u] \in {"test", "loop"}
    <3>1. CASE done
      BY <3>1, <1>2, <2>1
    <3>2. CASE ~done
      BY <3>2, <1>3
    <3>3. QED
      BY <3>1, <3>2
  <2>3. QED
    BY <2>1, <2>2, <1>2, <1>5, <1>7 DEF JudgedInv, Test
<1>11. QED
  BY <1>4, <1>6, <1>8, <1>9, <1>10

LEMMA ScanJudge ==
    ASSUME ScanInv, NEW t \in Thread, NEW i \in 1 .. BatchSize, Judge(t, i)
    PROVE  ScanInv'
<1> USE DEF ScanInv
<1>1. pc[t] = "loop" /\ pc[t] \in Behind
  BY DEF Judge, Behind
<1>2. InLoop /\ claimed
  BY <1>1, LoopIsFilled
<1>3. /\ i \in DOMAIN batch /\ i \notin taken
      /\ batch[i] \in Line
      /\ taken' = taken \cup {i}
      /\ judged' = [judged EXCEPT ![batch[i]] = @ + 1]
  BY DEF Judge, BatchTypeOK
<1>4. UNCHANGED <<blank, position, read, batch, done, pc, claimed>>
  BY DEF Judge
<1>5. BatchTypeOK'
  BY <1>3, <1>4 DEF BatchTypeOK
<1>6. InLoop' /\ From' = From
  BY <1>2, <1>4 DEF InLoop, From
<1>7. PhaseInv'
  BY <1>2, <1>4, <1>6 DEF PhaseInv
<1>8. StartInv'
  BY <1>4, <1>6, StartStays
<1>9. BatchInv'
  BY <1>4, <1>6 DEF BatchInv
<1>10. JudgedInv'
  <2>1. /\ batch[i] \notin blank /\ ~(batch[i] <= From)
        /\ \A j \in DOMAIN batch : batch[j] = batch[i] => j = i
    <3>1. /\ batch[i] \notin blank /\ From < batch[i]
          /\ \A j \in DOMAIN batch : batch[j] = batch[i] => j = i
      BY <1>2, <1>3 DEF BatchInv
    <3>2. From \in Int /\ batch[i] \in Int
      BY <1>3 DEF From, BatchTypeOK, Line
    <3>3. QED
      BY <3>1, <3>2
  <2>2. taken \subseteq DOMAIN batch
    BY <1>2 DEF JudgedInv
  <2>3. ASSUME NEW l \in Line
        PROVE  judged'[l] = IF l \in blank THEN 0
                            ELSE IF l <= From THEN 1
                            ELSE IF \E j \in taken' : batch[j] = l THEN 1 ELSE 0
    <3>1. judged[l] = IF l \in blank THEN 0
                      ELSE IF l <= From THEN 1
                      ELSE IF \E j \in taken : batch[j] = l THEN 1 ELSE 0
      BY <1>2 DEF JudgedInv
    <3>2. CASE l = batch[i]
      <4>1. judged[l] = 0
        BY <3>1, <3>2, <2>1, <2>2, <1>3
      <4>2. judged'[l] = 1
        BY <4>1, <3>2, <1>3 DEF BatchTypeOK
      <4>3. QED
        BY <4>2, <3>2, <2>1, <1>3
    <3>3. CASE l # batch[i]
      <4>1. judged'[l] = judged[l]
        BY <3>3, <1>3 DEF BatchTypeOK
      <4>2. (\E j \in taken' : batch[j] = l) <=> (\E j \in taken : batch[j] = l)
        BY <3>3, <1>3
      <4>3. QED
        BY <3>1, <4>1, <4>2
    <3>4. QED
      BY <3>2, <3>3
  <2>4. taken' \subseteq DOMAIN batch /\ pc'[t] \in {"test", "loop"}
    BY <2>2, <1>1, <1>3, <1>4
  <2>5. QED
    BY <2>3, <2>4, <1>4, <1>6 DEF JudgedInv
<1>11. QED
  BY <1>5, <1>7, <1>8, <1>9, <1>10

LEMMA ScanEndLoop ==
    ASSUME ScanInv, NEW t \in Thread, EndLoop(t)
    PROVE  ScanInv'
<1> USE DEF ScanInv
<1>1. pc[t] = "loop" /\ pc[t] \in Behind
  BY DEF EndLoop, Behind
<1>2. InLoop /\ claimed /\ ~done
  BY <1>1, LoopIsFilled DEF PhaseInv
<1>3. \A u \in Thread : pc'[u] = IF u = t THEN "looped" ELSE pc[u]
  BY DEF EndLoop, BatchTypeOK
<1>4. BatchTypeOK'
  BY DEF EndLoop, BatchTypeOK, Behind
<1>5. InLoop'
  BY <1>2, <1>3 DEF InLoop, Behind
<1>6. PhaseInv'
  BY <1>2, <1>3, <1>5 DEF PhaseInv, EndLoop, InLoop, Behind
<1>7. From' = From
  BY DEF From, EndLoop
<1>8. StartInv'
  BY <1>7, StartStays DEF EndLoop
<1>9. BatchInv'
  <2>1. \A u \in Thread : pc[u] # "fill"
    BY <1>1, LoopIsFilled
  <2>2. QED
    BY <2>1, <1>7 DEF BatchInv, EndLoop
<1>10. JudgedInv'
  <2>1. DOMAIN batch = 1 .. Len(batch)
    BY DEF BatchTypeOK
  <2>2. taken' = DOMAIN batch' \/ \E u \in Thread : pc'[u] \in {"test", "loop"}
    BY <2>1, <1>3 DEF EndLoop
  <2>3. QED
    BY <2>2, <1>2, <1>5, <1>7 DEF JudgedInv, EndLoop
<1>11. QED
  BY <1>4, <1>6, <1>8, <1>9, <1>10

(* The round is over: its lines are judged, and the next one begins at the  *)
(* beginning of a batch or at the end of the file.                          *)
LEMMA ScanBarrierAfterLoop ==
    ASSUME ScanInv, BarrierAfterLoop
    PROVE  ScanInv'
<1> USE DEF ScanInv
<1>1. PICK t \in Thread : pc[t] = "looped"
  BY SomeThread DEF BarrierAfterLoop
<1>2. /\ InLoop /\ claimed
      /\ read = BatchSize \/ position = NumLines
      /\ done <=> batch = <<>>
  BY <1>1, LoopIsFilled DEF Behind
<1>3. ~done /\ batch # <<>>
  BY <1>1, <1>2 DEF PhaseInv
<1>4. \A u \in Thread : pc'[u] = "top"
  BY DEF BarrierAfterLoop
<1>5. BatchTypeOK'
  BY DEF BarrierAfterLoop, BatchTypeOK, Before
<1>6. ~InLoop'
  BY <1>4, SomeThread DEF InLoop, Behind
<1>7. PhaseInv'
  BY <1>4, <1>6 DEF PhaseInv, BarrierAfterLoop, Before
<1>8. From' = position /\ From = position - read
  BY <1>2 DEF From, BarrierAfterLoop
<1>9. BatchInv'
  BY DEF BatchInv, BarrierAfterLoop
<1>10. /\ From \in Nat /\ position \in Nat /\ read \in Nat /\ NumLines \in Nat
       /\ BatchSize \in Nat /\ From + read = position
       /\ read <= BatchSize /\ position <= NumLines
  BY <1>8, BatchAssumption DEF BatchTypeOK
<1>11. StartInv'
  <2>1. UNCHANGED blank
    BY DEF BarrierAfterLoop
  <2>2. From' = NumLines \/ \E k \in Nat : From' = k * BatchSize
    <3>1. CASE From = NumLines \/ position = NumLines
      BY <3>1, <1>8, <1>10
    <3>2. CASE ~(From = NumLines \/ position = NumLines)
      <4>1. PICK k \in Nat : From = k * BatchSize
        BY <3>2 DEF StartInv
      <4>2. position = k * BatchSize + BatchSize
        BY <3>2, <4>1, <1>2, <1>10, BatchesInOrder
      <4>3. position = (k + 1) * BatchSize /\ k + 1 \in Nat
        BY <4>2, BatchesInOrder
      <4>4. QED
        BY <4>3, <1>8
    <3>3. QED
      BY <3>1, <3>2
  <2>3. ASSUME NEW k \in Nat, k * BatchSize < position
        PROVE  ~BlankBatch(k + 1)
    <3>1. CASE k * BatchSize < From
      BY <3>1 DEF StartInv
    <3>2. CASE ~(k * BatchSize < From)
      <4>1. From <= k * BatchSize /\ From # NumLines
        BY <3>2, <2>3, <1>10, BatchesInOrder
      <4>2. PICK j \in Nat : From = j * BatchSize
        BY <4>1 DEF StartInv
      <4>3. position <= (j + 1) * BatchSize
        BY <4>2, <1>10, BatchesInOrder
      <4>4. k = j
        <5>1. ~(k + 1 <= j)
          <6>1. (k + 1) * BatchSize = k * BatchSize + BatchSize /\ BatchSize > 0
            BY BatchesInOrder, BatchAssumption
          <6>2. k + 1 <= j => (k + 1) * BatchSize <= j * BatchSize
            BY BatchesInOrder
          <6>3. QED
            BY <6>1, <6>2, <4>1, <4>2, <1>10, BatchesInOrder
        <5>2. ~(j + 1 <= k)
          <6>1. j + 1 <= k => (j + 1) * BatchSize <= k * BatchSize
            BY BatchesInOrder
          <6>2. (j + 1) * BatchSize \in Nat /\ k * BatchSize \in Nat
            BY BatchesInOrder
          <6>3. QED
            BY <6>1, <6>2, <4>3, <2>3, <1>10
        <5>3. QED
          BY <5>1, <5>2
      <4>5. 1 \in DOMAIN batch /\ batch[1] \in Line
        BY <1>3 DEF BatchTypeOK
      <4>6. batch[1] \notin blank /\ From < batch[1] /\ batch[1] <= position
        BY <4>5, <1>2 DEF BatchInv
      <4>7. (k + 1 - 1) * BatchSize < batch[1] /\ batch[1] <= (k + 1) * BatchSize
        <5>1. k + 1 - 1 = k
          OBVIOUS
        <5>2. (k + 1) * BatchSize \in Nat /\ batch[1] \in Int
          BY <4>5, BatchesInOrder DEF Line
        <5>3. QED
          BY <5>1, <5>2, <4>2, <4>3, <4>4, <4>6, <1>10
      <4>8. QED
        BY <4>5, <4>6, <4>7 DEF BlankBatch
    <3>3. QED
      BY <3>1, <3>2
  <2>4. \A k \in Nat : k * BatchSize < From' => ~BlankBatch(k + 1)'
    BY <2>1, <2>3, <1>8 DEF BlankBatch
  <2>5. QED
    BY <2>2, <2>4 DEF StartInv
<1>12. JudgedInv'
  <2>1. taken = DOMAIN batch
    BY <1>2 DEF JudgedInv, BarrierAfterLoop
  <2>2. ASSUME NEW l \in Line
        PROVE  judged[l] = IF l \in blank THEN 0 ELSE IF l <= position THEN 1 ELSE 0
    <3>1. judged[l] = IF l \in blank THEN 0
                      ELSE IF l <= From THEN 1
                      ELSE IF \E i \in DOMAIN batch : batch[i] = l THEN 1 ELSE 0
      BY <2>1, <1>2 DEF JudgedInv
    <3>2. l \in Int
      BY DEF Line
    <3>3. CASE l \in blank \/ l <= From
      BY <3>1, <3>2, <3>3, <1>10
    <3>4. CASE ~(l \in blank \/ l <= From)
      <4>1. l <= position <=> \E i \in DOMAIN batch : batch[i] = l
        BY <3>2, <3>4, <1>2, <1>10 DEF BatchInv
      <4>2. QED
        BY <4>1, <3>1, <3>4
    <3>5. QED
      BY <3>3, <3>4
  <2>3. QED
    BY <2>2, <1>6, <1>8 DEF JudgedInv, BarrierAfterLoop
<1>13. QED
  BY <1>5, <1>7, <1>9, <1>11, <1>12

-----------------------------------------------------------------------------
LEMMA ScanStep == ScanInv /\ [BatchNext]_batchVars => ScanInv'
<1> SUFFICES ASSUME ScanInv, [BatchNext]_batchVars PROVE ScanInv'
  OBVIOUS
<1>1. ASSUME NEW t \in Thread, Fill(t) PROVE ScanInv'
  BY <1>1, ScanFill
<1>2. ASSUME NEW t \in Thread, PassBy(t) PROVE ScanInv'
  BY <1>2, ScanPassBy
<1>3. ASSUME NEW t \in Thread, ReadLine(t) PROVE ScanInv'
  BY <1>3, ScanReadLine
<1>4. ASSUME NEW t \in Thread, EndFill(t) PROVE ScanInv'
  BY <1>4, ScanEndFill
<1>5. CASE BarrierAfterSingle
  BY <1>5, ScanBarrierAfterSingle
<1>6. ASSUME NEW t \in Thread, Test(t) PROVE ScanInv'
  BY <1>6, ScanTest
<1>7. ASSUME NEW t \in Thread, NEW i \in 1 .. BatchSize, Judge(t, i) PROVE ScanInv'
  BY <1>7, ScanJudge
<1>8. ASSUME NEW t \in Thread, EndLoop(t) PROVE ScanInv'
  BY <1>8, ScanEndLoop
<1>9. CASE BarrierAfterLoop
  BY <1>9, ScanBarrierAfterLoop
<1>10. CASE UNCHANGED batchVars
  BY <1>10 DEF batchVars, ScanInv, BatchTypeOK, PhaseInv, StartInv, BatchInv,
               JudgedInv, InLoop, From, BlankBatch
<1>11. QED
  BY <1>1, <1>2, <1>3, <1>4, <1>5, <1>6, <1>7, <1>8, <1>9, <1>10 DEF BatchNext

(* The types, the places of the threads, where a round begins, what the     *)
(* batch holds and how often each line was judged: inductive together.      *)
THEOREM ScanInvariant == BatchSpec => []ScanInv
BY ScanInit, ScanStep, PTL DEF BatchSpec

LEMMA InvNoReadWhileFilling == ScanInv => NoReadWhileFilling
<1> SUFFICES ASSUME ScanInv, NEW t \in Thread, pc[t] = "fill", NEW u \in Thread
             PROVE  pc[u] \in {"top", "fill", "filled"}
  BY DEF NoReadWhileFilling
<1>1. QED
  BY OneIsAll DEF ScanInv, Before

(* The barriers of queryFileBatchParallelOMP keep every thread from the     *)
(* batch and from `done` while one of them fills it, with any team.         *)
THEOREM NeverReadWhileFilling == BatchSpec => []NoReadWhileFilling
<1>1. ScanInv => NoReadWhileFilling
  BY InvNoReadWhileFilling
<1>2. QED
  BY <1>1, ScanInvariant, PTL

(* A line lies in a batch that was reached if no batch before its own, and  *)
(* not its own either, is blank throughout.                                 *)
LEMMA ReadIsReached ==
    ASSUME ScanInv, NEW l \in Line, l <= From
    PROVE  l \in Reached
<1> SUFFICES ASSUME NEW k \in 1 .. NumLines, k * BatchSize < l + BatchSize
             PROVE  ~BlankBatch(k)
  BY DEF Reached
<1> DEFINE j == k - 1
<1>1. j \in Nat /\ k = j + 1
  BY BatchAssumption
<1>2. k * BatchSize = j * BatchSize + BatchSize /\ j * BatchSize \in Nat
  BY <1>1, BatchesInOrder
<1>3. From \in Int /\ l \in Int /\ BatchSize \in Int
  BY BatchAssumption DEF ScanInv, BatchTypeOK, From, Line
<1>4. j * BatchSize < From
  BY <1>2, <1>3
<1>5. ~BlankBatch(j + 1)
  BY <1>1, <1>4 DEF ScanInv, StartInv
<1>6. QED
  BY <1>1, <1>5

LEMMA InvEachLineJudgedOnce == ScanInv => EachLineJudgedOnce
<1> SUFFICES ASSUME ScanInv, \A t \in Thread : pc[t] = "end", NEW l \in Line
             PROVE  judged[l] = IF l \in Reached \ blank THEN 1 ELSE 0
  BY DEF EachLineJudgedOnce
<1>1. PICK t \in Thread : pc[t] = "end"
  BY SomeThread
<1>2. /\ InLoop /\ claimed
      /\ read = BatchSize \/ position = NumLines
      /\ done <=> batch = <<>>
  BY <1>1, LoopIsFilled DEF Behind
<1>3. batch = <<>> /\ DOMAIN batch = {}
  BY <1>1, <1>2 DEF ScanInv, PhaseInv
<1>4. judged[l] = IF l \in blank THEN 0 ELSE IF l <= From THEN 1 ELSE 0
  BY <1>2, <1>3 DEF ScanInv, JudgedInv
<1>5. CASE l \in blank
  BY <1>4, <1>5
<1>6. CASE l \notin blank /\ l <= From
  BY <1>4, <1>6, ReadIsReached
<1>7. CASE l \notin blank /\ ~(l <= From)
  <2>1. /\ From \in Nat /\ position \in Nat /\ l \in Nat /\ l <= NumLines
        /\ BatchSize \in Nat /\ NumLines \in Nat
        /\ From = position - read /\ read <= BatchSize /\ read \in Nat
        /\ position <= NumLines
    BY <1>2, BatchAssumption DEF ScanInv, BatchTypeOK, From, Line
  <2>2. ~(l <= position)
    BY <1>2, <1>3, <1>7, <2>1 DEF ScanInv, BatchInv
  <2>3. read = BatchSize /\ From # NumLines
    BY <1>2, <1>7, <2>1, <2>2
  <2>4. PICK k \in Nat : From = k * BatchSize
    BY <2>3 DEF ScanInv, StartInv
  <2>5. position = (k + 1) * BatchSize /\ k + 1 <= (k + 1) * BatchSize
    <3>1. (k + 1) * BatchSize = k * BatchSize + BatchSize
      BY BatchesInOrder
    <3>2. k + 1 \in Nat /\ k + 1 <= (k + 1) * BatchSize
      BY BatchesInOrder
    <3>3. QED
      BY <2>1, <2>3, <2>4, <3>1, <3>2, BatchesInOrder
  <2>6. k + 1 \in 1 .. NumLines
    BY <2>1, <2>2, <2>5
  <2>7. BlankBatch(k + 1)
    <3> SUFFICES ASSUME NEW m \in Line, (k + 1 - 1) * BatchSize < m,
                        m <= (k + 1) * BatchSize
                 PROVE  m \in blank
      BY DEF BlankBatch
    <3>1. k + 1 - 1 = k
      OBVIOUS
    <3>2. From < m /\ m <= position
      BY <2>4, <2>5, <3>1
    <3>3. QED
      BY <1>2, <1>3, <3>2 DEF ScanInv, BatchInv
  <2>8. (k + 1) * BatchSize < l + BatchSize
    BY <2>1, <2>2, <2>5, BatchAssumption
  <2>9. l \notin Reached
    BY <2>6, <2>7, <2>8 DEF Reached
  <2>10. QED
    BY <1>4, <1>7, <2>9
<1>8. QED
  BY <1>5, <1>6, <1>7

(* queryFileBatchParallelOMP judges the lines that the serial scan judges,  *)
(* every one once, up to the first batch that is blank throughout, for any  *)
(* team, batch size and file.                                               *)
THEOREM EachLineJudgedOnceAlways == BatchSpec => []EachLineJudgedOnce
<1>1. ScanInv => EachLineJudgedOnce
  BY InvEachLineJudgedOnce
<1>2. QED
  BY <1>1, ScanInvariant, PTL

-----------------------------------------------------------------------------
(* In a run the query starts from its initial state when the store is       *)
(* there, and no step of the run moves both algorithms.                     *)
RunInv ==
    /\ FillInv
    /\ ScanInv
    /\ stage = "ingest" => Init

LEMMA RunInitInv == RunInit => RunInv
BY InitFillInv, ScanInit DEF RunInit, RunInv

(* A step of a run is one of the query, or begins it and touches no place   *)
(* of a result; and it is one of the batch scan or none.                    *)
LEMMA RunStep ==
    ASSUME RunInv, [RunNext]_runVars
    PROVE  /\ [Next]_vars \/ (Init' /\ DOMAIN out = {} /\ stage' = "query")
           /\ [BatchNext]_batchVars
           /\ stage' = "ingest" => stage = "ingest" /\ UNCHANGED vars
<1>1. CASE Ingest
  BY <1>1 DEF Ingest
<1>2. CASE BeginQuery
  <2>1. Init
    BY <1>2 DEF RunInv, BeginQuery
  <2>2. Init' /\ DOMAIN out = {} /\ stage' = "query"
    BY <1>2, <2>1 DEF BeginQuery, Init, countVars, sumVars, fillVars
  <2>3. UNCHANGED batchVars
    BY <1>2 DEF BeginQuery
  <2>4. QED
    BY <2>2, <2>3
<1>3. CASE Query
  BY <1>3 DEF Query
<1>4. CASE BatchQuery
  BY <1>4 DEF BatchQuery
<1>5. CASE UNCHANGED runVars
  BY <1>5 DEF runVars
<1>6. QED
  BY <1>1, <1>2, <1>3, <1>4, <1>5 DEF RunNext

LEMMA RunNextInv == RunInv /\ [RunNext]_runVars => RunInv'
<1>1. Init' => FillInv'
  BY InitFillInv, PTL
<1>2. ASSUME RunInv, [RunNext]_runVars PROVE RunInv'
  <2>1. FillInv'
    BY <1>1, <1>2, RunStep, NextKeepsFillInv DEF RunInv
  <2>2. ScanInv'
    BY <1>2, RunStep, ScanStep DEF RunInv
  <2>3. stage' = "ingest" => Init'
    <3>1. Init /\ UNCHANGED vars => Init'
      BY DEF Init, vars, inputVars, countVars, sumVars, fillVars
    <3>2. QED
      BY <1>2, <3>1, RunStep DEF RunInv
  <2>4. QED
    BY <2>1, <2>2, <2>3 DEF RunInv
<1>3. QED
  BY <1>2

(* What is proved of the two-pass query and of the batch scan holds of them *)
(* in every run of a program, whatever its ingest does before the query.    *)
THEOREM RunKeepsItsParts ==
    RunSpec => /\ []ResultIsSerial /\ []WritesStayInside /\ NoPlaceWrittenTwice
               /\ []NoReadWhileFilling /\ []EachLineJudgedOnce
<1>1. RunSpec => []RunInv
  BY RunInitInv, RunNextInv, PTL DEF RunSpec
<1>2. RunInv => /\ ResultIsSerial /\ WritesStayInside
                /\ NoReadWhileFilling /\ EachLineJudgedOnce
  BY InvResultIsSerial, InvWritesStayInside, InvNoReadWhileFilling,
     InvEachLineJudgedOnce DEF RunInv
<1>3. RunInv /\ [RunNext]_runVars
        => [\A p \in DOMAIN out : out[p] # Unwritten => out'[p] = out[p]]_vars
  <2> SUFFICES ASSUME RunInv, [RunNext]_runVars, NEW p \in DOMAIN out,
                      out[p] # Unwritten
               PROVE  out'[p] = out[p]
    OBVIOUS
  <2>1. QED
    BY RunStep, PlacesKept DEF RunInv
<1>4. QED
  BY <1>1, <1>2, <1>3, PTL DEF RunSpec, NoPlaceWrittenTwice
-----------------------------------------------------------------------------
\* The files shared out to a team.
Flag == {"Y", "N", "", NoFlag} \cup Memory

Counts == [read : Nat, failed : Nat, matched : Nat]

\* What a file is read into: the flag of the record, the records, the counts.
Reading == [flag : Flag, records : Seq(Flag), count : Counts]

Unread(found) == [flag |-> found, records |-> <<>>, count |-> NoCount]

AfterRow(st, row) ==
    [flag |-> FlagAfter(st.flag, row),
     records |-> IF Kept(row) THEN Append(st.records, FlagAfter(st.flag, row))
                 ELSE st.records,
     count |-> Plus(st.count, CountOf(row))]

LEMMA CountsAdd ==
    /\ NoCount \in Counts
    /\ \A c, d \in Counts : Plus(c, d) \in Counts
    /\ \A row : CountOf(row) \in Counts
<1>1. NoCount \in Counts
  BY DEF NoCount, Counts
<1>2. ASSUME NEW c \in Counts, NEW d \in Counts PROVE Plus(c, d) \in Counts
  <2>1. /\ c.read \in Nat /\ c.failed \in Nat /\ c.matched \in Nat
        /\ d.read \in Nat /\ d.failed \in Nat /\ d.matched \in Nat
    BY DEF Counts
  <2>2. c.read + d.read \in Nat /\ c.failed + d.failed \in Nat /\ c.matched + d.matched \in Nat
    BY <2>1
  <2>3. QED
    BY <2>2 DEF Plus, Counts
<1>3. \A row : CountOf(row) \in Counts
  BY DEF CountOf, Counts
<1>4. QED
  BY <1>1, <1>2, <1>3

LEMMA RowIsRead ==
    ASSUME NEW st \in Reading, NEW row \in InputRow
    PROVE  AfterRow(st, row) \in Reading
<1>1. st.flag \in Flag /\ st.records \in Seq(Flag) /\ st.count \in Counts
  BY DEF Reading
<1>2. FlagAfter(st.flag, row) \in Flag
  BY <1>1 DEF FlagAfter, InputRow, Flag
<1>3. Append(st.records, FlagAfter(st.flag, row)) \in Seq(Flag)
  BY <1>1, <1>2, AppendProperties
<1>4. Plus(st.count, CountOf(row)) \in Counts
  BY <1>1, CountsAdd
<1>5. QED
  BY <1>1, <1>2, <1>3, <1>4 DEF AfterRow, Reading

SerialStep(f) ==
    [x \in Reading \X (1 .. Len(f.rows)) |-> AfterRow(x[1], f.rows[x[2]])]

IsSerialFold(it, f, found) ==
    /\ it \in [SUBSET (1 .. Len(f.rows)) -> Reading]
    /\ Folds(it, SerialStep(f), Unread(found), FromLeft(Len(f.rows)), 1 .. Len(f.rows))
    /\ SerialFile(f, found) = it[1 .. Len(f.rows)]

\* What the serial run makes of the rows of a file.
SerialFold(f, found) == CHOOSE it : IsSerialFold(it, f, found)

LEMMA SerialFoldExists ==
    ASSUME NEW f \in InputFile, f.opens, NEW found \in Memory
    PROVE  IsSerialFold(SerialFold(f, found), f, found)
<1> DEFINE n == Len(f.rows)
           Raw(g) == [s \in SUBSET DOMAIN f.rows |->
                         IF s = {} THEN Unread(found)
                         ELSE AfterRow(g[s \ {Max(s)}], f.rows[Max(s)])]
<1>1. f.rows \in Seq(InputRow) /\ n \in Nat /\ DOMAIN f.rows = 1 .. n
  BY DEF InputFile
<1>2. SerialFile(f, found) = (CHOOSE g : g = Raw(g))[DOMAIN f.rows]
  BY Zenon DEF SerialFile, FoldLeft, MapThenFoldSet, Unread, AfterRow
<1>3. SerialStep(f) \in [Reading \X (1 .. n) -> Reading] /\ Unread(found) \in Reading
  <2>1. \A st \in Reading, i \in 1 .. n : AfterRow(st, f.rows[i]) \in Reading
    BY <1>1, ElementOfSequence, RowIsRead
  <2>2. Unread(found) \in Reading
    <3>1. found \in Flag
      BY DEF Flag
    <3>2. NoCount \in Counts
      BY CountsAdd
    <3>3. QED
      BY <3>1, <3>2 DEF Unread, Reading
  <2>3. QED
    BY <2>1, <2>2 DEF SerialStep
<1>4. PICK it \in [SUBSET (1 .. n) -> Reading] :
          Folds(it, SerialStep(f), Unread(found), FromLeft(n), 1 .. n)
  BY <1>1, <1>3, LeftTakes, FoldExists
<1>5. ASSUME NEW s \in SUBSET (1 .. n), s # {}
      PROVE  /\ Max(s) \in 1 .. n /\ FromLeft(n)[s] = Max(s)
             /\ it[s] = AfterRow(it[s \ {Max(s)}], f.rows[Max(s)])
  <2>1. Max(s) \in 1 .. n /\ FromLeft(n)[s] = Max(s)
    BY <1>1, <1>5, LastPlace DEF FromLeft
  <2>2. it[s \ {Max(s)}] \in Reading
    BY <2>1
  <2>3. it[s] = SerialStep(f)[<<it[s \ {Max(s)}], Max(s)>>]
    BY <1>4, <1>5, <2>1 DEF Folds
  <2>4. QED
    BY <2>1, <2>2, <2>3 DEF SerialStep
<1>6. it = Raw(it)
  <2>1. it[{}] = Unread(found)
    BY <1>4 DEF Folds
  <2>2. \A s \in SUBSET (1 .. n) : it[s] = Raw(it)[s]
    BY <1>1, <1>5, <2>1
  <2>3. QED
    BY <1>1, <2>2
<1> DEFINE jt == CHOOSE g : g = Raw(g)
<1>7. jt = Raw(jt)
  <2> HIDE DEF Raw
  <2>1. QED
    BY <1>6
<1> HIDE DEF jt
<1>8. \A s \in SUBSET (1 .. n) : jt[s] = it[s]
  <2> DEFINE S == 1 .. n
             c == FromLeft(n)
             G == {s \in SUBSET S : jt[s] = it[s]}
  <2>1. IsFiniteSet(S) /\ Takes(c, S)
    BY <1>1, LeftTakes
  <2>2. {} \in G
    BY <1>1, <1>4, <1>7 DEF Folds
  <2>3. ASSUME NEW s \in SUBSET S, s # {}, s \ {c[s]} \in G
        PROVE  s \in G
    <3>1. c[s] = Max(s) /\ it[s] = AfterRow(it[s \ {Max(s)}], f.rows[Max(s)])
      BY <1>5, <2>3
    <3>2. jt[s] = Raw(jt)[s]
      BY <1>7
    <3>3. jt[s] = AfterRow(jt[s \ {Max(s)}], f.rows[Max(s)])
      BY <1>1, <2>3, <3>2
    <3>4. QED
      BY <2>3, <3>1, <3>3
  <2>4. \A s \in SUBSET S : s # {} /\ s \ {c[s]} \in G => s \in G
    BY <2>3
  <2>5. \A s \in SUBSET S : s \in G
    <3> HIDE DEF S, c, G
    <3>1. QED
      BY <2>1, <2>2, <2>4, SubsetsOneByOne
  <2>6. QED
    BY <2>5
<1>9. SerialFile(f, found) = it[1 .. n]
  BY <1>1, <1>2, <1>8 DEF jt
<1>10. IsSerialFold(it, f, found)
  BY <1>4, <1>9 DEF IsSerialFold
<1>11. QED
  BY <1>10 DEF SerialFold

\* How far the serial run is with file k after j of its rows.
SerialState(k, j) ==
    IF files[k].opens THEN SerialFold(files[k], fresh[k])[1 .. j] ELSE Unread(fresh[k])

LEMMA SerialStart ==
    ASSUME files \in Seq(InputFile), fresh \in [DOMAIN files -> Memory],
           NEW k \in DOMAIN files
    PROVE  SerialState(k, 0) = Unread(fresh[k])
<1>1. files[k] \in InputFile /\ fresh[k] \in Memory
  BY ElementOfSequence
<1>2. 1 .. 0 = {}
  OBVIOUS
<1>3. QED
  <2>1. CASE files[k].opens
    <3> DEFINE it == SerialFold(files[k], fresh[k])
    <3>1. it[{}] = Unread(fresh[k])
      BY <1>1, <2>1, SerialFoldExists DEF IsSerialFold, Folds
    <3>2. QED
      BY <1>2, <2>1, <3>1 DEF SerialState
  <2>2. CASE ~files[k].opens
    BY <2>2 DEF SerialState
  <2>3. QED
    BY <2>1, <2>2

LEMMA SerialRow ==
    ASSUME files \in Seq(InputFile), fresh \in [DOMAIN files -> Memory],
           NEW k \in DOMAIN files, files[k].opens,
           NEW j \in Nat, j + 1 <= Len(files[k].rows)
    PROVE  /\ SerialState(k, j) \in Reading
           /\ SerialState(k, j + 1) = AfterRow(SerialState(k, j), files[k].rows[j + 1])
<1> DEFINE f == files[k]
           n == Len(f.rows)
           found == fresh[k]
           it == SerialFold(f, found)
<1>1. f \in InputFile /\ found \in Memory
  BY ElementOfSequence
<1>2. n \in Nat /\ j + 1 <= n
  BY <1>1 DEF InputFile
<1>3. /\ it \in [SUBSET (1 .. n) -> Reading]
      /\ Folds(it, SerialStep(f), Unread(found), FromLeft(n), 1 .. n)
  BY <1>1, SerialFoldExists DEF IsSerialFold
<1>4. /\ 1 .. j \in SUBSET (1 .. n) /\ 1 .. j + 1 \in SUBSET (1 .. n)
      /\ 1 .. j + 1 # {} /\ j + 1 \in 1 .. n
  <2> HIDE DEF n
  <2>1. j + 1 \in 1 .. n /\ j + 1 \in 1 .. j + 1
    BY <1>2
  <2>2. /\ \A i \in 1 .. j : i \in 1 .. n
        /\ \A i \in 1 .. j + 1 : i \in 1 .. n
    BY <1>2
  <2>3. QED
    BY <2>1, <2>2, Zenon
<1>5. FromLeft(n)[1 .. j + 1] = j + 1 /\ (1 .. j + 1) \ {j + 1} = 1 .. j
  BY <1>4, LastOfAll DEF FromLeft
<1>6. it[1 .. j] \in Reading
  <2> HIDE DEF it
  <2>1. QED
    BY <1>3, <1>4
<1>7. it[1 .. j + 1] = SerialStep(f)[<<it[1 .. j], j + 1>>]
  BY <1>3, <1>4, <1>5 DEF Folds
<1>8. it[1 .. j + 1] = AfterRow(it[1 .. j], f.rows[j + 1])
  <2> HIDE DEF it, f
  <2>1. QED
    BY <1>4, <1>6, <1>7 DEF SerialStep
<1>9. QED
  BY <1>6, <1>8 DEF SerialState

LEMMA SerialEnd ==
    ASSUME files \in Seq(InputFile), fresh \in [DOMAIN files -> Memory],
           NEW k \in DOMAIN files, NEW j \in Nat,
           files[k].opens => j = Len(files[k].rows)
    PROVE  SerialState(k, j) = SerialFile(files[k], fresh[k])
<1>1. files[k] \in InputFile /\ fresh[k] \in Memory
  BY ElementOfSequence
<1>2. CASE files[k].opens
  BY <1>1, <1>2, SerialFoldExists DEF SerialState, IsSerialFold
<1>3. CASE ~files[k].opens
  BY <1>3 DEF SerialState, SerialFile, Unread
<1>4. QED
  BY <1>2, <1>3

LEMMA SerialStays ==
    ASSUME UNCHANGED <<engine, files, fresh>>
    PROVE  /\ \A k, j : SerialState(k, j)' = SerialState(k, j)
           /\ \A f, m : SerialFile(f, m)' = SerialFile(f, m)
<1>1. engine' = engine /\ files' = files /\ fresh' = fresh
  OBVIOUS
<1>2. ASSUME NEW f, NEW m PROVE SerialFile(f, m)' = SerialFile(f, m)
  BY <1>1 DEF SerialFile, FoldLeft, MapThenFoldSet, Kept, CountOf
<1>3. ASSUME NEW f PROVE SerialStep(f)' = SerialStep(f)
  BY <1>1, Zenon DEF SerialStep, AfterRow, Kept, CountOf
<1>4. ASSUME NEW f, NEW m PROVE SerialFold(f, m)' = SerialFold(f, m)
  BY <1>2, <1>3, Zenon DEF SerialFold, IsSerialFold
<1>5. ASSUME NEW k, NEW j PROVE SerialState(k, j)' = SerialState(k, j)
  BY <1>1, <1>4, Zenon DEF SerialState
<1>6. QED
  BY <1>2, <1>5

-----------------------------------------------------------------------------
\* Sums of counts: adding them one at a time, those of the places of a
\* sequence and those of any finite set.
Adding(g, D) == [x \in Counts \X D |-> Plus(x[1], g[x[2]])]

AnyOf(D) == [s \in SUBSET D |-> CHOOSE x \in s : TRUE]

LEMMA AnyTakes == \A D : Takes(AnyOf(D), D)
  BY DEF Takes, AnyOf

LEMMA PlusFacts ==
    ASSUME NEW c \in Counts, NEW d \in Counts, NEW e \in Counts
    PROVE  /\ Plus(c, d) = Plus(d, c) /\ Plus(NoCount, NoCount) = NoCount
           /\ Plus(c, Plus(d, e)) = Plus(Plus(c, d), e)
           /\ Plus(Plus(c, e), d) = Plus(Plus(c, d), e)
<1>1. /\ c.read \in Nat /\ c.failed \in Nat /\ c.matched \in Nat
      /\ d.read \in Nat /\ d.failed \in Nat /\ d.matched \in Nat
      /\ e.read \in Nat /\ e.failed \in Nat /\ e.matched \in Nat
  BY DEF Counts
<1>2. QED
  BY <1>1 DEF Plus, NoCount

\* The sum of g over D, added up by an iteration along c.
IsTotal(sum, g, c, D) ==
    \E it \in [SUBSET D -> Counts] :
        Folds(it, Adding(g, D), NoCount, c, D) /\ sum = it[D]

LEMMA SumIsTotal ==
    ASSUME NEW n \in Nat, NEW g \in [1 .. n -> Counts]
    PROVE  IsTotal(Sum(g), g, FromLeft(n), 1 .. n)
<1> DEFINE D == 1 .. n
           c == FromLeft(n)
           Raw(f) == [s \in SUBSET DOMAIN g |->
                         IF s = {} THEN NoCount
                         ELSE Plus(f[s \ {Max(s)}], g[Max(s)])]
<1>1. Sum(g) = (CHOOSE f : f = Raw(f))[DOMAIN g] /\ DOMAIN g = D
  BY Zenon DEF Sum, FoldLeft, MapThenFoldSet
<1>2. Adding(g, D) \in [Counts \X D -> Counts] /\ NoCount \in Counts
  BY CountsAdd DEF Adding
<1>3. IsFiniteSet(D) /\ Takes(c, D)
  BY LeftTakes
<1>4. PICK it \in [SUBSET D -> Counts] : Folds(it, Adding(g, D), NoCount, c, D)
  <2> HIDE DEF c, D
  <2>1. QED
    BY <1>2, <1>3, FoldExists
<1>5. ASSUME NEW s \in SUBSET D, s # {}
      PROVE  c[s] = Max(s) /\ it[s] = Plus(it[s \ {Max(s)}], g[Max(s)])
  <2>1. Max(s) \in D /\ c[s] = Max(s)
    BY <1>5, LastPlace DEF FromLeft
  <2>2. it[s \ {Max(s)}] \in Counts
    BY <2>1
  <2>3. it[s] = Adding(g, D)[<<it[s \ {Max(s)}], Max(s)>>]
    BY <1>4, <1>5, <2>1 DEF Folds
  <2>4. QED
    BY <2>1, <2>2, <2>3 DEF Adding
<1>6. it = Raw(it)
  <2>1. \A s \in SUBSET D : it[s] = Raw(it)[s]
    BY <1>4, <1>5 DEF Folds
  <2>2. QED
    BY <2>1
<1> DEFINE jt == CHOOSE f : f = Raw(f)
<1>7. jt = Raw(jt)
  <2> HIDE DEF Raw
  <2>1. QED
    BY <1>6
<1> HIDE DEF jt
<1>8. \A s \in SUBSET D : jt[s] = it[s]
  <2> DEFINE G == {s \in SUBSET D : jt[s] = it[s]}
  <2>1. {} \in G
    BY <1>4, <1>7 DEF Folds
  <2>2. ASSUME NEW s \in SUBSET D, s # {}, s \ {c[s]} \in G
        PROVE  s \in G
    <3>1. jt[s] = Raw(jt)[s]
      BY <1>7
    <3>2. jt[s] = Plus(jt[s \ {Max(s)}], g[Max(s)])
      BY <2>2, <3>1
    <3>3. QED
      BY <1>5, <2>2, <3>2
  <2>3. \A s \in SUBSET D : s # {} /\ s \ {c[s]} \in G => s \in G
    BY <2>2
  <2>4. \A s \in SUBSET D : s \in G
    <3> HIDE DEF D, c, G
    <3>1. QED
      BY <1>3, <2>1, <2>3, SubsetsOneByOne
  <2>5. QED
    BY <2>4
<1>9. Sum(g) = it[D]
  BY <1>1, <1>8 DEF jt
<1>10. QED
  BY <1>4, <1>9 DEF IsTotal

LEMMA PartsAreTotal ==
    ASSUME NEW D, IsFiniteSet(D), NEW g \in [D -> Counts]
    PROVE  IsTotal(FoldFunction(Plus, NoCount, g), g, AnyOf(D), D)
<1> DEFINE c == AnyOf(D)
           One(s) == CHOOSE x \in s : TRUE
           Raw(f) == [s \in SUBSET D |->
                         IF s = {} THEN NoCount
                         ELSE Plus(g[One(s)], f[s \ {One(s)}])]
<1>1. FoldFunction(Plus, NoCount, g) = (CHOOSE f : f = Raw(f))[D]
  <2>1. DOMAIN g = D
    OBVIOUS
  <2>2. QED
    BY <2>1, Zenon DEF FoldFunction, FoldFunctionOnSet, MapThenFoldSet
<1>2. Adding(g, D) \in [Counts \X D -> Counts] /\ NoCount \in Counts
  BY CountsAdd DEF Adding
<1>3. Takes(c, D)
  BY AnyTakes
<1>4. PICK it \in [SUBSET D -> Counts] : Folds(it, Adding(g, D), NoCount, c, D)
  BY <1>2, <1>3, FoldExists
<1>5. ASSUME NEW s \in SUBSET D, s # {}
      PROVE  c[s] = One(s) /\ it[s] = Plus(g[One(s)], it[s \ {One(s)}])
  <2>1. One(s) \in s /\ One(s) \in D /\ c[s] = One(s)
    BY <1>5 DEF AnyOf
  <2> HIDE DEF One
  <2>2. it[s \ {One(s)}] \in Counts /\ g[One(s)] \in Counts
    BY <2>1
  <2>3. it[s] = Adding(g, D)[<<it[s \ {One(s)}], One(s)>>]
    BY <1>4, <1>5, <2>1 DEF Folds
  <2>4. it[s] = Plus(it[s \ {One(s)}], g[One(s)])
    BY <2>1, <2>2, <2>3 DEF Adding
  <2>5. QED
    BY <2>1, <2>2, <2>4, PlusFacts
<1> HIDE DEF One
<1>6. it = Raw(it)
  <2>1. \A s \in SUBSET D : it[s] = Raw(it)[s]
    BY <1>4, <1>5 DEF Folds
  <2>2. QED
    BY <2>1
<1> DEFINE jt == CHOOSE f : f = Raw(f)
<1>7. jt = Raw(jt)
  <2> HIDE DEF Raw
  <2>1. QED
    BY <1>6
<1> HIDE DEF jt
<1>8. \A s \in SUBSET D : jt[s] = it[s]
  <2> DEFINE G == {s \in SUBSET D : jt[s] = it[s]}
  <2>1. {} \in G
    BY <1>4, <1>7 DEF Folds
  <2>2. ASSUME NEW s \in SUBSET D, s # {}, s \ {c[s]} \in G
        PROVE  s \in G
    <3>1. jt[s] = Raw(jt)[s]
      BY <1>7
    <3>2. jt[s] = Plus(g[One(s)], jt[s \ {One(s)}])
      BY <2>2, <3>1
    <3>3. QED
      BY <1>5, <2>2, <3>2
  <2>3. \A s \in SUBSET D : s # {} /\ s \ {c[s]} \in G => s \in G
    BY <2>2
  <2>4. \A s \in SUBSET D : s \in G
    <3> HIDE DEF c, G
    <3>1. QED
      BY <1>3, <2>1, <2>3, SubsetsOneByOne
  <2>5. QED
    BY <2>4
<1>9. FoldFunction(Plus, NoCount, g) = it[D]
  BY <1>1, <1>8 DEF jt
<1>10. QED
  BY <1>4, <1>9 DEF IsTotal

\* Counts added at one place are added to the sum.
LEMMA TotalRaised ==
    ASSUME NEW D, IsFiniteSet(D), NEW c, Takes(c, D),
           NEW g \in [D -> Counts], NEW x \in D, NEW d \in Counts,
           NEW sum, IsTotal(sum, g, c, D),
           NEW raised, IsTotal(raised, [g EXCEPT ![x] = Plus(g[x], d)], c, D)
    PROVE  raised = Plus(sum, d) /\ sum \in Counts
<1> DEFINE h == [g EXCEPT ![x] = Plus(g[x], d)]
<1>1. h \in [D -> Counts] /\ h[x] = Plus(g[x], d) /\ \A y \in D : y # x => h[y] = g[y]
  BY CountsAdd
<1> HIDE DEF h
<1>2. PICK it \in [SUBSET D -> Counts] :
          Folds(it, Adding(g, D), NoCount, c, D) /\ sum = it[D]
  BY DEF IsTotal
<1>3. PICK jt \in [SUBSET D -> Counts] :
          Folds(jt, Adding(h, D), NoCount, c, D) /\ raised = jt[D]
  BY DEF IsTotal, h
<1> DEFINE G == {s \in SUBSET D : jt[s] = IF x \in s THEN Plus(it[s], d) ELSE it[s]}
<1>4. {} \in G
  BY <1>2, <1>3 DEF Folds
<1>5. ASSUME NEW s \in SUBSET D, s # {}, s \ {c[s]} \in G
      PROVE  s \in G
  <2> DEFINE y == c[s]
             r == s \ {y}
  <2>1. y \in s /\ y \in D /\ r \in SUBSET D
    BY <1>5 DEF Takes
  <2>2. it[r] \in Counts /\ jt[r] \in Counts /\ g[y] \in Counts /\ h[y] \in Counts
    <3> HIDE DEF y, r
    <3>1. QED
      BY <1>1, <2>1
  <2>3. it[s] = Plus(it[r], g[y]) /\ jt[s] = Plus(jt[r], h[y])
    <3>1. it[s] = Adding(g, D)[<<it[r], y>>] /\ jt[s] = Adding(h, D)[<<jt[r], y>>]
      BY <1>2, <1>3, <1>5 DEF Folds
    <3> HIDE DEF y, r
    <3>2. QED
      BY <2>1, <2>2, <3>1 DEF Adding
  <2>4. jt[r] = IF x \in r THEN Plus(it[r], d) ELSE it[r]
    BY <1>5
  <2>5. CASE y = x
    <3>1. jt[r] = it[r] /\ x \in s
      BY <2>1, <2>4, <2>5
    <3>2. jt[s] = Plus(it[r], Plus(g[y], d))
      BY <1>1, <2>3, <2>5, <3>1
    <3>3. jt[s] = Plus(it[s], d)
      <4> HIDE DEF y, r
      <4>1. QED
        BY <2>2, <2>3, <3>2, PlusFacts
    <3>4. QED
      BY <3>1, <3>3
  <2>6. CASE y # x /\ x \in s
    <3>1. jt[s] = Plus(Plus(it[r], d), g[y])
      BY <1>1, <2>1, <2>3, <2>4, <2>6
    <3>2. jt[s] = Plus(it[s], d)
      <4> HIDE DEF y, r
      <4>1. QED
        BY <2>2, <2>3, <3>1, PlusFacts
    <3>3. QED
      BY <2>6, <3>2
  <2>7. CASE x \notin s
    BY <1>1, <2>1, <2>3, <2>4, <2>7
  <2>8. QED
    BY <2>5, <2>6, <2>7
<1>6. \A s \in SUBSET D : s \in G
  <2>1. \A s \in SUBSET D : s # {} /\ s \ {c[s]} \in G => s \in G
    BY <1>5
  <2> HIDE DEF G
  <2>2. QED
    BY <1>4, <2>1, SubsetsOneByOne
<1>7. QED
  BY <1>2, <1>3, <1>6

LEMMA TotalOfNone ==
    ASSUME NEW D, IsFiniteSet(D), NEW c, Takes(c, D),
           NEW sum, IsTotal(sum, [x \in D |-> NoCount], c, D)
    PROVE  sum = NoCount
<1> DEFINE g == [x \in D |-> NoCount]
<1>1. PICK it \in [SUBSET D -> Counts] :
          Folds(it, Adding(g, D), NoCount, c, D) /\ sum = it[D]
  BY DEF IsTotal
<1> DEFINE G == {s \in SUBSET D : it[s] = NoCount}
<1>2. {} \in G
  BY <1>1 DEF Folds
<1>3. ASSUME NEW s \in SUBSET D, s # {}, s \ {c[s]} \in G
      PROVE  s \in G
  <2>1. c[s] \in D /\ NoCount \in Counts
    BY <1>3, CountsAdd DEF Takes
  <2>2. it[s] = Adding(g, D)[<<NoCount, c[s]>>]
    BY <1>1, <1>3 DEF Folds
  <2>3. it[s] = Plus(NoCount, NoCount)
    BY <2>1, <2>2 DEF Adding
  <2>4. QED
    BY <2>1, <2>3, PlusFacts
<1>4. \A s \in SUBSET D : s \in G
  <2>1. \A s \in SUBSET D : s # {} /\ s \ {c[s]} \in G => s \in G
    BY <1>3
  <2> HIDE DEF G
  <2>2. QED
    BY <1>2, <2>1, SubsetsOneByOne
<1>5. QED
  BY <1>1, <1>4

LEMMA SumRaised ==
    ASSUME NEW n \in Nat, NEW g \in [1 .. n -> Counts], NEW x \in 1 .. n, NEW d \in Counts
    PROVE  /\ Sum([g EXCEPT ![x] = Plus(g[x], d)]) = Plus(Sum(g), d)
           /\ Sum(g) \in Counts
<1> DEFINE h == [g EXCEPT ![x] = Plus(g[x], d)]
           D == 1 .. n
<1>1. h \in [1 .. n -> Counts]
  BY CountsAdd
<1>2. IsTotal(Sum(g), g, FromLeft(n), D) /\ IsTotal(Sum(h), h, FromLeft(n), D)
  <2> HIDE DEF h
  <2>1. QED
    BY <1>1, SumIsTotal
<1>3. IsFiniteSet(D) /\ Takes(FromLeft(n), D) /\ g \in [D -> Counts] /\ x \in D
  BY LeftTakes
<1> HIDE DEF D
<1>4. QED
  BY <1>2, <1>3, TotalRaised

LEMMA PartsRaised ==
    ASSUME NEW D, IsFiniteSet(D), NEW g \in [D -> Counts], NEW x \in D, NEW d \in Counts
    PROVE  FoldFunction(Plus, NoCount, [g EXCEPT ![x] = Plus(g[x], d)]) =
               Plus(FoldFunction(Plus, NoCount, g), d)
<1> DEFINE h == [g EXCEPT ![x] = Plus(g[x], d)]
           sum == FoldFunction(Plus, NoCount, g)
           raised == FoldFunction(Plus, NoCount, h)
<1>1. h \in [D -> Counts]
  BY CountsAdd
<1>2. IsTotal(sum, g, AnyOf(D), D)
  BY PartsAreTotal
<1>3. IsTotal(raised, h, AnyOf(D), D)
  <2> HIDE DEF h
  <2>1. QED
    BY <1>1, PartsAreTotal
<1> HIDE DEF sum, raised
<1>4. raised = Plus(sum, d) /\ sum \in Counts
  <2> DEFINE c == AnyOf(D)
  <2>1. Takes(c, D) /\ IsTotal(sum, g, c, D)
    BY <1>2, AnyTakes
  <2>2. IsTotal(raised, [g EXCEPT ![x] = Plus(g[x], d)], c, D)
    BY <1>3
  <2> HIDE DEF c
  <2>3. QED
    BY <2>1, <2>2, TotalRaised
<1>5. QED
  BY <1>4 DEF sum, raised

LEMMA SumOfNone ==
    ASSUME NEW n \in Nat
    PROVE  Sum([k \in 1 .. n |-> NoCount]) = NoCount
<1> DEFINE D == 1 .. n
           c == FromLeft(n)
           g == [k \in D |-> NoCount]
           sum == Sum(g)
<1>1. g \in [D -> Counts]
  BY CountsAdd
<1>2. IsTotal(sum, g, c, D)
  <2> HIDE DEF g
  <2>1. QED
    BY <1>1, SumIsTotal
<1>3. IsFiniteSet(D) /\ Takes(c, D)
  BY LeftTakes
<1>4. sum = NoCount
  <2> HIDE DEF D, c, sum
  <2>1. QED
    BY <1>2, <1>3, TotalOfNone
<1>5. QED
  BY <1>4

LEMMA PartsOfNone ==
    ASSUME NEW D, IsFiniteSet(D)
    PROVE  FoldFunction(Plus, NoCount, [x \in D |-> NoCount]) = NoCount
<1> DEFINE g == [x \in D |-> NoCount]
           sum == FoldFunction(Plus, NoCount, g)
<1>1. g \in [D -> Counts]
  BY CountsAdd
<1>2. IsTotal(sum, g, AnyOf(D), D)
  <2> HIDE DEF g
  <2>1. QED
    BY <1>1, PartsAreTotal
<1> HIDE DEF sum
<1>3. sum = NoCount
  BY <1>2, AnyTakes, TotalOfNone
<1>4. QED
  BY <1>3 DEF sum

-----------------------------------------------------------------------------
\* The invariant of the team.
TeamTypeOK ==
    /\ engine \in Engines /\ files \in Seq(InputFile)
    /\ fresh \in [1 .. Len(files) -> Memory]
    /\ nextFile \in 1 .. Len(files) + 1
    /\ inHand \in [Team -> 0 .. Len(files)]
    /\ nextRow \in [Team -> Nat \ {0}]
    /\ rec \in [Team -> Flag]
    /\ perFile \in [1 .. Len(files) -> Seq(Flag)]
    /\ perStats \in [1 .. Len(files) -> Counts]
    /\ part \in [Team -> Counts]
    /\ joined \in BOOLEAN

OneThreadPerFile ==
    /\ \A t \in Team : inHand[t] < nextFile
    /\ \A t, u \in Team : inHand[t] = inHand[u] /\ inHand[t] # 0 => t = u

\* What a file has come to.
FileIs(k, reading) == perFile[k] = reading.records /\ perStats[k] = reading.count

\* A thread is with its file where the serial run is after as many rows.
InHandAsSerial ==
    \A t \in Team : inHand[t] # 0 =>
        /\ files[inHand[t]].opens => nextRow[t] - 1 <= Len(files[inHand[t]].rows)
        /\ ~files[inHand[t]].opens => nextRow[t] = 1
        /\ rec[t] = SerialState(inHand[t], nextRow[t] - 1).flag
        /\ FileIs(inHand[t], SerialState(inHand[t], nextRow[t] - 1))

UntakenAreEmpty == \A k \in 1 .. Len(files) : k >= nextFile => FileIs(k, Unread(fresh[k]))

HasEnded(k) == k < nextFile /\ \A t \in Team : inHand[t] # k

EndedAsSerial ==
    \A k \in 1 .. Len(files) : HasEnded(k) => FileIs(k, SerialFile(files[k], fresh[k]))

\* What the files that have ended count.
EndedCounts == [k \in 1 .. Len(files) |-> IF HasEnded(k) THEN perStats[k] ELSE NoCount]

\* The threads hold the counts of the files that have ended.
PartsAreOfEnded ==
    ~joined => FoldFunction(Plus, NoCount, part) = Sum(EndedCounts)

JoinedAtEnd ==
    joined => nextFile = Len(files) + 1 /\ \A t \in Team : inHand[t] = 0

TeamInv ==
    /\ TeamTypeOK /\ OneThreadPerFile /\ InHandAsSerial /\ UntakenAreEmpty
    /\ EndedAsSerial /\ PartsAreOfEnded /\ JoinedAtEnd /\ IngestIsSerial

LEMMA FilesHaveNumbers ==
    ASSUME files \in Seq(InputFile)
    PROVE  /\ Len(files) \in Nat /\ DOMAIN files = 1 .. Len(files)
           /\ \A k \in 1 .. Len(files) : files[k] \in InputFile
  BY LenProperties, ElementOfSequence

\* What is unread so far, and what is not begun.
LEMMA UnreadIsNothing ==
    /\ \A m : /\ Unread(m).flag = m /\ Unread(m).records = <<>>
              /\ Unread(m).count = NoCount
    /\ \A c \in Counts : Plus(NoCount, c) = c
<1>1. ASSUME NEW c \in Counts PROVE Plus(NoCount, c) = c
  <2>1. c = [read |-> c.read, failed |-> c.failed, matched |-> c.matched]
        /\ c.read \in Nat /\ c.failed \in Nat /\ c.matched \in Nat
    BY DEF Counts
  <2>2. QED
    BY <2>1 DEF Plus, NoCount
<1>2. QED
  BY <1>1 DEF Unread

LEMMA TeamBegins == TeamInit => TeamInv
<1> SUFFICES ASSUME TeamInit PROVE TeamInv
  OBVIOUS
<1>1. engine \in Engines /\ files \in Seq(InputFile)
  BY InputAssumption DEF TeamInit
<1>2. Len(files) \in Nat /\ DOMAIN files = 1 .. Len(files)
  BY <1>1, FilesHaveNumbers
<1>3. /\ nextFile = 1 /\ inHand = [t \in Team |-> 0] /\ joined = FALSE
      /\ perFile = [f \in 1 .. Len(files) |-> <<>>]
      /\ perStats = [f \in 1 .. Len(files) |-> NoCount]
      /\ part = [t \in Team |-> NoCount] /\ fresh \in [1 .. Len(files) -> Memory]
  BY <1>2 DEF TeamInit
<1>4. TeamTypeOK
  <2>1. nextRow = [t \in Team |-> 1] /\ rec = [t \in Team |-> NoFlag] /\ NoFlag \in Flag
    BY DEF TeamInit, Flag
  <2>2. /\ nextFile \in 1 .. Len(files) + 1 /\ inHand \in [Team -> 0 .. Len(files)]
        /\ nextRow \in [Team -> Nat \ {0}]
    BY <1>2, <1>3, <2>1
  <2>3. /\ perFile \in [1 .. Len(files) -> Seq(Flag)]
        /\ perStats \in [1 .. Len(files) -> Counts] /\ part \in [Team -> Counts]
    BY <1>3, CountsAdd, EmptySeq
  <2>4. rec \in [Team -> Flag]
    BY <2>1
  <2>5. QED
    BY <1>1, <1>3, <2>2, <2>3, <2>4 DEF TeamTypeOK
<1>5. UntakenAreEmpty
  BY <1>3, UnreadIsNothing DEF UntakenAreEmpty, FileIs
<1>6. \A k \in 1 .. Len(files) : ~HasEnded(k)
  BY <1>2, <1>3 DEF HasEnded
<1>7. EndedCounts = [k \in 1 .. Len(files) |-> NoCount]
  BY <1>6 DEF EndedCounts
<1>8. PartsAreOfEnded
  BY <1>2, <1>3, <1>7, InputAssumption, SumOfNone, PartsOfNone DEF PartsAreOfEnded
<1>9. OneThreadPerFile /\ InHandAsSerial /\ EndedAsSerial
  BY <1>3, <1>6 DEF OneThreadPerFile, InHandAsSerial, EndedAsSerial
<1>10. JoinedAtEnd /\ IngestIsSerial
  BY <1>3 DEF JoinedAtEnd, IngestIsSerial
<1>11. QED
  BY <1>4, <1>5, <1>8, <1>9, <1>10 DEF TeamInv

LEMMA TakeFileKeeps ==
    ASSUME TeamInv, NEW t \in Team, TakeFile(t)
    PROVE  TeamInv'
<1> USE DEF TeamInv
<1>1. /\ files' = files /\ fresh' = fresh /\ engine' = engine /\ joined' = joined /\ perFile' = perFile
      /\ perStats' = perStats /\ part' = part /\ store' = store /\ totals' = totals
      /\ inHand[t] = 0 /\ nextFile <= Len(files) /\ nextFile' = nextFile + 1
      /\ inHand' = [inHand EXCEPT ![t] = nextFile]
      /\ nextRow' = [nextRow EXCEPT ![t] = 1] /\ rec' = [rec EXCEPT ![t] = fresh[nextFile]]
  BY DEF TakeFile
<1>2. /\ fresh \in [DOMAIN files -> Memory]
      /\ files \in Seq(InputFile) /\ Len(files) \in Nat /\ nextFile \in 1 .. Len(files)
      /\ DOMAIN files = 1 .. Len(files) /\ inHand \in [Team -> 0 .. Len(files)]
      /\ nextRow \in [Team -> Nat \ {0}] /\ rec \in [Team -> Flag]
  BY <1>1, FilesHaveNumbers DEF TeamTypeOK
<1>3. ~joined
  BY <1>1, <1>2 DEF JoinedAtEnd, TeamTypeOK
<1>4. /\ inHand'[t] = nextFile /\ nextRow'[t] = 1 /\ rec'[t] = fresh[nextFile]
      /\ \A u \in Team : u # t => /\ inHand'[u] = inHand[u] /\ nextRow'[u] = nextRow[u]
                                  /\ rec'[u] = rec[u]
  BY <1>1, <1>2
<1>5. TeamTypeOK'
  <2>1. inHand' \in [Team -> 0 .. Len(files)] /\ nextFile' \in 1 .. Len(files) + 1
    BY <1>1, <1>2
  <2>2. nextRow' \in [Team -> Nat \ {0}]
    BY <1>1, <1>2
  <2>3. fresh[nextFile] \in Flag
    BY <1>2 DEF Flag, TeamTypeOK
  <2>4. rec' \in [Team -> Flag]
    BY <1>1, <1>2, <2>3
  <2>5. QED
    BY <1>1, <2>1, <2>2, <2>4 DEF TeamTypeOK
<1>6. OneThreadPerFile'
  <2>1. \A u \in Team : inHand[u] \in Nat /\ inHand[u] < nextFile
    BY <1>2 DEF OneThreadPerFile
  <2>2. QED
    BY <1>1, <1>2, <1>4, <2>1 DEF OneThreadPerFile
<1>7. \A k, j : SerialState(k, j)' = SerialState(k, j)
  BY <1>1, SerialStays
<1>8. \A r : \A k \in 1 .. Len(files) : FileIs(k, r)' <=> FileIs(k, r)
  BY <1>1 DEF FileIs
<1>9. InHandAsSerial'
  <2> SUFFICES ASSUME NEW u \in Team, inHand'[u] # 0
               PROVE  /\ files[inHand'[u]].opens =>
                             nextRow'[u] - 1 <= Len(files[inHand'[u]].rows)
                      /\ ~files[inHand'[u]].opens => nextRow'[u] = 1
                      /\ rec'[u] = SerialState(inHand'[u], nextRow'[u] - 1).flag
                      /\ FileIs(inHand'[u], SerialState(inHand'[u], nextRow'[u] - 1))
    BY <1>1, <1>7 DEF InHandAsSerial, FileIs
  <2>1. CASE u = t
    <3>1. SerialState(nextFile, 0) = Unread(fresh[nextFile])
      BY <1>2, SerialStart
    <3>2. FileIs(nextFile, Unread(fresh[nextFile]))
      BY <1>2 DEF UntakenAreEmpty
    <3>3. files[nextFile].opens => Len(files[nextFile].rows) \in Nat
      BY <1>2, FilesHaveNumbers DEF InputFile
    <3>4. QED
      BY <1>4, <2>1, <3>1, <3>2, <3>3, UnreadIsNothing
  <2>2. CASE u # t
    BY <1>4, <2>2 DEF InHandAsSerial
  <2>3. QED
    BY <2>1, <2>2
<1>10. UntakenAreEmpty'
  BY <1>1, <1>2, <1>8 DEF UntakenAreEmpty
<1>11. \A k \in 1 .. Len(files) : HasEnded(k)' <=> HasEnded(k)
  BY <1>1, <1>2, <1>4 DEF HasEnded
<1>12. EndedAsSerial'
  <2>1. \A f, m : SerialFile(f, m)' = SerialFile(f, m)
    BY <1>1, SerialStays
  <2>2. QED
    BY <1>1, <1>8, <1>11, <2>1 DEF EndedAsSerial
<1>13. EndedCounts' = EndedCounts
  BY <1>1, <1>11 DEF EndedCounts
<1>14. PartsAreOfEnded'
  BY <1>1, <1>13 DEF PartsAreOfEnded
<1>15. JoinedAtEnd' /\ IngestIsSerial'
  BY <1>1, <1>3 DEF JoinedAtEnd, IngestIsSerial
<1>16. QED
  BY <1>5, <1>6, <1>9, <1>10, <1>12, <1>14, <1>15

LEMMA ReadRowKeeps ==
    ASSUME TeamInv, NEW t \in Team, ReadRow(t)
    PROVE  TeamInv'
<1> USE DEF TeamInv
<1> DEFINE f == inHand[t]
           j == nextRow[t] - 1
           row == files[f].rows[nextRow[t]]
           after == SerialState(f, nextRow[t])
<1>1. /\ files' = files /\ fresh' = fresh /\ engine' = engine /\ joined' = joined /\ inHand' = inHand
      /\ nextFile' = nextFile /\ part' = part /\ store' = store /\ totals' = totals
      /\ nextRow' = [nextRow EXCEPT ![t] = nextRow[t] + 1]
      /\ rec' = [rec EXCEPT ![t] = FlagAfter(rec[t], row)]
      /\ perFile' = IF Kept(row) THEN [perFile EXCEPT ![f] = Append(perFile[f], rec'[t])]
                    ELSE perFile
      /\ perStats' = [perStats EXCEPT ![f] = Plus(perStats[f], CountOf(row))]
  BY DEF ReadRow
<1>2. f # 0 /\ files[f].opens /\ nextRow[t] <= Len(files[f].rows)
  BY DEF ReadRow, HasRow
<1>3. /\ fresh \in [DOMAIN files -> Memory]
      /\ files \in Seq(InputFile) /\ Len(files) \in Nat /\ nextFile \in 1 .. Len(files) + 1
      /\ DOMAIN files = 1 .. Len(files) /\ inHand \in [Team -> 0 .. Len(files)]
      /\ nextRow \in [Team -> Nat \ {0}] /\ rec \in [Team -> Flag]
      /\ perFile \in [1 .. Len(files) -> Seq(Flag)]
      /\ perStats \in [1 .. Len(files) -> Counts]
  BY FilesHaveNumbers DEF TeamTypeOK
<1>4. f \in 1 .. Len(files) /\ j \in Nat /\ j + 1 = nextRow[t]
  BY <1>2, <1>3
<1>5. ~joined
  BY <1>2 DEF JoinedAtEnd
<1>6. /\ after = AfterRow(SerialState(f, j), row)
      /\ SerialState(f, j) \in Reading /\ after \in Reading
  <2>1. /\ SerialState(f, j) \in Reading
        /\ SerialState(f, j + 1) = AfterRow(SerialState(f, j), files[f].rows[j + 1])
    <3> HIDE DEF f, j
    <3>1. QED
      BY <1>2, <1>3, <1>4, SerialRow
  <2>2. row \in InputRow
    <3>1. files[f].rows \in Seq(InputRow)
      BY <1>3, <1>4, FilesHaveNumbers DEF InputFile
    <3>2. nextRow[t] \in DOMAIN files[f].rows
      BY <1>2, <1>3, <3>1, LenProperties
    <3>3. QED
      BY <3>1, <3>2, ElementOfSequence
  <2>3. QED
    BY <1>4, <2>1, <2>2, RowIsRead
<1>7. rec[t] = SerialState(f, j).flag /\ FileIs(f, SerialState(f, j))
  BY <1>2 DEF InHandAsSerial
<1>8. /\ rec'[t] = after.flag /\ perFile'[f] = after.records /\ perStats'[f] = after.count
      /\ nextRow'[t] = nextRow[t] + 1
  <2> HIDE DEF f, j, row
  <2>1. rec'[t] = FlagAfter(rec[t], row) /\ nextRow'[t] = nextRow[t] + 1
    BY <1>1, <1>3
  <2>2. perStats'[f] = Plus(perStats[f], CountOf(row))
    BY <1>1, <1>3, <1>4
  <2>3. perFile'[f] = IF Kept(row) THEN Append(perFile[f], rec'[t]) ELSE perFile[f]
    BY <1>1, <1>3, <1>4
  <2>4. QED
    BY <1>6, <1>7, <2>1, <2>2, <2>3 DEF AfterRow, FileIs
<1>9. /\ \A u \in Team : u # t => nextRow'[u] = nextRow[u] /\ rec'[u] = rec[u]
      /\ \A k \in 1 .. Len(files) :
             k # f => perFile'[k] = perFile[k] /\ perStats'[k] = perStats[k]
  BY <1>1, <1>3
<1>10. TeamTypeOK'
  <2>1. after.flag \in Flag /\ after.records \in Seq(Flag) /\ after.count \in Counts
    BY <1>6 DEF Reading
  <2> HIDE DEF after
  <2>2. nextRow' \in [Team -> Nat \ {0}]
    BY <1>1, <1>3
  <2>3. rec' \in [Team -> Flag]
    BY <1>1, <1>3, <1>8, <2>1
  <2>4. perFile' \in [1 .. Len(files) -> Seq(Flag)]
    BY <1>1, <1>3, <1>4, <1>8, <2>1
  <2>5. perStats' \in [1 .. Len(files) -> Counts]
    BY <1>1, <1>3, <1>4, <1>8, <2>1
  <2>6. QED
    BY <1>1, <2>2, <2>3, <2>4, <2>5 DEF TeamTypeOK
<1>11. OneThreadPerFile'
  BY <1>1 DEF OneThreadPerFile
<1>12. \A k, i : SerialState(k, i)' = SerialState(k, i)
  BY <1>1, SerialStays
<1>13. \A r : \A k \in 1 .. Len(files) : k # f => (FileIs(k, r)' <=> FileIs(k, r))
  BY <1>9 DEF FileIs
<1>14. InHandAsSerial'
  <2> SUFFICES ASSUME NEW u \in Team, inHand[u] # 0
               PROVE  /\ files[inHand[u]].opens =>
                             nextRow'[u] - 1 <= Len(files[inHand[u]].rows)
                      /\ ~files[inHand[u]].opens => nextRow'[u] = 1
                      /\ rec'[u] = SerialState(inHand[u], nextRow'[u] - 1).flag
                      /\ perFile'[inHand[u]] = SerialState(inHand[u], nextRow'[u] - 1).records
                      /\ perStats'[inHand[u]] = SerialState(inHand[u], nextRow'[u] - 1).count
    BY <1>1, <1>12 DEF InHandAsSerial, FileIs
  <2>1. CASE u = t
    <3>1. nextRow'[t] - 1 = nextRow[t]
      BY <1>3, <1>8
    <3>2. QED
      BY <1>2, <1>8, <2>1, <3>1
  <2>2. CASE u # t
    <3>1. inHand[u] # f /\ inHand[u] \in 1 .. Len(files)
      BY <1>2, <1>3, <2>2 DEF OneThreadPerFile
    <3>2. /\ nextRow'[u] = nextRow[u] /\ rec'[u] = rec[u]
          /\ perFile'[inHand[u]] = perFile[inHand[u]]
          /\ perStats'[inHand[u]] = perStats[inHand[u]]
      BY <1>9, <2>2, <3>1
    <3>3. QED
      BY <3>2 DEF InHandAsSerial, FileIs
  <2>3. QED
    BY <2>1, <2>2
<1>15. UntakenAreEmpty'
  <2>1. f < nextFile
    BY DEF OneThreadPerFile
  <2>2. \A k \in 1 .. Len(files) : k >= nextFile => k # f
    BY <1>3, <1>4, <2>1
  <2>3. QED
    BY <1>1, <1>13, <2>2 DEF UntakenAreEmpty
<1>16. \A k \in 1 .. Len(files) : (HasEnded(k)' <=> HasEnded(k)) /\ (HasEnded(k) => k # f)
  BY <1>1 DEF HasEnded
<1>17. EndedAsSerial'
  <2>1. \A g, m : SerialFile(g, m)' = SerialFile(g, m)
    BY <1>1, SerialStays
  <2>2. QED
    BY <1>1, <1>13, <1>16, <2>1 DEF EndedAsSerial
<1>18. EndedCounts' = EndedCounts
  BY <1>1, <1>9, <1>16 DEF EndedCounts
<1>19. PartsAreOfEnded'
  BY <1>1, <1>18 DEF PartsAreOfEnded
<1>20. JoinedAtEnd' /\ IngestIsSerial'
  BY <1>1, <1>5 DEF JoinedAtEnd, IngestIsSerial
<1>21. QED
  BY <1>10, <1>11, <1>14, <1>15, <1>17, <1>19, <1>20

LEMMA EndFileKeeps ==
    ASSUME TeamInv, NEW t \in Team, EndFile(t)
    PROVE  TeamInv'
<1> USE DEF TeamInv
<1>0. PICK f : f = inHand[t]
  OBVIOUS
<1>1. /\ files' = files /\ fresh' = fresh /\ engine' = engine /\ joined' = joined /\ nextFile' = nextFile
      /\ nextRow' = nextRow /\ rec' = rec /\ perFile' = perFile /\ perStats' = perStats
      /\ store' = store /\ totals' = totals
      /\ inHand' = [inHand EXCEPT ![t] = 0]
      /\ part' = [part EXCEPT ![t] = Plus(part[t], perStats[f])]
      /\ f # 0 /\ ~HasRow(t)
  BY <1>0 DEF EndFile
<1>2. /\ fresh \in [DOMAIN files -> Memory]
      /\ files \in Seq(InputFile) /\ Len(files) \in Nat /\ nextFile \in 1 .. Len(files) + 1
      /\ DOMAIN files = 1 .. Len(files) /\ inHand \in [Team -> 0 .. Len(files)]
      /\ nextRow \in [Team -> Nat \ {0}] /\ part \in [Team -> Counts]
      /\ perStats \in [1 .. Len(files) -> Counts]
  BY FilesHaveNumbers DEF TeamTypeOK
<1>3. f \in 1 .. Len(files) /\ perStats[f] \in Counts
  BY <1>0, <1>1, <1>2
<1>4. ~joined
  BY <1>0, <1>1 DEF JoinedAtEnd
<1>5. inHand'[t] = 0 /\ \A u \in Team : u # t => inHand'[u] = inHand[u] /\ inHand[u] # f
  BY <1>0, <1>1, <1>2 DEF OneThreadPerFile
<1>6. TeamTypeOK'
  <2>1. inHand' \in [Team -> 0 .. Len(files)]
    BY <1>1, <1>2
  <2>2. part[t] \in Counts /\ Plus(part[t], perStats[f]) \in Counts
    BY <1>2, <1>3, CountsAdd
  <2>3. part' \in [Team -> Counts]
    BY <1>1, <1>2, <2>2
  <2>4. QED
    BY <1>1, <2>1, <2>3 DEF TeamTypeOK
<1>7. OneThreadPerFile'
  BY <1>1, <1>2, <1>5 DEF OneThreadPerFile
<1>8. \A k, i : SerialState(k, i)' = SerialState(k, i)
  BY <1>1, SerialStays
<1>9. \A g, m : SerialFile(g, m)' = SerialFile(g, m)
  BY <1>1, SerialStays
<1>10. \A k, r : FileIs(k, r)' <=> FileIs(k, r)
  BY <1>1 DEF FileIs
<1>11. InHandAsSerial'
  BY <1>1, <1>5, <1>8, <1>10 DEF InHandAsSerial
<1>12. UntakenAreEmpty'
  BY <1>1, <1>10 DEF UntakenAreEmpty
<1>13. FileIs(f, SerialFile(files[f], fresh[f]))
  <2>1. files[f].opens => nextRow[t] - 1 = Len(files[f].rows)
    <3>1. files[f].opens => Len(files[f].rows) \in Nat
      BY <1>2, <1>3, FilesHaveNumbers DEF InputFile
    <3>2. QED
      BY <1>0, <1>1, <1>2, <3>1 DEF HasRow, InHandAsSerial
  <2>2. nextRow[t] - 1 \in Nat
    BY <1>2
  <2>3. SerialState(f, nextRow[t] - 1) = SerialFile(files[f], fresh[f])
    BY <1>2, <1>3, <2>1, <2>2, SerialEnd
  <2>4. QED
    BY <1>0, <1>1, <2>3 DEF InHandAsSerial
<1>14. f < nextFile /\ ~HasEnded(f) /\ HasEnded(f)'
  BY <1>0, <1>1, <1>3, <1>5 DEF HasEnded, OneThreadPerFile
<1>15. \A k \in 1 .. Len(files) : k # f => (HasEnded(k)' <=> HasEnded(k))
  BY <1>0, <1>1, <1>2, <1>5 DEF HasEnded
<1>16. EndedAsSerial'
  BY <1>1, <1>9, <1>10, <1>13, <1>14, <1>15 DEF EndedAsSerial
<1>17. /\ EndedCounts \in [1 .. Len(files) -> Counts]
       /\ EndedCounts' = [EndedCounts EXCEPT ![f] = Plus(EndedCounts[f], perStats[f])]
  <2>1. EndedCounts \in [1 .. Len(files) -> Counts]
    BY <1>2, CountsAdd DEF EndedCounts
  <2>2. EndedCounts' = [k \in 1 .. Len(files) |-> IF HasEnded(k)' THEN perStats[k] ELSE NoCount]
    BY <1>1 DEF EndedCounts
  <2>3. Plus(EndedCounts[f], perStats[f]) = perStats[f]
    BY <1>3, <1>14, UnreadIsNothing DEF EndedCounts
  <2>4. \A k \in 1 .. Len(files) :
            EndedCounts'[k] = [EndedCounts EXCEPT ![f] = Plus(EndedCounts[f], perStats[f])][k]
    BY <1>3, <1>14, <1>15, <2>2, <2>3 DEF EndedCounts
  <2>5. EndedCounts' \in [1 .. Len(files) -> Counts]
    BY <1>2, <2>2, CountsAdd
  <2>6. [EndedCounts EXCEPT ![f] = Plus(EndedCounts[f], perStats[f])] \in [1 .. Len(files) -> Counts]
    BY <1>3, <2>1, <2>3
  <2>7. QED
    BY <2>1, <2>4, <2>5, <2>6
<1>18. PartsAreOfEnded'
  <2> DEFINE n == Len(files)
             d == perStats[f]
  <2>1. Sum(EndedCounts') = Plus(Sum(EndedCounts), d)
    <3> HIDE DEF n, d
    <3>1. n \in Nat /\ EndedCounts \in [1 .. n -> Counts] /\ f \in 1 .. n /\ d \in Counts
      BY <1>2, <1>3, <1>17 DEF n, d
    <3>2. EndedCounts' = [EndedCounts EXCEPT ![f] = Plus(EndedCounts[f], d)]
      BY <1>17 DEF d
    <3>3. QED
      BY <3>1, <3>2, SumRaised
  <2>2. FoldFunction(Plus, NoCount, part') = Plus(FoldFunction(Plus, NoCount, part), d)
    <3> HIDE DEF d
    <3>1. part' = [part EXCEPT ![t] = Plus(part[t], d)] /\ d \in Counts
      BY <1>1, <1>3 DEF d
    <3>2. IsFiniteSet(Team) /\ part \in [Team -> Counts]
      BY <1>2, InputAssumption
    <3>3. FoldFunction(Plus, NoCount, [part EXCEPT ![t] = Plus(part[t], d)]) =
              Plus(FoldFunction(Plus, NoCount, part), d)
      BY <3>1, <3>2, PartsRaised
    <3>4. QED
      BY <3>1, <3>3
  <2>3. QED
    BY <1>4, <2>1, <2>2 DEF PartsAreOfEnded
<1>19. JoinedAtEnd' /\ IngestIsSerial'
  BY <1>1, <1>4 DEF JoinedAtEnd, IngestIsSerial
<1>20. QED
  BY <1>6, <1>7, <1>11, <1>12, <1>16, <1>18, <1>19

LEMMA JoinKeeps ==
    ASSUME TeamInv, Join
    PROVE  TeamInv'
<1> USE DEF TeamInv
<1>1. /\ files' = files /\ fresh' = fresh /\ engine' = engine /\ joined' = TRUE /\ nextFile' = nextFile
      /\ inHand' = inHand /\ perFile' = perFile /\ perStats' = perStats
      /\ rec' = [t \in Team |-> NoFlag] /\ part' = [t \in Team |-> NoCount]
      /\ nextRow' = [t \in Team |-> 1]
      /\ ~joined /\ nextFile = Len(files) + 1 /\ \A t \in Team : inHand[t] = 0
      /\ store' = FlattenSeq(perFile)
      /\ totals' = IF engine = "stream" THEN FoldFunction(Plus, NoCount, part)
                   ELSE Sum(perStats)
  BY DEF Join
<1>2. /\ fresh \in [DOMAIN files -> Memory]
      /\ files \in Seq(InputFile) /\ Len(files) \in Nat /\ DOMAIN files = 1 .. Len(files)
      /\ perFile \in [1 .. Len(files) -> Seq(Flag)]
      /\ perStats \in [1 .. Len(files) -> Counts]
  BY FilesHaveNumbers DEF TeamTypeOK
<1>3. TeamTypeOK'
  <2>1. NoFlag \in Flag /\ NoCount \in Counts
    BY CountsAdd DEF Flag
  <2>2. rec' \in [Team -> Flag] /\ part' \in [Team -> Counts] /\ nextRow' \in [Team -> Nat \ {0}]
    BY <1>1, <2>1
  <2>3. QED
    BY <1>1, <2>2 DEF TeamTypeOK
<1>4. \A g, m : SerialFile(g, m)' = SerialFile(g, m)
  BY <1>1, SerialStays
<1>5. \A k \in 1 .. Len(files) : HasEnded(k) /\ HasEnded(k)'
  BY <1>1, <1>2 DEF HasEnded
<1>6. \A k \in 1 .. Len(files) : FileIs(k, SerialFile(files[k], fresh[k]))
  BY <1>5 DEF EndedAsSerial
<1>7. perFile = [k \in DOMAIN files |-> SerialFile(files[k], fresh[k]).records]
  BY <1>2, <1>6 DEF FileIs
<1>8. perStats = [k \in DOMAIN files |-> SerialFile(files[k], fresh[k]).count]
  BY <1>2, <1>6 DEF FileIs
<1>9. EndedCounts = perStats
  BY <1>2, <1>5 DEF EndedCounts
<1>10. totals' = Sum(perStats)
  BY <1>1, <1>9 DEF PartsAreOfEnded
<1>11. IngestIsSerial'
  <2>1. \A k : SerialFile(files[k], fresh[k])' = SerialFile(files[k], fresh[k])
    BY <1>1, <1>4
  <2>2. /\ perFile = [k \in DOMAIN files' |-> SerialFile(files[k], fresh[k])'.records]
        /\ perStats = [k \in DOMAIN files' |-> SerialFile(files[k], fresh[k])'.count]
    BY <1>1, <1>7, <1>8, <2>1
  <2>3. QED
    BY <1>1, <1>10, <2>2 DEF IngestIsSerial
<1>12. OneThreadPerFile' /\ InHandAsSerial' /\ UntakenAreEmpty'
  BY <1>1, <1>2 DEF OneThreadPerFile, InHandAsSerial, UntakenAreEmpty, FileIs
<1>13. EndedAsSerial'
  BY <1>1, <1>4, <1>6 DEF EndedAsSerial, FileIs
<1>14. PartsAreOfEnded' /\ JoinedAtEnd'
  BY <1>1 DEF PartsAreOfEnded, JoinedAtEnd
<1>15. QED
  BY <1>3, <1>11, <1>12, <1>13, <1>14

LEMMA TeamStays ==
    ASSUME TeamInv, UNCHANGED teamVars
    PROVE  TeamInv'
<1>1. /\ files' = files /\ fresh' = fresh /\ engine' = engine /\ joined' = joined /\ nextFile' = nextFile
      /\ inHand' = inHand /\ perFile' = perFile /\ perStats' = perStats /\ rec' = rec
      /\ part' = part /\ nextRow' = nextRow /\ store' = store /\ totals' = totals
  BY DEF teamVars
<1>2. /\ \A k, i : SerialState(k, i)' = SerialState(k, i)
      /\ \A g, m : SerialFile(g, m)' = SerialFile(g, m)
  BY <1>1, SerialStays
<1>3. /\ \A k, r : FileIs(k, r)' <=> FileIs(k, r)
      /\ \A k : HasEnded(k)' <=> HasEnded(k)
  BY <1>1 DEF FileIs, HasEnded
<1>4. TeamTypeOK' /\ OneThreadPerFile' /\ InHandAsSerial'
  BY <1>1, <1>2, <1>3 DEF TeamInv, TeamTypeOK, OneThreadPerFile, InHandAsSerial
<1>5. UntakenAreEmpty' /\ EndedAsSerial' /\ JoinedAtEnd'
  BY <1>1, <1>2, <1>3 DEF TeamInv, UntakenAreEmpty, EndedAsSerial, JoinedAtEnd
<1>6. PartsAreOfEnded'
  <2>1. EndedCounts' = EndedCounts
    BY <1>1, <1>3 DEF EndedCounts
  <2>2. QED
    BY <1>1, <2>1 DEF TeamInv, PartsAreOfEnded
<1>7. IngestIsSerial'
  BY <1>1, <1>2 DEF TeamInv, IngestIsSerial
<1>8. QED
  BY <1>4, <1>5, <1>6, <1>7 DEF TeamInv

LEMMA RunKeepsTeam == TeamInv /\ [RunNext]_runVars => TeamInv'
<1> SUFFICES ASSUME TeamInv, [RunNext]_runVars PROVE TeamInv'
  OBVIOUS
<1>1. TeamNext \/ UNCHANGED teamVars
  BY DEF RunNext, Ingest, BeginQuery, Query, BatchQuery, runVars
<1>2. CASE TeamNext
  BY <1>2, TakeFileKeeps, ReadRowKeeps, EndFileKeeps, JoinKeeps DEF TeamNext
<1>3. CASE UNCHANGED teamVars
  BY <1>3, TeamStays
<1>4. QED
  BY <1>1, <1>2, <1>3

\* Every file is with one thread, and has come to where the serial run is
\* with as many of its rows; the threads hold the counts of the files that
\* have ended.
THEOREM TeamInvariant == RunSpec => []TeamInv
<1>1. RunInit => TeamInv
  BY TeamBegins DEF RunInit
<1>2. QED
  BY <1>1, RunKeepsTeam, PTL DEF RunSpec

\* For any number of threads and any files, rows and flags, the parallel
\* ingests and the streaming query return what the serial ones do.
THEOREM IngestIsSerialAlways == RunSpec => []IngestIsSerial
<1>1. TeamInv => IngestIsSerial
  BY DEF TeamInv
<1>2. QED
  BY <1>1, TeamInvariant, PTL

=============================================================================
