---------------------- MODULE RequestCoordinatorProofs ----------------------
(***************************************************************************)
(* Proofs about RequestCoordinator, for every number of children, every    *)
(* supply, every choice of chunk sizes and failures.                       *)
(***************************************************************************)
EXTENDS RequestCoordinator, SequenceTheorems, TLAPS

-----------------------------------------------------------------------------
\* What the fetch does to the rows merged so far.

\* A chunk of the rows that follow in a source's stream extends a merge of
\* everything received before.
LEMMA BatchExtendsMerge ==
    ASSUME NEW seq \in Seq(Row), NEW upTo \in [Source -> Nat],
           MergesInOrder(seq, upTo),
           NEW s \in Source, NEW k \in Nat, NEW b \in Seq(Row),
           Len(b) = k, \A n \in 1 .. k : b[n] = <<s, upTo[s] + n>>
    PROVE  MergesInOrder(seq \o b, [upTo EXCEPT ![s] = @ + k])
<1> DEFINE u == seq \o b
           m == Len(seq)
           after == [upTo EXCEPT ![s] = @ + k]
<1>1. /\ m \in Nat /\ DOMAIN seq = 1 .. m /\ DOMAIN u = 1 .. m + k
      /\ \A i \in 1 .. m : u[i] = seq[i]
      /\ \A n \in 1 .. k : u[n + m] = <<s, upTo[s] + n>>
  <2>1. m \in Nat /\ DOMAIN seq = 1 .. m
    OBVIOUS
  <2>2. /\ u \in Seq(Row) /\ Len(u) = m + k
        /\ \A i \in 1 .. m + k : u[i] = IF i <= m THEN seq[i] ELSE b[i - m]
    BY ConcatProperties
  <2>3. DOMAIN u = 1 .. m + k
    BY <2>2, LenProperties
  <2> HIDE DEF u, m
  <2>4. ASSUME NEW i \in 1 .. m PROVE u[i] = seq[i]
    BY <2>1, <2>2
  <2>5. ASSUME NEW n \in 1 .. k PROVE u[n + m] = <<s, upTo[s] + n>>
    <3>1. n + m \in 1 .. m + k /\ ~(n + m <= m) /\ (n + m) - m = n
      BY <2>1
    <3>2. u[n + m] = b[n]
      BY <2>2, <3>1
    <3>3. QED
      BY <3>2
  <2>6. QED
    BY <2>1, <2>3, <2>4, <2>5
<1>2. /\ after \in [Source -> Nat] /\ after[s] = upTo[s] + k
      /\ \A t \in Source \ {s} : after[t] = upTo[t]
      /\ upTo[s] \in Nat
  OBVIOUS
<1>3. \A i \in 1 .. m : seq[i][1] \in Source /\ seq[i][2] \in Nat
  <2>1. \A i \in 1 .. m : seq[i] \in Row
    BY <1>1
  <2>2. QED
    BY <2>1 DEF Row
<1> HIDE DEF u, m, after
<1>4. \A i \in DOMAIN u : \/ i \in 1 .. m /\ u[i] = seq[i]
                          \/ /\ i > m /\ i - m \in 1 .. k
                             /\ u[i] = <<s, upTo[s] + (i - m)>>
  <2> SUFFICES ASSUME NEW i \in 1 .. m + k
               PROVE  \/ i \in 1 .. m /\ u[i] = seq[i]
                      \/ /\ i > m /\ i - m \in 1 .. k
                         /\ u[i] = <<s, upTo[s] + (i - m)>>
    BY <1>1
  <2>1. CASE i > m
    <3>1. i - m \in 1 .. k /\ (i - m) + m = i
      BY <1>1, <2>1
    <3>2. u[(i - m) + m] = <<s, upTo[s] + (i - m)>>
      BY <1>1, <3>1
    <3>3. QED
      BY <2>1, <3>1, <3>2
  <2>2. QED
    BY <1>1, <2>1
<1>5. ASSUME NEW i \in DOMAIN u PROVE u[i][2] <= after[u[i][1]]
  <2>1. CASE i \in 1 .. m /\ u[i] = seq[i]
    <3>1. seq[i][2] <= upTo[seq[i][1]]
      BY <1>1, <2>1 DEF MergesInOrder
    <3>2. seq[i][1] \in Source /\ seq[i][2] \in Nat
      BY <1>3, <2>1
    <3>3. upTo[seq[i][1]] <= after[seq[i][1]] /\ upTo[seq[i][1]] \in Nat
          /\ after[seq[i][1]] \in Nat
      <4>1. \A t \in Source : /\ upTo[t] \in Nat /\ after[t] \in Nat
                              /\ upTo[t] <= after[t]
        <5>1. ASSUME NEW t \in Source
              PROVE  upTo[t] \in Nat /\ after[t] \in Nat /\ upTo[t] <= after[t]
          <6>1. upTo[t] \in Nat
            OBVIOUS
          <6>2. CASE t = s
            BY <1>2, <6>1, <6>2
          <6>3. CASE t # s
            BY <1>2, <6>1, <6>3
          <6>4. QED
            BY <6>2, <6>3
        <5>2. QED
          BY <5>1
      <4>2. QED
        BY <3>2, <4>1
    <3>4. QED
      BY <2>1, <3>1, <3>2, <3>3
  <2>2. CASE i > m /\ i - m \in 1 .. k /\ u[i] = <<s, upTo[s] + (i - m)>>
    BY <1>2, <2>2
  <2>3. QED
    BY <1>4, <2>1, <2>2
<1>6. ASSUME NEW t \in Source, NEW n \in 1 .. after[t]
      PROVE  \E i \in DOMAIN u : u[i] = <<t, n>>
  <2>1. CASE n <= upTo[t]
    <3>1. n \in 1 .. upTo[t]
      BY <2>1
    <3>2. PICK i \in DOMAIN seq : seq[i] = <<t, n>>
      BY <3>1 DEF MergesInOrder
    <3>3. i \in 1 .. m /\ i \in 1 .. m + k
      BY <1>1, <3>2
    <3>4. QED
      BY <1>1, <3>2, <3>3
  <2>2. CASE n > upTo[t]
    <3>1. t = s /\ n - upTo[s] \in 1 .. k
      BY <1>2, <2>2
    <3>2. upTo[s] + (n - upTo[s]) = n
      BY <1>2
    <3>3. (n - upTo[s]) + m \in 1 .. m + k
      BY <1>1, <3>1
    <3>4. u[(n - upTo[s]) + m] = <<s, upTo[s] + (n - upTo[s])>>
      BY <1>1, <3>1
    <3>5. QED
      BY <1>1, <3>1, <3>2, <3>3, <3>4
  <2>3. QED
    BY <1>2, <2>1, <2>2
<1>7. ASSUME NEW i \in DOMAIN u, NEW j \in DOMAIN u,
             i < j, u[i][1] = u[j][1]
      PROVE  u[i][2] < u[j][2]
  <2>0. i \in Nat /\ j \in Nat
    BY <1>1
  <2>1. CASE j \in 1 .. m /\ u[j] = seq[j]
    <3>1. i \in 1 .. m /\ u[i] = seq[i]
      BY <1>1, <1>7, <2>0, <2>1
    <3>2. QED
      BY <1>1, <1>7, <2>1, <3>1 DEF MergesInOrder
  <2>2. CASE j > m /\ j - m \in 1 .. k /\ u[j] = <<s, upTo[s] + (j - m)>>
    <3>1. CASE i \in 1 .. m /\ u[i] = seq[i]
      <4>1. seq[i][1] = s /\ seq[i][2] \in Nat
        BY <1>3, <1>7, <2>2, <3>1
      <4>2. seq[i][2] <= upTo[s]
        BY <1>1, <3>1, <4>1 DEF MergesInOrder
      <4>3. QED
        BY <1>2, <2>2, <3>1, <4>1, <4>2
    <3>2. CASE i > m /\ i - m \in 1 .. k /\ u[i] = <<s, upTo[s] + (i - m)>>
      <4>1. i - m < j - m
        BY <1>1, <1>7, <2>0
      <4>2. QED
        BY <1>2, <2>2, <3>2, <4>1
    <3>3. QED
      BY <1>4, <3>1, <3>2
  <2>3. QED
    BY <1>4, <2>1, <2>2
<1>8. MergesInOrder(u, after)
  BY <1>5, <1>6, <1>7 DEF MergesInOrder
<1>9. QED
  BY <1>8 DEF u, after

LEMMA RowsAssociative ==
    ASSUME NEW x \in Seq(Row), NEW y \in Seq(Row), NEW z \in Seq(Row)
    PROVE  (x \o y) \o z = x \o (y \o z)
BY ConcatAssociative

-----------------------------------------------------------------------------
\* The inductive invariant.

\* A worker counts as completed only when it has nothing left or failed.
CompletedIsDrained ==
    \A s \in Source : /\ served[s] <= Supply[s]
                      /\ completed[s] => s \in failed \/ served[s] = Supply[s]

\* An interruption is overwritten, if at all, by COMPLETED, and then there is
\* no worker left to ask.
InterruptSticks ==
    /\ interrupted # "no" => Interrupted \/ AllWorkersCompleted
    /\ interrupted = "between calls" => phase = "idle" /\ Interrupted

RequestInv ==
    /\ TypeOK
    /\ ExactlyOnce
    /\ CompletedIsDrained
    /\ InterruptSticks
    /\ phase = "fetching" => nextUnread = 0
    /\ saidDone => AllWorkersCompleted /\ WindowUsedUp
    /\ state = "ABSENT" => phase = "idle" /\ interrupted = "no"

USE CoordinatorAssumption

LEMMA SourceFacts ==
    /\ Self \in Source /\ Child \subseteq Source
    /\ Children \in Seq(Source)
<1>1. Self \in Source /\ Child \subseteq Source
  BY DEF Source
<1>2. QED
  BY <1>1, SeqMonotonic

LEMMA RoundPlanType == RoundPlan \in Seq(Source)
<1>1. <<Self>> \in Seq(Source)
  BY SourceFacts
<1>2. QED
  BY <1>1, SourceFacts, ConcatProperties DEF RoundPlan

\* What the type invariant says of the window, its cursor and the chunk size.
LEMMA WindowTypes ==
    TypeOK => /\ window \in Seq(Row) /\ out \in Seq(Row)
              /\ Len(window) \in Nat
              /\ nextUnread \in Nat /\ nextUnread <= Len(window)
              /\ adaptive \in Nat
<1> SUFFICES ASSUME TypeOK
             PROVE  /\ window \in Seq(Row) /\ out \in Seq(Row)
                    /\ Len(window) \in Nat
                    /\ nextUnread \in Nat /\ nextUnread <= Len(window)
                    /\ adaptive \in Nat
  OBVIOUS
<1>1. window \in Seq(Row) /\ out \in Seq(Row)
  BY DEF TypeOK
<1>2. Len(window) \in Nat
  BY <1>1
<1>3. nextUnread \in 0 .. Len(window)
  BY DEF TypeOK
<1>4. adaptive \in Nat
  <2>1. adaptive \in ChunkSizes \cup {0} /\ ChunkSizes \subseteq Nat \ {0}
    BY DEF TypeOK, CoordinatorAssumption
  <2>2. QED
    BY <2>1
<1>5. QED
  BY <1>1, <1>2, <1>3, <1>4

LEMMA UnreadType == TypeOK => Unread \in Seq(Row) /\ Merged \in Seq(Row)
<1> SUFFICES ASSUME TypeOK PROVE Unread \in Seq(Row) /\ Merged \in Seq(Row)
  OBVIOUS
<1>1. /\ window \in Seq(Row) /\ out \in Seq(Row)
      /\ nextUnread \in Nat /\ Len(window) \in Nat
  BY WindowTypes
<1>2. \A i \in nextUnread + 1 .. Len(window) : window[i] \in Row
  BY <1>1
<1>3. Unread \in Seq(Row)
  BY <1>1, <1>2, SubSeqProperties DEF Unread
<1>4. QED
  BY <1>1, <1>3, ConcatProperties DEF Merged

LEMMA UsedUpMeansMergedIsOut ==
    ASSUME TypeOK, WindowUsedUp
    PROVE  Unread = <<>> /\ Merged = out
<1>1. /\ nextUnread + 1 \in Int /\ Len(window) \in Int
      /\ Len(window) < nextUnread + 1
  BY WindowTypes DEF WindowUsedUp
<1>2. Unread = <<>>
  BY <1>1, SubSeqEmpty DEF Unread
<1>3. QED
  BY <1>2, WindowTypes, ConcatEmptySeq DEF Merged

LEMMA InitRequestInv == Init => RequestInv
<1> SUFFICES ASSUME Init PROVE RequestInv
  OBVIOUS
<1>0. <<>> \in Seq(Row) /\ <<>> \in Seq(Source) /\ Len(<<>>) = 0
  OBVIOUS
<1>1. TypeOK
  <2>1. nextUnread \in 0 .. Len(window)
    BY <1>0 DEF Init
  <2>2. reply \in Reply
    BY DEF Init, Reply, Message
  <2>3. /\ served \in [Source -> Nat]
        /\ stalls \in [Source -> 0 .. MaxStalls]
    BY DEF Init, CoordinatorAssumption
  <2>4. /\ state \in QueryState /\ window \in Seq(Row) /\ out \in Seq(Row)
        /\ plan \in Seq(Source)
    BY <1>0 DEF Init, QueryState
  <2>5. QED
    BY <2>1, <2>2, <2>3, <2>4 DEF Init, TypeOK
<1>2. WindowUsedUp
  BY <1>0 DEF Init, WindowUsedUp
<1>3. Merged = <<>>
  BY <1>1, <1>2, UsedUpMeansMergedIsOut DEF Init
<1>4. ExactlyOnce
  <2>1. \A s \in Source : 1 .. served[s] = {}
    BY DEF Init
  <2>2. DOMAIN Merged = {}
    BY <1>3
  <2>3. QED
    BY <2>1, <2>2 DEF ExactlyOnce, MergesInOrder
<1>5. CompletedIsDrained
  BY DEF Init, CompletedIsDrained
<1>6. QED
  BY <1>1, <1>4, <1>5 DEF Init, RequestInv, InterruptSticks

\* Steps that leave the rows alone leave ExactlyOnce alone.
LEMMA SameRows ==
    ASSUME ExactlyOnce, UNCHANGED <<window, nextUnread, out, served>>
    PROVE  ExactlyOnce'
<1>1. Merged' = Merged
  BY DEF Merged, Unread
<1>2. QED
  BY <1>1 DEF ExactlyOnce, MergesInOrder

\* A source hands over a chunk.
LEMMA SuppliesKeepsInv ==
    ASSUME RequestInv, NEW s \in Source, Turn(s), ~completed[s], Supplies(s)
    PROVE  RequestInv'
<1> PICK k \in 0 .. adaptive, hasMore \in BOOLEAN :
        /\ served[s] + k <= Supply[s]
        /\ ~hasMore => served[s] + k = Supply[s]
        /\ IF k = 0 /\ hasMore
           THEN stalls[s] > 0 /\ stalls' = [stalls EXCEPT ![s] = @ - 1]
           ELSE UNCHANGED stalls
        /\ Merge(s, k, hasMore)
  BY DEF Supplies
<1> DEFINE b == Batch(s, k)
<1>0. /\ TypeOK /\ ExactlyOnce /\ CompletedIsDrained /\ InterruptSticks
      /\ phase = "fetching" /\ nextUnread = 0 /\ plan # <<>>
      /\ saidDone => AllWorkersCompleted
      /\ state # "ABSENT"
  BY DEF RequestInv, Turn
<1>1. /\ served \in [Source -> Nat] /\ served[s] \in Nat
      /\ window \in Seq(Row) /\ out \in Seq(Row) /\ plan \in Seq(Source)
      /\ Supply[s] \in Nat
  BY <1>0 DEF TypeOK
<1>2. adaptive \in Nat /\ k \in Nat
  BY <1>0, WindowTypes
<1>3. b \in Seq(Row) /\ Len(b) = k
      /\ \A n \in 1 .. k : b[n] = <<s, served[s] + n>>
  <2>1. \A n \in 1 .. k : <<s, served[s] + n>> \in Row
    BY <1>1, <1>2 DEF Row
  <2>2. QED
    BY <1>2, <2>1 DEF Batch
<1>4. /\ window' = window \o b /\ nextUnread' = 0 /\ out' = out
      /\ served' = [served EXCEPT ![s] = @ + k]
      /\ completed' = [completed EXCEPT ![s] = ~hasMore]
      /\ plan' = Tail(plan)
      /\ UNCHANGED <<state, oddRound, submitted, phase, adaptive, reply,
                     failed, saidDone, interrupted>>
  BY <1>0 DEF Merge, callerVars
<1> HIDE DEF b
<1>5. window' \in Seq(Row) /\ plan' \in Seq(Source)
  BY <1>0, <1>1, <1>3, <1>4, ConcatProperties, HeadTailProperties
<1>6. stalls' \in [Source -> 0 .. MaxStalls]
  <2>1. CASE k = 0 /\ hasMore
    <3>1. stalls[s] \in 0 .. MaxStalls /\ stalls[s] > 0
          /\ stalls' = [stalls EXCEPT ![s] = @ - 1]
      BY <1>0, <2>1 DEF TypeOK
    <3>2. stalls[s] - 1 \in 0 .. MaxStalls
      BY <3>1
    <3>3. QED
      BY <1>0, <3>1, <3>2 DEF TypeOK
  <2>2. CASE ~(k = 0 /\ hasMore)
    BY <1>0, <2>2 DEF TypeOK
  <2>3. QED
    BY <2>1, <2>2
<1>7. TypeOK'
  <2>1. 0 \in 0 .. Len(window')
    BY <1>5
  <2>2. served' \in [Source -> Nat] /\ completed' \in [Source -> BOOLEAN]
    <3>1. served[s] + k \in Nat
      BY <1>1, <1>2
    <3>2. completed \in [Source -> BOOLEAN] /\ (~hasMore) \in BOOLEAN
      BY <1>0 DEF TypeOK
    <3>3. QED
      BY <1>1, <1>4, <3>1, <3>2
  <2>3. QED
    BY <1>0, <1>4, <1>5, <1>6, <2>1, <2>2 DEF TypeOK
<1>8. Merged = out \o window /\ Merged' = out \o (window \o b)
  <2>1. Unread = window
    BY <1>0, <1>1, SubSeqFull DEF Unread
  <2>2. Unread' = window \o b
    BY <1>4, <1>5, SubSeqFull DEF Unread
  <2>3. QED
    BY <1>4, <2>1, <2>2 DEF Merged
<1>9. Merged' = Merged \o b
  <2>1. (out \o window) \o b = out \o (window \o b)
    BY <1>1, <1>3, RowsAssociative
  <2>2. QED
    BY <1>8, <2>1
<1>10. ExactlyOnce'
  <2>1. Merged \in Seq(Row) /\ MergesInOrder(Merged, served)
    BY <1>0, UnreadType DEF ExactlyOnce
  <2>2. MergesInOrder(Merged \o b, [served EXCEPT ![s] = @ + k])
    BY <1>1, <1>2, <1>3, <2>1, BatchExtendsMerge
  <2>3. QED
    BY <1>4, <1>9, <2>2 DEF ExactlyOnce, MergesInOrder
<1>11. CompletedIsDrained'
  <2> SUFFICES ASSUME NEW t \in Source
               PROVE  /\ served'[t] <= Supply[t]
                      /\ completed'[t] => t \in failed'
                                          \/ served'[t] = Supply[t]
    BY DEF CompletedIsDrained
  <2>1. CASE t = s
    BY <1>0, <1>1, <1>4, <2>1 DEF TypeOK
  <2>2. CASE t # s
    BY <1>0, <1>1, <1>4, <2>2 DEF TypeOK, CompletedIsDrained
  <2>3. QED
    BY <2>1, <2>2
<1>12. ~AllWorkersCompleted
  BY DEF AllWorkersCompleted
<1>13. QED
  BY <1>0, <1>4, <1>7, <1>10, <1>11, <1>12
     DEF RequestInv, InterruptSticks, Interrupted

LEMMA NextRequestInv == RequestInv /\ [Next]_vars => RequestInv'
<1> SUFFICES ASSUME RequestInv, [Next]_vars PROVE RequestInv'
  OBVIOUS
<1>0. /\ TypeOK /\ ExactlyOnce /\ CompletedIsDrained /\ InterruptSticks
      /\ phase = "fetching" => nextUnread = 0
      /\ saidDone => AllWorkersCompleted /\ WindowUsedUp
      /\ state = "ABSENT" => phase = "idle" /\ interrupted = "no"
  BY DEF RequestInv
<1>1. CASE Submit
  <2>1. /\ state' = "IN_PROGRESS"
        /\ UNCHANGED <<window, nextUnread, oddRound, completed, submitted,
                       phase, plan, adaptive, reply, served, stalls, failed,
                       out, saidDone, interrupted>>
    BY <1>1 DEF Submit, callVars, sourceVars, callerVars
  <2>2. TypeOK'
    BY <1>0, <2>1 DEF TypeOK, QueryState
  <2>3. ExactlyOnce'
    BY <1>0, <2>1, SameRows
  <2>4. interrupted = "no"
    BY <1>0, <1>1 DEF Submit
  <2>5. QED
    BY <1>0, <2>1, <2>2, <2>3, <2>4
       DEF RequestInv, CompletedIsDrained, InterruptSticks,
           AllWorkersCompleted, WindowUsedUp
<1>2. CASE AnswerAtOnce
  <2>1. UNCHANGED <<state, window, nextUnread, oddRound, completed, submitted,
                    phase, plan, adaptive, served, stalls, failed, out,
                    saidDone, interrupted>>
    BY <1>2 DEF AnswerAtOnce, requestVars, sourceVars, callerVars
  <2>2. reply' \in Reply
    <3>1. \E message \in Message :
              reply' = [message |-> message, done |-> TRUE, rows |-> 0]
      BY <1>2 DEF AnswerAtOnce, Answer, Message
    <3>2. QED
      BY <3>1 DEF Reply
  <2>3. TypeOK'
    BY <1>0, <2>1, <2>2 DEF TypeOK
  <2>4. ExactlyOnce'
    BY <1>0, <2>1, SameRows
  <2>5. QED
    BY <1>0, <2>1, <2>3, <2>4
       DEF RequestInv, CompletedIsDrained, InterruptSticks, Interrupted,
           AllWorkersCompleted, WindowUsedUp
<1>3. CASE BeginRound
  <2>1. /\ phase = "idle" /\ state \in {"IN_PROGRESS", "COMPLETED"}
        /\ WindowUsedUp /\ ~AllWorkersCompleted
        /\ window' = <<>> /\ nextUnread' = 0 /\ plan' = RoundPlan
        /\ phase' = "fetching" /\ adaptive' \in ChunkSizes
        /\ UNCHANGED <<state, oddRound, completed, submitted, reply, served,
                       stalls, failed, out, saidDone, interrupted>>
    BY <1>3 DEF BeginRound, sourceVars, callerVars
  <2>2. TypeOK'
    <3>1. window' \in Seq(Row) /\ nextUnread' \in 0 .. Len(window')
      BY <2>1
    <3>2. plan' \in Seq(Source)
      BY <2>1, RoundPlanType
    <3>3. QED
      BY <1>0, <2>1, <3>1, <3>2 DEF TypeOK
  <2>3. Merged' = Merged
    <3>1. Merged = out
      BY <1>0, <2>1, UsedUpMeansMergedIsOut
    <3>2. Unread' = <<>>
      BY <2>1, SubSeqEmpty DEF Unread
    <3>3. Merged' = out
      BY <1>0, <2>1, <3>2, ConcatEmptySeq DEF Merged, TypeOK
    <3>4. QED
      BY <3>1, <3>3
  <2>4. ExactlyOnce'
    BY <1>0, <2>1, <2>3 DEF ExactlyOnce, MergesInOrder
  <2>5. ~saidDone
    BY <1>0, <2>1
  <2>6. interrupted = "no"
    BY <1>0, <2>1 DEF InterruptSticks, Interrupted
  <2>7. QED
    BY <1>0, <2>1, <2>2, <2>4, <2>5, <2>6
       DEF RequestInv, CompletedIsDrained, InterruptSticks
<1>4. CASE BeginFromWindow
  <2>1. /\ phase = "idle" /\ state \in {"IN_PROGRESS", "COMPLETED"}
        /\ phase' = "answering" /\ adaptive' \in ChunkSizes
        /\ UNCHANGED <<state, window, nextUnread, oddRound, completed,
                       submitted, plan, reply, served, stalls, failed, out,
                       saidDone, interrupted>>
    BY <1>4 DEF BeginFromWindow, requestVars, sourceVars, callerVars
  <2>2. TypeOK'
    BY <1>0, <2>1 DEF TypeOK
  <2>3. ExactlyOnce'
    BY <1>0, <2>1, SameRows
  <2>4. interrupted # "between calls"
    BY <1>0, <2>1 DEF InterruptSticks, Interrupted
  <2>5. QED
    BY <1>0, <2>1, <2>2, <2>3, <2>4
       DEF RequestInv, CompletedIsDrained, InterruptSticks, Interrupted,
           AllWorkersCompleted, WindowUsedUp
<1>5. ASSUME NEW s \in Source, SkipCompleted(s) PROVE RequestInv'
  <2>1. /\ plan # <<>> /\ plan' = Tail(plan)
        /\ UNCHANGED <<state, window, nextUnread, oddRound, completed,
                       submitted, phase, adaptive, reply, served, stalls,
                       failed, out, saidDone, interrupted>>
    BY <1>5 DEF SkipCompleted, Turn, requestVars, sourceVars, callerVars
  <2>2. plan' \in Seq(Source)
    BY <1>0, <2>1, HeadTailProperties DEF TypeOK
  <2>3. TypeOK'
    BY <1>0, <2>1, <2>2 DEF TypeOK
  <2>4. ExactlyOnce'
    BY <1>0, <2>1, SameRows
  <2>5. QED
    BY <1>0, <2>1, <2>3, <2>4
       DEF RequestInv, CompletedIsDrained, InterruptSticks, Interrupted,
           AllWorkersCompleted, WindowUsedUp
<1>6. CASE FetchLocal
  BY <1>6, SuppliesKeepsInv, SourceFacts DEF FetchLocal
<1>7. ASSUME NEW c \in Child, SubmitToChild(c) PROVE RequestInv'
  <2>1. /\ submitted' = [submitted EXCEPT ![c] = TRUE]
        /\ UNCHANGED <<state, window, nextUnread, oddRound, completed,
                       phase, plan, adaptive, reply, served, stalls,
                       failed, out, saidDone, interrupted>>
    BY <1>7 DEF SubmitToChild, callVars, sourceVars, callerVars
  <2>2. TypeOK'
    BY <1>0, <2>1 DEF TypeOK
  <2>3. ExactlyOnce'
    BY <1>0, <2>1, SameRows
  <2>4. QED
    BY <1>0, <2>1, <2>2, <2>3
       DEF RequestInv, CompletedIsDrained, InterruptSticks, Interrupted,
           AllWorkersCompleted, WindowUsedUp
<1>8. ASSUME NEW c \in Child, FetchFromChild(c) PROVE RequestInv'
  BY <1>8, SuppliesKeepsInv, SourceFacts DEF FetchFromChild
<1>9. ASSUME NEW c \in Child, ChildFails(c) PROVE RequestInv'
  <2>1. /\ phase = "fetching" /\ plan # <<>> /\ plan' = Tail(plan)
        /\ ~completed[c] /\ c \in MayFail /\ c \in Source
        /\ completed' = [completed EXCEPT ![c] = TRUE]
        /\ failed' = failed \cup {c}
        /\ UNCHANGED <<state, window, nextUnread, oddRound, submitted, phase,
                       adaptive, reply, served, stalls, out, saidDone,
                       interrupted>>
    BY <1>9, SourceFacts DEF ChildFails, Turn, callerVars
  <2>2. plan' \in Seq(Source)
    BY <1>0, <2>1, HeadTailProperties DEF TypeOK
  <2>3. TypeOK'
    BY <1>0, <2>1, <2>2 DEF TypeOK
  <2>4. ExactlyOnce'
    BY <1>0, <2>1, SameRows
  <2>5. CompletedIsDrained'
    BY <1>0, <2>1 DEF CompletedIsDrained, TypeOK
  <2>6. ~AllWorkersCompleted
    BY <2>1 DEF AllWorkersCompleted
  <2>7. QED
    BY <1>0, <2>1, <2>3, <2>4, <2>5, <2>6
       DEF RequestInv, InterruptSticks, Interrupted
<1>10. CASE EndRound
  <2>1. /\ phase = "fetching" /\ phase' = "answering"
        /\ oddRound' = ~oddRound
        /\ state' = IF AllWorkersCompleted THEN "COMPLETED" ELSE state
        /\ UNCHANGED <<window, nextUnread, completed, submitted, plan,
                       adaptive, reply, served, stalls, failed, out, saidDone,
                       interrupted>>
    BY <1>10 DEF EndRound, sourceVars, callerVars
  <2>2. TypeOK'
    BY <1>0, <2>1 DEF TypeOK, QueryState
  <2>3. ExactlyOnce'
    BY <1>0, <2>1, SameRows
  <2>4. interrupted # "between calls"
    BY <1>0, <2>1 DEF InterruptSticks
  <2>5. QED
    BY <1>0, <2>1, <2>2, <2>3, <2>4
       DEF RequestInv, CompletedIsDrained, InterruptSticks, Interrupted,
           AllWorkersCompleted, WindowUsedUp
<1>11. CASE AnswerEmpty
  <2>1. /\ phase = "answering" /\ phase' = "idle" /\ WindowUsedUp
        /\ saidDone' = (saidDone \/ AllWorkersCompleted)
        /\ UNCHANGED <<state, window, nextUnread, oddRound, completed,
                       submitted, plan, adaptive, served, stalls, failed, out,
                       interrupted>>
    BY <1>11 DEF AnswerEmpty, requestVars, sourceVars
  <2>2. reply' \in Reply
    <3>1. \E message \in Message, done \in BOOLEAN :
              reply' = [message |-> message, done |-> done, rows |-> 0]
      BY <1>11 DEF AnswerEmpty, Answer, Message
    <3>2. QED
      BY <3>1 DEF Reply
  <2>3. TypeOK'
    BY <1>0, <2>1, <2>2 DEF TypeOK, AllWorkersCompleted
  <2>4. ExactlyOnce'
    BY <1>0, <2>1, SameRows
  <2>5. QED
    BY <1>0, <2>1, <2>3, <2>4
       DEF RequestInv, CompletedIsDrained, InterruptSticks, Interrupted,
           AllWorkersCompleted, WindowUsedUp
<1>12. CASE AnswerRows
  <2> DEFINE take == AtMost(adaptive, Len(window) - nextUnread)
             end == nextUnread + take
             done == end >= Len(window) /\ AllWorkersCompleted
  <2>1. /\ phase = "answering" /\ phase' = "idle" /\ ~WindowUsedUp
        /\ out' = out \o SubSeq(window, nextUnread + 1, end)
        /\ nextUnread' = end
        /\ state' = IF done THEN "COMPLETED" ELSE state
        /\ reply' = [message |-> IF done THEN "done" ELSE "more",
                     done |-> done, rows |-> take]
        /\ saidDone' = (saidDone \/ done)
        /\ UNCHANGED <<window, oddRound, completed, submitted, plan, adaptive,
                       served, stalls, failed, interrupted>>
    BY <1>12 DEF AnswerRows, Answer, sourceVars
  <2>2. /\ nextUnread \in Nat /\ Len(window) \in Nat /\ adaptive \in Nat
        /\ nextUnread <= Len(window)
        /\ window \in Seq(Row) /\ out \in Seq(Row)
    BY <1>0, WindowTypes
  <2>3. take \in Nat /\ end \in nextUnread .. Len(window)
    BY <2>1, <2>2 DEF AtMost, WindowUsedUp
  <2>4. done \in BOOLEAN
    BY DEF AllWorkersCompleted
  <2> HIDE DEF take, end
  <2>5. SubSeq(window, nextUnread + 1, end) \in Seq(Row)
    <3>1. \A i \in nextUnread + 1 .. end : window[i] \in Row
      BY <2>2, <2>3
    <3>2. QED
      BY <2>2, <2>3, <3>1, SubSeqProperties
  <2>6. TypeOK'
    <3>1. out' \in Seq(Row)
      BY <2>1, <2>2, <2>5, ConcatProperties
    <3>2. nextUnread' \in 0 .. Len(window')
      BY <2>1, <2>2, <2>3
    <3>3. reply' \in Reply
      BY <2>1, <2>3, <2>4 DEF Reply, Message
    <3>4. state' \in QueryState
      BY <1>0, <2>1 DEF TypeOK, QueryState
    <3>5. QED
      BY <1>0, <2>1, <2>4, <3>1, <3>2, <3>3, <3>4 DEF TypeOK
  <2>7. Merged' = Merged
    <3>1. SubSeq(window, nextUnread + 1, end)
            \o SubSeq(window, end + 1, Len(window)) = Unread
      <4>1. /\ nextUnread + 1 \in 1 .. Len(window) + 1
            /\ end \in (nextUnread + 1) - 1 .. Len(window)
            /\ Len(window) \in end .. Len(window)
        BY <2>2, <2>3
      <4>2. QED
        BY <2>2, <4>1, ConcatAdjacentSubSeq DEF Unread
    <3>2. SubSeq(window, end + 1, Len(window)) \in Seq(Row)
      <4>1. \A i \in end + 1 .. Len(window) : window[i] \in Row
        BY <2>2, <2>3
      <4>2. QED
        BY <2>2, <2>3, <4>1, SubSeqProperties
    <3>3. Unread' = SubSeq(window, end + 1, Len(window))
      BY <2>1 DEF Unread
    <3>4. (out \o SubSeq(window, nextUnread + 1, end))
            \o SubSeq(window, end + 1, Len(window))
          = out \o (SubSeq(window, nextUnread + 1, end)
                      \o SubSeq(window, end + 1, Len(window)))
      <4>1. out \in Seq(Row)
        BY <2>2
      <4>2. QED
        BY <4>1, <2>5, <3>2, RowsAssociative
    <3>5. out' \o Unread' = out \o Unread
      BY <2>1, <3>1, <3>3, <3>4
    <3>6. QED
      BY <3>5, <2>1 DEF Merged
  <2>8. ExactlyOnce'
    BY <1>0, <2>1, <2>7 DEF ExactlyOnce, MergesInOrder
  <2>9. saidDone => ~(~WindowUsedUp)
    BY <1>0
  <2>10. saidDone' => AllWorkersCompleted' /\ WindowUsedUp'
    BY <2>1, <2>9 DEF AllWorkersCompleted, WindowUsedUp
  <2>11. interrupted # "between calls"
    BY <1>0, <2>1 DEF InterruptSticks
  <2>12. QED
    BY <1>0, <2>1, <2>6, <2>8, <2>10, <2>11
       DEF RequestInv, CompletedIsDrained, InterruptSticks, Interrupted,
           AllWorkersCompleted
<1>13. ASSUME NEW final \in {"CANCELLED", "TIMED_OUT"}, Interrupt(final)
       PROVE  RequestInv'
  <2>1. /\ state # "ABSENT" /\ state' = final
        /\ interrupted' = IF phase = "idle" \/ interrupted = "between calls"
                          THEN "between calls" ELSE "in a call"
        /\ UNCHANGED <<window, nextUnread, oddRound, completed, submitted,
                       phase, plan, adaptive, reply, served, stalls, failed,
                       out, saidDone>>
    BY <1>13 DEF Interrupt, callVars, sourceVars
  <2>2. TypeOK'
    BY <1>0, <2>1 DEF TypeOK, QueryState
  <2>3. ExactlyOnce'
    BY <1>0, <2>1, SameRows
  <2>4. QED
    BY <1>0, <2>1, <2>2, <2>3
       DEF RequestInv, CompletedIsDrained, InterruptSticks, Interrupted,
           AllWorkersCompleted, WindowUsedUp
<1>14. CASE UNCHANGED vars
  <2>1. UNCHANGED <<state, window, nextUnread, oddRound, completed, submitted,
                    phase, plan, adaptive, reply, served, stalls, failed,
                    out, saidDone, interrupted>>
    BY <1>14 DEF vars, requestVars, callVars, sourceVars, callerVars
  <2>2. TypeOK'
    BY <1>0, <2>1 DEF TypeOK
  <2>3. ExactlyOnce'
    BY <1>0, <2>1, SameRows
  <2>4. QED
    BY <1>0, <2>1, <2>2, <2>3
       DEF RequestInv, CompletedIsDrained, InterruptSticks, Interrupted,
           AllWorkersCompleted, WindowUsedUp
<1>15. QED
  BY <1>1, <1>2, <1>3, <1>4, <1>5, <1>6, <1>7, <1>8, <1>9, <1>10, <1>11,
     <1>12, <1>13, <1>14
     DEF Next, BeginCall, Round, AskChild, Cancel, HandleTimeout

-----------------------------------------------------------------------------
\* Type correctness of the coordinator's request record.
THEOREM RequestTypeOK == Spec => []TypeOK
<1>1. RequestInv => TypeOK
  BY DEF RequestInv
<1>2. QED
  BY <1>1, InitRequestInv, NextRequestInv, PTL DEF Spec

\* fetchChunkForRpc loses and repeats no row it has merged, for every number
\* of children, chunk size, failure and interruption.
THEOREM RequestExactlyOnce == Spec => []ExactlyOnce
<1>1. RequestInv => ExactlyOnce
  BY DEF RequestInv
<1>2. QED
  BY <1>1, InitRequestInv, NextRequestInv, PTL DEF Spec

\* "done" means that every source whose RPCs succeeded is delivered in full.
THEOREM RequestDoneMeansDelivered == Spec => []DoneMeansDelivered
<1>1. RequestInv => DoneMeansDelivered
  <2> SUFFICES ASSUME RequestInv, saidDone,
                      NEW s \in Source \ failed, NEW n \in 1 .. Supply[s]
               PROVE  \E i \in DOMAIN out : out[i] = <<s, n>>
    BY DEF DoneMeansDelivered
  <2>1. served[s] = Supply[s]
    BY DEF RequestInv, AllWorkersCompleted, CompletedIsDrained
  <2>2. Merged = out
    BY UsedUpMeansMergedIsOut DEF RequestInv
  <2>3. QED
    BY <2>1, <2>2 DEF RequestInv, ExactlyOnce, MergesInOrder
<1>2. QED
  BY <1>1, InitRequestInv, NextRequestInv, PTL DEF Spec

\* A cancelled or timed out request asks no worker again once the call in
\* flight has ended.
THEOREM RequestInterruptStopsFetching == Spec => InterruptStopsFetching
<1> DEFINE Stops == (phase = "idle" /\ phase' = "fetching")
                        => interrupted = "no"
<1>1. RequestInv /\ [Next]_vars => [Stops]_vars
  <2> SUFFICES ASSUME RequestInv, Next, phase = "idle", phase' = "fetching"
               PROVE  interrupted = "no"
    OBVIOUS
  <2>1. BeginRound
    BY DEF Next, BeginCall, Round, AskChild, Cancel, HandleTimeout, Submit,
           AnswerAtOnce, BeginFromWindow, SkipCompleted, FetchLocal,
           SubmitToChild, FetchFromChild, ChildFails, EndRound, AnswerEmpty,
           AnswerRows, Interrupt, Turn, callVars
  <2>2. QED
    BY <2>1 DEF BeginRound, RequestInv, InterruptSticks, Interrupted
<1>2. QED
  BY <1>1, InitRequestInv, NextRequestInv, PTL DEF Spec, InterruptStopsFetching

\* Cancelled or timed out between two calls, a request hands over no row.
THEOREM RequestQuietInterruptIsFinal == Spec => QuietInterruptIsFinal
<1> DEFINE Final == interrupted = "between calls" => out' = out
<1>1. RequestInv /\ [Next]_vars => [Final]_vars
  <2> SUFFICES ASSUME RequestInv, Next, interrupted = "between calls"
               PROVE  out' = out
    OBVIOUS
  <2>1. phase = "idle"
    BY DEF RequestInv, InterruptSticks
  <2>2. Submit \/ BeginCall \/ Cancel \/ HandleTimeout
    BY <2>1 DEF Next, Round, AskChild, SkipCompleted, FetchLocal,
           SubmitToChild, FetchFromChild, ChildFails, EndRound, AnswerEmpty,
           AnswerRows, Turn
  <2>3. QED
    BY <2>2 DEF Submit, BeginCall, AnswerAtOnce, BeginRound, BeginFromWindow,
           Cancel, HandleTimeout, Interrupt, callerVars
<1>2. QED
  BY <1>1, InitRequestInv, NextRequestInv, PTL DEF Spec, QuietInterruptIsFinal
-----------------------------------------------------------------------------
\* The window within a round.

\* A round asks every source once, for no more rows than the call may return:
\* what is in the window came from sources that are no more in the plan.
PlanIsFresh ==
    phase = "fetching" =>
        /\ adaptive \in ChunkSizes
        /\ \A i, j \in DOMAIN plan : plan[i] = plan[j] => i = j
        /\ \A i \in DOMAIN plan, j \in DOMAIN window : window[j][1] # plan[i]

\* A child an RPC to which failed is not asked again.
FailedIsCompleted == \A c \in failed : completed[c]

RoundInv ==
    /\ RequestInv
    /\ PlanIsFresh
    /\ FailedIsCompleted
    /\ WindowIsBounded

LEMMA RoundPlanIsFresh == \A i, j \in DOMAIN RoundPlan : RoundPlan[i] = RoundPlan[j] => i = j
<1>1. /\ <<Self>> \in Seq(Source) /\ Len(<<Self>>) = 1 /\ <<Self>>[1] = Self
      /\ Children \in Seq(Source) /\ Len(Children) \in Nat
      /\ DOMAIN Children = 1 .. Len(Children)
  BY SourceFacts
<1>2. \A i \in 1 .. Len(Children) : Children[i] # Self
  BY <1>1 DEF Child
<1>3. \A i, j \in 1 .. Len(Children) : Children[i] = Children[j] => i = j
  BY <1>1
<1>4. ASSUME oddRound
      PROVE  \A i, j \in DOMAIN RoundPlan : RoundPlan[i] = RoundPlan[j] => i = j
  <2>1. /\ RoundPlan \in Seq(Source) /\ Len(RoundPlan) = Len(Children) + 1
        /\ \A i \in 1 .. Len(Children) + 1 :
               RoundPlan[i] = IF i <= Len(Children) THEN Children[i]
                              ELSE <<Self>>[i - Len(Children)]
    BY <1>1, <1>4, ConcatProperties DEF RoundPlan
  <2>2. DOMAIN RoundPlan = 1 .. Len(Children) + 1
    BY <2>1, LenProperties
  <2>3. \A i \in 1 .. Len(Children) + 1 :
            \/ i \in 1 .. Len(Children) /\ RoundPlan[i] = Children[i]
            \/ i = Len(Children) + 1 /\ RoundPlan[i] = Self
    BY <1>1, <2>1
  <2>4. QED
    BY <1>2, <1>3, <2>2, <2>3
<1>5. ASSUME ~oddRound
      PROVE  \A i, j \in DOMAIN RoundPlan : RoundPlan[i] = RoundPlan[j] => i = j
  <2>1. /\ RoundPlan \in Seq(Source) /\ Len(RoundPlan) = 1 + Len(Children)
        /\ \A i \in 1 .. 1 + Len(Children) :
               RoundPlan[i] = IF i <= 1 THEN <<Self>>[i] ELSE Children[i - 1]
    BY <1>1, <1>5, ConcatProperties DEF RoundPlan
  <2>2. DOMAIN RoundPlan = 1 .. 1 + Len(Children)
    BY <2>1, LenProperties
  <2>3. \A i \in 1 .. 1 + Len(Children) :
            \/ i = 1 /\ RoundPlan[i] = Self
            \/ i - 1 \in 1 .. Len(Children) /\ RoundPlan[i] = Children[i - 1]
    BY <1>1, <2>1
  <2>4. \A i, j \in 1 .. 1 + Len(Children) : i - 1 = j - 1 => i = j
    BY <1>1
  <2>5. QED
    BY <1>2, <1>3, <2>2, <2>3, <2>4
<1>6. QED
  BY <1>4, <1>5

\* The plan without its head.
LEMMA TailIsFresh ==
    ASSUME NEW p \in Seq(Source), p # <<>>,
           \A i, j \in DOMAIN p : p[i] = p[j] => i = j
    PROVE  /\ \A i, j \in DOMAIN Tail(p) : Tail(p)[i] = Tail(p)[j] => i = j
           /\ \A i \in DOMAIN Tail(p) : Tail(p)[i] # Head(p)
           /\ \A i \in DOMAIN Tail(p) : \E j \in DOMAIN p : Tail(p)[i] = p[j]
<1>1. /\ Tail(p) \in Seq(Source) /\ Len(Tail(p)) = Len(p) - 1
      /\ \A i \in 1 .. Len(Tail(p)) : Tail(p)[i] = p[i + 1]
      /\ Len(p) \in Nat /\ Len(p) >= 1
      /\ DOMAIN p = 1 .. Len(p) /\ Head(p) = p[1]
  BY HeadTailProperties, EmptySeq
<1>2. DOMAIN Tail(p) = 1 .. Len(p) - 1
  BY <1>1, LenProperties
<1> DEFINE t == Tail(p)
<1> HIDE DEF t
<1>3. \A i \in 1 .. Len(p) - 1 : i + 1 \in 1 .. Len(p) /\ t[i] = p[i + 1] /\ i + 1 # 1
  BY <1>1 DEF t
<1>4. \A i, j \in 1 .. Len(p) - 1 : i + 1 = j + 1 => i = j
  BY <1>1
<1>5. \A i, j \in 1 .. Len(p) - 1 : t[i] = t[j] => i = j
  <2> SUFFICES ASSUME NEW i \in 1 .. Len(p) - 1, NEW j \in 1 .. Len(p) - 1,
                      t[i] = t[j]
               PROVE  i = j
    OBVIOUS
  <2>1. i + 1 \in DOMAIN p /\ j + 1 \in DOMAIN p /\ p[i + 1] = p[j + 1]
    BY <1>1, <1>3
  <2>2. i + 1 = j + 1
    BY <2>1
  <2>3. QED
    BY <1>4, <2>2
<1>6. \A i \in 1 .. Len(p) - 1 : t[i] # p[1]
  <2> SUFFICES ASSUME NEW i \in 1 .. Len(p) - 1, t[i] = p[1]
               PROVE  FALSE
    OBVIOUS
  <2>1. /\ i + 1 \in DOMAIN p /\ 1 \in DOMAIN p /\ p[i + 1] = p[1]
        /\ i + 1 # 1
    BY <1>1, <1>3
  <2>2. QED
    BY <2>1
<1>7. QED
  BY <1>1, <1>2, <1>3, <1>5, <1>6 DEF t

\* No row of the window came from the source whose turn it is, and those that
\* follow in the plan are not that source either.
LEMMA TurnIsFresh ==
    ASSUME RequestInv, PlanIsFresh, NEW s \in Source, Turn(s)
    PROVE  /\ \A i, j \in DOMAIN Tail(plan) :
                  Tail(plan)[i] = Tail(plan)[j] => i = j
           /\ \A i \in DOMAIN Tail(plan) : Tail(plan)[i] # s
           /\ \A i \in DOMAIN Tail(plan), j \in DOMAIN window :
                  window[j][1] # Tail(plan)[i]
           /\ \A j \in DOMAIN window : window[j][1] # s
           /\ adaptive \in ChunkSizes
<1>1. /\ plan \in Seq(Source) /\ plan # <<>> /\ phase = "fetching"
      /\ Head(plan) = s
  BY DEF RequestInv, TypeOK, Turn
<1>2. /\ adaptive \in ChunkSizes
      /\ \A i, j \in DOMAIN plan : plan[i] = plan[j] => i = j
      /\ \A i \in DOMAIN plan, j \in DOMAIN window : window[j][1] # plan[i]
  BY <1>1 DEF PlanIsFresh
<1>3. /\ \A i, j \in DOMAIN Tail(plan) : Tail(plan)[i] = Tail(plan)[j] => i = j
      /\ \A i \in DOMAIN Tail(plan) : Tail(plan)[i] # s
      /\ \A i \in DOMAIN Tail(plan) : \E j \in DOMAIN plan : Tail(plan)[i] = plan[j]
  BY <1>1, <1>2, TailIsFresh
<1>4. 1 \in DOMAIN plan /\ plan[1] = s
  BY <1>1, HeadTailProperties, EmptySeq
<1>5. QED
  BY <1>2, <1>3, <1>4

LEMMA FailedIsSource == TypeOK => failed \subseteq Child /\ failed \subseteq Source
BY SourceFacts DEF TypeOK

\* What stands where after two sequences of rows are joined.
LEMMA JoinedRows ==
    ASSUME NEW w \in Seq(Row), NEW b \in Seq(Row)
    PROVE  \A j \in DOMAIN (w \o b) :
               \/ j \in DOMAIN w /\ (w \o b)[j] = w[j]
               \/ \E n \in DOMAIN b : (w \o b)[j] = b[n]
<1> DEFINE u == w \o b
<1>0. /\ Len(w) \in Nat /\ DOMAIN w = 1 .. Len(w)
      /\ Len(b) \in Nat /\ DOMAIN b = 1 .. Len(b)
  BY LenProperties
<1>1. /\ u \in Seq(Row) /\ Len(u) = Len(w) + Len(b)
      /\ \A i \in 1 .. Len(w) + Len(b) :
             u[i] = IF i <= Len(w) THEN w[i] ELSE b[i - Len(w)]
  BY ConcatProperties
<1>2. DOMAIN u = 1 .. Len(w) + Len(b)
  BY <1>1, LenProperties
<1> HIDE DEF u
<1>3. ASSUME NEW j \in 1 .. Len(w) + Len(b)
      PROVE  \/ j \in DOMAIN w /\ u[j] = w[j]
             \/ \E n \in DOMAIN b : u[j] = b[n]
  <2>1. CASE j <= Len(w)
    <3>1. j \in DOMAIN w
      BY <1>0, <2>1
    <3>2. u[j] = w[j]
      BY <1>1, <2>1
    <3>3. QED
      BY <3>1, <3>2
  <2>2. CASE ~(j <= Len(w))
    <3>1. j - Len(w) \in DOMAIN b /\ u[j] = b[j - Len(w)]
      BY <1>0, <1>1, <2>2
    <3>2. QED
      BY <3>1
  <2>3. QED
    BY <2>1, <2>2
<1>4. QED
  BY <1>2, <1>3 DEF u

\* A source hands over a chunk of at most `adaptive' rows.
LEMMA SuppliesKeepsWindow ==
    ASSUME RoundInv, NEW s \in Source, Turn(s), ~completed[s], Supplies(s)
    PROVE  PlanIsFresh' /\ FailedIsCompleted' /\ WindowIsBounded'
<1> PICK k \in 0 .. adaptive, hasMore \in BOOLEAN : Merge(s, k, hasMore)
  BY DEF Supplies
<1> DEFINE b == Batch(s, k)
<1>0. /\ RequestInv /\ TypeOK /\ PlanIsFresh /\ FailedIsCompleted /\ WindowIsBounded
  BY DEF RoundInv, RequestInv
<1>1. /\ served[s] \in Nat /\ window \in Seq(Row) /\ adaptive \in Nat /\ k \in Nat
      /\ k <= adaptive
  <2>1. window \in Seq(Row) /\ adaptive \in Nat
    BY <1>0, WindowTypes
  <2>2. served \in [Source -> Nat]
    BY <1>0 DEF TypeOK
  <2>3. QED
    BY <2>1, <2>2
<1>2. b \in Seq(Row) /\ Len(b) = k
      /\ \A n \in 1 .. k : b[n] = <<s, served[s] + n>>
  <2>1. \A n \in 1 .. k : <<s, served[s] + n>> \in Row
    BY <1>1 DEF Row
  <2>2. QED
    BY <1>1, <2>1 DEF Batch
<1>3. /\ window' = window \o b /\ plan' = Tail(plan) /\ adaptive' = adaptive
      /\ completed' = [completed EXCEPT ![s] = ~hasMore] /\ failed' = failed
      /\ phase' = phase
  BY DEF Merge
<1> HIDE DEF b
<1>4. \A j \in DOMAIN window' :
          \/ j \in DOMAIN window /\ window'[j] = window[j]
          \/ \E n \in 1 .. k : window'[j] = <<s, served[s] + n>>
  <2>1. \A j \in DOMAIN (window \o b) :
            \/ j \in DOMAIN window /\ (window \o b)[j] = window[j]
            \/ \E n \in DOMAIN b : (window \o b)[j] = b[n]
    BY <1>1, <1>2, JoinedRows
  <2>2. DOMAIN b = 1 .. k
    BY <1>2, LenProperties
  <2>3. QED
    BY <1>2, <1>3, <2>1, <2>2
<1>5. PlanIsFresh'
  <2>1. \A i \in DOMAIN Tail(plan), j \in DOMAIN window' :
            window'[j][1] # Tail(plan)[i]
    BY <1>0, <1>4, TurnIsFresh
  <2>2. QED
    BY <1>0, <1>3, <2>1, TurnIsFresh DEF PlanIsFresh
<1>6. FailedIsCompleted'
  <2>1. s \notin failed
    BY <1>0 DEF FailedIsCompleted
  <2>2. \A c \in failed : completed'[c]
    BY <1>0, <1>3, <2>1, FailedIsSource DEF FailedIsCompleted, TypeOK
  <2>3. QED
    BY <1>3, <2>2 DEF FailedIsCompleted
<1>7. WindowIsBounded'
  <2> SUFFICES ASSUME NEW i \in DOMAIN window', NEW j \in DOMAIN window',
                      window'[i][1] = window'[j][1]
               PROVE  \E size \in ChunkSizes : window'[j][2] < window'[i][2] + size
    BY <1>3 DEF WindowIsBounded
  <2>1. CASE window'[i][1] = s
    <3>1. /\ \E n \in 1 .. k : window'[i] = <<s, served[s] + n>>
          /\ \E n \in 1 .. k : window'[j] = <<s, served[s] + n>>
      BY <1>0, <1>4, <2>1, TurnIsFresh
    <3>2. PICK m \in 1 .. k, n \in 1 .. k :
              window'[i][2] = served[s] + m /\ window'[j][2] = served[s] + n
      BY <3>1
    <3>3. served[s] + n < served[s] + m + adaptive
      BY <1>1
    <3>4. adaptive \in ChunkSizes
      BY <1>0, TurnIsFresh
    <3>5. QED
      BY <3>2, <3>3, <3>4
  <2>2. CASE window'[i][1] # s
    <3>1. /\ i \in DOMAIN window /\ window'[i] = window[i]
          /\ j \in DOMAIN window /\ window'[j] = window[j]
      BY <1>4, <2>2
    <3>2. QED
      BY <1>0, <3>1 DEF WindowIsBounded
  <2>3. QED
    BY <2>1, <2>2
<1>8. QED
  BY <1>5, <1>6, <1>7

LEMMA InitRoundInv == Init => RoundInv
<1> SUFFICES ASSUME Init PROVE RoundInv
  OBVIOUS
<1>1. DOMAIN window = {}
  BY DEF Init
<1>2. QED
  BY <1>1, InitRequestInv
     DEF Init, RoundInv, PlanIsFresh, FailedIsCompleted, WindowIsBounded

LEMMA NextRoundInv == RoundInv /\ [Next]_vars => RoundInv'
<1> SUFFICES ASSUME RoundInv, [Next]_vars PROVE RoundInv'
  OBVIOUS
<1>0. /\ RequestInv /\ TypeOK /\ PlanIsFresh /\ FailedIsCompleted /\ WindowIsBounded
  BY DEF RoundInv, RequestInv
<1>1. RequestInv'
  BY <1>0, NextRequestInv
<1>2. CASE BeginRound
  <2>1. /\ window' = <<>> /\ plan' = RoundPlan /\ phase' = "fetching"
        /\ adaptive' \in ChunkSizes /\ UNCHANGED <<completed, failed>>
    BY <1>2 DEF BeginRound, sourceVars
  <2>2. DOMAIN window' = {}
    BY <2>1
  <2>3. PlanIsFresh'
    BY <2>1, <2>2, RoundPlanIsFresh DEF PlanIsFresh
  <2>4. WindowIsBounded'
    BY <2>2 DEF WindowIsBounded
  <2>5. QED
    BY <1>0, <1>1, <2>1, <2>3, <2>4 DEF RoundInv, FailedIsCompleted
<1>3. ASSUME NEW s \in Source, SkipCompleted(s) PROVE RoundInv'
  <2>1. /\ Turn(s) /\ plan' = Tail(plan)
        /\ UNCHANGED <<window, completed, failed, adaptive, phase>>
    BY <1>3 DEF SkipCompleted, requestVars, sourceVars
  <2>2. PlanIsFresh'
    BY <1>0, <2>1, TurnIsFresh DEF PlanIsFresh
  <2>3. QED
    BY <1>0, <1>1, <2>1, <2>2 DEF RoundInv, FailedIsCompleted, WindowIsBounded
<1>4. CASE FetchLocal
  BY <1>1, <1>4, SuppliesKeepsWindow, SourceFacts DEF FetchLocal, RoundInv
<1>5. ASSUME NEW c \in Child, FetchFromChild(c) PROVE RoundInv'
  BY <1>1, <1>5, SuppliesKeepsWindow, SourceFacts DEF FetchFromChild, RoundInv
<1>6. ASSUME NEW c \in Child, ChildFails(c) PROVE RoundInv'
  <2>1. /\ Turn(c) /\ c \in Source /\ plan' = Tail(plan)
        /\ completed' = [completed EXCEPT ![c] = TRUE]
        /\ failed' = failed \cup {c}
        /\ UNCHANGED <<window, adaptive, phase>>
    BY <1>6, SourceFacts DEF ChildFails
  <2>2. PlanIsFresh'
    BY <1>0, <2>1, TurnIsFresh DEF PlanIsFresh
  <2>3. FailedIsCompleted'
    BY <1>0, <2>1, FailedIsSource DEF FailedIsCompleted, TypeOK
  <2>4. QED
    BY <1>0, <1>1, <2>1, <2>2, <2>3 DEF RoundInv, WindowIsBounded
<1>7. CASE BeginFromWindow \/ EndRound \/ AnswerEmpty \/ AnswerRows
  <2>1. /\ phase' # "fetching"
        /\ UNCHANGED <<window, completed, failed>>
    BY <1>7 DEF BeginFromWindow, EndRound, AnswerEmpty, AnswerRows,
                requestVars, sourceVars
  <2>2. QED
    BY <1>0, <1>1, <2>1
       DEF RoundInv, PlanIsFresh, FailedIsCompleted, WindowIsBounded
<1>8. CASE Submit \/ AnswerAtOnce \/ (\E c \in Child : SubmitToChild(c))
           \/ Cancel \/ HandleTimeout \/ UNCHANGED vars
  <2>1. UNCHANGED <<window, completed, failed, plan, adaptive, phase>>
    BY <1>8 DEF Submit, AnswerAtOnce, SubmitToChild, Cancel, HandleTimeout,
                Interrupt, vars, requestVars, callVars, sourceVars
  <2>2. QED
    BY <1>0, <1>1, <2>1
       DEF RoundInv, PlanIsFresh, FailedIsCompleted, WindowIsBounded
<1>9. QED
  BY <1>2, <1>3, <1>4, <1>5, <1>6, <1>7, <1>8
     DEF Next, BeginCall, Round, AskChild

\* A window never holds rows of one source further apart than one chunk, so
\* the node's memory does not grow with the result: BeginRound clears it and
\* no source is asked twice in a round.
THEOREM RequestWindowIsBounded == Spec => []WindowIsBounded
<1>1. RoundInv => WindowIsBounded
  BY DEF RoundInv
<1>2. QED
  BY <1>1, InitRoundInv, NextRoundInv, PTL DEF Spec
-----------------------------------------------------------------------------
\* The refinement of ChunkStream.

\* What was handed over before a reply and what the reply adds.
LEMMA ReplyExtends ==
    ASSUME NEW S, NEW s \in Seq(S), NEW t \in Seq(S)
    PROVE  /\ Len(s \o t) >= Len(s)
           /\ SubSeq(s \o t, 1, Len(s)) = s
           /\ SubSeq(s \o t, Len(s) + 1, Len(s \o t)) = t
<1> DEFINE u == s \o t
<1>1. /\ u \in Seq(S) /\ Len(u) = Len(s) + Len(t)
      /\ Len(s) \in Nat /\ Len(t) \in Nat
      /\ \A i \in 1 .. Len(s) + Len(t) :
             u[i] = IF i <= Len(s) THEN s[i] ELSE t[i - Len(s)]
  BY ConcatProperties, LenProperties
<1> HIDE DEF u
<1>2. \A i \in 1 .. Len(u) : u[i] \in S
  BY <1>1, ElementOfSeq
<1>3. SubSeq(u, 1, Len(s)) = s
  <2>1. /\ SubSeq(u, 1, Len(s)) \in Seq(S)
        /\ Len(SubSeq(u, 1, Len(s))) = Len(s)
        /\ \A i \in 1 .. Len(s) : SubSeq(u, 1, Len(s))[i] = u[i]
    <3>1. \A i \in 1 .. Len(s) : u[i] \in S
      BY <1>1, <1>2
    <3>2. QED
      BY <1>1, <3>1, SubSeqProperties
  <2>2. \A i \in 1 .. Len(s) : u[i] = s[i]
    BY <1>1
  <2>3. QED
    BY <2>1, <2>2, SeqEqual
<1>4. SubSeq(u, Len(s) + 1, Len(u)) = t
  <2> DEFINE v == SubSeq(u, Len(s) + 1, Len(u))
  <2>1. /\ v \in Seq(S)
        /\ Len(v) = Len(t)
        /\ \A i \in 1 .. Len(t) : v[i] = u[Len(s) + i]
    <3>1. \A i \in Len(s) + 1 .. Len(u) : u[i] \in S
      BY <1>1, <1>2
    <3>2. /\ v \in Seq(S)
          /\ Len(v) = IF Len(s) + 1 <= Len(u) THEN Len(u) - (Len(s) + 1) + 1 ELSE 0
          /\ \A i \in 1 .. Len(u) - (Len(s) + 1) + 1 : v[i] = u[Len(s) + 1 + i - 1]
      BY <1>1, <3>1, SubSeqProperties
    <3>3. \A i \in 1 .. Len(t) : Len(s) + 1 + i - 1 = Len(s) + i
      BY <1>1
    <3>4. Len(u) - (Len(s) + 1) + 1 = Len(t)
      BY <1>1
    <3>5. QED
      BY <1>1, <3>2, <3>3, <3>4
  <2> HIDE DEF v
  <2>2. \A i \in 1 .. Len(t) : u[Len(s) + i] = t[i]
    <3>1. \A i \in 1 .. Len(t) :
              /\ Len(s) + i \in 1 .. Len(s) + Len(t)
              /\ ~(Len(s) + i <= Len(s)) /\ (Len(s) + i) - Len(s) = i
      BY <1>1
    <3>2. QED
      BY <1>1, <3>1
  <2>3. v = t
    BY <2>1, <2>2, SeqEqual
  <2>4. QED
    BY <2>3 DEF v
<1>5. QED
  BY <1>1, <1>3, <1>4 DEF u

\* The rows of two sequences together.
LEMMA JoinedElements ==
    ASSUME NEW x \in Seq(Row), NEW y \in Seq(Row)
    PROVE  /\ {(x \o y)[i] : i \in DOMAIN (x \o y)}
                  = {x[i] : i \in DOMAIN x} \cup {y[i] : i \in DOMAIN y}
           /\ \A i \in DOMAIN x : i \in DOMAIN (x \o y) /\ (x \o y)[i] = x[i]
           /\ \A i \in DOMAIN y : /\ Len(x) + i \in DOMAIN (x \o y)
                                  /\ (x \o y)[Len(x) + i] = y[i]
<1> DEFINE u == x \o y
<1>0. /\ Len(x) \in Nat /\ DOMAIN x = 1 .. Len(x)
      /\ Len(y) \in Nat /\ DOMAIN y = 1 .. Len(y)
  BY LenProperties
<1>1. /\ u \in Seq(Row) /\ Len(u) = Len(x) + Len(y)
      /\ \A i \in 1 .. Len(x) + Len(y) :
             u[i] = IF i <= Len(x) THEN x[i] ELSE y[i - Len(x)]
  BY ConcatProperties
<1>2. DOMAIN u = 1 .. Len(x) + Len(y)
  BY <1>1, LenProperties
<1>3. \A j \in DOMAIN u : \/ j \in DOMAIN x /\ u[j] = x[j]
                          \/ \E n \in DOMAIN y : u[j] = y[n]
  BY JoinedRows
<1> HIDE DEF u
<1>4. \A i \in DOMAIN x : i \in DOMAIN u /\ u[i] = x[i]
  BY <1>0, <1>1, <1>2
<1>5. ASSUME NEW i \in DOMAIN y
      PROVE  Len(x) + i \in DOMAIN u /\ u[Len(x) + i] = y[i]
  <2>1. /\ Len(x) + i \in 1 .. Len(x) + Len(y)
        /\ ~(Len(x) + i <= Len(x)) /\ (Len(x) + i) - Len(x) = i
    BY <1>0
  <2>2. u[Len(x) + i] = y[(Len(x) + i) - Len(x)]
    BY <1>1, <2>1
  <2>3. QED
    BY <1>2, <2>1, <2>2
<1>6. {u[i] : i \in DOMAIN u} = {x[i] : i \in DOMAIN x} \cup {y[i] : i \in DOMAIN y}
  BY <1>3, <1>4, <1>5
<1>7. QED
  BY <1>4, <1>5, <1>6 DEF u

\* The rows handed over are distinct, and a source has sent each of them.
DistinctOwedRows ==
    /\ \A i, j \in DOMAIN out : out[i] = out[j] => i = j
    /\ \A i \in DOMAIN out : /\ out[i] \in OwedRows
                             /\ out[i] \notin LostRows
                             /\ out[i][2] <= served[out[i][1]]

LEMMA OutIsDistinct == RequestInv => DistinctOwedRows
<1> SUFFICES ASSUME RequestInv PROVE DistinctOwedRows
  OBVIOUS
<1>1. /\ TypeOK /\ MergesInOrder(Merged, served) /\ CompletedIsDrained
      /\ served \in [Source -> Nat] /\ out \in Seq(Row)
  BY DEF RequestInv, ExactlyOnce, TypeOK
<1>2. \A i \in DOMAIN out : i \in DOMAIN Merged /\ Merged[i] = out[i]
  BY <1>1, UnreadType, JoinedElements DEF Merged
<1>3. DOMAIN out = 1 .. Len(out) /\ Len(out) \in Nat
  BY <1>1, LenProperties
<1>4. ASSUME NEW i \in DOMAIN out
      PROVE  out[i] \in Row /\ out[i][1] \in Source /\ out[i][2] \in Nat \ {0}
  <2>1. out[i] \in Row
    BY <1>1, <1>3, ElementOfSeq
  <2>2. QED
    BY <2>1 DEF Row
<1>5. ASSUME NEW i \in DOMAIN out, NEW j \in DOMAIN out, out[i] = out[j]
      PROVE  i = j
  <2>1. \A m, n \in DOMAIN out :
            (m < n /\ out[m][1] = out[n][1]) => out[m][2] < out[n][2]
    BY <1>1, <1>2 DEF MergesInOrder
  <2>2. ~(out[i][2] < out[j][2]) /\ ~(out[j][2] < out[i][2])
    BY <1>4, <1>5
  <2>3. ~(i < j) /\ ~(j < i)
    BY <1>5, <2>1, <2>2
  <2>4. QED
    BY <1>3, <2>3
<1>6. ASSUME NEW i \in DOMAIN out
      PROVE  /\ out[i] \in OwedRows /\ out[i] \notin LostRows
             /\ out[i][2] <= served[out[i][1]]
  <2>1. out[i][2] <= served[out[i][1]]
    BY <1>1, <1>2 DEF MergesInOrder
  <2>2. /\ served[out[i][1]] <= Supply[out[i][1]]
        /\ served[out[i][1]] \in Nat /\ Supply[out[i][1]] \in Nat
    BY <1>1, <1>4 DEF CompletedIsDrained
  <2>3. out[i][2] \in 1 .. Supply[out[i][1]]
    BY <1>4, <2>1, <2>2
  <2>4. out[i] = <<out[i][1], out[i][2]>>
    BY <1>4 DEF Row
  <2>5. out[i] \in OwedRows
    BY <1>4, <2>3, <2>4 DEF OwedRows
  <2>6. out[i] \notin LostRows
    BY <1>4, <2>1, <2>2 DEF LostRows
  <2>7. QED
    BY <2>1, <2>5, <2>6
<1>7. QED
  BY <1>5, <1>6 DEF DistinctOwedRows

LEMMA OwedIsRow == OwedRows \subseteq Row
BY DEF OwedRows, Row

\* When the caller was told "done", no row is owed any more.
NothingOwed ==
    saidDone => OwedRows \ (LostRows \cup {out[i] : i \in DOMAIN out}) = {}

LEMMA DoneOwesNothing == RequestInv => NothingOwed
<1> SUFFICES ASSUME RequestInv, saidDone, NEW r \in OwedRows, r \notin LostRows
             PROVE  \E i \in DOMAIN out : out[i] = r
  BY DEF NothingOwed
<1>1. /\ TypeOK /\ MergesInOrder(Merged, served) /\ CompletedIsDrained
      /\ served \in [Source -> Nat] /\ AllWorkersCompleted /\ WindowUsedUp
  BY DEF RequestInv, ExactlyOnce, TypeOK
<1>a. PICK s \in Source : \E n \in 1 .. Supply[s] : r = <<s, n>>
  BY DEF OwedRows
<1>2. PICK n \in 1 .. Supply[s] : r = <<s, n>>
  BY <1>a
<1>3. n <= served[s]
  <2>1. CASE s \in failed
    <3>1. ~(n > served[s])
      BY <1>2, <2>1 DEF LostRows
    <3>2. served[s] \in Nat /\ Supply[s] \in Nat
      BY <1>1
    <3>3. QED
      BY <3>1, <3>2
  <2>2. CASE s \notin failed
    BY <1>1, <2>2 DEF AllWorkersCompleted, CompletedIsDrained
  <2>3. QED
    BY <2>1, <2>2
<1>4. n \in 1 .. served[s]
  BY <1>1, <1>3
<1>5. Merged = out
  BY <1>1, UsedUpMeansMergedIsOut
<1>6. QED
  BY <1>1, <1>2, <1>4, <1>5 DEF MergesInOrder

\* The stream as its caller sees it until he is told of an interruption.
Plain == INSTANCE ChunkStream WITH
    MayLose <- MayFail # {},
    MayStop <- MayInterrupt,
    pending <- OwedRows \ (LostRows \cup {out[i] : i \in DOMAIN out}),
    lost <- LostRows,
    finished <- saidDone

\* Steps that hand over nothing, lose no child and say nothing are stutters.
LEMMA QuietStep ==
    UNCHANGED <<out, served, failed, saidDone>> => UNCHANGED Plain!vars
BY DEF Plain!vars, LostRows

\* A batch of the window, handed over, is a reply of the stream.
LEMMA AnswerRowsRefines ==
    ASSUME RequestInv, RequestInv', AnswerRows
    PROVE  Plain!Reply
<1> DEFINE take == AtMost(adaptive, Len(window) - nextUnread)
           end == nextUnread + take
           b == SubSeq(window, nextUnread + 1, end)
           gone == {out[i] : i \in DOMAIN out}
           new == SubSeq(out', Len(out) + 1, Len(out'))
<1>1. /\ out' = out \o b /\ ~WindowUsedUp
      /\ saidDone' \in BOOLEAN
      /\ UNCHANGED <<served, failed>>
  <2>1. AnswerRows
    OBVIOUS
  <2>2. saidDone' \in BOOLEAN
    BY DEF RequestInv, TypeOK
  <2>3. QED
    BY <2>1, <2>2 DEF AnswerRows, sourceVars
<1>2. ~saidDone
  BY <1>1 DEF RequestInv
<1>3. b \in Seq(Row) /\ out \in Seq(Row)
  <2>1. /\ nextUnread \in Nat /\ Len(window) \in Nat /\ adaptive \in Nat
        /\ nextUnread <= Len(window)
        /\ window \in Seq(Row) /\ out \in Seq(Row)
    BY WindowTypes DEF RequestInv
  <2>2. take \in Nat /\ end \in nextUnread .. Len(window)
    BY <1>1, <2>1 DEF AtMost, WindowUsedUp
  <2> HIDE DEF end, take
  <2>3. \A i \in nextUnread + 1 .. end : window[i] \in Row
    BY <2>1, <2>2
  <2>4. QED
    BY <2>1, <2>2, <2>3, SubSeqProperties
<1> HIDE DEF b
<1>4. /\ Len(out') >= Len(out)
      /\ SubSeq(out', 1, Len(out)) = out
      /\ new = b
  BY <1>1, <1>3, ReplyExtends
<1>5. /\ {out'[i] : i \in DOMAIN out'} = gone \cup {b[i] : i \in DOMAIN b}
      /\ \A i \in DOMAIN out : i \in DOMAIN out' /\ out'[i] = out[i]
      /\ \A i \in DOMAIN b : /\ Len(out) + i \in DOMAIN out'
                             /\ out'[Len(out) + i] = b[i]
  <2>1. /\ {(out \o b)[i] : i \in DOMAIN (out \o b)}
               = {out[i] : i \in DOMAIN out} \cup {b[i] : i \in DOMAIN b}
        /\ \A i \in DOMAIN out : i \in DOMAIN (out \o b) /\ (out \o b)[i] = out[i]
        /\ \A i \in DOMAIN b : /\ Len(out) + i \in DOMAIN (out \o b)
                               /\ (out \o b)[Len(out) + i] = b[i]
    BY <1>3, JoinedElements
  <2>2. QED
    BY <1>1, <2>1
<1>6. /\ \A i, j \in DOMAIN out' : out'[i] = out'[j] => i = j
      /\ \A i \in DOMAIN out' : out'[i] \in OwedRows /\ out'[i] \notin LostRows'
  <2>1. DistinctOwedRows'
    BY OutIsDistinct, PTL
  <2>2. QED
    BY <2>1 DEF DistinctOwedRows, OwedRows
<1>7. LostRows' = LostRows /\ OwedRows' = OwedRows
  BY <1>1 DEF LostRows, OwedRows
<1>8. /\ DOMAIN b = 1 .. Len(b) /\ Len(b) \in Nat
      /\ DOMAIN out = 1 .. Len(out) /\ Len(out) \in Nat
  BY <1>3, LenProperties
<1>9. \A i, j \in DOMAIN b : b[i] = b[j] => i = j
  <2> SUFFICES ASSUME NEW i \in DOMAIN b, NEW j \in DOMAIN b, b[i] = b[j]
               PROVE  i = j
    OBVIOUS
  <2>1. Len(out) + i = Len(out) + j
    BY <1>5, <1>6
  <2>2. QED
    BY <1>8, <2>1
<1>10. \A i \in DOMAIN b : b[i] \notin gone
  <2> SUFFICES ASSUME NEW i \in DOMAIN b, NEW j \in DOMAIN out, b[i] = out[j]
               PROVE  FALSE
    OBVIOUS
  <2>1. Len(out) + i = j
    BY <1>5, <1>6
  <2>2. QED
    BY <1>8, <2>1
<1>11. {b[i] : i \in DOMAIN b} \subseteq OwedRows \ (LostRows \cup gone)
  BY <1>5, <1>6, <1>7, <1>10
<1>12. saidDone' \in {FALSE, (OwedRows \ (LostRows \cup gone))' = {}}
  <2>1. NothingOwed'
    BY DoneOwesNothing, PTL
  <2>2. QED
    BY <1>1, <2>1 DEF NothingOwed
<1>13. (OwedRows \ (LostRows \cup gone))'
           = (OwedRows \ (LostRows \cup gone)) \ {b[i] : i \in DOMAIN b}
  BY <1>5, <1>7
<1> HIDE DEF gone
<1>14. Plain!ElementsOf(new) = {b[i] : i \in DOMAIN b}
  BY <1>4 DEF Plain!ElementsOf
<1>15. \A i, j \in DOMAIN new : new[i] = new[j] => i = j
  BY <1>4, <1>9
<1> HIDE DEF new
<1>16. /\ Plain!ElementsOf(new) \subseteq OwedRows \ (LostRows \cup gone)
       /\ (OwedRows \ (LostRows \cup gone))'
              = (OwedRows \ (LostRows \cup gone)) \ Plain!ElementsOf(new)
  BY <1>11, <1>13, <1>14
<1>17. QED
  BY <1>2, <1>4, <1>7, <1>12, <1>15, <1>16 DEF Plain!Reply, new, gone

\* "done" without rows is a reply of the stream with an empty batch.
LEMMA AnswerEmptyRefines ==
    ASSUME RequestInv, RequestInv', AnswerEmpty
    PROVE  Plain!Reply \/ UNCHANGED Plain!vars
<1> DEFINE gone == {out[i] : i \in DOMAIN out}
<1>1. /\ saidDone' = (saidDone \/ AllWorkersCompleted)
      /\ UNCHANGED <<out, served, failed>>
      /\ saidDone \in BOOLEAN /\ saidDone' \in BOOLEAN
      /\ out \in Seq(Row) /\ Len(out) \in Nat
  <2>1. /\ saidDone' = (saidDone \/ AllWorkersCompleted)
        /\ UNCHANGED <<out, served, failed>>
    BY DEF AnswerEmpty, sourceVars
  <2>2. saidDone \in BOOLEAN /\ saidDone' \in BOOLEAN /\ out \in Seq(Row)
    BY DEF RequestInv, TypeOK
  <2>3. QED
    BY <2>1, <2>2, LenProperties
<1>2. CASE saidDone' = saidDone
  BY <1>1, <1>2, QuietStep
<1>3. CASE saidDone' # saidDone
  <2>1. saidDone' = TRUE /\ ~saidDone
    BY <1>1, <1>3
  <2>2. /\ LostRows' = LostRows /\ OwedRows' = OwedRows
        /\ (OwedRows \ (LostRows \cup gone))' = OwedRows \ (LostRows \cup gone)
    BY <1>1 DEF LostRows, OwedRows
  <2>a. NothingOwed'
    BY DoneOwesNothing, PTL
  <2>3. (OwedRows \ (LostRows \cup gone))' = {}
    BY <2>1, <2>a DEF NothingOwed
  <2>4. SubSeq(out', Len(out) + 1, Len(out')) = <<>>
    BY <1>1, SubSeqEmpty
  <2>5. SubSeq(out', 1, Len(out)) = out
    BY <1>1, SubSeqFull
  <2>6. Plain!ElementsOf(<<>>) = {} /\ DOMAIN <<>> = {}
    BY DEF Plain!ElementsOf
  <2> DEFINE e == <<>>
  <2>7. /\ \A i, j \in DOMAIN e : e[i] = e[j] => i = j
        /\ Plain!ElementsOf(e) \subseteq OwedRows \ (LostRows \cup gone)
        /\ (OwedRows \ (LostRows \cup gone))'
               = (OwedRows \ (LostRows \cup gone)) \ Plain!ElementsOf(e)
    BY <2>2, <2>6
  <2>8. Len(out') >= Len(out)
    BY <1>1
  <2> HIDE DEF gone
  <2>9. QED
    BY <2>1, <2>2, <2>3, <2>4, <2>5, <2>7, <2>8 DEF Plain!Reply, gone
<1>4. QED
  BY <1>2, <1>3

\* A child that fails gives up the rows it has not sent yet.
LEMMA ChildFailsRefines ==
    ASSUME RequestInv, NEW c \in Child, ChildFails(c)
    PROVE  Plain!GiveUp
<1> DEFINE gone == {out[i] : i \in DOMAIN out}
           pending == OwedRows \ (LostRows \cup gone)
<1>1. /\ c \in MayFail /\ ~completed[c] /\ failed' = failed \cup {c}
      /\ UNCHANGED <<out, served, saidDone>> /\ c \in Source
  BY SourceFacts DEF ChildFails, callerVars
<1>2. ~saidDone
  BY <1>1 DEF RequestInv, AllWorkersCompleted
<1>3. LostRows \subseteq LostRows' /\ OwedRows' = OwedRows /\ gone' = gone
  BY <1>1 DEF LostRows, OwedRows
<1>4. \A r \in LostRows' : r \notin gone /\ r \in OwedRows
  <2> SUFFICES ASSUME NEW i \in DOMAIN out, out[i] \in LostRows'
               PROVE  FALSE
    BY <1>3 DEF LostRows
  <2>1. out[i][2] > served[out[i][1]] /\ out[i] \in OwedRows
    BY <1>1 DEF LostRows
  <2>2. out[i][2] <= served[out[i][1]]
    BY OutIsDistinct DEF DistinctOwedRows
  <2>3. out[i][1] \in Source /\ out[i][2] \in Nat
    BY <2>1, OwedIsRow DEF Row
  <2>4. served[out[i][1]] \in Nat
    BY <2>3 DEF RequestInv, TypeOK
  <2>5. QED
    BY <2>1, <2>2, <2>3, <2>4
<1> HIDE DEF gone
<1>5. pending' \in SUBSET pending
  BY <1>3
<1>6. LostRows' = LostRows \cup (pending \ pending')
  BY <1>3, <1>4
<1>7. MayFail # {}
  BY <1>1
<1>8. QED
  BY <1>1, <1>2, <1>5, <1>6, <1>7 DEF Plain!GiveUp, gone

\* A chunk that joins the window changes nothing the stream shows: the source
\* it came from has not failed.
LEMMA SuppliesRefines ==
    ASSUME RoundInv, NEW s \in Source, ~completed[s], Supplies(s)
    PROVE  UNCHANGED Plain!vars
<1>1. PICK k \in 0 .. adaptive, hasMore \in BOOLEAN : Merge(s, k, hasMore)
  BY DEF Supplies
<1>2. /\ served' = [served EXCEPT ![s] = @ + k]
      /\ UNCHANGED <<failed, out, saidDone>>
  BY <1>1 DEF Merge, callerVars
<1>3. s \notin failed
  BY DEF RoundInv, FailedIsCompleted
<1>4. served \in [Source -> Nat]
  BY DEF RoundInv, RequestInv, TypeOK
<1>5. \A r \in OwedRows : r[1] \in failed => served'[r[1]] = served[r[1]]
  <2> SUFFICES ASSUME NEW r \in OwedRows, r[1] \in failed
               PROVE  served'[r[1]] = served[r[1]]
    OBVIOUS
  <2>1. r[1] \in Source /\ r[1] # s
    BY <1>3, OwedIsRow DEF Row
  <2>2. QED
    BY <1>2, <1>4, <2>1
<1>6. LostRows' = LostRows
  BY <1>2, <1>5 DEF LostRows, OwedRows
<1>7. QED
  BY <1>2, <1>6 DEF Plain!vars, OwedRows

\* Every step but an answer at once, in the view of a caller who was not told
\* of an interruption.
LEMMA PlainStep ==
    RoundInv /\ RoundInv' /\ [Next]_vars
        => Plain!Reply \/ Plain!GiveUp \/ UNCHANGED Plain!vars
<1> SUFFICES ASSUME RoundInv, RoundInv', [Next]_vars
             PROVE  Plain!Reply \/ Plain!GiveUp \/ UNCHANGED Plain!vars
  OBVIOUS
<1>0. RequestInv /\ RequestInv'
  BY DEF RoundInv
<1>1. CASE AnswerRows
  BY <1>0, <1>1, AnswerRowsRefines
<1>2. CASE AnswerEmpty
  BY <1>0, <1>2, AnswerEmptyRefines
<1>3. ASSUME NEW c \in Child, ChildFails(c) PROVE Plain!GiveUp
  BY <1>0, <1>3, ChildFailsRefines
<1>4. CASE FetchLocal
  BY <1>4, SuppliesRefines, SourceFacts DEF FetchLocal
<1>5. ASSUME NEW c \in Child, FetchFromChild(c) PROVE UNCHANGED Plain!vars
  BY <1>5, SuppliesRefines, SourceFacts DEF FetchFromChild
<1>6. CASE \/ Submit \/ BeginCall \/ EndRound \/ Cancel \/ HandleTimeout
           \/ \E s \in Source : SkipCompleted(s)
           \/ \E c \in Child : SubmitToChild(c)
           \/ UNCHANGED vars
  <2>1. UNCHANGED <<out, served, failed, saidDone>>
    BY <1>6 DEF Submit, BeginCall, AnswerAtOnce, BeginRound, BeginFromWindow,
                EndRound, Cancel, HandleTimeout, Interrupt, SkipCompleted,
                SubmitToChild, vars, sourceVars, callerVars
  <2>2. QED
    BY <2>1, QuietStep
<1>7. QED
  BY <1>1, <1>2, <1>3, <1>4, <1>5, <1>6 DEF Next, Round, AskChild

\* The caller is told of an interruption only while it stands and no call is
\* in flight; a request that nobody may interrupt has none.
StopInv ==
    /\ Interrupted => MayInterrupt
    /\ ToldInterrupted => Interrupted /\ phase = "idle"

LEMMA InitStopInv == Init => StopInv
BY DEF Init, StopInv, Interrupted, ToldInterrupted

\* What the caller is told by an answer at once.
LEMMA WhatAnswerAtOnceTells ==
    ASSUME AnswerAtOnce
    PROVE  /\ phase = "idle" /\ phase' = phase /\ state' = state
           /\ \/ state = "ABSENT" /\ reply'.message = "request not found"
              \/ state = "CANCELLED" /\ reply'.message = "request cancelled"
              \/ state = "TIMED_OUT" /\ reply'.message = "request timed out"
<1>1. AnswerAtOnce
  OBVIOUS
<1>2. \A m, d, r : Answer(m, d, r) => reply'.message = m
  BY DEF Answer
<1>3. QED
  BY <1>1, <1>2 DEF AnswerAtOnce, requestVars

\* The steps of a call that asks workers or hands over rows belong to a caller
\* who was not told of an interruption, before and after them.
LEMMA CallStepsTellNothing ==
    ASSUME StopInv,
           Submit \/ BeginRound \/ BeginFromWindow \/ Round \/ AnswerEmpty \/ AnswerRows
    PROVE  ~ToldInterrupted /\ ~ToldInterrupted'
<1>1. CASE Submit \/ BeginRound \/ BeginFromWindow
  <2>1. ~Interrupted /\ reply' = reply
    BY <1>1 DEF Submit, BeginRound, BeginFromWindow, Interrupted, callVars
  <2>2. QED
    BY <2>1 DEF StopInv, ToldInterrupted
<1>2. CASE Round
  <2>1. phase # "idle" /\ reply' = reply
    BY <1>2 DEF Round, SkipCompleted, FetchLocal, AskChild, SubmitToChild,
                FetchFromChild, ChildFails, EndRound, Supplies, Merge, Turn, callVars
  <2>2. QED
    BY <2>1 DEF StopInv, ToldInterrupted
<1>3. CASE AnswerEmpty \/ AnswerRows
  <2>1. /\ phase = "answering"
        /\ reply'.message \in {"done", "more", "no rows available yet"}
    <3>1. \A m, d, r : Answer(m, d, r) => reply'.message = m
      BY DEF Answer
    <3>2. CASE AnswerEmpty
      BY <3>1, <3>2 DEF AnswerEmpty
    <3>3. CASE AnswerRows
      BY <3>1, <3>3 DEF AnswerRows
    <3>4. QED
      BY <1>3, <3>2, <3>3
  <2>2. QED
    BY <2>1 DEF StopInv, ToldInterrupted
<1>4. QED
  BY <1>1, <1>2, <1>3

LEMMA NextStopInv == StopInv /\ [Next]_vars => StopInv'
<1> SUFFICES ASSUME StopInv, [Next]_vars PROVE StopInv'
  OBVIOUS
<1>1. CASE Submit \/ BeginRound \/ BeginFromWindow \/ Round \/ AnswerEmpty \/ AnswerRows
  <2>1. ~ToldInterrupted'
    BY <1>1, CallStepsTellNothing
  <2>2. Interrupted' => Interrupted
    BY <1>1 DEF Submit, BeginRound, BeginFromWindow, Round, SkipCompleted, FetchLocal,
                AskChild, SubmitToChild, FetchFromChild, ChildFails, EndRound, Supplies,
                Merge, AnswerEmpty, AnswerRows, requestVars, Interrupted
  <2>3. QED
    BY <2>1, <2>2 DEF StopInv
<1>2. CASE AnswerAtOnce
  BY <1>2, WhatAnswerAtOnceTells DEF StopInv, ToldInterrupted, Interrupted
<1>3. CASE Cancel \/ HandleTimeout
  BY <1>3 DEF Cancel, HandleTimeout, Interrupt, StopInv, ToldInterrupted, Interrupted,
              callVars
<1>4. CASE UNCHANGED vars
  BY <1>4 DEF vars, requestVars, callVars, StopInv, ToldInterrupted, Interrupted
<1>5. QED
  BY <1>1, <1>2, <1>3, <1>4 DEF Next, BeginCall

\* While the caller was not told of an interruption both views agree.
LEMMA PlainIsStream ==
    ASSUME ~ToldInterrupted, ~ToldInterrupted', saidDone \in BOOLEAN,
           saidDone' \in BOOLEAN,
           Plain!Reply \/ Plain!GiveUp \/ UNCHANGED Plain!vars
    PROVE  Stream!Reply \/ Stream!GiveUp \/ UNCHANGED Stream!vars
<1>1. /\ GivenUp = LostRows /\ GivenUp' = LostRows'
      /\ (saidDone \/ ToldInterrupted) = saidDone
      /\ (saidDone \/ ToldInterrupted)' = saidDone'
      /\ OwedRows \ (GivenUp \cup HandedOver)
             = OwedRows \ (LostRows \cup {out[i] : i \in DOMAIN out})
      /\ (OwedRows \ (GivenUp \cup HandedOver))'
             = (OwedRows \ (LostRows \cup {out[i] : i \in DOMAIN out}))'
  BY DEF GivenUp, HandedOver
<1> DEFINE pending == OwedRows \ (GivenUp \cup HandedOver)
           plain == OwedRows \ (LostRows \cup {out[i] : i \in DOMAIN out})
<1>2. pending = plain /\ pending' = plain'
  BY <1>1
<1>3. CASE Plain!Reply
  BY <1>1, <1>3 DEF Plain!Reply, Stream!Reply, Plain!ElementsOf, Stream!ElementsOf
<1>4. CASE Plain!GiveUp
  BY <1>1, <1>4 DEF Plain!GiveUp, Stream!GiveUp
<1>5. CASE UNCHANGED Plain!vars
  BY <1>1, <1>5 DEF Plain!vars, Stream!vars
<1>6. QED
  BY <1>3, <1>4, <1>5

LEMMA InitRefines == Init => Stream!Init
<1> SUFFICES ASSUME Init PROVE Stream!Init
  OBVIOUS
<1>1. OwedRows \ (GivenUp \cup HandedOver) \subseteq Row
  BY OwedIsRow
<1>2. ~ToldInterrupted /\ ~saidDone /\ out = <<>> /\ failed = {}
  BY DEF Init, ToldInterrupted
<1>3. GivenUp = {}
  BY <1>2 DEF GivenUp, LostRows
<1>4. QED
  BY <1>1, <1>2, <1>3 DEF Stream!Init

\* The caller of an interrupted request is told so: unless he had been told
\* "done" before, the stream stops here and what was pending is given up.
LEMMA AnswerAtOnceRefines ==
    ASSUME RequestInv, StopInv, AnswerAtOnce
    PROVE  Stream!Stop \/ UNCHANGED Stream!vars
<1>1. /\ UNCHANGED <<state, out, served, failed, saidDone>>
      /\ saidDone \in BOOLEAN
  BY DEF AnswerAtOnce, requestVars, sourceVars, callerVars, RequestInv, TypeOK
<1>2. /\ OwedRows' = OwedRows /\ LostRows' = LostRows /\ HandedOver' = HandedOver
  BY <1>1 DEF OwedRows, LostRows, HandedOver
<1>3. CASE ~ToldInterrupted'
  <2>1. ~ToldInterrupted
    BY <1>3, WhatAnswerAtOnceTells DEF ToldInterrupted, StopInv, Interrupted
  <2>2. GivenUp' = GivenUp
    BY <1>2, <1>3, <2>1 DEF GivenUp
  <2>3. QED
    BY <1>1, <1>2, <1>3, <2>1, <2>2 DEF Stream!vars
<1>4. CASE ToldInterrupted' /\ ToldInterrupted
  <2>1. GivenUp' = GivenUp
    BY <1>2, <1>4 DEF GivenUp
  <2>2. QED
    BY <1>1, <1>2, <1>4, <2>1 DEF Stream!vars
<1>5. CASE ToldInterrupted' /\ ~ToldInterrupted
  <2>1. GivenUp = LostRows /\ GivenUp' = OwedRows \ HandedOver
    BY <1>2, <1>5 DEF GivenUp
  <2>2. \A r \in LostRows : r \in OwedRows /\ r \notin HandedOver
    BY OutIsDistinct DEF DistinctOwedRows, LostRows, HandedOver
  <2>3. /\ (OwedRows \ (GivenUp \cup HandedOver))' = {}
        /\ GivenUp' = GivenUp \cup (OwedRows \ (GivenUp \cup HandedOver))
    BY <1>2, <2>1, <2>2
  <2>4. MayInterrupt
    BY <1>5, WhatAnswerAtOnceTells DEF ToldInterrupted, StopInv, Interrupted
  <2>5. CASE ~saidDone
    BY <1>1, <1>5, <2>3, <2>4, <2>5 DEF Stream!Stop
  <2>6. CASE saidDone
    <3>1. OwedRows \ (GivenUp \cup HandedOver) = {}
      BY <2>1, <2>6, DoneOwesNothing DEF NothingOwed, HandedOver
    <3>2. GivenUp' = GivenUp
      BY <2>3, <3>1
    <3>3. QED
      BY <1>1, <2>3, <2>6, <3>1, <3>2 DEF Stream!vars
  <2>7. QED
    BY <2>5, <2>6
<1>6. QED
  BY <1>3, <1>4, <1>5

LEMMA StepRefines ==
    RoundInv /\ RoundInv' /\ StopInv /\ [Next]_vars => [Stream!Next]_(Stream!vars)
<1> SUFFICES ASSUME RoundInv, RoundInv', StopInv, [Next]_vars
             PROVE  \/ Stream!Reply \/ Stream!GiveUp \/ Stream!Stop
                    \/ UNCHANGED Stream!vars
  BY DEF Stream!Next
<1>1. CASE AnswerAtOnce
  BY <1>1, AnswerAtOnceRefines DEF RoundInv
<1>2. CASE Submit \/ BeginRound \/ BeginFromWindow \/ Round \/ AnswerEmpty \/ AnswerRows
  <2>1. ~ToldInterrupted /\ ~ToldInterrupted'
    BY <1>2, CallStepsTellNothing
  <2>2. saidDone \in BOOLEAN /\ saidDone' \in BOOLEAN
    BY DEF RoundInv, RequestInv, TypeOK
  <2>3. QED
    BY <2>1, <2>2, PlainStep, PlainIsStream
<1>3. CASE Cancel \/ HandleTimeout \/ UNCHANGED vars
  <2>1. UNCHANGED <<reply, out, served, failed, saidDone>>
    BY <1>3 DEF Cancel, HandleTimeout, Interrupt, vars, callVars, sourceVars, callerVars
  <2>2. QED
    BY <2>1 DEF Stream!vars, GivenUp, LostRows, HandedOver, ToldInterrupted
<1>4. QED
  BY <1>1, <1>2, <1>3 DEF Next, BeginCall

\* A whole request of the coordinator is a ChunkStream over the rows of its
\* local worker and its children, so what it relies on of a child it promises
\* its own caller; the rows it gives up are the unsent ones of failed children
\* and, when the caller of a cancelled or timed out request is told so with
\* done = TRUE, all that he had not been handed by then.
THEOREM RequestImplementsStream == Spec => ImplementsStream
<1>1. Spec => Stream!Spec
  BY InitRoundInv, NextRoundInv, InitStopInv, NextStopInv, InitRefines, StepRefines,
     PTL DEF Spec, Stream!Spec
<1>2. QED
  BY <1>1 DEF ImplementsStream
=============================================================================
