----------------------------- MODULE OutboxProofs -----------------------------
(***************************************************************************)
(* Proofs about the outbox of a session process, for any batch size, any   *)
(* cap on the queue, and any number of envelopes, crashes and exits.       *)
(***************************************************************************)
EXTENDS Outbox, FiniteSetTheorems, TLAPS

\* Every batch that is stored, queued or under way.
Sealed == {b \in Batches : Contains(disk, b) \/ b \in wire \/ Contains(log, b) \/ b = sending}

\* The process's queue is the file's; what is being sent was taken from it.
QueueInv ==
    /\ queue = IF up THEN disk ELSE <<>>
    /\ sending # Nil => queue # <<>>
    /\ disposed => buf = <<>>

\* The buffer holds the newest envelopes.
BufInv == Len(buf) <= made /\ \A i \in 1 .. Len(buf) : buf[i] = made - Len(buf) + i

\* Batches are older than the buffer and do not overlap, and the file has them
\* in order.
SealedInv ==
    /\ \A b \in Sealed : b.first <= b.last /\ b.last <= made - Len(buf)
    /\ \A b, c \in Sealed : b = c \/ b.last < c.first \/ c.last < b.first
    /\ \A i, j \in 1 .. Len(disk) : i < j => disk[i].last < disk[j].first

LogInv == \A i, j \in 1 .. Len(log) : i # j => log[i] # log[j]

\* As long as nothing was evicted, a request on the wire is stored already or
\* carries the head of the queue file, and what is stored, that head aside, is
\* older than the file.
FifoInv ==
    evicted = {} =>
       /\ sending # Nil => sending = Head(disk)
       /\ \A b \in wire : Contains(log, b) \/ (disk # <<>> /\ b = Head(disk))
       /\ \A b, c \in Batches :
            Contains(log, b) /\ Contains(disk, c) => b = Head(disk) \/ b.last < c.first

IInv == TypeOK /\ QueueInv /\ BufInv /\ SealedInv /\ LogInv /\ FifoInv /\ InOrderOnce /\ NothingLost
-----------------------------------------------------------------------------
(* Sequences of batches *)

LEMMA HeadTail ==
  ASSUME NEW S, NEW q \in Seq(S), q # <<>>
  PROVE  /\ Head(q) \in S /\ Head(q) = q[1] /\ Len(q) \in Nat \ {0}
         /\ Tail(q) \in Seq(S) /\ Len(Tail(q)) = Len(q) - 1
         /\ \A i \in 1 .. Len(q) - 1 : Tail(q)[i] = q[i + 1]
OBVIOUS

LEMMA AppendOf ==
  ASSUME NEW S, NEW q \in Seq(S), NEW x \in S
  PROVE  /\ Append(q, x) \in Seq(S) /\ Len(Append(q, x)) = Len(q) + 1 /\ Len(q) \in Nat
         /\ \A i \in 1 .. Len(q) : Append(q, x)[i] = q[i]
         /\ Append(q, x)[Len(q) + 1] = x
OBVIOUS

\* A nonempty set of natural numbers has a least element: the intervals below
\* its elements are well ordered by inclusion.
LEMMA LeastExists ==
  ASSUME NEW S \in SUBSET Nat, S # {}
  PROVE  \E m \in S : \A n \in S : m <= n
<1>1. PICK k \in S : TRUE
  OBVIOUS
<1> DEFINE Below == {n \in S : n <= k}
           T == {0 .. n : n \in Below}
           U == 0 .. k
<1>2. IsFiniteSet(U)
  BY FS_Interval
<1>3. IsWellFoundedOn(StrictSubsetOrdering(U), FiniteSubsetsOf(U))
  BY FS_StrictSubsetOrderingWellFounded
<1>4. T \subseteq SUBSET U /\ T # {}
  OBVIOUS
<1>5. T \subseteq FiniteSubsetsOf(U)
  BY <1>2, <1>4, FS_Subset DEF FiniteSubsetsOf
<1>6. PICK x \in T : \A y \in T : <<y, x>> \notin StrictSubsetOrdering(U)
  BY <1>3, <1>4, <1>5, WFMin
<1>7. PICK m \in Below : x = 0 .. m
  OBVIOUS
<1>8. ASSUME NEW n \in S, n < m PROVE FALSE
  <2>1. n \in Below /\ 0 .. n \in T
    BY <1>7, <1>8
  <2>2. 0 .. n \subseteq 0 .. m /\ 0 .. n # 0 .. m
    BY <1>8
  <2> QED
    BY <1>4, <1>6, <1>7, <2>1, <2>2 DEF StrictSubsetOrdering
<1> QED
  BY <1>7, <1>8

\* Under the cap the queue keeps its newest batches: the new one and the k-th and
\* later ones of those it had.
LEMMA CappedQueue ==
  ASSUME NEW q \in Seq(Batches), NEW b \in Batches
  PROVE  \E k \in 1 .. Len(q) + 1 :
           LET r == appendWithCap(q, b)
           IN  /\ r \in Seq(Batches) /\ Len(r) = Len(q) + 2 - k
               /\ \A i \in 1 .. Len(r) : r[i] = Append(q, b)[i + k - 1]
<1> DEFINE all == Append(q, b)
           n == Len(q) + 1
           Fits(k) == k = Len(all) \/ Bytes(SubSeq(all, k, Len(all))) <= MaxQueueBytes
           Fitting == {k \in DOMAIN all : Fits(k)}
           first == CHOOSE k \in DOMAIN all : Fits(k) /\ \A j \in 1 .. (k - 1) : ~Fits(j)
<1>1. all \in Seq(Batches) /\ Len(all) = n /\ n \in Nat /\ DOMAIN all = 1 .. n
  BY AppendOf
<1>2. first \in 1 .. n
  <2> HIDE DEF all, n
  <2>1. n \in Fitting /\ Fitting \in SUBSET Nat
    BY <1>1 DEF n
  <2>2. PICK m \in Fitting : \A k \in Fitting : m <= k
    BY <2>1, LeastExists
  <2>3. \A j \in 1 .. (m - 1) : ~Fits(j)
    BY <1>1, <2>1, <2>2
  <2> QED
    BY <1>1, <2>2, <2>3
<1>3. appendWithCap(q, b) = SubSeq(all, first, Len(all))
  BY DEF appendWithCap
<1> HIDE DEF first
<1>4. LET r == SubSeq(all, first, Len(all))
      IN  /\ r \in Seq(Batches) /\ Len(r) = Len(q) + 2 - first
          /\ \A i \in 1 .. Len(r) : r[i] = all[i + first - 1]
  <2>1. Len(q) \in Nat /\ Len(all) = Len(q) + 1
    BY AppendOf
  <2> HIDE DEF all
  <2> QED
    BY <1>1, <1>2, <2>1
<1> QED
  <2>1. first \in 1 .. Len(q) + 1
    BY <1>2
  <2> QED
    BY <1>3, <1>4, <2>1, Zenon
-----------------------------------------------------------------------------
(* Types *)

\* What a batch of the buffer b is.
BatchOf(b) == [first |-> Head(b), last |-> Last(b)]

\* The sender's state is well typed whatever queue it goes on with.
LEMMA SendHeadType ==
  ASSUME TypeOK, NEW q \in Seq(Batches), SendHead(q)
  PROVE  /\ sending' \in Batches \cup {Nil} /\ phase' \in {"idle", "await", "backoff"}
         /\ (sending' = Nil) = (phase' = "idle") /\ wire' \subseteq Batches
<1>1. CASE q = <<>>
  BY <1>1 DEF SendHead, TypeOK
<1>2. CASE q # <<>>
  <2>1. Head(q) \in Batches /\ Head(q) # Nil
    BY <1>2, HeadTail, NilAssumption
  <2> QED
    BY <1>2, <2>1 DEF SendHead, TypeOK
<1> QED
  BY <1>1, <1>2

LEMMA LastOf ==
  ASSUME NEW S, NEW b \in Seq(S), b # <<>>
  PROVE  Last(b) \in S /\ Last(b) = b[Len(b)]
BY DEF Last

LEMMA FlushType ==
  ASSUME TypeOK, NEW b \in Seq(Envelopes), b # <<>>, Flush(b)
  PROVE  /\ buf' = <<>> /\ timer' \in BOOLEAN
         /\ queue' \in Seq(Batches) /\ disk' \in Seq(Batches)
         /\ sending' \in Batches \cup {Nil} /\ phase' \in {"idle", "await", "backoff"}
         /\ (sending' = Nil) = (phase' = "idle") /\ wire' \subseteq Batches
         /\ evicted' \subseteq Envelopes
<1> DEFINE q == appendWithCap(queue, BatchOf(b))
<1>1. BatchOf(b) \in Batches
  BY HeadTail, LastOf DEF BatchOf, Batches
<1>2. queue \in Seq(Batches)
  BY DEF TypeOK
<1>3. q \in Seq(Batches)
  BY <1>1, <1>2, CappedQueue
<1>4. buf' = <<>> /\ timer' = FALSE /\ queue' = q /\ disk' = q
  BY DEF Flush, persistQueue, BatchOf
<1>5. evicted' \subseteq Envelopes
  BY DEF Flush, TypeOK
<1>6. SendHead(q) \/ UNCHANGED <<sending, phase, wire>>
  BY DEF Flush, BatchOf
<1>7. /\ sending' \in Batches \cup {Nil} /\ phase' \in {"idle", "await", "backoff"}
      /\ (sending' = Nil) = (phase' = "idle") /\ wire' \subseteq Batches
  <2>1. CASE SendHead(q)
    BY <1>3, <2>1, SendHeadType
  <2>2. CASE UNCHANGED <<sending, phase, wire>>
    BY <2>2 DEF TypeOK
  <2> QED
    BY <1>6, <2>1, <2>2
<1> QED
  BY <1>3, <1>4, <1>5, <1>7
\* The four places that may flush leave the rest of the state typed.
LEMMA BufferedType ==
  ASSUME TypeOK, made' \in 0 .. MaxEnvelopes, exits' \in 0 .. MaxExits, disposed' \in BOOLEAN,
         UNCHANGED <<up, log, unsaved, crashes>>,
         \/ \E b \in Seq(Envelopes) : b # <<>> /\ Flush(b)
         \/ /\ buf' \in Seq(Envelopes) /\ Len(buf') < MaxBatchSize /\ timer' \in BOOLEAN
            /\ UNCHANGED <<queue, disk, evicted, sending, phase, wire>>
  PROVE  TypeOK'
<1>1. CASE \E b \in Seq(Envelopes) : b # <<>> /\ Flush(b)
  <2>1. PICK b \in Seq(Envelopes) : b # <<>> /\ Flush(b)
    BY <1>1
  <2>2. /\ buf' = <<>> /\ timer' \in BOOLEAN
        /\ queue' \in Seq(Batches) /\ disk' \in Seq(Batches)
        /\ sending' \in Batches \cup {Nil} /\ phase' \in {"idle", "await", "backoff"}
        /\ (sending' = Nil) = (phase' = "idle") /\ wire' \subseteq Batches
        /\ evicted' \subseteq Envelopes
    BY <2>1, FlushType
  <2>3. buf' \in Seq(Envelopes) /\ Len(buf') < MaxBatchSize
    BY <2>2, BoundsAssumption
  <2>4. up' \in BOOLEAN
    BY DEF TypeOK
  <2> QED
    BY <2>2, <2>3, <2>4 DEF TypeOK
<1>2. CASE /\ buf' \in Seq(Envelopes) /\ Len(buf') < MaxBatchSize /\ timer' \in BOOLEAN
           /\ UNCHANGED <<queue, disk, evicted, sending, phase, wire>>
  BY <1>2 DEF TypeOK
<1> QED
  BY <1>1, <1>2

LEMMA EnqueueTypeOK == ASSUME TypeOK, Enqueue PROVE TypeOK'
<1> DEFINE b == Append(buf, made + 1)
<1>1. made \in Nat /\ made + 1 \in Envelopes /\ buf \in Seq(Envelopes) /\ made' \in 0 .. MaxEnvelopes
  BY BoundsAssumption DEF TypeOK, Enqueue, Envelopes
<1>2. b \in Seq(Envelopes) /\ b # <<>> /\ Len(b) \in Nat
  BY <1>1
<1>3. exits' \in 0 .. MaxExits /\ disposed' \in BOOLEAN /\ UNCHANGED <<up, log, unsaved, crashes>>
  BY DEF Enqueue, TypeOK, bounds
<1>4. CASE Len(b) >= MaxBatchSize
  <2>1. Flush(b)
    BY <1>4 DEF Enqueue
  <2> QED
    BY <1>1, <1>2, <1>3, <2>1, BufferedType
<1>5. CASE ~(Len(b) >= MaxBatchSize)
  <2>1. /\ buf' = b /\ timer' = TRUE
        /\ UNCHANGED <<queue, disk, evicted, sending, phase, wire>>
    BY <1>5 DEF Enqueue
  <2>2. Len(b) < MaxBatchSize
    BY <1>2, <1>5, BoundsAssumption
  <2> QED
    BY <1>1, <1>2, <1>3, <2>1, <2>2, BufferedType
<1> QED
  BY <1>4, <1>5

LEMMA TimerFiresTypeOK == ASSUME TypeOK, TimerFires PROVE TypeOK'
<1>1. /\ made' \in 0 .. MaxEnvelopes /\ exits' \in 0 .. MaxExits /\ disposed' \in BOOLEAN
      /\ UNCHANGED <<up, log, unsaved, crashes>> /\ buf \in Seq(Envelopes)
  BY DEF TimerFires, TypeOK, bounds
<1>2. CASE buf = <<>>
  BY <1>1, <1>2, BufferedType DEF TimerFires, TypeOK
<1>3. CASE buf # <<>>
  BY <1>1, <1>3, BufferedType DEF TimerFires
<1> QED
  BY <1>2, <1>3

LEMMA DisposeTypeOK == ASSUME TypeOK, Dispose PROVE TypeOK'
<1>1. /\ made' \in 0 .. MaxEnvelopes /\ exits' \in 0 .. MaxExits /\ disposed' \in BOOLEAN
      /\ UNCHANGED <<up, log, unsaved, crashes>> /\ buf \in Seq(Envelopes)
  BY BoundsAssumption DEF Dispose, TypeOK
<1>2. CASE buf = <<>>
  BY <1>1, <1>2, BufferedType DEF Dispose, TypeOK
<1>3. CASE buf # <<>>
  BY <1>1, <1>3, BufferedType DEF Dispose
<1> QED
  BY <1>2, <1>3

\* The queue of a process that is sending is not empty, so a dequeue shortens it.
LEMMA AckedTypeOK == ASSUME TypeOK, QueueInv, Acked PROVE TypeOK'
<1>1. queue \in Seq(Batches) /\ queue # <<>>
  BY DEF TypeOK, QueueInv, Acked
<1>2. Tail(queue) \in Seq(Batches)
  BY <1>1, HeadTail
<1>3. /\ sending' \in Batches \cup {Nil} /\ phase' \in {"idle", "await", "backoff"}
      /\ (sending' = Nil) = (phase' = "idle") /\ wire' \subseteq Batches
  <2>1. CASE disposed
    BY <2>1 DEF Acked, TypeOK
  <2>2. CASE ~disposed
    BY <1>2, <2>2, SendHeadType DEF Acked
  <2> QED
    BY <2>1, <2>2
<1>4. queue' = Tail(queue) /\ disk' = Tail(queue)
  BY DEF Acked, persistQueue
<1>5. UNCHANGED <<made, buf, timer, disposed, up, log, unsaved, evicted, crashes, exits>>
  BY DEF Acked, bounds
<1> QED
  BY <1>2, <1>3, <1>4, <1>5 DEF TypeOK

LEMMA RetryTypeOK == ASSUME TypeOK, Retry PROVE TypeOK'
<1>1. /\ sending' \in Batches \cup {Nil} /\ phase' \in {"idle", "await", "backoff"}
      /\ (sending' = Nil) = (phase' = "idle") /\ wire' \subseteq Batches
  <2>1. CASE disposed
    BY <2>1 DEF Retry, TypeOK
  <2>2. CASE ~disposed
    <3>1. sending \in Batches /\ sending # Nil
      BY DEF Retry, TypeOK
    <3> QED
      BY <2>2, <3>1 DEF Retry, TypeOK
  <2> QED
    BY <2>1, <2>2
<1>2. UNCHANGED <<made, buf, timer, queue, disk, disposed, up, log, unsaved, evicted, crashes, exits>>
  BY DEF Retry, bounds
<1> QED
  BY <1>1, <1>2 DEF TypeOK

LEMMA StopTypeOK ==
  ASSUME TypeOK, Stop, UNCHANGED <<evicted, exits>>, unsaved' \subseteq Envelopes,
         crashes' \in 0 .. MaxCrashes
  PROVE  TypeOK'
<1>1. /\ buf' \in Seq(Envelopes) /\ Len(buf') < MaxBatchSize /\ queue' \in Seq(Batches)
      /\ UNCHANGED <<made, disk, wire, log>>
  BY BoundsAssumption DEF Stop, net
<1>2. /\ timer' \in BOOLEAN /\ disposed' \in BOOLEAN /\ up' \in BOOLEAN
      /\ sending' \in Batches \cup {Nil} /\ phase' \in {"idle", "await", "backoff"}
      /\ (sending' = Nil) = (phase' = "idle")
  BY DEF Stop
<1> QED
  BY <1>1, <1>2 DEF TypeOK

LEMMA NextTypeOK == TypeOK /\ QueueInv /\ [Next]_vars => TypeOK'
<1> SUFFICES ASSUME TypeOK, QueueInv, [Next]_vars PROVE TypeOK'
  OBVIOUS
<1>1. CASE Failed
  BY <1>1 DEF Failed, TypeOK, net, bounds
<1>2. CASE Exit
  BY <1>2, StopTypeOK DEF Exit, bounds, TypeOK
<1>3. CASE Crash
  <2>1. Range(buf) \subseteq Envelopes
    BY DEF TypeOK, Range
  <2>2. crashes' \in 0 .. MaxCrashes /\ unsaved' \subseteq Envelopes
    BY <1>3, <2>1, BoundsAssumption DEF Crash, TypeOK
  <2> QED
    BY <1>3, <2>2, StopTypeOK DEF Crash
<1>4. CASE Restart
  <2>1. disk \in Seq(Batches)
    BY DEF TypeOK
  <2>2. /\ sending' \in Batches \cup {Nil} /\ phase' \in {"idle", "await", "backoff"}
        /\ (sending' = Nil) = (phase' = "idle") /\ wire' \subseteq Batches
    BY <1>4, <2>1, SendHeadType DEF Restart
  <2>3. /\ queue' = disk /\ up' = TRUE
        /\ UNCHANGED <<made, buf, timer, disk, disposed, log, unsaved, evicted, crashes, exits>>
    BY <1>4 DEF Restart, bounds
  <2> QED
    BY <2>2, <2>3 DEF TypeOK
<1>5. ASSUME NEW b \in wire, Ingest(b) PROVE TypeOK'
  <2>1. b \in Batches /\ log \in Seq(Batches)
    BY DEF TypeOK
  <2>2. log' \in Seq(Batches)
    BY <1>5, <2>1, AppendOf DEF Ingest
  <2> QED
    BY <1>5, <2>2 DEF Ingest, TypeOK, bounds
<1>6. ASSUME NEW b \in wire, Lose(b) PROVE TypeOK'
  BY <1>6 DEF Lose, TypeOK, bounds
<1>7. CASE UNCHANGED vars
  BY <1>7 DEF vars, net, bounds, TypeOK
<1> QED
  BY <1>1, <1>2, <1>3, <1>4, <1>5, <1>6, <1>7, EnqueueTypeOK, TimerFiresTypeOK, DisposeTypeOK,
     AckedTypeOK, RetryTypeOK DEF Next
-----------------------------------------------------------------------------
(* A flush *)

\* The buffer that is flushed holds the newest envelopes up to `top`, everything
\* that was buffered among them.
Newest(b, top) ==
    /\ b \in Seq(Envelopes) /\ b # <<>>
    /\ Len(b) <= top /\ \A i \in 1 .. Len(b) : b[i] = top - Len(b) + i
    /\ top - Len(b) = made - Len(buf)

\* It makes a batch younger than any other.
LEMMA FreshBatch ==
  ASSUME IInv, NEW top \in 0 .. MaxEnvelopes, NEW b, Newest(b, top)
  PROVE  /\ BatchOf(b) \in Batches
         /\ BatchOf(b).first = made - Len(buf) + 1 /\ BatchOf(b).last = top
         /\ BatchOf(b).first <= BatchOf(b).last
         /\ \A c \in Sealed : c.last < BatchOf(b).first
<1>1. /\ b \in Seq(Envelopes) /\ Len(b) \in Nat \ {0} /\ made \in Nat /\ Len(buf) \in Nat
      /\ top \in Nat /\ Len(buf) <= made
  BY HeadTail DEF Newest, IInv, TypeOK, BufInv
<1>2. Head(b) = b[1] /\ Last(b) = b[Len(b)] /\ Head(b) \in Envelopes /\ Last(b) \in Envelopes
  BY <1>1, HeadTail, LastOf DEF Newest
<1>3. b[1] = top - Len(b) + 1 /\ b[Len(b)] = top
  BY <1>1 DEF Newest
<1>4. BatchOf(b).first = b[1] /\ BatchOf(b).last = b[Len(b)] /\ BatchOf(b) \in Batches
  BY <1>2 DEF BatchOf, Batches
<1>5. top - Len(b) = made - Len(buf) /\ Len(b) <= top
  BY DEF Newest
<1>6. \A c \in Sealed : c.last <= made - Len(buf) /\ c.last \in Nat
  BY DEF IInv, SealedInv, Sealed, Batches, Envelopes
<1> QED
  BY <1>1, <1>3, <1>4, <1>5, <1>6

\* What the queue holds afterwards.
LEMMA Flushed ==
  ASSUME IInv, up, NEW top \in 0 .. MaxEnvelopes, NEW b, Newest(b, top), Flush(b)
  PROVE  /\ buf' = <<>> /\ queue' = disk' /\ disk' \in Seq(Batches) /\ disk' # <<>>
         /\ Contains(disk', BatchOf(b))
         /\ \A c : Contains(disk', c) => Contains(disk, c) \/ c = BatchOf(b)
         /\ \A i, j \in 1 .. Len(disk') : i < j => disk'[i].last < disk'[j].first
         /\ evicted \subseteq evicted'
         /\ evicted' = {} => disk' = Append(disk, BatchOf(b))
<1> DEFINE batch == BatchOf(b)
           all == Append(disk, batch)
<1>1. queue = disk /\ disk \in Seq(Batches) /\ batch \in Batches /\ up
  BY FreshBatch DEF IInv, TypeOK, QueueInv
<1>2. /\ buf' = <<>> /\ queue' = appendWithCap(disk, batch) /\ disk' = appendWithCap(disk, batch)
      /\ evicted' = evicted \cup {e \in Envelopes : In(disk, e) /\ ~In(disk', e)}
  BY <1>1 DEF Flush, persistQueue, BatchOf
<1> HIDE DEF batch
<1>3. PICK k \in 1 .. Len(disk) + 1 :
        /\ disk' \in Seq(Batches) /\ Len(disk') = Len(disk) + 2 - k
        /\ \A i \in 1 .. Len(disk') : disk'[i] = all[i + k - 1]
  BY <1>1, <1>2, CappedQueue
<1>4. /\ all \in Seq(Batches) /\ Len(all) = Len(disk) + 1 /\ Len(disk) \in Nat
      /\ \A i \in 1 .. Len(disk) : all[i] = disk[i]
      /\ all[Len(disk) + 1] = batch
  BY <1>1, AppendOf
<1> HIDE DEF all
<1>5. \A i \in 1 .. Len(disk) : disk[i] \in Sealed /\ disk[i] \in Batches
  BY <1>1 DEF Sealed, Contains
<1>6. \A i, j \in 1 .. Len(all) : i < j => all[i].last < all[j].first
  <2> SUFFICES ASSUME NEW i \in 1 .. Len(all), NEW j \in 1 .. Len(all), i < j
               PROVE  all[i].last < all[j].first
    OBVIOUS
  <2>1. i \in 1 .. Len(disk)
    BY <1>4
  <2>2. CASE j = Len(disk) + 1
    BY <1>4, <1>5, <2>1, <2>2, FreshBatch DEF batch
  <2>3. CASE j # Len(disk) + 1
    <3>1. j \in 1 .. Len(disk)
      BY <1>4, <2>3
    <3> QED
      BY <1>4, <2>1, <3>1 DEF IInv, SealedInv
  <2> QED
    BY <2>2, <2>3
<1>7. \A i \in 1 .. Len(disk') : i + k - 1 \in 1 .. Len(all)
  BY <1>3, <1>4
<1>8. \A i, j \in 1 .. Len(disk') : i < j => disk'[i].last < disk'[j].first
  <2> SUFFICES ASSUME NEW i \in 1 .. Len(disk'), NEW j \in 1 .. Len(disk'), i < j
               PROVE  disk'[i].last < disk'[j].first
    OBVIOUS
  <2>1. i + k - 1 < j + k - 1
    BY <1>3
  <2> QED
    BY <1>3, <1>6, <1>7, <2>1
<1>9. \A c : Contains(disk', c) => Contains(disk, c) \/ c = batch
  <2> SUFFICES ASSUME NEW i \in 1 .. Len(disk') PROVE Contains(disk, disk'[i]) \/ disk'[i] = batch
    BY DEF Contains
  <2>1. disk'[i] = all[i + k - 1] /\ i + k - 1 \in 1 .. Len(disk) + 1
    BY <1>3, <1>4, <1>7
  <2>2. CASE i + k - 1 = Len(disk) + 1
    BY <1>4, <2>1, <2>2
  <2>3. CASE i + k - 1 \in 1 .. Len(disk)
    BY <1>4, <2>1, <2>3 DEF Contains
  <2> QED
    BY <1>4, <2>1, <2>2, <2>3
<1>10. Len(disk') \in 1 .. Len(disk') /\ disk'[Len(disk')] = batch
  <2>1. Len(disk') \in Nat \ {0} /\ Len(disk') + k - 1 = Len(disk) + 1
    BY <1>3, <1>4
  <2> QED
    BY <1>3, <1>4, <2>1
<1>11. ASSUME evicted' = {} PROVE disk' = all
  <2>1. CASE k = 1
    <3>1. Len(disk') = Len(all) /\ \A i \in 1 .. Len(disk') : disk'[i] = all[i]
      BY <1>3, <1>4, <2>1
    <3> QED
      BY <1>3, <1>4, <3>1
  <2>2. CASE k # 1
    <3> DEFINE e == disk[1].first
    <3>1. 1 \in 1 .. Len(disk) /\ disk[1] \in Sealed /\ e \in Envelopes /\ e <= disk[1].last
      <4>1. 1 \in 1 .. Len(disk)
        BY <1>3, <1>4, <2>2
      <4> QED
        BY <1>5, <4>1 DEF IInv, SealedInv, Batches
    <3>2. In(disk, e)
      <4>1. 1 \in DOMAIN disk
        BY <1>1, <3>1
      <4>2. Holds(disk[1], e)
        BY <3>1 DEF Holds, Envelopes
      <4> QED
        BY <4>1, <4>2 DEF In
    <3>3. ASSUME NEW i \in DOMAIN disk', Holds(disk'[i], e) PROVE FALSE
      <4>1. i \in 1 .. Len(disk') /\ disk'[i] = all[i + k - 1] /\ i + k - 1 \in 1 .. Len(all)
        <5>1. DOMAIN disk' = 1 .. Len(disk')
          BY <1>3
        <5> QED
          BY <1>3, <1>7, <3>3, <5>1
      <4>2. 1 \in 1 .. Len(all) /\ 1 < i + k - 1 /\ all[1] = disk[1]
        BY <1>3, <1>4, <2>2, <3>1, <4>1
      <4>3. disk[1].last < disk'[i].first
        BY <1>6, <4>1, <4>2
      <4>4. disk'[i].first <= e
        BY <3>3 DEF Holds
      <4>5. disk'[i].first \in Nat /\ disk[1].last \in Nat /\ e \in Nat
        <5>1. disk'[i] \in Batches
          BY <1>3, <4>1
        <5> QED
          BY <1>5, <3>1, <5>1 DEF Batches, Envelopes
      <4> QED
        BY <3>1, <4>3, <4>4, <4>5
    <3>4. e \in evicted'
      BY <1>2, <3>1, <3>2, <3>3 DEF In
    <3> QED
      BY <1>11, <3>4
  <2> QED
    BY <2>1, <2>2
<1> QED
  BY <1>2, <1>3, <1>8, <1>9, <1>10, <1>11 DEF Contains, batch, all

\* A flush keeps the invariant: what it seals, what it starts to send and what it
\* drops.
LEMMA FlushIInv ==
  ASSUME IInv, TypeOK', up, up', NEW top \in 0 .. MaxEnvelopes, NEW b, Newest(b, top), Flush(b),
         made' = top, UNCHANGED <<log, unsaved>>
  PROVE  IInv'
<1> DEFINE batch == BatchOf(b)
<1>1. /\ buf' = <<>> /\ queue' = disk' /\ disk' \in Seq(Batches) /\ disk' # <<>>
      /\ Contains(disk', batch)
      /\ \A c : Contains(disk', c) => Contains(disk, c) \/ c = batch
      /\ \A i, j \in 1 .. Len(disk') : i < j => disk'[i].last < disk'[j].first
      /\ evicted \subseteq evicted'
      /\ evicted' = {} => disk' = Append(disk, batch)
  BY Flushed
<1>2. /\ batch \in Batches /\ batch.first <= batch.last /\ batch.last = top
      /\ batch.first = made - Len(buf) + 1
      /\ \A c \in Sealed : c.last < batch.first
  BY FreshBatch
<1> HIDE DEF batch
<1>3. /\ Head(disk') \in Batches /\ Head(disk') # Nil /\ Contains(disk', Head(disk'))
      /\ Head(disk') = disk'[1]
  BY <1>1, HeadTail, NilAssumption DEF Contains
<1>4. \/ sending' = sending /\ wire' = wire /\ sending # Nil
      \/ sending = Nil /\ sending' = Head(disk') /\ wire' = wire \cup {Head(disk')}
  <2>1. queue' = appendWithCap(queue, BatchOf(b))
    BY DEF Flush, persistQueue, BatchOf
  <2>2. IF sending = Nil THEN SendHead(queue') ELSE UNCHANGED <<sending, phase, wire>>
    BY <2>1 DEF Flush, BatchOf
  <2> QED
    BY <1>1, <2>2 DEF SendHead
<1>5. \A c \in Sealed' : c \in Sealed \/ c = batch
  BY <1>1, <1>3, <1>4 DEF Sealed
<1>6. QueueInv'
  BY <1>1, <1>4 DEF QueueInv
<1>7. BufInv'
  BY <1>1 DEF BufInv, IInv, TypeOK
<1>8. SealedInv'
  <2>1. made - Len(buf) \in Nat /\ made - Len(buf) < batch.first /\ top \in Nat /\ Len(buf') = 0
    BY <1>1, <1>2 DEF IInv, TypeOK, BufInv
  <2>2. ASSUME NEW c \in Sealed' PROVE c.first <= c.last /\ c.last <= made' - Len(buf')
    <3>1. CASE c = batch
      BY <1>2, <2>1, <3>1
    <3>2. CASE c \in Sealed
      <4>1. c.first <= c.last /\ c.last < batch.first /\ c.last \in Nat
        BY <1>2, <3>2 DEF IInv, SealedInv, Sealed, Batches, Envelopes
      <4>2. batch.first \in Nat
        BY <1>2 DEF Batches, Envelopes
      <4> QED
        BY <1>2, <2>1, <4>1, <4>2
    <3> QED
      BY <1>5, <2>2, <3>1, <3>2
  <2>3. \A c, d \in Sealed' : c = d \/ c.last < d.first \/ d.last < c.first
    BY <1>2, <1>5 DEF IInv, SealedInv
  <2> QED
    BY <1>1, <2>2, <2>3 DEF SealedInv
<1>9. LogInv'
  BY DEF IInv, LogInv
<1>10. InOrderOnce'
  BY <1>1 DEF IInv, InOrderOnce
<1>11. ASSUME evicted' = {}
       PROVE  /\ evicted = {} /\ disk \in Seq(Batches) /\ disk' = Append(disk, batch)
              /\ disk # <<>> => Head(disk') = Head(disk)
  <2>1. evicted = {} /\ disk \in Seq(Batches) /\ disk' = Append(disk, batch)
    BY <1>1, <1>11 DEF IInv, TypeOK
  <2>2. ASSUME disk # <<>> PROVE Head(disk') = Head(disk)
    <3>1. Head(disk) = disk[1] /\ Len(disk) \in Nat \ {0}
      BY <2>1, <2>2, HeadTail
    <3>2. Append(disk, batch)[1] = disk[1]
      BY <1>2, <2>1, <3>1, AppendOf
    <3> QED
      BY <1>3, <2>1, <3>1, <3>2
  <2> QED
    BY <2>1, <2>2
<1>12. FifoInv'
  <2> SUFFICES ASSUME evicted' = {}
               PROVE  /\ sending' # Nil => sending' = Head(disk')
                      /\ \A c \in wire' : Contains(log, c) \/ c = Head(disk')
                      /\ \A c, d \in Batches : Contains(log, c) /\ Contains(disk', d) =>
                           c = Head(disk') \/ c.last < d.first
    BY <1>1 DEF FifoInv
  <2>1. sending # Nil => disk # <<>>
    BY DEF IInv, QueueInv
  <2>2. sending' # Nil => sending' = Head(disk')
    BY <1>4, <1>11, <2>1 DEF IInv, FifoInv
  <2>3. \A c \in wire' : Contains(log, c) \/ c = Head(disk')
    BY <1>4, <1>11 DEF IInv, FifoInv
  <2>4. ASSUME NEW c \in Batches, NEW d \in Batches, Contains(log, c), Contains(disk', d)
        PROVE  c = Head(disk') \/ c.last < d.first
    <3>1. CASE d = batch
      BY <1>2, <2>4, <3>1 DEF Sealed
    <3>2. CASE Contains(disk, d)
      <4>1. disk # <<>>
        BY <3>2, <1>11 DEF Contains
      <4> QED
        BY <1>11, <2>4, <3>2, <4>1 DEF IInv, FifoInv
    <3> QED
      BY <1>1, <2>4, <3>1, <3>2
  <2> QED
    BY <2>2, <2>3, <2>4
<1>13. NothingLost'
  <2> SUFFICES ASSUME evicted' = {}, NEW e \in 1 .. top
               PROVE  In(disk', e) \/ In(log, e) \/ e \in unsaved
    BY DEF NothingLost
  <2>1. /\ \A i \in DOMAIN disk : i \in DOMAIN disk' /\ disk'[i] = disk[i]
        /\ Len(disk) + 1 \in DOMAIN disk' /\ disk'[Len(disk) + 1] = batch
    BY <1>2, <1>11, AppendOf
  <2>2. CASE made - Len(buf) < e
    <3>1. Holds(batch, e)
      BY <1>2, <2>2 DEF Holds, IInv, TypeOK
    <3> QED
      BY <2>1, <3>1 DEF In
  <2>3. CASE e <= made - Len(buf)
    <3>1. e \in 1 .. made /\ ~Contains(buf, e)
      BY <2>3 DEF Contains, IInv, BufInv, TypeOK
    <3>2. In(disk, e) \/ In(log, e) \/ e \in unsaved
      BY <1>11, <3>1 DEF IInv, NothingLost
    <3> QED
      BY <2>1, <3>2 DEF In
  <2> QED
    BY <2>2, <2>3 DEF IInv, TypeOK
<1> QED
  BY <1>6, <1>7, <1>8, <1>9, <1>10, <1>12, <1>13 DEF IInv
-----------------------------------------------------------------------------
(* The other steps *)

LEMMA InitIInv == Init => IInv
<1> SUFFICES ASSUME Init PROVE IInv
  OBVIOUS
<1>1. TypeOK
  <2>1. /\ made \in 0 .. MaxEnvelopes /\ crashes \in 0 .. MaxCrashes /\ exits \in 0 .. MaxExits
        /\ buf \in Seq(Envelopes) /\ Len(buf) < MaxBatchSize
        /\ queue \in Seq(Batches) /\ disk \in Seq(Batches) /\ log \in Seq(Batches)
    BY BoundsAssumption DEF Init
  <2>2. /\ timer \in BOOLEAN /\ disposed \in BOOLEAN /\ up \in BOOLEAN
        /\ (sending = Nil) = (phase = "idle")
    BY DEF Init
  <2>3. /\ sending \in Batches \cup {Nil} /\ phase \in {"idle", "await", "backoff"}
        /\ wire \subseteq Batches /\ unsaved \subseteq Envelopes /\ evicted \subseteq Envelopes
    BY DEF Init
  <2> QED
    BY <2>1, <2>2, <2>3 DEF TypeOK
<1>2. Sealed = {}
  BY NilAssumption DEF Init, Sealed, Contains
<1>3. QueueInv /\ BufInv /\ LogInv
  BY DEF Init, QueueInv, BufInv, LogInv
<1>4. SealedInv
  BY <1>2 DEF SealedInv, Init
<1>5. FifoInv /\ InOrderOnce /\ NothingLost
  BY DEF Init, FifoInv, InOrderOnce, NothingLost, Contains
<1> QED
  BY <1>1, <1>3, <1>4, <1>5 DEF IInv

\* Nothing moves between the buffer, the queue, the wire and the log.
LEMMA Idle ==
  ASSUME IInv, TypeOK',
         UNCHANGED <<made, buf, queue, disk, sending, up, wire, log, unsaved, evicted>>,
         disposed' => buf = <<>>
  PROVE  IInv'
<1>1. Sealed' = Sealed
  BY DEF Sealed
<1> QED
  BY <1>1 DEF IInv, QueueInv, BufInv, SealedInv, LogInv, FifoInv, InOrderOnce, NothingLost

\* The buffer that is flushed by the timer and by dispose().
LEMMA BufIsNewest ==
  ASSUME IInv, buf # <<>> PROVE Newest(buf, made)
BY DEF Newest, IInv, TypeOK, BufInv

LEMMA EnqueueIInv == ASSUME IInv, Enqueue PROVE IInv'
<1> DEFINE b == Append(buf, made + 1)
<1>0. TypeOK /\ TypeOK'
  BY EnqueueTypeOK DEF IInv
<1>1. /\ made \in Nat /\ buf \in Seq(Envelopes) /\ made + 1 \in Envelopes /\ Len(buf) <= made
      /\ Len(buf) \in Nat /\ \A i \in 1 .. Len(buf) : buf[i] = made - Len(buf) + i
  BY BoundsAssumption DEF IInv, TypeOK, BufInv, Enqueue, Envelopes
<1>2. /\ b \in Seq(Envelopes) /\ Len(b) = Len(buf) + 1 /\ b # <<>>
      /\ \A i \in 1 .. Len(buf) : b[i] = buf[i]
      /\ b[Len(buf) + 1] = made + 1
  <2>1. /\ b \in Seq(Envelopes) /\ Len(b) = Len(buf) + 1
        /\ \A i \in 1 .. Len(buf) : b[i] = buf[i]
        /\ b[Len(buf) + 1] = made + 1
    BY <1>1, AppendOf
  <2>2. b # <<>>
    OBVIOUS
  <2> QED
    BY <2>1, <2>2
<1> HIDE DEF b
<1>3. \A i \in 1 .. Len(b) : b[i] = made + 1 - Len(b) + i
  BY <1>1, <1>2
<1>4. CASE Flush(b)
  <2>1. Newest(b, made + 1)
    BY <1>1, <1>2, <1>3 DEF Newest
  <2>2. up /\ up' /\ UNCHANGED <<log, unsaved>> /\ made' = made + 1 /\ made + 1 \in 0 .. MaxEnvelopes
    BY <1>1 DEF Enqueue, Envelopes
  <2> QED
    BY <1>0, <1>4, <2>1, <2>2, FlushIInv
<1>5. CASE buf' = b /\ UNCHANGED <<queue, disk, evicted, sending, phase, wire>>
  <2>1. made' = made + 1 /\ ~disposed' /\ UNCHANGED <<up, log, unsaved>>
    BY DEF Enqueue
  <2>2. Sealed' = Sealed /\ made' - Len(buf') = made - Len(buf)
    BY <1>1, <1>2, <1>5, <2>1 DEF Sealed
  <2>3. QueueInv'
    BY <1>5, <2>1 DEF IInv, QueueInv
  <2>4. BufInv'
    <3>1. Len(b) <= made + 1 /\ buf' = b /\ made' = made + 1
      BY <1>1, <1>2, <1>5, <2>1
    <3>2. Len(buf') <= made'
      BY <3>1
    <3>3. \A i \in 1 .. Len(buf') : buf'[i] = made' - Len(buf') + i
      <4> SUFFICES ASSUME NEW i \in 1 .. Len(buf') PROVE buf'[i] = made' - Len(buf') + i
        OBVIOUS
      <4>1. Len(buf') = Len(b) /\ buf'[i] = b[i] /\ i \in 1 .. Len(b)
        BY <3>1
      <4>2. b[i] = made + 1 - Len(b) + i
        BY <1>3, <4>1
      <4>3. made' - Len(buf') = made + 1 - Len(b)
        BY <1>1, <1>2, <3>1, <4>1
      <4>4. made' - Len(buf') + i = made + 1 - Len(b) + i
        BY <4>3
      <4> QED
        BY <4>1, <4>2, <4>4, Zenon
    <3> QED
      BY <3>2, <3>3 DEF BufInv
  <2>5. SealedInv'
    BY <1>5, <2>2 DEF IInv, SealedInv
  <2>6. LogInv' /\ FifoInv' /\ InOrderOnce'
    BY <1>5, <2>1 DEF IInv, LogInv, FifoInv, InOrderOnce
  <2>7. NothingLost'
    <3>1. \A e \in 1 .. made' : e \in 1 .. made \/ e = made + 1
      BY <1>1, <2>1
    <3>2. \A e : Contains(buf, e) => Contains(buf', e)
      BY <1>1, <1>2, <1>5 DEF Contains
    <3>3. Contains(buf', made + 1)
      BY <1>1, <1>2, <1>5 DEF Contains
    <3> QED
      BY <1>5, <2>1, <3>1, <3>2, <3>3 DEF IInv, NothingLost
  <2> QED
    BY <1>0, <2>3, <2>4, <2>5, <2>6, <2>7 DEF IInv
<1> QED
  BY <1>4, <1>5 DEF Enqueue, b

LEMMA TimerFiresIInv == ASSUME IInv, TimerFires PROVE IInv'
<1>1. TypeOK /\ TypeOK' /\ made \in 0 .. MaxEnvelopes
  BY TimerFiresTypeOK DEF IInv, TypeOK
<1>2. CASE buf = <<>>
  BY <1>1, <1>2, Idle DEF TimerFires
<1>3. CASE buf # <<>>
  BY <1>1, <1>3, BufIsNewest, FlushIInv DEF TimerFires
<1> QED
  BY <1>2, <1>3

LEMMA DisposeIInv == ASSUME IInv, Dispose PROVE IInv'
<1>1. TypeOK /\ TypeOK' /\ made \in 0 .. MaxEnvelopes
  BY DisposeTypeOK DEF IInv, TypeOK
<1>2. CASE buf = <<>>
  BY <1>1, <1>2, Idle DEF Dispose
<1>3. CASE buf # <<>>
  BY <1>1, <1>3, BufIsNewest, FlushIInv DEF Dispose
<1> QED
  BY <1>2, <1>3

LEMMA AckedIInv == ASSUME IInv, Acked PROVE IInv'
<1>0. TypeOK /\ TypeOK'
  BY AckedTypeOK DEF IInv
<1>1. /\ sending \in Batches /\ sending # Nil /\ Contains(log, sending) /\ up
      /\ queue = disk /\ disk \in Seq(Batches) /\ disk # <<>>
  BY DEF IInv, TypeOK, QueueInv, Acked
<1>2. /\ Len(disk) \in Nat \ {0} /\ Head(disk) = disk[1]
      /\ Tail(disk) \in Seq(Batches) /\ Len(Tail(disk)) = Len(disk) - 1
      /\ \A i \in 1 .. Len(disk) - 1 : Tail(disk)[i] = disk[i + 1]
  BY <1>1, HeadTail
<1>3. /\ queue' = Tail(disk) /\ disk' = Tail(disk)
      /\ UNCHANGED <<made, buf, disposed, up, log, unsaved, evicted>>
      /\ \/ sending' = Nil /\ wire' = wire
         \/ disk' # <<>> /\ sending' = Head(disk') /\ wire' = wire \cup {Head(disk')}
  BY <1>1 DEF Acked, persistQueue, SendHead
<1>4. \A c : Contains(disk', c) => \E i \in 2 .. Len(disk) : c = disk[i]
  <2> SUFFICES ASSUME NEW i \in 1 .. Len(Tail(disk))
               PROVE  \E j \in 2 .. Len(disk) : Tail(disk)[i] = disk[j]
    BY <1>3 DEF Contains
  <2>1. i + 1 \in 2 .. Len(disk) /\ Tail(disk)[i] = disk[i + 1]
    BY <1>2
  <2> QED
    BY <2>1
<1>5. \A c : Contains(disk', c) => Contains(disk, c)
  <2> SUFFICES ASSUME NEW c, Contains(disk', c) PROVE Contains(disk, c)
    OBVIOUS
  <2>1. PICK i \in 2 .. Len(disk) : c = disk[i]
    BY <1>4
  <2>2. i \in 1 .. Len(disk)
    BY <1>2
  <2> QED
    BY <2>1, <2>2 DEF Contains
<1>6. disk' # <<>> => Contains(disk', Head(disk'))
  BY <1>2, <1>3, HeadTail DEF Contains
<1>7. \A c \in Sealed' : c \in Sealed
  BY <1>3, <1>5, <1>6, NilAssumption DEF Sealed
<1>8. QueueInv'
  BY <1>1, <1>3 DEF IInv, QueueInv
<1>9. BufInv' /\ LogInv' /\ InOrderOnce'
  BY <1>3 DEF IInv, BufInv, LogInv, InOrderOnce
<1>10. SealedInv'
  <2>1. \A i, j \in 1 .. Len(disk') : i < j => disk'[i].last < disk'[j].first
    <3> SUFFICES ASSUME NEW i \in 1 .. Len(disk'), NEW j \in 1 .. Len(disk'), i < j
                 PROVE  disk'[i].last < disk'[j].first
      OBVIOUS
    <3>1. /\ i + 1 \in 1 .. Len(disk) /\ j + 1 \in 1 .. Len(disk) /\ i + 1 < j + 1
          /\ disk'[i] = disk[i + 1] /\ disk'[j] = disk[j + 1]
      BY <1>2, <1>3
    <3> QED
      BY <3>1 DEF IInv, SealedInv
  <2> QED
    BY <1>3, <1>7, <2>1 DEF IInv, SealedInv
<1>11. FifoInv'
  <2> SUFFICES ASSUME evicted = {}
               PROVE  /\ sending' # Nil => sending' = Head(disk')
                      /\ \A c \in wire' : Contains(log, c) \/ (disk' # <<>> /\ c = Head(disk'))
                      /\ \A c, d \in Batches : Contains(log, c) /\ Contains(disk', d) =>
                           c = Head(disk') \/ c.last < d.first
    BY <1>3 DEF FifoInv
  <2>1. sending = Head(disk)
    BY <1>1 DEF IInv, FifoInv
  <2>2. \A c \in wire' : Contains(log, c) \/ (disk' # <<>> /\ c = Head(disk'))
    BY <1>1, <1>3, <2>1 DEF IInv, FifoInv
  <2>3. ASSUME NEW c \in Batches, NEW d \in Batches, Contains(log, c), Contains(disk', d)
        PROVE  c.last < d.first
    <3>1. PICK i \in 2 .. Len(disk) : d = disk[i]
      BY <1>4, <2>3
    <3>2. CASE c = Head(disk)
      BY <1>2, <3>1, <3>2 DEF IInv, SealedInv
    <3>3. CASE c # Head(disk)
      BY <1>5, <2>3, <3>3 DEF IInv, FifoInv
    <3> QED
      BY <3>2, <3>3
  <2> QED
    BY <1>3, <2>2, <2>3
<1>12. NothingLost'
  <2> SUFFICES ASSUME evicted = {}, NEW e, In(disk, e) PROVE In(disk', e) \/ In(log, e)
    BY <1>3 DEF IInv, NothingLost
  <2>1. PICK i \in 1 .. Len(disk) : Holds(disk[i], e)
    BY <1>1 DEF In
  <2>2. CASE i = 1
    <3>1. sending = disk[1]
      BY <1>1, <1>2 DEF IInv, FifoInv
    <3>2. PICK j \in 1 .. Len(log) : log[j] = sending
      BY <1>1 DEF Contains
    <3>3. log \in Seq(Batches)
      BY <1>0 DEF TypeOK
    <3> QED
      BY <2>1, <2>2, <3>1, <3>2, <3>3 DEF In
  <2>3. CASE i # 1
    <3>1. i - 1 \in 1 .. Len(disk) - 1 /\ Tail(disk)[i - 1] = disk[i]
      <4>1. i - 1 \in 1 .. Len(disk) - 1 /\ i - 1 + 1 = i
        BY <1>2, <2>3
      <4> QED
        BY <1>2, <4>1
    <3>2. i - 1 \in DOMAIN disk'
      BY <1>2, <1>3, <3>1
    <3> QED
      BY <1>3, <2>1, <3>1, <3>2 DEF In
  <2> QED
    BY <2>2, <2>3
<1> QED
  BY <1>0, <1>8, <1>9, <1>10, <1>11, <1>12 DEF IInv

LEMMA RetryIInv == ASSUME IInv, Retry PROVE IInv'
<1>0. TypeOK /\ TypeOK'
  BY RetryTypeOK DEF IInv
<1>1. /\ UNCHANGED <<made, buf, queue, disk, disposed, up, log, unsaved, evicted>>
      /\ sending # Nil /\ sending \in Batches
      /\ \/ sending' = Nil /\ wire' = wire
         \/ sending' = sending /\ wire' = wire \cup {sending}
  BY <1>0 DEF Retry, TypeOK
<1>2. \A c \in Sealed' : c \in Sealed
  BY <1>1, NilAssumption DEF Sealed
<1>3. SealedInv'
  BY <1>1, <1>2 DEF IInv, SealedInv
<1>4. FifoInv'
  BY <1>1 DEF IInv, FifoInv, QueueInv
<1>5. QueueInv' /\ BufInv' /\ LogInv' /\ InOrderOnce' /\ NothingLost'
  BY <1>1 DEF IInv, QueueInv, BufInv, LogInv, InOrderOnce, NothingLost
<1> QED
  BY <1>0, <1>3, <1>4, <1>5 DEF IInv

\* The process is gone: what it had buffered is lost, if it was a crash.
LEMMA StopIInv ==
  ASSUME IInv, TypeOK', Stop, UNCHANGED evicted, unsaved' = unsaved \cup Range(buf)
  PROVE  IInv'
<1>1. /\ ~up' /\ buf' = <<>> /\ queue' = <<>> /\ sending' = Nil /\ ~disposed'
      /\ UNCHANGED <<made, disk, wire, log>>
  BY DEF Stop, net
<1>2. made \in Nat /\ Len(buf) \in Nat /\ Len(buf) <= made /\ Len(buf') = 0
  BY <1>1 DEF IInv, TypeOK, BufInv
<1>3. \A c \in Sealed' : c \in Sealed /\ c.last \in Nat
  BY <1>1, NilAssumption DEF Sealed, Batches, Envelopes
<1>4. SealedInv'
  <2>1. \A c \in Sealed' : c.last <= made' - Len(buf')
    <3> SUFFICES ASSUME NEW c \in Sealed' PROVE c.last <= made' - Len(buf')
      OBVIOUS
    <3>1. c.last <= made - Len(buf) /\ c.last \in Nat
      BY <1>3 DEF IInv, SealedInv
    <3> QED
      BY <1>1, <1>2, <3>1
  <2> QED
    BY <1>1, <1>3, <2>1 DEF IInv, SealedInv
<1>5. QueueInv' /\ BufInv'
  BY <1>1, <1>2 DEF QueueInv, BufInv
<1>6. LogInv' /\ FifoInv' /\ InOrderOnce'
  BY <1>1 DEF IInv, LogInv, FifoInv, InOrderOnce
<1>7. NothingLost'
  <2>1. \A e : Contains(buf, e) => e \in Range(buf)
    <3>1. DOMAIN buf = 1 .. Len(buf)
      BY DEF IInv, TypeOK
    <3> QED
      BY <3>1 DEF Contains, Range
  <2> QED
    BY <1>1, <2>1 DEF IInv, NothingLost
<1> QED
  BY <1>4, <1>5, <1>6, <1>7 DEF IInv

\* A process that ends by itself was disposed of: its buffer is empty.
LEMMA ExitIInv == ASSUME IInv, TypeOK', Exit PROVE IInv'
<1>1. buf = <<>>
  BY DEF Exit, IInv, QueueInv
<1>2. Range(buf) = {}
  BY <1>1 DEF Range
<1>3. Stop /\ UNCHANGED evicted /\ unsaved' = unsaved \cup Range(buf)
  BY <1>2 DEF Exit
<1> QED
  BY <1>3, StopIInv

\* The next process takes up the file as it was left.
LEMMA RestartIInv == ASSUME IInv, TypeOK', Restart PROVE IInv'
<1>1. /\ up' /\ queue' = disk /\ UNCHANGED <<made, buf, disk, disposed, log, unsaved, evicted>>
      /\ \/ disk = <<>> /\ sending' = Nil /\ wire' = wire
         \/ disk # <<>> /\ sending' = Head(disk) /\ wire' = wire \cup {Head(disk)}
  BY DEF Restart, SendHead
<1>2. disk # <<>> => Contains(disk, Head(disk))
  <2>1. disk \in Seq(Batches)
    BY DEF IInv, TypeOK
  <2> QED
    BY <2>1, HeadTail DEF Contains
<1>3. \A c \in Sealed' : c \in Sealed
  BY <1>1, <1>2, NilAssumption DEF Sealed
<1>4. SealedInv'
  BY <1>1, <1>3 DEF IInv, SealedInv
<1>5. FifoInv'
  BY <1>1 DEF IInv, FifoInv
<1>6. QueueInv' /\ BufInv' /\ LogInv' /\ InOrderOnce' /\ NothingLost'
  BY <1>1 DEF IInv, QueueInv, BufInv, LogInv, InOrderOnce, NothingLost
<1> QED
  BY <1>4, <1>5, <1>6 DEF IInv

\* What arrives is stored already or, while nothing was evicted, is the head of
\* the queue file: everything stored is older.
LEMMA IngestIInv == ASSUME IInv, TypeOK', NEW b \in wire, Ingest(b) PROVE IInv'
<1>1. /\ UNCHANGED <<made, buf, queue, disk, sending, disposed, up, wire, unsaved, evicted>>
      /\ log' = IF Contains(log, b) THEN log ELSE Append(log, b)
  BY DEF Ingest
<1>2. CASE Contains(log, b)
  BY <1>1, <1>2, Idle DEF IInv, QueueInv
<1>3. CASE ~Contains(log, b)
  <2>1. b \in Batches /\ log \in Seq(Batches)
    BY DEF IInv, TypeOK
  <2>2. /\ Len(log') = Len(log) + 1 /\ Len(log) \in Nat
        /\ \A i \in 1 .. Len(log) : log'[i] = log[i]
        /\ log'[Len(log) + 1] = b
        /\ DOMAIN log' = 1 .. Len(log) + 1 /\ DOMAIN log = 1 .. Len(log)
    <3>1. log' = Append(log, b)
      BY <1>1, <1>3
    <3>2. /\ Append(log, b) \in Seq(Batches) /\ Len(Append(log, b)) = Len(log) + 1 /\ Len(log) \in Nat
          /\ \A i \in 1 .. Len(log) : Append(log, b)[i] = log[i]
          /\ Append(log, b)[Len(log) + 1] = b
      BY <2>1, AppendOf
    <3>3. DOMAIN Append(log, b) = 1 .. Len(Append(log, b)) /\ DOMAIN log = 1 .. Len(log)
      BY <2>1, <3>2
    <3> QED
      BY <3>1, <3>2, <3>3, Zenon
  <2>3. \A i \in 1 .. Len(log') : i \in 1 .. Len(log) \/ i = Len(log) + 1
    BY <2>2
  <2>4. \A c : Contains(log', c) => Contains(log, c) \/ c = b
    BY <2>2, <2>3 DEF Contains
  <2>5. \A c : Contains(log, c) => Contains(log', c)
    <3>1. \A i \in 1 .. Len(log) : i \in 1 .. Len(log')
      BY <2>2
    <3> QED
      BY <2>2, <3>1 DEF Contains
  <2>6. \A c \in Sealed' : c \in Sealed
    BY <1>1, <2>4 DEF Sealed
  <2>7. QueueInv' /\ BufInv'
    BY <1>1 DEF IInv, QueueInv, BufInv
  <2>8. SealedInv'
    BY <1>1, <2>6 DEF IInv, SealedInv
  <2>9. LogInv'
    <3>1. \A i \in 1 .. Len(log) : log[i] # b
      BY <1>3 DEF Contains
    <3> QED
      BY <2>2, <2>3, <3>1 DEF IInv, LogInv
  <2>10. ASSUME evicted = {} PROVE disk # <<>> /\ b = Head(disk) /\ Contains(disk, b)
    <3>1. disk # <<>> /\ b = Head(disk) /\ disk \in Seq(Batches)
      BY <1>3, <2>10 DEF IInv, FifoInv, TypeOK
    <3> QED
      BY <3>1, HeadTail DEF Contains
  <2>11. FifoInv'
    BY <1>1, <2>4, <2>5, <2>10 DEF IInv, FifoInv
  <2>12. InOrderOnce'
    <3> SUFFICES ASSUME evicted = {}, NEW i \in 1 .. Len(log'), NEW j \in 1 .. Len(log'), i < j
                 PROVE  log'[i].last < log'[j].first
      BY <1>1, <2>2 DEF InOrderOnce
    <3>1. i \in 1 .. Len(log) /\ log'[i] = log[i]
      BY <2>2
    <3>2. CASE j \in 1 .. Len(log)
      <4>1. log'[j] = log[j]
        BY <2>2, <3>2
      <4>2. log[i].last < log[j].first
        BY <2>2, <3>1, <3>2 DEF IInv, InOrderOnce
      <4> QED
        BY <3>1, <4>1, <4>2
    <3>3. CASE j = Len(log) + 1
      <4>1. Contains(log, log[i]) /\ log[i] # b /\ log[i] \in Batches
        BY <1>3, <2>1, <3>1 DEF Contains
      <4>2. log[i].last < b.first
        BY <2>1, <2>10, <4>1 DEF IInv, FifoInv
      <4> QED
        BY <2>2, <3>1, <3>3, <4>2
    <3> QED
      BY <2>3, <3>2, <3>3
  <2>13. NothingLost'
    <3>1. \A e : In(log, e) => In(log', e)
      <4>1. \A i \in DOMAIN log : i \in DOMAIN log' /\ log'[i] = log[i]
        BY <2>2
      <4> QED
        BY <4>1 DEF In
    <3> QED
      BY <1>1, <3>1 DEF IInv, NothingLost
  <2> QED
    BY <2>7, <2>8, <2>9, <2>11, <2>12, <2>13 DEF IInv
<1> QED
  BY <1>2, <1>3

LEMMA LoseIInv == ASSUME IInv, TypeOK', NEW b \in wire, Lose(b) PROVE IInv'
<1>1. /\ UNCHANGED <<made, buf, queue, disk, sending, disposed, up, log, unsaved, evicted>>
      /\ wire' \subseteq wire
  BY DEF Lose
<1>2. \A c \in Sealed' : c \in Sealed
  BY <1>1 DEF Sealed
<1>3. SealedInv'
  BY <1>1, <1>2 DEF IInv, SealedInv
<1>4. FifoInv'
  BY <1>1 DEF IInv, FifoInv
<1>5. QueueInv' /\ BufInv' /\ LogInv' /\ InOrderOnce' /\ NothingLost'
  BY <1>1 DEF IInv, QueueInv, BufInv, LogInv, InOrderOnce, NothingLost
<1> QED
  BY <1>3, <1>4, <1>5 DEF IInv

LEMMA InvStep == IInv /\ [Next]_vars => IInv'
<1> SUFFICES ASSUME IInv, [Next]_vars PROVE IInv'
  OBVIOUS
<1>1. TypeOK' /\ (disposed => buf = <<>>)
  BY NextTypeOK DEF IInv, QueueInv
<1>2. CASE Failed
  BY <1>1, <1>2, Idle DEF Failed, net
<1>3. CASE Crash
  BY <1>1, <1>3, StopIInv DEF Crash
<1>4. CASE UNCHANGED vars
  BY <1>1, <1>4, Idle DEF vars, net
<1> QED
  BY <1>1, <1>2, <1>3, <1>4, EnqueueIInv, TimerFiresIInv, DisposeIInv, AckedIInv, RetryIInv,
     ExitIInv, RestartIInv, IngestIInv, LoseIInv DEF Next
-----------------------------------------------------------------------------
(* Theorems *)

LEMMA Invariance == Spec => []IInv
<1> QED
  BY InitIInv, InvStep, PTL DEF Spec

\* The buffer stays below the batch size, an empty sender is idle and the queue
\* file holds whole batches, whatever the session produces and however its
\* processes end (api/outbox.ts, api/queue.ts).
THEOREM TypeCorrect == Spec => []TypeOK
<1>1. IInv => TypeOK
  BY DEF IInv
<1> QED
  BY <1>1, Invariance, PTL

\* "Strict FIFO drain": until the cap evicts something, the server stores the
\* envelopes in the order the session produced them, through lost answers, blind
\* retries, duplicates and the queue file replayed by later processes
\* (api/outbox.ts drain() and sendUntil2xx()).
THEOREM DrainIsFifo == Spec => []InOrderOnce
<1>1. IInv => InOrderOnce
  BY DEF IInv
<1> QED
  BY <1>1, Invariance, PTL

\* A batch is stored once, and an envelope is sealed into one batch only: no
\* envelope is stored twice, even behind the cap of api/queue.ts.
THEOREM StoredOnce == Spec => []AtMostOnce
<1>1. ASSUME IInv PROVE AtMostOnce
  <2> SUFFICES ASSUME NEW i \in DOMAIN log, NEW j \in DOMAIN log, i # j
               PROVE  log[i].last < log[j].first \/ log[j].last < log[i].first
    BY DEF AtMostOnce
  <2>1. log \in Seq(Batches)
    BY <1>1 DEF IInv, TypeOK
  <2>2. i \in 1 .. Len(log) /\ j \in 1 .. Len(log)
    BY <2>1
  <2>3. log[i] \in Sealed /\ log[j] \in Sealed
    BY <2>1, <2>2 DEF Sealed, Contains
  <2>4. log[i] # log[j]
    BY <1>1, <2>2 DEF IInv, LogInv
  <2> QED
    BY <1>1, <2>3, <2>4 DEF IInv, SealedInv
<1> QED
  BY <1>1, Invariance, PTL

\* Until the cap evicts something, an envelope is in the buffer, in the queue
\* file or on the server, unless a crash found it unsealed: dispose() flushes
\* first, and a batch leaves the file only when the server has it.
THEOREM NoEnvelopeLost == Spec => []NothingLost
<1>1. IInv => NothingLost
  BY DEF IInv
<1> QED
  BY <1>1, Invariance, PTL
=============================================================================
