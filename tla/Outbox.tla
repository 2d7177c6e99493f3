------------------------------- MODULE Outbox -------------------------------
(***************************************************************************)
(* packages/cli: the outbox of a session process (api/outbox.ts), its disk *)
(* queue (api/queue.ts) and the HTTP calls it makes to the server, across  *)
(* crashes and restarts of the process, lost requests, lost answers and    *)
(* late duplicates.  The server is the atomic log that MessageIngest       *)
(* implements: it stores a localId once and answers a replay like the      *)
(* first attempt.                                                          *)
(*                                                                         *)
(* Envelopes are numbered in the order the session produces them.  A batch *)
(* is the record of the envelopes it seals; its cuid2 localId is fresh, so *)
(* the batch itself serves as its identity.  An envelope weighs one byte.  *)
(***************************************************************************)
EXTENDS Naturals, SequencesExt

CONSTANTS
    MaxBatchSize,   \* envelopes that trigger a flush without the timer
    MaxQueueBytes,  \* cap on the disk queue
    MaxEnvelopes,   \* bound: envelopes the session produces
    MaxCrashes,     \* bound: hard stops of the process
    MaxExits,       \* bound: graceful ends of the process
    Nil             \* no batch

ASSUME BoundsAssumption ==
    /\ MaxBatchSize \in Nat \ {0} /\ MaxEnvelopes \in Nat
    /\ MaxCrashes \in Nat /\ MaxExits \in Nat

VARIABLES
    made,           \* envelopes produced so far
    buf,            \* envelopes buffered since the last flush
    timer,          \* the flush timer is armed
    queue,          \* sealed batches, oldest first
    disk,           \* the queue file
    sending,        \* the batch drain() is sending, Nil when it does not run
    phase,          \* where sendUntil2xx stands: "await" a response, "backoff"
    disposed,       \* dispose() was called
    up,             \* the process runs
    wire,           \* batches whose POST may still reach the server
    log,            \* batches in the order the server stored them
    unsaved,        \* envelopes a crash found in `buf`
    evicted,        \* envelopes of the batches the cap pushed out
    crashes, exits

net == <<wire, log>>
bounds == <<crashes, exits>>
vars == <<made, buf, timer, queue, disk, sending, phase, disposed, up, net,
          unsaved, evicted, bounds>>

Envelopes == 1..MaxEnvelopes
Batches == [first : Envelopes, last : Envelopes]

ASSUME NilAssumption == \A b \in Batches : b # Nil

BytesOf(b) == b.last - b.first + 1
Bytes(q) == FoldLeft(LAMBDA n, b : n + BytesOf(b), 0, q)
Holds(b, e) == b.first <= e /\ e <= b.last
In(q, e) == \E i \in DOMAIN q : Holds(q[i], e)

TypeOK ==
    /\ made \in 0..MaxEnvelopes
    /\ buf \in Seq(Envelopes) /\ Len(buf) < MaxBatchSize
    /\ timer \in BOOLEAN /\ disposed \in BOOLEAN /\ up \in BOOLEAN
    /\ queue \in Seq(Batches) /\ disk \in Seq(Batches) /\ log \in Seq(Batches)
    /\ sending \in Batches \cup {Nil}
    /\ phase \in {"idle", "await", "backoff"}
    /\ (sending = Nil) = (phase = "idle")
    /\ wire \subseteq Batches
    /\ unsaved \subseteq Envelopes /\ evicted \subseteq Envelopes
    /\ crashes \in 0..MaxCrashes /\ exits \in 0..MaxExits

Init ==
    /\ made = 0 /\ buf = <<>> /\ timer = FALSE
    /\ queue = <<>> /\ disk = <<>>
    /\ sending = Nil /\ phase = "idle"
    /\ disposed = FALSE /\ up = TRUE
    /\ wire = {} /\ log = <<>>
    /\ unsaved = {} /\ evicted = {} /\ crashes = 0 /\ exits = 0
-----------------------------------------------------------------------------
(* The queue and the drain loop *)

\* Faulty: the newest batch jumps the queue.
appendWithCap_Front(q, b) == <<b>> \o q

\* The newest batch is appended and the oldest ones are dropped until the rest
\* fits, or only the newest is left.
appendWithCap(q, b) ==
    LET all == Append(q, b)
        Fits(k) == k = Len(all) \/ Bytes(SubSeq(all, k, Len(all))) <= MaxQueueBytes
        first == CHOOSE k \in DOMAIN all :
                    Fits(k) /\ \A j \in 1..(k - 1) : ~Fits(j)
    IN  SubSeq(all, first, Len(all))

persistQueue(q) == queue' = q /\ disk' = q

\* The head of the drain loop: send the oldest batch, or stop.
SendHead(q) ==
    IF q = <<>>
    THEN sending' = Nil /\ phase' = "idle" /\ UNCHANGED wire
    ELSE sending' = Head(q) /\ phase' = "await" /\ wire' = wire \cup {Head(q)}

\* flush(): seal the buffer into one batch, queue it to disk, start the drain
\* unless it runs already.
Flush(b) ==
    LET batch == [first |-> Head(b), last |-> Last(b)]
        q == appendWithCap(queue, batch)
        dropped == {e \in Envelopes : In(queue, e) /\ ~In(q, e)}
    IN  /\ buf' = <<>>
        /\ timer' = FALSE
        /\ persistQueue(q)
        /\ evicted' = evicted \cup dropped
        /\ IF sending = Nil THEN SendHead(q) ELSE UNCHANGED <<sending, phase, wire>>

\* Faulty: the count threshold is off by one.
Enqueue_OffByOne ==
    /\ up /\ ~disposed /\ made < MaxEnvelopes
    /\ made' = made + 1
    /\ LET b == Append(buf, made + 1) IN
         IF Len(b) > MaxBatchSize
         THEN Flush(b)
         ELSE /\ buf' = b
              /\ timer' = TRUE
              /\ UNCHANGED <<queue, disk, evicted, sending, phase, wire>>
    /\ UNCHANGED <<disposed, up, log, unsaved, bounds>>

\* enqueue(): the provider session produced the next envelope.
Enqueue ==
    /\ up /\ ~disposed /\ made < MaxEnvelopes
    /\ made' = made + 1
    /\ LET b == Append(buf, made + 1) IN
         IF Len(b) >= MaxBatchSize
         THEN Flush(b)
         ELSE /\ buf' = b
              /\ timer' = TRUE
              /\ UNCHANGED <<queue, disk, evicted, sending, phase, wire>>
    /\ UNCHANGED <<disposed, up, log, unsaved, bounds>>

TimerFires ==
    /\ up /\ timer
    /\ IF buf = <<>>
       THEN /\ timer' = FALSE
            /\ UNCHANGED <<buf, queue, disk, evicted, sending, phase, wire>>
       ELSE Flush(buf)
    /\ UNCHANGED <<made, disposed, up, log, unsaved, bounds>>

\* A 2xx answer: the head of the queue is dequeued, and the loop goes on.
Acked ==
    /\ up /\ phase = "await" /\ Contains(log, sending)
    /\ persistQueue(Tail(queue))
    /\ IF disposed
       THEN sending' = Nil /\ phase' = "idle" /\ UNCHANGED wire
       ELSE SendHead(Tail(queue))
    /\ UNCHANGED <<made, buf, timer, disposed, up, log, unsaved, evicted, bounds>>

\* Any other answer, or none.
Failed ==
    /\ up /\ phase = "await"
    /\ phase' = "backoff"
    /\ UNCHANGED <<made, buf, timer, queue, disk, sending, disposed, up, net,
                   unsaved, evicted, bounds>>

\* The backoff is over: post again, or give up if disposed.
Retry ==
    /\ up /\ phase = "backoff"
    /\ IF disposed
       THEN sending' = Nil /\ phase' = "idle" /\ UNCHANGED wire
       ELSE phase' = "await" /\ wire' = wire \cup {sending} /\ UNCHANGED sending
    /\ UNCHANGED <<made, buf, timer, queue, disk, disposed, up, log, unsaved,
                   evicted, bounds>>
-----------------------------------------------------------------------------
(* The life of the process *)

\* Faulty: dispose() forgets the buffer.
Dispose_DropsBuffer ==
    /\ up /\ ~disposed /\ exits < MaxExits
    /\ disposed' = TRUE
    /\ timer' = FALSE /\ buf' = <<>>
    /\ exits' = exits + 1
    /\ UNCHANGED <<made, queue, disk, evicted, sending, phase, wire, up, log, unsaved,
                   crashes>>

\* dispose(): what is buffered is flushed first.
Dispose ==
    /\ up /\ ~disposed /\ exits < MaxExits
    /\ disposed' = TRUE
    /\ IF buf = <<>>
       THEN /\ timer' = FALSE
            /\ UNCHANGED <<buf, queue, disk, evicted, sending, phase, wire>>
       ELSE Flush(buf)
    /\ exits' = exits + 1
    /\ UNCHANGED <<made, up, log, unsaved, crashes>>

\* The memory of the process goes with it; the requests it sent do not.
Stop ==
    /\ up' = FALSE
    /\ buf' = <<>> /\ timer' = FALSE /\ queue' = <<>>
    /\ sending' = Nil /\ phase' = "idle" /\ disposed' = FALSE
    /\ UNCHANGED <<made, disk, net>>

\* process.exit() after dispose(), an answer still awaited or not.
Exit ==
    /\ up /\ disposed
    /\ Stop
    /\ UNCHANGED <<unsaved, evicted, bounds>>

Crash ==
    /\ up /\ crashes < MaxCrashes
    /\ Stop
    /\ unsaved' = unsaved \cup Range(buf)
    /\ crashes' = crashes + 1
    /\ UNCHANGED <<evicted, exits>>

\* Faulty: the constructor loads the queue but does not drain it.
Restart_NoDrain ==
    /\ ~up
    /\ up' = TRUE
    /\ queue' = disk
    /\ UNCHANGED <<made, buf, timer, disk, sending, phase, disposed, net, unsaved,
                   evicted, bounds>>

\* The session is run again: the constructor loads the queue file and drains.
Restart ==
    /\ ~up
    /\ up' = TRUE
    /\ queue' = disk
    /\ SendHead(disk)
    /\ UNCHANGED <<made, buf, timer, disk, disposed, log, unsaved, evicted, bounds>>
-----------------------------------------------------------------------------
(* The network and the server *)

\* Faulty: the server does not look for the localId.
Ingest_NoDedupe(b) ==
    /\ b \in wire
    /\ Len(log) < 2 * MaxEnvelopes
    /\ log' = Append(log, b)
    /\ UNCHANGED <<made, buf, timer, queue, disk, sending, phase, disposed, up,
                   wire, unsaved, evicted, bounds>>

\* A request reaches the server, once more perhaps: it stays on the wire.
Ingest(b) ==
    /\ b \in wire
    /\ log' = IF Contains(log, b) THEN log ELSE Append(log, b)
    /\ UNCHANGED <<made, buf, timer, queue, disk, sending, phase, disposed, up,
                   wire, unsaved, evicted, bounds>>

Lose(b) ==
    /\ b \in wire
    /\ wire' = wire \ {b}
    /\ UNCHANGED <<made, buf, timer, queue, disk, sending, phase, disposed, up,
                   log, unsaved, evicted, bounds>>
-----------------------------------------------------------------------------
Next ==
    \/ Enqueue \/ TimerFires \/ Acked \/ Failed \/ Retry
    \/ Dispose \/ Exit \/ Crash \/ Restart
    \/ \E b \in wire : Ingest(b) \/ Lose(b)

Spec == Init /\ [][Next]_vars

\* Timers fire, the process ends after dispose() and the session is run again.
\* Every attempt settles (fetch gives up on a silent peer).  The network is
\* never down for good: an attempt that is repeated forever reaches the server,
\* and an answer that is given over and over arrives.
Fairness ==
    /\ WF_vars(TimerFires) /\ WF_vars(Retry) /\ WF_vars(Exit) /\ WF_vars(Restart)
    /\ WF_vars(Acked \/ Failed) /\ SF_vars(Acked)
    /\ SF_vars(sending \in wire /\ Ingest(sending))

FairSpec == Spec /\ Fairness
-----------------------------------------------------------------------------
(* Properties *)

\* "Strict FIFO drain" with an idempotent POST: the server's log is the
\* session's envelopes in the order it produced them, none twice, whatever is
\* retried, duplicated or replayed by a later process, until the cap bites.
InOrderOnce ==
    evicted = {} => \A i, j \in DOMAIN log : i < j => log[i].last < log[j].first

\* The server's idempotency makes blind retries safe: no envelope is stored
\* twice, even when the cap evicts a batch that is in flight and its request
\* arrives late (it may then arrive behind a younger one).
AtMostOnce ==
    \A i, j \in DOMAIN log : i # j =>
        log[i].last < log[j].first \/ log[j].last < log[i].first

\* "Queued means it survives a crash", and a graceful dispose() "never silently
\* drops messages the way a hard crash would": as long as the queue stays under
\* its cap, an envelope the session produced is in the buffer, in the queue file
\* or on the server, unless a crash found it unsealed.
NothingLost ==
    evicted = {} => \A e \in 1..made :
        Contains(buf, e) \/ In(disk, e) \/ In(log, e) \/ e \in unsaved

\* Every envelope that reached the queue file reaches the server in the end,
\* through crashes, restarts and lost calls, unless the cap bites.
QueuedDelivered ==
    \A e \in Envelopes : In(disk, e) ~> In(log, e) \/ evicted # {}

=============================================================================
