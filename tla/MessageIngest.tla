--------------------------- MODULE MessageIngest ---------------------------
(***************************************************************************)
(* packages/server: the transactions behind the POST of a session's        *)
(* messages (app/routes/messages.ts), the sequence allocator they use      *)
(* (db/seq.ts) and DELETE /v1/sessions/:id (app/routes/sessionArchive.ts). *)
(*                                                                         *)
(* Each await of the handler is an action, so the handlers of concurrent   *)
(* requests interleave at the statements they send to Postgres.  The       *)
(* transactions run at READ COMMITTED: a statement sees the rows committed *)
(* when it starts, and an UPDATE of the session row keeps its row lock     *)
(* until the transaction ends.                                             *)
(***************************************************************************)
EXTENDS Naturals

CONSTANTS
    Sessions,       \* session ids of the account
    LocalIds,       \* the idempotency keys the senders choose
    Requests,       \* slots for the handlers that run concurrently
    None            \* no lock holder

ASSUME NoneAssumption == None \notin Requests

VARIABLES
    live,           \* rows of the sessions table
    msgSeq,         \* sessions.msg_seq, as committed
    rows,           \* every message ever committed (see Table)
    lock,           \* lock[s]: the request holding the row lock of session s
    pc,             \* pc[r]: the statement handler r runs next
    msg,            \* msg[r]: <<session id, local id>> of its request
    seq,            \* seq[r]: the sequence number it allocated or found
    fan,            \* fan[r]: its transaction inserted the row (`fanOut`)
    replies,        \* the 200 answers that reached a client
    fanouts         \* fanouts[m]: `message-new` events emitted for message m

vars == <<live, msgSeq, rows, lock, pc, msg, seq, fan, replies, fanouts>>
db == <<live, msgSeq, rows>>
out == <<replies, fanouts>>

Messages == Sessions \X LocalIds

\* The handler's position: the statement it has yet to run.
Steps == {"idle", "findSession", "findExisting", "alloc", "insert", "commit",
          "reread", "reply"}

\* Deleting a session cascades to its messages: only those of live sessions
\* can be read back.
Table == {x \in rows : x.sid \in live}

Stored(m) == \E x \in Table : x.sid = m[1] /\ x.lid = m[2]

Row(m, n) == [sid |-> m[1], lid |-> m[2], seq |-> n]

TypeOK ==
    /\ live \subseteq Sessions
    /\ msgSeq \in [Sessions -> Nat]
    /\ rows \subseteq [sid : Sessions, lid : LocalIds, seq : Nat]
    /\ lock \in [Sessions -> Requests \cup {None}]
    /\ pc \in [Requests -> Steps]
    /\ msg \in [Requests -> Messages]
    /\ seq \in [Requests -> Nat]
    /\ fan \in [Requests -> BOOLEAN]
    /\ replies \subseteq [sid : Sessions, lid : LocalIds, seq : Nat]
    /\ fanouts \in [Messages -> Nat]

Init ==
    /\ live = Sessions
    /\ msgSeq = [s \in Sessions |-> 0]
    /\ rows = {}
    /\ lock = [s \in Sessions |-> None]
    /\ pc = [r \in Requests |-> "idle"]
    /\ msg \in [Requests -> Messages]
    /\ seq = [r \in Requests |-> 0]
    /\ fan = [r \in Requests |-> FALSE]
    /\ replies = {}
    /\ fanouts = [m \in Messages |-> 0]
-----------------------------------------------------------------------------
GoTo(r, step) == pc' = [pc EXCEPT ![r] = step]

\* The end of a transaction gives its row lock back.
Unlock(r) == lock' = [s \in Sessions |-> IF lock[s] = r THEN None ELSE lock[s]]

\* A request for (session, localId) arrives: a first attempt, a retry of one
\* that is still running, or a replay of one that was answered long ago.
Post(r, m) ==
    /\ pc[r] = "idle"
    /\ GoTo(r, "findSession")
    /\ msg' = [msg EXCEPT ![r] = m]
    /\ fan' = [fan EXCEPT ![r] = FALSE]
    /\ UNCHANGED <<db, lock, seq, out>>

\* A session that is not there is answered 404.
FindSession(r) ==
    /\ pc[r] = "findSession"
    /\ GoTo(r, IF msg[r][1] \in live THEN "findExisting" ELSE "idle")
    /\ UNCHANGED <<db, lock, msg, seq, fan, out>>

\* The lookup by (sessionId, localId) hits: answer with the stored number.
Replay(r) ==
    \E x \in Table :
        /\ x.sid = msg[r][1] /\ x.lid = msg[r][2]
        /\ seq' = [seq EXCEPT ![r] = x.seq]
        /\ GoTo(r, "reply")

FindExisting(r) ==
    /\ pc[r] = "findExisting"
    /\ \/ Replay(r)
       \/ ~Stored(msg[r]) /\ GoTo(r, "alloc") /\ UNCHANGED seq
    /\ UNCHANGED <<db, lock, msg, fan, out>>

\* A faulty allocator, for the mutants: it runs outside the transaction.
AllocMsgSeq_Standalone(r) ==
    LET s == msg[r][1] IN
    /\ pc[r] = "alloc"
    /\ s \in live
    /\ msgSeq' = [msgSeq EXCEPT ![s] = @ + 1]
    /\ seq' = [seq EXCEPT ![r] = msgSeq[s] + 1]
    /\ GoTo(r, "insert")
    /\ UNCHANGED <<live, rows, lock, msg, fan, out>>

\* UPDATE sessions SET msg_seq = msg_seq + 1 ... RETURNING msg_seq.  It waits
\* for the row lock; it throws when the session has gone in the meantime.
AllocMsgSeq(r) ==
    LET s == msg[r][1] IN
    /\ pc[r] = "alloc"
    /\ lock[s] = None
    /\ \/ /\ s \in live
          /\ lock' = [lock EXCEPT ![s] = r]
          /\ seq' = [seq EXCEPT ![r] = msgSeq[s] + 1]
          /\ GoTo(r, "insert")
       \/ /\ s \notin live
          /\ GoTo(r, "idle")
          /\ UNCHANGED <<lock, seq>>
    /\ UNCHANGED <<db, msg, fan, out>>

\* Faulty inserts: without the unique index, or without the rollback.
Insert_NoUniqueIndex(r) ==
    /\ pc[r] = "insert"
    /\ GoTo(r, "commit")
    /\ UNCHANGED <<db, lock, msg, seq, fan, out>>

Insert_NoRollback(r) ==
    /\ pc[r] = "insert"
    /\ GoTo(r, IF Stored(msg[r]) THEN "reread" ELSE "commit")
    /\ UNCHANGED <<db, lock, msg, seq, fan, out>>

\* INSERT INTO session_messages.  The unique index on (session_id, local_id)
\* rejects a second row, which rolls the allocation back.
Insert(r) ==
    /\ pc[r] = "insert"
    /\ \/ Stored(msg[r]) /\ GoTo(r, "reread") /\ Unlock(r)
       \/ ~Stored(msg[r]) /\ GoTo(r, "commit") /\ UNCHANGED lock
    /\ UNCHANGED <<db, msg, seq, fan, out>>

Commit(r) ==
    /\ pc[r] = "commit"
    /\ msgSeq' = [msgSeq EXCEPT ![msg[r][1]] = seq[r]]
    /\ rows' = rows \cup {Row(msg[r], seq[r])}
    /\ fan' = [fan EXCEPT ![r] = TRUE]
    /\ Unlock(r)
    /\ GoTo(r, "reply")
    /\ UNCHANGED <<live, msg, seq, out>>

\* After a unique violation the row is read again outside the transaction; if
\* it is gone (the session was deleted) the error is rethrown.
Reread(r) ==
    /\ pc[r] = "reread"
    /\ \/ Replay(r)
       \/ ~Stored(msg[r]) /\ GoTo(r, "idle") /\ UNCHANGED seq
    /\ UNCHANGED <<db, lock, msg, fan, out>>

\* Faulty: every answer fans out, replays too.
Finish_AlwaysFansOut(r) ==
    /\ pc[r] = "reply"
    /\ replies' = replies \cup {Row(msg[r], seq[r])}
    /\ fanouts' = [fanouts EXCEPT ![msg[r]] = @ + 1]
    /\ GoTo(r, "idle")
    /\ UNCHANGED <<db, lock, msg, seq, fan>>

\* The answer is written; the response's `finish` event fans out iff this
\* request inserted the row.
Finish(r) ==
    /\ pc[r] = "reply"
    /\ replies' = replies \cup {Row(msg[r], seq[r])}
    /\ fanouts' = [fanouts EXCEPT ![msg[r]] = IF fan[r] THEN @ + 1 ELSE @]
    /\ GoTo(r, "idle")
    /\ UNCHANGED <<db, lock, msg, seq, fan>>

\* The handler dies where it stands: a database error, a lost connection, or
\* the whole process (one such step per handler).  An open transaction rolls
\* back; a committed one stays, but `finish` never fires and no event is sent.
Break(r) ==
    /\ pc[r] # "idle"
    /\ Unlock(r)
    /\ GoTo(r, "idle")
    /\ UNCHANGED <<db, msg, seq, fan, out>>

\* DELETE /v1/sessions/:id, one transaction; it waits for the row lock.
DeleteSession(s) ==
    /\ s \in live
    /\ lock[s] = None
    /\ live' = live \ {s}
    /\ UNCHANGED <<msgSeq, rows, lock, pc, msg, seq, fan, out>>
-----------------------------------------------------------------------------
Handle(r) ==
    \/ FindSession(r)  \/ FindExisting(r) \/ AllocMsgSeq(r) \/ Insert(r)
    \/ Commit(r)       \/ Reread(r)       \/ Finish(r)

Next ==
    \/ \E r \in Requests :
        (\E m \in Messages : Post(r, m)) \/ Handle(r) \/ Break(r)
    \/ \E s \in Sessions : DeleteSession(s)

Spec == Init /\ [][Next]_vars

\* Node and Postgres keep running every handler.  The lock queue of Postgres is
\* first come, first served, so a waiting allocation is not overtaken forever.
Fairness == \A r \in Requests :
    /\ WF_vars(FindSession(r) \/ FindExisting(r) \/ Insert(r) \/ Commit(r)
               \/ Reread(r) \/ Finish(r))
    /\ SF_vars(AllocMsgSeq(r))

FairSpec == Spec /\ Fairness
-----------------------------------------------------------------------------
(* Properties *)

\* schema.ts declares `seq` "per-session, gapless": the stored messages of a
\* session carry exactly the numbers 1..msg_seq, one message each, whatever
\* allocations were rolled back by a rejected insert or a broken connection.
Gapless ==
    \A s \in live :
        /\ {x.seq : x \in {y \in Table : y.sid = s}} = 1..msgSeq[s]
        /\ \A x, y \in Table : x.sid = y.sid /\ x.seq = y.seq => x = y

\* "A blind client retry is safe under concurrency too": every answer given for
\* one (session, localId), to racing requests or to a late replay, names the
\* same sequence number, and that number is the one under which the message is
\* stored for as long as the session lives.
ReplayStable ==
    /\ \A x, y \in replies : x.sid = y.sid /\ x.lid = y.lid => x.seq = y.seq
    /\ \A x \in replies : x.sid \in live => x \in Table

\* "A localId replay returns the same seq without emitting a second event":
\* of all the requests that ever carry one localId, racing or late, at most one
\* emits `message-new`, and none does unless the message was committed.
AnnouncedAtMostOnce ==
    \A m \in Messages :
        /\ fanouts[m] <= 1
        /\ fanouts[m] = 1 => \E x \in rows : x.sid = m[1] /\ x.lid = m[2]

\* Two transactions are never both past the allocation of one session, so the
\* number a transaction holds is still the next one when it commits.
AllocationExclusive ==
    \A r \in Requests : pc[r] \in {"insert", "commit"} =>
        /\ lock[msg[r][1]] = r
        /\ msg[r][1] \in live
        /\ seq[r] = msgSeq[msg[r][1]] + 1

\* The handlers implement the atomic log: each request takes effect at one
\* instant (its commit), and its answer and announcement follow from that.
Log == INSTANCE MessageLog WITH top <- msgSeq
ImplementsLog == Log!Spec

\* No request waits forever on the row lock, or on another request: each one
\* is answered, or fails, whatever the others do.
HandlersFinish == \A r \in Requests : pc[r] # "idle" ~> pc[r] = "idle"
-----------------------------------------------------------------------------
(* The inductive invariant behind the safety properties.  Beyond them it says *)
(* what a handler knows at each of its steps.                                 *)

\* Numbers in use are exactly 1..msgSeq, and a row is determined by its session
\* and either of its keys; deleted sessions included.
RowsInv ==
    /\ \A x \in rows : x.seq >= 1 /\ x.seq <= msgSeq[x.sid]
    /\ \A s \in Sessions : \A n \in 1..msgSeq[s] :
            \E x \in rows : x.sid = s /\ x.seq = n
    /\ \A x, y \in rows :
            x.sid = y.sid /\ (x.seq = y.seq \/ x.lid = y.lid) => x = y

\* A handler about to commit found no row for its message under the row lock;
\* one about to answer has its row in the table.
StepInv ==
    \A r \in Requests :
        /\ pc[r] = "commit" => ~Stored(msg[r])
        /\ pc[r] = "reply" => Row(msg[r], seq[r]) \in rows
        /\ pc[r] \notin {"idle", "reply"} => ~fan[r]

\* The right to announce a message is held by one handler at most, and is gone
\* once the message has been announced.
FanInv ==
    /\ \A r \in Requests : pc[r] = "reply" /\ fan[r] =>
            /\ fanouts[msg[r]] = 0
            /\ \A q \in Requests :
                  q # r /\ pc[q] = "reply" /\ fan[q] => msg[q] # msg[r]
    /\ AnnouncedAtMostOnce

IInv ==
    /\ TypeOK
    /\ AllocationExclusive
    /\ RowsInv
    /\ StepInv
    /\ FanInv
    /\ replies \subseteq rows
=============================================================================
