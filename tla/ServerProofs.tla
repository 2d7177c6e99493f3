----------------------------- MODULE ServerProofs -----------------------------
(***************************************************************************)
(* Proofs about the server's tables: the ingest transactions, for any      *)
(* number of sessions, idempotency keys and concurrent handlers, a row of  *)
(* the sessions table, for any number of handlers, tabs and requests, and  *)
(* the account's header stream as the tab's sync engines follow it, for    *)
(* any number of rows, engines, changes and losses of the socket.          *)
(***************************************************************************)
EXTENDS MessageIngest, SessionRow, HeaderStream, FiniteSetTheorems, WellFoundedInduction, TLAPS

\* The invariant holds when the server starts on an empty database.
LEMMA InitIInv == Init => IInv
  BY DEF Init, IInv, TypeOK, AllocationExclusive, RowsInv, StepInv, FanInv,
         AnnouncedAtMostOnce, Steps, Messages

\* Every statement of every handler keeps the state well typed.
LEMMA NextTypeOK == TypeOK /\ [Next]_vars => TypeOK'
<1> SUFFICES ASSUME TypeOK, [Next]_vars PROVE TypeOK'
  OBVIOUS
<1> USE DEF TypeOK, Messages, Steps, db, out, GoTo, Unlock
<1>1. ASSUME NEW r \in Requests, NEW m \in Messages, Post(r, m) PROVE TypeOK'
  BY <1>1 DEF Post
<1>2. ASSUME NEW r \in Requests, FindSession(r) PROVE TypeOK'
  BY <1>2 DEF FindSession
<1>3. ASSUME NEW r \in Requests, FindExisting(r) PROVE TypeOK'
  BY <1>3 DEF FindExisting, Replay, Table
<1>4. ASSUME NEW r \in Requests, AllocMsgSeq(r) PROVE TypeOK'
  <2>1. msg[r][1] \in Sessions /\ msgSeq[msg[r][1]] + 1 \in Nat
    BY DEF Messages
  <2>2. lock' \in [Sessions -> Requests \cup {None}] /\ seq' \in [Requests -> Nat]
    BY <1>4, <2>1 DEF AllocMsgSeq
  <2>3. QED
    BY <1>4, <2>2 DEF AllocMsgSeq
<1>5. ASSUME NEW r \in Requests, Insert(r) PROVE TypeOK'
  BY <1>5 DEF Insert
<1>6. ASSUME NEW r \in Requests, Commit(r) PROVE TypeOK'
  BY <1>6 DEF Commit, Row
<1>7. ASSUME NEW r \in Requests, Reread(r) PROVE TypeOK'
  BY <1>7 DEF Reread, Replay, Table
<1>8. ASSUME NEW r \in Requests, Finish(r) PROVE TypeOK'
  BY <1>8 DEF Finish, Row
<1>9. ASSUME NEW r \in Requests, Break(r) PROVE TypeOK'
  BY <1>9 DEF Break
<1>10. ASSUME NEW s \in Sessions, DeleteSession(s) PROVE TypeOK'
  BY <1>10 DEF DeleteSession
<1>11. CASE UNCHANGED vars
  BY <1>11 DEF vars
<1>12. QED
  BY <1>1, <1>2, <1>3, <1>4, <1>5, <1>6, <1>7, <1>8, <1>9, <1>10, <1>11
     DEF Next, Handle

\* The parts of the invariant a step can disturb, with the types they need.
Rest == AllocationExclusive /\ RowsInv /\ StepInv /\ FanInv /\ replies \subseteq rows

\* A handler's message belongs to a session, and its number is a number.
LEMMA MsgType ==
  ASSUME TypeOK, NEW r \in Requests
  PROVE  msg[r] \in Messages /\ msg[r][1] \in Sessions /\ msg[r][2] \in LocalIds
  BY DEF TypeOK, Messages

\* Messages are determined by their two components.
LEMMA MsgPair ==
  ASSUME NEW m \in Messages, NEW n \in Messages, m[1] = n[1], m[2] = n[2]
  PROVE  m = n
  BY DEF Messages

\* Steps that touch neither the tables nor the lock nor the answers and end
\* outside "insert", "commit" and "reply" keep the invariant.
LEMMA LocalStep ==
  ASSUME IInv, TypeOK', NEW r \in Requests, UNCHANGED <<db, lock, out>>,
         NEW step \in Steps \ {"insert", "commit", "reply"},
         pc' = [pc EXCEPT ![r] = step],
         \A q \in Requests \ {r} :
            msg'[q] = msg[q] /\ seq'[q] = seq[q] /\ fan'[q] = fan[q],
         step # "idle" => ~fan'[r]
  PROVE  Rest'
<1> USE DEF IInv, db, out
<1>1. \A q \in Requests : pc'[q] \in {"insert", "commit", "reply"} =>
         q # r /\ pc'[q] = pc[q] /\ msg'[q] = msg[q] /\ seq'[q] = seq[q] /\ fan'[q] = fan[q]
  BY DEF TypeOK
<1>2. AllocationExclusive'
  BY <1>1 DEF AllocationExclusive
<1>3. RowsInv'
  BY DEF RowsInv
<1>4. StepInv'
  BY <1>1 DEF StepInv, Stored, Table, TypeOK, Row
<1>5. FanInv'
  BY <1>1 DEF FanInv, AnnouncedAtMostOnce
<1>6. QED
  BY <1>2, <1>3, <1>4, <1>5 DEF Rest

\* A handler that stops: its locks are given back and it is idle.
LEMMA BreakStep ==
  ASSUME IInv, TypeOK', NEW r \in Requests, Break(r)
  PROVE  Rest'
<1> USE DEF IInv, db, out, Break, GoTo, Unlock
<1>1. \A q \in Requests : pc'[q] # "idle" => q # r /\ pc'[q] = pc[q]
  BY DEF TypeOK
<1>2. AllocationExclusive'
  <2> SUFFICES ASSUME NEW q \in Requests, pc'[q] \in {"insert", "commit"}
               PROVE  /\ lock'[msg[q][1]] = q
                      /\ msg[q][1] \in live
                      /\ seq[q] = msgSeq[msg[q][1]] + 1
    BY DEF AllocationExclusive
  <2>1. q # r /\ lock[msg[q][1]] = q
    BY <1>1 DEF AllocationExclusive
  <2>2. QED
    BY <1>1, <2>1, MsgType DEF AllocationExclusive
<1>3. RowsInv'
  BY DEF RowsInv
<1>4. StepInv'
  BY <1>1 DEF StepInv, Stored, Table, TypeOK, Row
<1>5. FanInv'
  BY <1>1 DEF FanInv, AnnouncedAtMostOnce
<1>6. QED
  BY <1>2, <1>3, <1>4, <1>5 DEF Rest

\* A handler that finds its row answers with it and announces nothing.
LEMMA ReplayStep ==
  ASSUME IInv, TypeOK', NEW r \in Requests, Replay(r),
         UNCHANGED <<db, lock, msg, fan, out>>,
         pc[r] \in {"findExisting", "reread"}
  PROVE  Rest'
<1> USE DEF IInv, db, out, Replay, GoTo
<1>1. \A q \in Requests : q # r => pc'[q] = pc[q] /\ seq'[q] = seq[q]
  BY DEF TypeOK
<1>2. pc'[r] = "reply" /\ ~fan[r] /\ Row(msg[r], seq'[r]) \in rows
  <2>1. PICK x \in Table : x.sid = msg[r][1] /\ x.lid = msg[r][2] /\ seq' = [seq EXCEPT ![r] = x.seq]
    OBVIOUS
  <2>2. x = Row(msg[r], seq'[r])
    BY <2>1 DEF TypeOK, Row, Table
  <2>3. QED
    BY <2>1, <2>2 DEF TypeOK, Table, StepInv
<1>3. AllocationExclusive'
  BY <1>1, <1>2 DEF AllocationExclusive
<1>4. RowsInv'
  BY DEF RowsInv
<1>5. StepInv'
  BY <1>1, <1>2 DEF StepInv, Stored, Table, Row
<1>6. FanInv'
  BY <1>1, <1>2 DEF FanInv, AnnouncedAtMostOnce
<1>7. QED
  BY <1>3, <1>4, <1>5, <1>6 DEF Rest

\* The row lock makes the next number this handler's alone.
LEMMA AllocStep ==
  ASSUME IInv, TypeOK', NEW r \in Requests, AllocMsgSeq(r), msg[r][1] \in live
  PROVE  Rest'
<1> USE DEF IInv, db, out, AllocMsgSeq, GoTo
<1>1. \A q \in Requests : q # r => pc'[q] = pc[q] /\ seq'[q] = seq[q]
  BY DEF TypeOK
<1>2. /\ pc'[r] = "insert" /\ ~fan[r]
      /\ seq'[r] = msgSeq[msg[r][1]] + 1
      /\ lock' = [lock EXCEPT ![msg[r][1]] = r]
      /\ lock[msg[r][1]] = None
  BY DEF TypeOK, StepInv
<1>3. AllocationExclusive'
  <2> SUFFICES ASSUME NEW q \in Requests, pc'[q] \in {"insert", "commit"}
               PROVE  /\ lock'[msg[q][1]] = q
                      /\ msg[q][1] \in live
                      /\ seq'[q] = msgSeq[msg[q][1]] + 1
    BY DEF AllocationExclusive
  <2>1. CASE q = r
    BY <1>2, <2>1, MsgType DEF TypeOK
  <2>2. CASE q # r
    BY <1>1, <1>2, <2>2, MsgType, NoneAssumption DEF AllocationExclusive, TypeOK
  <2>3. QED
    BY <2>1, <2>2
<1>4. RowsInv'
  BY DEF RowsInv
<1>5. StepInv'
  BY <1>1, <1>2 DEF StepInv, Stored, Table, Row
<1>6. FanInv'
  BY <1>1, <1>2 DEF FanInv, AnnouncedAtMostOnce
<1>7. QED
  BY <1>3, <1>4, <1>5, <1>6 DEF Rest

\* The insert goes ahead only when no row of the message is visible; a
\* violation of the unique index rolls back and releases the lock.
LEMMA InsertStep ==
  ASSUME IInv, TypeOK', NEW r \in Requests, Insert(r)
  PROVE  Rest'
<1> USE DEF IInv, db, out, Insert, GoTo
<1>1. \A q \in Requests : q # r => pc'[q] = pc[q]
  BY DEF TypeOK
<1>2. /\ pc'[r] \in {"reread", "commit"} /\ ~fan[r]
      /\ pc'[r] = "commit" => ~Stored(msg[r]) /\ lock' = lock
      /\ pc'[r] = "reread" => Unlock(r)
  BY DEF TypeOK, StepInv
<1>3. AllocationExclusive'
  <2> SUFFICES ASSUME NEW q \in Requests, pc'[q] \in {"insert", "commit"}
               PROVE  /\ lock'[msg[q][1]] = q
                      /\ msg[q][1] \in live
                      /\ seq[q] = msgSeq[msg[q][1]] + 1
    BY DEF AllocationExclusive
  <2>1. CASE q = r
    BY <1>2, <2>1 DEF AllocationExclusive
  <2>2. CASE q # r
    BY <1>1, <1>2, <2>2, MsgType DEF AllocationExclusive, Unlock
  <2>3. QED
    BY <2>1, <2>2
<1>4. RowsInv'
  BY DEF RowsInv
<1>5. StepInv'
  BY <1>1, <1>2 DEF StepInv, Stored, Table, Row
<1>6. FanInv'
  BY <1>1, <1>2 DEF FanInv, AnnouncedAtMostOnce
<1>7. QED
  BY <1>3, <1>4, <1>5, <1>6 DEF Rest

\* The commit adds the one row its number is missing, for a message no row has.
LEMMA CommitStep ==
  ASSUME IInv, TypeOK', NEW r \in Requests, Commit(r)
  PROVE  Rest'
<1> USE DEF IInv, out, Commit, GoTo
<1> DEFINE s == msg[r][1]
           new == Row(msg[r], seq[r])
<1>1. \A q \in Requests : q # r => pc'[q] = pc[q] /\ fan'[q] = fan[q]
  BY DEF TypeOK
<1>2. /\ pc[r] = "commit" /\ lock[s] = r /\ s \in live /\ s \in Sessions
      /\ seq[r] = msgSeq[s] + 1 /\ msgSeq[s] \in Nat
      /\ pc'[r] = "reply" /\ fan'[r] /\ ~Stored(msg[r])
      /\ \A t \in Sessions : msgSeq'[t] = IF t = s THEN msgSeq[s] + 1 ELSE msgSeq[t]
  BY MsgType DEF TypeOK, AllocationExclusive, StepInv
<1>3. \A x \in rows : ~(x.sid = s /\ x.lid = msg[r][2])
  BY <1>2 DEF Stored, Table
<1>4. new.sid = s /\ new.lid = msg[r][2] /\ new.seq = msgSeq[s] + 1 /\ rows' = rows \cup {new}
  BY <1>2 DEF Row
<1>5. \A x \in rows : x.sid \in Sessions /\ x.seq \in Nat
  BY DEF TypeOK
<1>6. AllocationExclusive'
  <2> SUFFICES ASSUME NEW q \in Requests, pc'[q] \in {"insert", "commit"}
               PROVE  /\ lock'[msg[q][1]] = q
                      /\ msg[q][1] \in live
                      /\ seq[q] = msgSeq'[msg[q][1]] + 1
    BY DEF AllocationExclusive
  <2>1. q # r /\ lock[msg[q][1]] = q /\ msg[q][1] # s /\ msg[q][1] \in Sessions
    BY <1>1, <1>2, MsgType DEF AllocationExclusive
  <2>2. QED
    BY <1>1, <1>2, <2>1 DEF AllocationExclusive, Unlock
<1>7. RowsInv'
  <2>1. \A x \in rows' : x.seq >= 1 /\ x.seq <= msgSeq'[x.sid]
    <3> SUFFICES ASSUME NEW x \in rows' PROVE x.seq >= 1 /\ x.seq <= msgSeq'[x.sid]
      OBVIOUS
    <3>1. CASE x = new
      BY <1>2, <1>4, <3>1
    <3>2. CASE x \in rows
      BY <1>2, <1>5, <3>2 DEF RowsInv
    <3>3. QED
      BY <1>4, <3>1, <3>2
  <2>2. \A t \in Sessions : \A n \in 1..msgSeq'[t] : \E x \in rows' : x.sid = t /\ x.seq = n
    <3> SUFFICES ASSUME NEW t \in Sessions, NEW n \in 1..msgSeq'[t]
                 PROVE  \E x \in rows' : x.sid = t /\ x.seq = n
      OBVIOUS
    <3>1. CASE n \in 1..msgSeq[t]
      BY <1>4, <3>1 DEF RowsInv
    <3>2. CASE t = s /\ n = msgSeq[s] + 1
      BY <1>4, <3>2
    <3>3. QED
      BY <1>2, <3>1, <3>2
  <2>3. \A x, y \in rows' : x.sid = y.sid /\ (x.seq = y.seq \/ x.lid = y.lid) => x = y
    <3>1. \A x \in rows : x.sid = s => x.seq # new.seq /\ x.lid # new.lid
      BY <1>2, <1>3, <1>4, <1>5 DEF RowsInv
    <3>2. QED
      BY <1>4, <3>1 DEF RowsInv
  <2>4. QED
    BY <2>1, <2>2, <2>3 DEF RowsInv
<1>8. StepInv'
  <2> SUFFICES ASSUME NEW q \in Requests
               PROVE  /\ pc'[q] = "commit" => ~Stored(msg[q])'
                      /\ pc'[q] = "reply" => Row(msg[q], seq[q]) \in rows'
                      /\ pc'[q] \notin {"idle", "reply"} => ~fan'[q]
    BY DEF StepInv, Row
  <2>1. CASE q = r
    BY <1>2, <1>4, <2>1
  <2>2. CASE q # r
    <3>1. pc'[q] = "commit" => msg[q][1] # s
      BY <1>1, <1>2, <2>2, MsgType DEF AllocationExclusive
    <3>2. pc'[q] = "commit" => ~Stored(msg[q])'
      BY <1>1, <1>4, <2>2, <3>1 DEF StepInv, Stored, Table
    <3>3. QED
      BY <1>1, <1>4, <2>2, <3>2 DEF StepInv
  <2>3. QED
    BY <2>1, <2>2
<1>9. FanInv'
  <2>1. fanouts[msg[r]] = 0
    <3>1. msg[r] \in Messages /\ ~(\E x \in rows : x.sid = msg[r][1] /\ x.lid = msg[r][2])
      BY <1>3, MsgType
    <3>2. fanouts[msg[r]] \in Nat
      BY <3>1 DEF TypeOK
    <3>3. fanouts[msg[r]] <= 1 /\ fanouts[msg[r]] # 1
      BY <3>1 DEF FanInv, AnnouncedAtMostOnce
    <3>4. QED
      BY <3>2, <3>3
  <2>2. \A q \in Requests : q # r /\ pc[q] = "reply" => msg[q] # msg[r]
    BY <1>3 DEF StepInv, Row
  <2>3. \A q \in Requests : pc'[q] = "reply" /\ fan'[q] =>
            /\ fanouts[msg[q]] = 0
            /\ \A p \in Requests : p # q /\ pc'[p] = "reply" /\ fan'[p] => msg[p] # msg[q]
    BY <1>1, <2>1, <2>2 DEF FanInv
  <2>4. AnnouncedAtMostOnce'
    BY <1>4 DEF FanInv, AnnouncedAtMostOnce
  <2>5. QED
    BY <2>3, <2>4 DEF FanInv
<1>10. QED
  BY <1>6, <1>7, <1>8, <1>9 DEF Rest

\* An answer spends the handler's right to announce, if it has it.
LEMMA FinishStep ==
  ASSUME IInv, TypeOK', NEW r \in Requests, Finish(r)
  PROVE  Rest'
<1> USE DEF IInv, db, Finish, GoTo
<1>1. \A q \in Requests : pc'[q] # "idle" => q # r /\ pc'[q] = pc[q]
  BY DEF TypeOK
<1>2. /\ Row(msg[r], seq[r]) \in rows
      /\ \A m \in Messages : fanouts'[m] = IF m = msg[r] /\ fan[r] THEN fanouts[m] + 1 ELSE fanouts[m]
  BY MsgType DEF StepInv, TypeOK
<1>3. AllocationExclusive'
  BY <1>1 DEF AllocationExclusive
<1>4. RowsInv'
  BY DEF RowsInv
<1>5. StepInv'
  BY <1>1 DEF StepInv, Stored, Table, Row
<1>6. FanInv'
  <2>1. \A q \in Requests : pc'[q] = "reply" /\ fan[q] =>
            /\ fanouts'[msg[q]] = 0
            /\ \A p \in Requests : p # q /\ pc'[p] = "reply" /\ fan[p] => msg[p] # msg[q]
    BY <1>1, <1>2, MsgType DEF FanInv
  <2>2. AnnouncedAtMostOnce'
    <3> SUFFICES ASSUME NEW m \in Messages
                 PROVE  /\ fanouts'[m] <= 1
                        /\ fanouts'[m] = 1 => \E x \in rows : x.sid = m[1] /\ x.lid = m[2]
      BY DEF AnnouncedAtMostOnce
    <3>1. CASE m = msg[r] /\ fan[r]
      BY <1>2, <3>1 DEF FanInv, Row
    <3>2. CASE ~(m = msg[r] /\ fan[r])
      BY <1>2, <3>2 DEF FanInv, AnnouncedAtMostOnce
    <3>3. QED
      BY <3>1, <3>2
  <2>3. QED
    BY <2>1, <2>2 DEF FanInv
<1>7. replies' \subseteq rows
  BY <1>2
<1>8. QED
  BY <1>3, <1>4, <1>5, <1>6, <1>7 DEF Rest

\* Deleting waits for the row lock, so no transaction past it loses its session.
LEMMA DeleteStep ==
  ASSUME IInv, TypeOK', NEW s \in Sessions, DeleteSession(s)
  PROVE  Rest'
<1> USE DEF IInv, DeleteSession, out
<1>1. AllocationExclusive'
  BY NoneAssumption DEF AllocationExclusive
<1>2. RowsInv'
  BY DEF RowsInv
<1>3. StepInv'
  BY DEF StepInv, Stored, Table, Row
<1>4. FanInv'
  BY DEF FanInv, AnnouncedAtMostOnce
<1>5. QED
  BY <1>1, <1>2, <1>3, <1>4 DEF Rest

\* Every step of the specification keeps the invariant.
LEMMA NextIInv == IInv /\ [Next]_vars => IInv'
<1> SUFFICES ASSUME IInv, [Next]_vars PROVE IInv'
  OBVIOUS
<1>1. TypeOK /\ TypeOK'
  BY NextTypeOK DEF IInv
<1>2. ASSUME NEW r \in Requests, NEW m \in Messages, Post(r, m) PROVE Rest'
  <2>1. /\ UNCHANGED <<db, lock, out>> /\ pc' = [pc EXCEPT ![r] = "findSession"]
        /\ ~fan'[r]
        /\ \A q \in Requests \ {r} : msg'[q] = msg[q] /\ seq'[q] = seq[q] /\ fan'[q] = fan[q]
    BY <1>1, <1>2 DEF Post, GoTo, TypeOK
  <2>2. "findSession" \in Steps \ {"insert", "commit", "reply"}
    BY DEF Steps
  <2>3. QED
    BY <1>1, <2>1, <2>2, LocalStep
<1>3. ASSUME NEW r \in Requests, FindSession(r) PROVE Rest'
  <2>1. PICK step \in {"findExisting", "idle"} :
           UNCHANGED <<db, lock, out>> /\ pc' = [pc EXCEPT ![r] = step]
    BY <1>3 DEF FindSession, GoTo
  <2>2. step \in Steps \ {"insert", "commit", "reply"}
    BY DEF Steps
  <2>3. ~fan'[r] /\ UNCHANGED <<msg, seq, fan>>
    BY <1>3 DEF FindSession, IInv, StepInv
  <2>4. QED
    BY <1>1, <2>1, <2>2, <2>3, LocalStep
<1>4. ASSUME NEW r \in Requests, FindExisting(r) PROVE Rest'
  <2>1. CASE Replay(r)
    BY <1>1, <1>4, <2>1, ReplayStep DEF FindExisting
  <2>2. CASE GoTo(r, "alloc") /\ UNCHANGED seq
    <3>1. "alloc" \in Steps \ {"insert", "commit", "reply"}
      BY DEF Steps
    <3>2. ~fan'[r] /\ UNCHANGED <<db, lock, msg, seq, fan, out>> /\ pc' = [pc EXCEPT ![r] = "alloc"]
      BY <1>4, <2>2 DEF FindExisting, IInv, StepInv, GoTo
    <3>3. QED
      BY <1>1, <3>1, <3>2, LocalStep
  <2>3. QED
    BY <1>4, <2>1, <2>2 DEF FindExisting
<1>5. ASSUME NEW r \in Requests, AllocMsgSeq(r) PROVE Rest'
  <2>1. CASE msg[r][1] \in live
    BY <1>1, <1>5, <2>1, AllocStep
  <2>2. CASE msg[r][1] \notin live
    <3>1. "idle" \in Steps \ {"insert", "commit", "reply"}
      BY DEF Steps
    <3>2. UNCHANGED <<db, lock, msg, seq, fan, out>> /\ pc' = [pc EXCEPT ![r] = "idle"]
      BY <1>5, <2>2 DEF AllocMsgSeq, GoTo
    <3>3. QED
      BY <1>1, <3>1, <3>2, LocalStep
  <2>3. QED
    BY <2>1, <2>2
<1>6. ASSUME NEW r \in Requests, Reread(r) PROVE Rest'
  <2>1. CASE Replay(r)
    BY <1>1, <1>6, <2>1, ReplayStep DEF Reread
  <2>2. CASE GoTo(r, "idle") /\ UNCHANGED seq
    <3>1. "idle" \in Steps \ {"insert", "commit", "reply"}
      BY DEF Steps
    <3>2. UNCHANGED <<db, lock, msg, seq, fan, out>> /\ pc' = [pc EXCEPT ![r] = "idle"]
      BY <1>6, <2>2 DEF Reread, GoTo
    <3>3. QED
      BY <1>1, <3>1, <3>2, LocalStep
  <2>3. QED
    BY <1>6, <2>1, <2>2 DEF Reread
<1>7. ASSUME UNCHANGED vars PROVE Rest'
  <2>1. AllocationExclusive' /\ RowsInv' /\ (replies \subseteq rows)'
    BY <1>7 DEF vars, IInv, AllocationExclusive, RowsInv
  <2>2. StepInv'
    BY <1>7 DEF vars, IInv, StepInv, Stored, Table, Row
  <2>3. FanInv'
    BY <1>7 DEF vars, IInv, FanInv, AnnouncedAtMostOnce
  <2>4. QED
    BY <2>1, <2>2, <2>3 DEF Rest
<1>8. ASSUME NEW r \in Requests, Insert(r) \/ Commit(r) \/ Finish(r) \/ Break(r) PROVE Rest'
  BY <1>1, <1>8, InsertStep, CommitStep, FinishStep, BreakStep
<1>9. ASSUME NEW s \in Sessions, DeleteSession(s) PROVE Rest'
  BY <1>1, <1>9, DeleteStep
<1>10. Rest'
  BY <1>2, <1>3, <1>4, <1>5, <1>6, <1>7, <1>8, <1>9 DEF Next, Handle
<1>11. QED
  BY <1>1, <1>10 DEF IInv, Rest

\* The inductive invariant holds in every reachable state.
THEOREM Invariance == Spec => []IInv
  BY InitIInv, NextIInv, PTL DEF Spec

\* The state is well typed (the variables of the handlers and the tables).
THEOREM TypeCorrect == Spec => []TypeOK
<1>1. IInv => TypeOK
  BY DEF IInv
<1>2. QED
  BY <1>1, Invariance, PTL

\* The stored messages of a session are numbered 1..msg_seq without gap or
\* repetition, whatever was rolled back (schema.ts, "per-session, gapless").
THEOREM GaplessCorrect == Spec => []Gapless
<1>1. IInv => Gapless
  <2> SUFFICES ASSUME IInv, NEW s \in live
               PROVE  /\ {x.seq : x \in {y \in Table : y.sid = s}} = 1..msgSeq[s]
                      /\ \A x, y \in Table : x.sid = y.sid /\ x.seq = y.seq => x = y
    BY DEF Gapless
  <2>1. s \in Sessions /\ msgSeq[s] \in Nat
    BY DEF IInv, TypeOK
  <2>2. ASSUME NEW x \in Table, x.sid = s PROVE x.seq \in 1..msgSeq[s]
    BY <2>1, <2>2 DEF IInv, TypeOK, RowsInv, Table
  <2>3. ASSUME NEW n \in 1..msgSeq[s] PROVE \E x \in Table : x.sid = s /\ x.seq = n
    BY <2>1 DEF IInv, RowsInv, Table
  <2>4. \A x, y \in Table : x.sid = y.sid /\ x.seq = y.seq => x = y
    BY DEF IInv, RowsInv, Table
  <2>5. QED
    BY <2>2, <2>3, <2>4
<1>2. QED
  BY <1>1, Invariance, PTL

\* Every answer ever given for one (session, localId) names one number, and the
\* message is stored under it while its session lives.
THEOREM ReplayStableCorrect == Spec => []ReplayStable
<1>1. IInv => ReplayStable
  BY DEF IInv, ReplayStable, RowsInv, Table
<1>2. QED
  BY <1>1, Invariance, PTL

\* No message is announced twice, and none that was not committed.
THEOREM AnnouncedAtMostOnceCorrect == Spec => []AnnouncedAtMostOnce
<1>1. IInv => AnnouncedAtMostOnce
  BY DEF IInv, FanInv
<1>2. QED
  BY <1>1, Invariance, PTL

(* No two handlers are between the allocation of a number of a session and the *)
(* end of their transactions: the row lock of allocMsgSeq, for any number of   *)
(* handlers, messages and sessions.                                            *)
THEOREM AllocationExclusiveCorrect == Spec => []AllocationExclusive
<1>1. IInv => AllocationExclusive
  BY DEF IInv
<1>2. QED
  BY <1>1, Invariance, PTL

\* Each step of a handler is a step of the atomic log or leaves it as it is.
LEMMA StepImplementsLog == IInv /\ [Next]_vars => [Log!Next]_(Log!vars)
<1> SUFFICES ASSUME IInv, [Next]_vars PROVE [Log!Next]_(Log!vars)
  OBVIOUS
<1> USE DEF db, out
<1>1. ASSUME NEW r \in Requests, NEW m \in Messages, Post(r, m) PROVE UNCHANGED Log!vars
  BY <1>1 DEF Post, Log!vars
<1>2. ASSUME NEW r \in Requests,
             FindSession(r) \/ FindExisting(r) \/ AllocMsgSeq(r) \/ Insert(r) \/ Reread(r) \/ Break(r)
      PROVE  UNCHANGED Log!vars
  BY <1>2 DEF FindSession, FindExisting, AllocMsgSeq, Insert, Reread, Break, Log!vars
<1>3. ASSUME NEW r \in Requests, Commit(r) PROVE Log!Next
  <2>1. msg[r] \in Messages /\ msg[r][1] \in live /\ seq[r] = msgSeq[msg[r][1]] + 1
    BY <1>3, MsgType DEF Commit, IInv, AllocationExclusive
  <2>2. ~Log!Stored(msg[r])
    BY <1>3, <2>1 DEF Commit, IInv, StepInv, Stored, Table, Log!Stored
  <2>3. Log!TakeEffect(msg[r])
    BY <1>3, <2>1, <2>2 DEF Commit, Log!TakeEffect, Row, Log!Row
  <2>4. QED
    BY <2>1, <2>3 DEF Log!Next, Messages, Log!Messages
<1>4. ASSUME NEW r \in Requests, Finish(r) PROVE Log!Next
  <2>1. msg[r] \in Messages /\ Row(msg[r], seq[r]) \in rows /\ fan[r] \in BOOLEAN
    BY <1>4, MsgType DEF Finish, IInv, StepInv, TypeOK
  <2>2. fan[r] => fanouts[msg[r]] = 0
    BY <1>4 DEF Finish, IInv, FanInv
  <2>3. fanouts' = [fanouts EXCEPT ![msg[r]] = IF fan[r] THEN 1 ELSE @]
    <3>1. CASE fan[r]
      <4>1. fanouts[msg[r]] + 1 = 1
        BY <2>2, <3>1
      <4>2. fanouts' = [fanouts EXCEPT ![msg[r]] = fanouts[msg[r]] + 1]
        BY <1>4, <3>1 DEF Finish
      <4>3. fanouts' = [fanouts EXCEPT ![msg[r]] = 1]
        BY <4>1, <4>2
      <4>4. QED
        BY <3>1, <4>3
    <3>2. CASE ~fan[r]
      BY <1>4, <3>2 DEF Finish
    <3>3. QED
      BY <3>1, <3>2
  <2>4. \E x \in rows : x.sid = msg[r][1] /\ x.lid = msg[r][2] /\ replies' = replies \cup {x}
    BY <1>4, <2>1 DEF Finish, Row
  <2>5. Log!Answer(msg[r], fan[r])
    BY <1>4, <2>2, <2>3, <2>4 DEF Finish, Log!Answer
  <2>6. QED
    BY <2>1, <2>5 DEF Log!Next, Messages, Log!Messages
<1>5. ASSUME NEW s \in Sessions, DeleteSession(s) PROVE Log!Next
  BY <1>5 DEF DeleteSession, Log!Delete, Log!Next
<1>6. ASSUME UNCHANGED vars PROVE UNCHANGED Log!vars
  BY <1>6 DEF vars, Log!vars
<1>7. QED
  BY <1>1, <1>2, <1>3, <1>4, <1>5, <1>6 DEF Next, Handle

\* The interleaved transactions implement the atomic log: a request takes
\* effect at one instant, once, and is answered and announced only after that.
THEOREM Refinement == Spec => ImplementsLog
<1>1. Init => Log!Init
  BY DEF Init, Log!Init, Messages, Log!Messages
<1>2. QED
  BY <1>1, StepImplementsLog, Invariance, PTL DEF Spec, ImplementsLog, Log!Spec
-----------------------------------------------------------------------------
(* A row of the sessions table *)

\* What a writer does and knows.
WriteStates ==
    [pc : {"idle", "compute", "put", "update", "conflict", "ok", "done"},
     patch : Patches, tries : 0 .. MaxAttempts, known : Metadata, at : Nat]

\* A patch of a metadata value is a metadata value.
LEMMA PatchType ==
  ASSUME RowTypeOK, NEW w \in Writers, NEW v \in Metadata
  PROVE  Patch(w, v) \in Metadata
  BY DEF Patch, Patched, Metadata

\* A status request arrives well typed.
LEMMA ArriveTypeOK ==
  ASSUME RowTypeOK, NEW r \in StatusRequests, NEW kind \in Kinds, Arrive(r, kind)
  PROVE  RowTypeOK'
  BY RowAssumption DEF RowTypeOK, Arrive, Go, row, Kinds

\* The status handlers keep the state well typed.
LEMMA HandleTypeOK ==
  ASSUME RowTypeOK, NEW r \in StatusRequests, HandleStatus(r) PROVE RowTypeOK'
<1>1. CASE Find(r)
  <2>1. req[r] \in [kind : Kinds, pc : {"find", "apply", "finish"}]
    BY <1>1 DEF RowTypeOK, Find, Free
  <2>2. CASE Go(r, req[r].kind, "apply")
    BY <1>1, <2>1, <2>2 DEF RowTypeOK, Find, Go, row
  <2>3. CASE End(r)
    BY <1>1, <2>3 DEF RowTypeOK, Find, End, row
  <2> QED
    BY <1>1, <2>2, <2>3 DEF Find
<1>2. CASE Apply(r)
  <2>1. req[r] \in [kind : Kinds, pc : {"find", "apply", "finish"}]
    BY <1>2 DEF RowTypeOK, Apply, Free
  <2>2. Target[req[r].kind] \in Statuses
    BY <2>1 DEF Target, Kinds, Statuses
  <2>3. status' \in Statuses
    BY <1>2, <2>2 DEF RowTypeOK, Apply
  <2>4. CASE Go(r, req[r].kind, "finish")
    BY <1>2, <2>1, <2>3, <2>4 DEF RowTypeOK, Apply, Go
  <2>5. CASE End(r)
    BY <1>2, <2>3, <2>5 DEF RowTypeOK, Apply, End
  <2> QED
    BY <1>2, <2>4, <2>5 DEF Apply
<1>3. CASE FanOut(r)
  BY <1>3 DEF RowTypeOK, FanOut, End, row
<1> QED
  BY <1>1, <1>2, <1>3 DEF HandleStatus

\* The end of a write is well typed.
LEMMA EndWriteType ==
  ASSUME RowTypeOK, NEW w \in Writers, EndWrite(w)
  PROVE  write' \in [Writers -> WriteStates]
<1>1. NoMetadata \in Metadata
  BY DEF NoMetadata, Metadata
<1>2. 0 \in 0 .. MaxAttempts /\ 0 \in Nat
  BY RowAssumption
<1>3. [write[w] EXCEPT !.pc = "done", !.tries = 0, !.known = NoMetadata, !.at = 0] \in WriteStates
  BY <1>1, <1>2 DEF RowTypeOK, WriteStates
<1> QED
  BY <1>3 DEF RowTypeOK, EndWrite, WriteStates

\* The writers of the metadata keep the state well typed.
LEMMA WriteTypeOK ==
  ASSUME RowTypeOK, NEW w \in Writers, WriteStep(w) \/ BeginWrite(w)
  PROVE  RowTypeOK'
<1>1. CASE BeginWrite(w)
  BY <1>1 DEF RowTypeOK, BeginWrite, row
<1>2. CASE Skip(w)
  BY <1>2, EndWriteType DEF RowTypeOK, Skip, row, WriteStates
<1>3. CASE GiveUp(w)
  BY <1>3, EndWriteType DEF RowTypeOK, GiveUp, row, WriteStates
<1>4. CASE Put(w)
  <2>1. (IF w = Cli THEN write[w].tries ELSE write[w].tries + 1) \in 0 .. MaxAttempts
    BY <1>4, RowAssumption DEF RowTypeOK, Put
  <2>2. write[w].at \in Nat /\ write[w].known \in Metadata /\ write[w].patch \in Patches
    BY DEF RowTypeOK
  <2>3. write' = [write EXCEPT ![w] = [@ EXCEPT !.pc = "put",
                    !.tries = IF w = Cli THEN write[w].tries ELSE write[w].tries + 1]]
    BY <1>4 DEF RowTypeOK, Put
  <2>4. write' \in [Writers -> WriteStates]
    BY <2>1, <2>2, <2>3 DEF RowTypeOK, WriteStates
  <2> QED
    BY <1>4, <2>4 DEF RowTypeOK, Put, row, WriteStates
<1>5. CASE CasFind(w)
  BY <1>5 DEF RowTypeOK, CasFind, row
<1>6. CASE CasUpdate(w)
  <2>1. Patch(w, write[w].known) \in Metadata
    BY PatchType DEF RowTypeOK
  <2> QED
    BY <1>6, <2>1 DEF RowTypeOK, CasUpdate
<1>7. CASE PutOk(w)
  BY <1>7, EndWriteType DEF RowTypeOK, PutOk, row, WriteStates
<1>8. CASE PutConflict(w)
  BY <1>8 DEF RowTypeOK, PutConflict, row
<1>9. CASE PutFails(w)
  BY <1>9, EndWriteType DEF RowTypeOK, PutFails, row, WriteStates
<1> QED
  BY <1>1, <1>2, <1>3, <1>4, <1>5, <1>6, <1>7, <1>8, <1>9 DEF WriteStep

\* Every step keeps the state well typed.
LEMMA RowNextTypeOK == RowTypeOK /\ [RowNext]_rowVars => RowTypeOK'
<1> SUFFICES ASSUME RowTypeOK, [RowNext]_rowVars PROVE RowTypeOK'
  OBVIOUS
<1>1. ASSUME NEW r \in StatusRequests, Sweep(r) PROVE RowTypeOK'
  BY <1>1, ArriveTypeOK DEF Sweep, Kinds
<1>2. CASE UNCHANGED rowVars
  BY <1>2 DEF RowTypeOK, rowVars, row
<1> QED
  BY <1>1, <1>2, ArriveTypeOK, HandleTypeOK, WriteTypeOK DEF RowNext

\* The initial states satisfy the invariant.
LEMMA RowInitIInv == RowInit => RowIInv
<1> SUFFICES ASSUME RowInit PROVE RowIInv
  OBVIOUS
<1>1. NoMetadata \in Metadata /\ 0 \in 0 .. MaxAttempts /\ 0 \in 0 .. MaxRequests
  BY RowAssumption DEF NoMetadata, Metadata
<1>2. PICK patch \in [Writers -> Patches] :
        write = [w \in Writers |-> [pc |-> "idle", patch |-> patch[w], tries |-> 0,
                                    known |-> NoMetadata, at |-> 0]]
  BY DEF RowInit
<1>3. write \in [Writers -> WriteStates]
  BY <1>1, <1>2 DEF WriteStates
<1>4. RowTypeOK
  BY <1>1, <1>3 DEF RowInit, RowTypeOK, Statuses, WriteStates
<1>5. KnownIsCurrent
  BY <1>2 DEF RowInit, KnownIsCurrent
<1> QED
  BY <1>4, <1>5 DEF RowIInv

\* What a write that ends or reads the row anew leaves known.
LEMMA KeepsKnown ==
  ASSUME RowIInv, NEW w \in Writers, write' \in [Writers -> WriteStates],
         UNCHANGED <<value, version>>,
         \A u \in Writers \ {w} : write'[u] = write[u],
         \/ write'[w].at = 0 /\ write'[w].known = NoMetadata
         \/ write'[w].at = version /\ write'[w].known = value
         \/ write'[w].at = write[w].at /\ write'[w].known = write[w].known
  PROVE  KnownIsCurrent'
  BY DEF RowIInv, RowTypeOK, KnownIsCurrent

\* A writer that knows the newest version knows its value, whatever the
\* others do: the version moves with the value, and a conflict brings both.
LEMMA NextKnown == RowIInv /\ [RowNext]_rowVars => KnownIsCurrent'
<1> SUFFICES ASSUME RowIInv, [RowNext]_rowVars PROVE KnownIsCurrent'
  OBVIOUS
<1>0. RowTypeOK /\ KnownIsCurrent
  BY DEF RowIInv
<1>t. RowTypeOK'
  BY <1>0, RowNextTypeOK
<1>u. write' \in [Writers -> WriteStates]
  BY <1>t DEF RowTypeOK, WriteStates
<1>1. CASE UNCHANGED <<value, version, write>>
  BY <1>0, <1>1 DEF KnownIsCurrent
<1>2. ASSUME NEW w \in Writers, EndWrite(w), UNCHANGED <<value, version>> PROVE KnownIsCurrent'
  <2>1. \A u \in Writers \ {w} : write'[u] = write[u]
    BY <1>0, <1>2 DEF EndWrite, RowTypeOK
  <2>2. write'[w].at = 0 /\ write'[w].known = NoMetadata
    BY <1>0, <1>2 DEF EndWrite, RowTypeOK
  <2> QED
    BY <1>2, <1>u, <2>1, <2>2, KeepsKnown
<1>3. ASSUME NEW w \in Writers, BeginWrite(w) PROVE KnownIsCurrent'
  <2>1. \A u \in Writers \ {w} : write'[u] = write[u]
    BY <1>0, <1>3 DEF BeginWrite, RowTypeOK
  <2>2. \/ write'[w].at = version /\ write'[w].known = value
        \/ write'[w].at = write[w].at /\ write'[w].known = write[w].known
    BY <1>0, <1>3 DEF BeginWrite, RowTypeOK
  <2> QED
    BY <1>3, <1>u, <2>1, <2>2, KeepsKnown DEF BeginWrite, row
<1>4. ASSUME NEW w \in Writers, Put(w) \/ CasFind(w) PROVE KnownIsCurrent'
  <2>1. \A u \in Writers \ {w} : write'[u] = write[u]
    BY <1>0, <1>4 DEF Put, CasFind, RowTypeOK
  <2>2. write'[w].at = write[w].at /\ write'[w].known = write[w].known
    BY <1>0, <1>4 DEF Put, CasFind, RowTypeOK
  <2> QED
    BY <1>4, <1>u, <2>1, <2>2, KeepsKnown DEF Put, CasFind, row
<1>5. ASSUME NEW w \in Writers, PutConflict(w) PROVE KnownIsCurrent'
  <2>1. \A u \in Writers \ {w} : write'[u] = write[u]
    BY <1>0, <1>5 DEF PutConflict, RowTypeOK
  <2>2. write'[w].at = version /\ write'[w].known = value
    BY <1>0, <1>5 DEF PutConflict, RowTypeOK
  <2> QED
    BY <1>5, <1>u, <2>1, <2>2, KeepsKnown DEF PutConflict, row
<1>6. ASSUME NEW w \in Writers, CasUpdate(w) PROVE KnownIsCurrent'
  <2>1. \A u \in Writers : write'[u].at = write[u].at /\ write'[u].known = write[u].known
    BY <1>0, <1>6 DEF CasUpdate, RowTypeOK
  <2>2. CASE version = write[w].at
    <3>1. version' = version + 1
      BY <1>6, <2>2 DEF CasUpdate
    <3> QED
      BY <1>0, <2>1, <3>1 DEF KnownIsCurrent, RowTypeOK
  <2>3. CASE version # write[w].at
    <3>1. UNCHANGED <<value, version>>
      BY <1>6, <2>3 DEF CasUpdate
    <3> QED
      BY <1>0, <2>1, <3>1 DEF KnownIsCurrent, RowTypeOK
  <2> QED
    BY <2>2, <2>3
<1>7. ASSUME NEW w \in Writers, WriteStep(w) PROVE KnownIsCurrent'
  <2>1. CASE Skip(w) \/ GiveUp(w) \/ PutOk(w) \/ PutFails(w)
    BY <1>2, <2>1 DEF Skip, GiveUp, PutOk, PutFails, row
  <2> QED
    BY <1>4, <1>5, <1>6, <1>7, <2>1 DEF WriteStep
<1>8. ASSUME NEW r \in StatusRequests, HandleStatus(r) \/ Sweep(r) \/ \E kind \in Kinds : Arrive(r, kind)
      PROVE  KnownIsCurrent'
  BY <1>1, <1>8 DEF HandleStatus, Find, Apply, FanOut, Sweep, Arrive, row
<1> QED
  BY <1>1, <1>3, <1>7, <1>8 DEF RowNext, rowVars, row

\* The invariant holds in every reachable state.
LEMMA RowInvariance == RowSpec => []RowIInv
<1>1. RowIInv /\ [RowNext]_rowVars => RowIInv'
  BY RowNextTypeOK, NextKnown DEF RowIInv
<1> QED
  BY RowInitIInv, <1>1, PTL DEF RowSpec

\* Handlers and writers of any number keep the row well typed.
THEOREM RowTypeCorrect == RowSpec => []RowTypeOK
  BY RowInvariance, PTL DEF RowIInv

\* No report, late or concurrent, changes what has ended into a failure or
\* takes a session out of the archive.
THEOREM TerminalStatusKept == RowSpec => TerminalKept
<1>1. RowIInv /\ [RowNext]_rowVars =>
        [/\ status' = "failed" => status \in {"active", "failed"}
         /\ status = "archived" /\ status' # status =>
              \E r \in StatusRequests : req[r].kind \in {"restore", "delete"} /\ req[r].pc = "apply"]_rowVars
  <2> SUFFICES ASSUME RowIInv, RowNext, status' # status
               PROVE  /\ status' = "failed" => status \in {"active", "failed"}
                      /\ status = "archived" => \E r \in StatusRequests :
                           req[r].kind \in {"restore", "delete"} /\ req[r].pc = "apply"
    OBVIOUS
  <2>1. PICK r \in StatusRequests : Apply(r)
    BY DEF RowNext, HandleStatus, Find, FanOut, Sweep, Arrive, WriteStep, BeginWrite, Skip, GiveUp, Put,
       CasFind, CasUpdate, PutOk, PutConflict, PutFails, row
  <2>2. req[r].kind \in Kinds
    BY <2>1 DEF RowIInv, RowTypeOK, Apply, Free
  <2>3. Matches(req[r].kind) /\ status' = Target[req[r].kind]
    BY <2>1 DEF Apply
  <2> QED
    BY <2>1, <2>2, <2>3 DEF Apply, Matches, Target, Kinds
<1> QED
  BY RowInvariance, <1>1, PTL DEF RowSpec, TerminalKept

\* Whoever fans a report out has changed the row to what it tells.
THEOREM FanOutTrue == RowSpec => FanOutIsTrue
<1>1. RowIInv /\ [RowNext]_rowVars =>
        [\A r \in StatusRequests :
           req'[r].pc = "finish" /\ req[r].pc # "finish" /\ req[r].kind \in {"failed", "ended"}
             => /\ status' = req[r].kind
                /\ status # status' \/ status = "ended"]_rowVars
  <2> SUFFICES ASSUME RowIInv, RowNext, NEW r \in StatusRequests, req'[r].pc = "finish",
                      req[r].pc # "finish", req[r].kind \in {"failed", "ended"}
               PROVE  status' = req[r].kind /\ (status # status' \/ status = "ended")
    BY DEF rowVars
  <2>1. req \in [StatusRequests -> [kind : Kinds, pc : {"find", "apply", "finish"}] \cup {Free}]
    BY DEF RowIInv, RowTypeOK
  <2>2. PICK q \in StatusRequests : HandleStatus(q) \/ Sweep(q) \/ \E kind \in Kinds : Arrive(q, kind)
    BY DEF RowNext, WriteStep, BeginWrite, Skip, GiveUp, Put,
       CasFind, CasUpdate, PutOk, PutConflict, PutFails, row
  <2>3. Apply(r)
    BY <2>1, <2>2 DEF HandleStatus, Find, Apply, FanOut, Sweep, Arrive, Go, End, Free
  <2>4. Matches(req[r].kind)
    BY <2>1, <2>3 DEF Apply, End, Free
  <2> QED
    BY <2>3, <2>4 DEF Apply, Matches, Target
<1> QED
  BY RowInvariance, <1>1, PTL DEF RowSpec, FanOutIsTrue

\* No update of the metadata is lost, with any number of writers.
THEOREM NoLostUpdate == RowSpec => PatchesCompose
<1>1. RowIInv /\ [RowNext]_rowVars =>
        [version' # version =>
           \E w \in Writers : write[w].pc = "update" /\ value' = Patch(w, value)]_rowVars
  <2> SUFFICES ASSUME RowIInv, RowNext, version' # version
               PROVE  \E w \in Writers : write[w].pc = "update" /\ value' = Patch(w, value)
    OBVIOUS
  <2>1. PICK w \in Writers : CasUpdate(w)
    BY DEF RowNext, HandleStatus, Find, Apply, FanOut, Sweep, Arrive, WriteStep, BeginWrite, Skip, GiveUp,
       Put, CasFind, PutOk, PutConflict, PutFails, row
  <2>2. write[w].at = version /\ value' = Patch(w, write[w].known)
    BY <2>1 DEF CasUpdate
  <2>3. write[w].known = value
    BY <2>2 DEF RowIInv, KnownIsCurrent
  <2> QED
    BY <2>1, <2>2, <2>3 DEF CasUpdate
<1> QED
  BY RowInvariance, <1>1, PTL DEF RowSpec, PatchesCompose
-----------------------------------------------------------------------------
(* The account's header stream, for any number of rows, fields, of engines *)
(* in the tab and of losses of its socket.  A settled snapshot shows what  *)
(* it was refetched for because the answer in flight was read after the    *)
(* newest change it is owed: an invalidation starts the read again.  A     *)
(* patch does not undo that, though it may put back a row that was read    *)
(* after the counter: the counter was read after what is owed, and a patch *)
(* is newer than the counter.                                              *)

(* Every engine's tracker is the snapshot's counter.                       *)
Uniform == \A e \in Engines : last[e] = IF cache = Absent THEN Absent ELSE cache.seq

(* What the fetch in flight has read, it has read since it was started.    *)
ReadInv ==
    fetch # Absent =>
      /\ fetch.seq # Absent => fetch.seq >= owed
      /\ \A k \in 1..owed : fetch.rows[log[k].row] # Absent => Shows(fetch, k)

ShownInv ==
    cache # Absent /\ fetch = Absent /\ ~failed =>
      cache.seq >= owed /\ \A k \in 1..owed : Shows(cache, k)

HeaderIInv == HeaderTypeOK /\ Uniform /\ ReadInv /\ ShownInv

\* A nonempty set of numbers up to n has a greatest element: the intervals from
\* its elements to n are well ordered by inclusion.
LEMMA MaxOf ==
  ASSUME NEW n \in Nat, NEW S \in SUBSET (1 .. n), S # {}
  PROVE  Max(S) \in S /\ \A m \in S : m <= Max(S)
<1> DEFINE U == 1 .. n
           T == {m .. n : m \in S}
<1>1. IsFiniteSet(U)
  BY FS_Interval
<1>2. IsWellFoundedOn(StrictSubsetOrdering(U), FiniteSubsetsOf(U))
  BY FS_StrictSubsetOrderingWellFounded
<1>3. T \subseteq SUBSET U /\ T # {}
  <2>1. \A m \in S : m .. n \subseteq U /\ m .. n \in T
    OBVIOUS
  <2> QED
    BY <2>1
<1>4. T \subseteq FiniteSubsetsOf(U)
  BY <1>1, <1>3, FS_Subset DEF FiniteSubsetsOf
<1>5. PICK x \in T : \A y \in T : <<y, x>> \notin StrictSubsetOrdering(U)
  BY <1>2, <1>3, <1>4, WFMin
<1>6. PICK m \in S : x = m .. n
  OBVIOUS
<1>7. ASSUME NEW k \in S, m < k PROVE FALSE
  <2>1. k .. n \in T
    OBVIOUS
  <2>2. k .. n \subseteq m .. n /\ k .. n # m .. n
    BY <1>7
  <2> QED
    BY <1>3, <1>5, <1>6, <2>1, <2>2 DEF StrictSubsetOrdering
<1>8. \E a \in S : \A k \in S : k <= a
  BY <1>6, <1>7
<1> QED
  BY <1>8 DEF Max

(* The values of a row, of a snapshot and of a fetch up to change n.       *)
RowOf(n) == [Fields -> 0 .. n]
FullOf(n) == [seq : 0 .. n, rows : [Rows -> RowOf(n)]]
ReadOf(n) == [seq : 0 .. n \cup {Absent}, rows : [Rows -> RowOf(n) \cup {Absent}]]

\* A snapshot is a complete read, and neither it nor a row is Absent.
LEMMA NotAbsent ==
  ASSUME NEW n \in Nat
  PROVE  /\ FullOf(n) \subseteq ReadOf(n) /\ Absent \notin ReadOf(n) /\ Absent \notin RowOf(n)
         /\ Absent \notin 0 .. n
         /\ \A x \in ReadOf(n) :
              x.seq # Absent /\ (\A r \in Rows : x.rows[r] # Absent) => x \in FullOf(n)
<1> DEFINE AnyRow == [Fields -> Nat]
<1>1. RowOf(n) \subseteq AnyRow
  BY DEF RowOf
<1>2. FullOf(n) \subseteq ReadOf(n)
  BY DEF FullOf, ReadOf
<1>3. ReadOf(n) \subseteq [seq : Nat \cup {Absent}, rows : [Rows -> AnyRow \cup {Absent}]]
  BY <1>1 DEF ReadOf
<1>4. Absent \notin ReadOf(n) /\ Absent \notin RowOf(n) /\ Absent \notin 0 .. n
  BY <1>1, <1>3, HeaderAssumption
<1>5. \A x \in ReadOf(n) :
        x.seq # Absent /\ (\A r \in Rows : x.rows[r] # Absent) => x \in FullOf(n)
  BY DEF ReadOf, FullOf
<1> QED
  BY <1>2, <1>4, <1>5

\* A row is read with the newest value of each of its fields.
LEMMA RowAtOf ==
  ASSUME headerSeq \in Nat, NEW r
  PROVE  /\ RowAt(r, headerSeq) \in RowOf(headerSeq)
         /\ \A k \in 1..headerSeq, f \in Fields :
              log[k].row = r /\ Writes(log[k], f) => k <= RowAt(r, headerSeq)[f]
<1> DEFINE ks(f) == {k \in 1..headerSeq : log[k].row = r /\ Writes(log[k], f)}
           v(f) == IF ks(f) = {} THEN 0 ELSE Max(ks(f))
<1>1. RowAt(r, headerSeq) = [f \in Fields |-> v(f)]
  BY DEF RowAt
<1>2. ASSUME NEW f \in Fields
      PROVE  v(f) \in 0..headerSeq /\ \A k \in 1..headerSeq : log[k].row = r /\ Writes(log[k], f) => k <= v(f)
  <2>1. ks(f) \in SUBSET (1..headerSeq)
    OBVIOUS
  <2> DEFINE K == ks(f)
  <2>2. CASE K # {}
    <3> HIDE DEF K
    <3>1. Max(K) \in K /\ \A k \in K : k <= Max(K)
      BY <2>1, <2>2, MaxOf DEF K
    <3>2. v(f) = Max(K)
      BY <2>2 DEF K
    <3> QED
      BY <2>1, <3>1, <3>2 DEF K
  <2> QED
    BY <2>2
<1> HIDE DEF v, ks
<1> QED
  BY <1>1, <1>2 DEF RowOf

\* The first element of a list, and the others.
LEMMA HeadTail ==
  ASSUME NEW S, NEW q \in Seq(S), q # <<>> PROVE Head(q) \in S /\ Tail(q) \in Seq(S)
OBVIOUS

\* A patch gives the fields it writes its own number and leaves the others; only
\* the fields of a row that is not there are left out.
LEMMA PatchedRows ==
  ASSUME NEW n \in Nat, NEW k \in 1 .. n, log[k].row \in Rows, NEW table \in [Rows -> RowOf(n)]
  PROVE  /\ patched(table, k) \in [Rows -> RowOf(n)]
         /\ \A r \in Rows, f \in Fields :
              patched(table, k)[r][f] = table[r][f] \/ patched(table, k)[r][f] = k
         /\ ~(log[k].part \in Fields /\ ~Has(table, log[k].row)) =>
              \A f \in Fields : Writes(log[k], f) => patched(table, k)[log[k].row][f] = k
<1> DEFINE c == log[k]
           w == [f \in Fields |-> IF Writes(c, f) THEN k ELSE table[c.row][f]]
<1>1. table[c.row] \in RowOf(n)
  OBVIOUS
<1>2. /\ w \in RowOf(n)
      /\ \A f \in Fields : w[f] = k \/ w[f] = table[c.row][f]
      /\ \A f \in Fields : Writes(c, f) => w[f] = k
  <2>1. \A f \in Fields : table[c.row][f] \in 0 .. n
    BY <1>1 DEF RowOf
  <2> QED
    BY <2>1 DEF RowOf
<1>3. patched(table, k) = IF c.part \in Fields /\ ~Has(table, c.row) THEN table
                          ELSE [table EXCEPT ![c.row] = w]
  BY DEF patched
<1> HIDE DEF w
<1>4. CASE c.part \in Fields /\ ~Has(table, c.row)
  BY <1>3, <1>4
<1>5. CASE ~(c.part \in Fields /\ ~Has(table, c.row))
  <2>1. patched(table, k) = [table EXCEPT ![c.row] = w]
    BY <1>3, <1>5
  <2>2. [table EXCEPT ![c.row] = w] \in [Rows -> RowOf(n)]
    BY <1>2
  <2>3. \A r \in Rows : [table EXCEPT ![c.row] = w][r] = IF r = c.row THEN w ELSE table[r]
    OBVIOUS
  <2> QED
    BY <1>2, <2>1, <2>2, <2>3
<1> QED
  BY <1>4, <1>5

-----------------------------------------------------------------------------
(* The engines, one after the other *)

TabOf(c, s, f, l, o, x) == [cache |-> c, stale |-> s, fetch |-> f, last |-> l, owed |-> o, failed |-> x]

(* The snapshot with change k patched in.                                  *)
WithChange(c, k) == [seq |-> k, rows |-> patched(c.rows, k)]

(* The tab whose fetch has just been started again.                        *)
Restarted(c, s, l) == TabOf(c, s, NotRead, l, headerSeq, FALSE)

\* A refetch keeps all but the fetch and what it is for.
LEMMA Refetched ==
  ASSUME NEW c, NEW f, NEW l, NEW o
  PROVE  \A s, x : Refetch(TabOf(c, s, f, l, o, x)) = Restarted(c, s, l)
<1> TAKE s, x
<1> DEFINE t == TabOf(c, s, f, l, o, x)
<1>1. [t EXCEPT !.fetch = NotRead] = TabOf(c, s, NotRead, l, o, x)
  BY DEF TabOf
<1>2. [TabOf(c, s, NotRead, l, o, x) EXCEPT !.owed = headerSeq] = TabOf(c, s, NotRead, l, headerSeq, x)
  BY DEF TabOf
<1>3. \A g : [TabOf(c, s, NotRead, l, headerSeq, x) EXCEPT !.failed = g]
               = TabOf(c, s, NotRead, l, headerSeq, g)
  BY DEF TabOf
<1>4. [TabOf(c, s, NotRead, l, headerSeq, x) EXCEPT !.failed = FALSE]
        = TabOf(c, s, NotRead, l, headerSeq, FALSE)
  BY <1>3, Zenon
<1> HIDE DEF t
<1>5. Refetch(t) = [t EXCEPT !.fetch = NotRead, !.owed = headerSeq, !.failed = FALSE]
  BY Zenon DEF Refetch
<1>6. [t EXCEPT !.fetch = NotRead, !.owed = headerSeq, !.failed = FALSE]
        = TabOf(c, s, NotRead, l, headerSeq, FALSE)
  BY <1>1, <1>2, <1>4
<1> QED
  BY <1>5, <1>6, Zenon DEF t, Restarted

\* An invalidation keeps the trackers: without data it keeps the fetch, too, and
\* otherwise it starts a new one.
LEMMA FetchKept ==
  ASSUME NEW c, NEW f, NEW l, NEW o, c = Absent, f # Absent
  PROVE  \A s, x : Invalidate(TabOf(c, s, f, l, o, x)) = TabOf(c, TRUE, f, l, o, x)
<1> TAKE s, x
<1> DEFINE t == TabOf(c, s, f, l, o, x)
<1>1. t.cache = c /\ t.fetch = f
  BY DEF TabOf
<1>2. \A g : [t EXCEPT !.stale = g] = TabOf(c, g, f, l, o, x)
  BY DEF TabOf
<1> HIDE DEF t
<1>3. [t EXCEPT !.stale = TRUE] = TabOf(c, TRUE, f, l, o, x)
  BY <1>2, Zenon
<1>4. Invalidate(t) = [t EXCEPT !.stale = TRUE]
  BY <1>1, Zenon DEF Invalidate
<1> QED
  BY <1>3, <1>4, Zenon DEF t

LEMMA FetchReplaced ==
  ASSUME NEW c, NEW f, NEW l, NEW o, ~(c = Absent /\ f # Absent)
  PROVE  \A s, x : Invalidate(TabOf(c, s, f, l, o, x)) = TabOf(c, TRUE, NotRead, l, headerSeq, FALSE)
<1>0. \A s, x : Refetch(TabOf(c, s, f, l, o, x)) = Restarted(c, s, l)
  BY Refetched
<1> TAKE s, x
<1> DEFINE t == TabOf(c, s, f, l, o, x)
<1>1. t.cache = c /\ t.fetch = f
  BY DEF TabOf
<1>2. \A g : [t EXCEPT !.stale = g] = TabOf(c, g, f, l, o, x)
  BY DEF TabOf
<1> HIDE DEF t
<1>3. [t EXCEPT !.stale = TRUE] = TabOf(c, TRUE, f, l, o, x)
  BY <1>2, Zenon
<1>4. Refetch(TabOf(c, TRUE, f, l, o, x)) = TabOf(c, TRUE, NotRead, l, headerSeq, FALSE)
  BY <1>0, Zenon DEF Restarted
<1>5. Invalidate(t) = Refetch([t EXCEPT !.stale = TRUE])
  BY <1>1, Zenon DEF Invalidate
<1> QED
  BY <1>3, <1>4, <1>5, Zenon DEF t

\* A second one changes nothing.
LEMMA InvalidatedTwice ==
  ASSUME NotRead # Absent, NEW c, NEW f, NEW l, NEW o
  PROVE  \A s, x : Invalidate(Invalidate(TabOf(c, s, f, l, o, x))) = Invalidate(TabOf(c, s, f, l, o, x))
<1> TAKE s, x
<1>1. CASE c = Absent /\ f # Absent
  <2>1. \A g, y : Invalidate(TabOf(c, g, f, l, o, y)) = TabOf(c, TRUE, f, l, o, y)
    BY <1>1, FetchKept
  <2> QED
    BY <2>1, Zenon
<1>2. CASE ~(c = Absent /\ f # Absent)
  <2>1. \A g, y : Invalidate(TabOf(c, g, f, l, o, y)) = TabOf(c, TRUE, NotRead, l, headerSeq, FALSE)
    BY <1>2, FetchReplaced
  <2> DEFINE t == TabOf(c, TRUE, NotRead, l, headerSeq, FALSE)
  <2>2. Invalidate(t) = t
    <3>1. CASE c = Absent
      <4>1. \A g, y : Invalidate(TabOf(c, g, NotRead, l, headerSeq, y)) = TabOf(c, TRUE, NotRead, l, headerSeq, y)
        BY <3>1, FetchKept
      <4> QED
        BY <4>1, Zenon
    <3>2. CASE c # Absent
      <4>1. \A g, y : Invalidate(TabOf(c, g, NotRead, l, headerSeq, y)) = TabOf(c, TRUE, NotRead, l, headerSeq, FALSE)
        BY <3>2, FetchReplaced
      <4> QED
        BY <4>1, Zenon
    <3> QED
      BY <3>1, <3>2
  <2> QED
    BY <2>1, <2>2, Zenon
<1> QED
  BY <1>1, <1>2

(* Every tracker at k.                                                     *)
At(k) == [d \in Engines |-> k]

(* What an engine one behind the announced change does.                    *)
FastPath(t, e, k) == [applyStructural(t, k) EXCEPT !.last[e] = k]

\* The fast path moves the snapshot and every tracker to the change.
LEMMA FastPathTab ==
  ASSUME cache # Absent, NEW k, NEW e \in Engines
  PROVE  FastPath(Tab, e, k) = TabOf(WithChange(cache, k), FALSE, fetch, At(k), owed, failed)
<1> DEFINE new == WithChange(cache, k)
           ls == At(k)
<1>1. Tab = TabOf(cache, stale, fetch, last, owed, failed) /\ Tab.cache = cache
  BY DEF Tab, TabOf
<1>2. new.seq = k
  BY DEF WithChange
<1> DEFINE u == TabOf(new, FALSE, fetch, last, owed, failed)
<1>3. [Tab EXCEPT !.cache = [seq |-> k, rows |-> patched(@.rows, k)], !.stale = FALSE] = u
  <2> DEFINE T == TabOf(cache, stale, fetch, last, owed, failed)
  <2>1. [T EXCEPT !.cache = [seq |-> k, rows |-> patched(@.rows, k)]]
          = TabOf(new, stale, fetch, last, owed, failed)
    BY DEF TabOf, WithChange
  <2> HIDE DEF new
  <2>2. \A g : [TabOf(new, stale, fetch, last, owed, failed) EXCEPT !.stale = g]
                 = TabOf(new, g, fetch, last, owed, failed)
    BY DEF TabOf
  <2>3. [TabOf(new, stale, fetch, last, owed, failed) EXCEPT !.stale = FALSE] = u
    BY <2>2, Zenon
  <2> HIDE DEF u, T
  <2>4. Tab = T
    BY <1>1 DEF T
  <2> QED
    BY <2>1, <2>3, <2>4
<1> HIDE DEF new, ls
<1>4. cacheSub(u) = TabOf(new, FALSE, fetch, ls, owed, failed)
  <2>1. \A g : TabOf(new, g, fetch, last, owed, failed).cache.seq = k
    BY <1>2 DEF TabOf
  <2>2. \A g : [TabOf(new, g, fetch, last, owed, failed) EXCEPT !.last = ls]
                 = TabOf(new, g, fetch, ls, owed, failed)
    BY DEF TabOf
  <2>3. u.cache.seq = k
    BY <2>1, Zenon
  <2>4. [u EXCEPT !.last = ls] = TabOf(new, FALSE, fetch, ls, owed, failed)
    BY <2>2, Zenon
  <2> HIDE DEF u
  <2>5. cacheSub(u) = [u EXCEPT !.last = ls]
    BY <2>3 DEF cacheSub, At, ls
  <2> QED
    BY <2>4, <2>5, Zenon
<1>5. [TabOf(new, FALSE, fetch, ls, owed, failed) EXCEPT !.last[e] = k]
        = TabOf(new, FALSE, fetch, ls, owed, failed)
  <2>1. [ls EXCEPT ![e] = k] = ls
    BY DEF At, ls
  <2>2. \A g : [TabOf(new, g, fetch, ls, owed, failed) EXCEPT !.last[e] = k]
                 = TabOf(new, g, fetch, [ls EXCEPT ![e] = k], owed, failed)
    BY DEF TabOf
  <2> QED
    BY <2>1, <2>2, Zenon
<1> HIDE DEF u
<1>6. applyStructural(Tab, k) = cacheSub(u)
  BY <1>1, <1>3 DEF applyStructural
<1> QED
  BY <1>4, <1>5, <1>6, Zenon DEF FastPath, new, ls

\* An engine that is not one behind the announced change invalidates.
LEMMA Skips ==
  ASSUME NEW c, NEW f, NEW l, NEW o, NEW e, NEW k, ~(l[e] # Absent /\ k = l[e] + 1)
  PROVE  \A s, x : handleUpdate(TabOf(c, s, f, l, o, x), e, k) = Invalidate(TabOf(c, s, f, l, o, x))
<1> TAKE s, x
<1> DEFINE t == TabOf(c, s, f, l, o, x)
<1>1. t.last = l
  BY DEF TabOf
<1> HIDE DEF t
<1>2. handleUpdate(t, e, k) = Invalidate(t)
  BY <1>1, Zenon DEF handleUpdate
<1> QED
  BY <1>2 DEF t

\* What the first engine makes of an event, and what all the others make of that.
LEMMA Engine_ByEngine ==
  ASSUME NEW first, NEW second,
         handleUpdate(Tab, 1, Head(chan)) = first,
         \A n \in Engines : handleUpdate(first, n, Head(chan)) = second,
         \A n \in Engines : handleUpdate(second, n, Head(chan)) = second
  PROVE  \A n \in Engines : handledBy[n] = IF n = 1 THEN first ELSE second
<1> DEFINE k == Head(chan)
           h == handledBy
           g == [n \in 0..NEngines |-> IF n = 0 THEN Tab ELSE IF n = 1 THEN first ELSE second]
<1>0. NEngines \in Nat /\ NEngines >= 1 /\ Engines = 1..NEngines
  BY HeaderAssumption DEF Engines
<1> HIDE DEF k
<1>1. \A n \in 1..NEngines : g[n] = handleUpdate(g[n - 1], n, k)
  <2> SUFFICES ASSUME NEW n \in 1..NEngines PROVE g[n] = handleUpdate(g[n - 1], n, k)
    OBVIOUS
  <2>1. CASE n = 1
    BY <1>0, <2>1 DEF k
  <2>2. CASE n = 2
    BY <1>0, <2>2 DEF k
  <2>3. CASE n > 2
    <3>1. n - 1 \in 0..NEngines /\ n - 1 # 0 /\ n - 1 # 1 /\ n # 0 /\ n # 1
      BY <1>0, <2>3
    <3>2. g[n - 1] = second /\ g[n] = second
      BY <3>1
    <3> QED
      BY <1>0, <3>2 DEF k
  <2> QED
    BY <1>0, <2>1, <2>2, <2>3
<1>2. g = [n \in 0..NEngines |-> IF n = 0 THEN Tab ELSE handleUpdate(g[n - 1], n, k)]
  <2>1. \A n \in 0..NEngines : n # 0 => n \in 1..NEngines
    BY <1>0
  <2>2. \A n \in 0..NEngines : g[n] = IF n = 0 THEN Tab ELSE handleUpdate(g[n - 1], n, k)
    BY <1>1, <2>1
  <2> HIDE DEF g
  <2>3. g = [n \in 0..NEngines |-> g[n]]
    BY DEF g
  <2> QED
    BY <2>2, <2>3
<1> HIDE DEF g
<1>3. h = [n \in 0..NEngines |-> IF n = 0 THEN Tab ELSE handleUpdate(h[n - 1], n, k)]
  <2>1. handledBy = CHOOSE f : f = [n \in 0..NEngines |-> IF n = 0 THEN Tab ELSE handleUpdate(f[n - 1], n, Head(chan))]
    BY DEF handledBy
  <2>2. \E f : f = [n \in 0..NEngines |-> IF n = 0 THEN Tab ELSE handleUpdate(f[n - 1], n, Head(chan))]
    BY <1>2 DEF k
  <2> QED
    BY <2>1, <2>2 DEF k
<1> HIDE DEF h
<1> DEFINE A == {i \in 1..NEngines : \A j \in 0..i : h[j] = g[j]}
<1>4. 1 \in A
  <2>1. h[0] = g[0]
    BY <1>0, <1>2, <1>3
  <2>2. h[1] = handleUpdate(h[0], 1, k) /\ g[1] = handleUpdate(g[0], 1, k)
    BY <1>0, <1>1, <1>3
  <2>3. \A j \in 0..1 : j = 0 \/ j = 1
    OBVIOUS
  <2> QED
    BY <1>0, <2>1, <2>2, <2>3
<1>5. PICK m \in A : \A i \in A : i <= m
  BY <1>0, <1>4, MaxOf
<1>6. m = NEngines
  <2>1. ASSUME m # NEngines PROVE FALSE
    <3>1. m + 1 \in 1..NEngines /\ m + 1 \in 0..NEngines /\ m + 1 # 0 /\ (m + 1) - 1 = m /\ m \in 0..m
      BY <1>0, <2>1
    <3>2. h[m + 1] = handleUpdate(h[m], m + 1, k)
      BY <1>3, <3>1
    <3>3. g[m + 1] = handleUpdate(g[m], m + 1, k)
      BY <1>1, <3>1
    <3>4. h[m] = g[m]
      BY <3>1
    <3>5. \A j \in 0..(m + 1) : j \in 0..m \/ j = m + 1
      BY <1>0
    <3>6. m + 1 \in A
      BY <3>1, <3>2, <3>3, <3>4, <3>5
    <3> QED
      BY <1>0, <1>5, <3>6
  <2> QED
    BY <2>1
<1>7. \A n \in Engines : h[n] = g[n]
  BY <1>0, <1>6
<1>8. \A n \in Engines : n \in 0..NEngines /\ n # 0
  BY <1>0
<1>9. \A n \in Engines : g[n] = IF n = 1 THEN first ELSE second
  BY <1>8 DEF g
<1> QED
  BY <1>7, <1>9 DEF h

\* Whether the first engine patches an announced change in.
Fast == cache # Absent /\ Head(chan) = cache.seq + 1

\* What HeaderIInv says of the numbers, of NotRead and of an announced change.
LEMMA HeaderFacts ==
  ASSUME HeaderTypeOK
  PROVE  /\ headerSeq \in Nat /\ owed \in 0..headerSeq
         /\ NotRead \in ReadOf(headerSeq) /\ NotRead # Absent
         /\ \A k \in 1..headerSeq : log[k] \in Changes /\ log[k].row \in Rows
         /\ mounted \in Engines /\ 1 \in Engines
         /\ chan # <<>> => Head(chan) \in 1..headerSeq /\ Tail(chan) \in Seq(1..headerSeq)
<1>1. headerSeq \in Nat /\ log \in Seq(Changes) /\ headerSeq = Len(log)
  BY DEF HeaderTypeOK, headerSeq
<1>2. NotRead \in ReadOf(headerSeq)
  BY DEF NotRead, ReadOf
<1>3. NotRead # Absent
  <2>1. Absent \notin ReadOf(headerSeq)
    BY <1>1, NotAbsent
  <2> QED
    BY <1>2, <2>1
<1>4. \A k \in 1..headerSeq : log[k] \in Changes /\ log[k].row \in Rows
  <2>1. \A k \in 1..headerSeq : log[k] \in Changes
    BY <1>1
  <2>2. \A c \in Changes : c.row \in Rows
    BY DEF Changes
  <2> QED
    BY <2>1, <2>2
<1>5. mounted \in Engines /\ 1 \in Engines
  BY HeaderAssumption DEF HeaderTypeOK, Engines
<1>6. chan \in Seq(1..headerSeq)
  BY DEF HeaderTypeOK
<1>7. chan # <<>> => Head(chan) \in 1..headerSeq /\ Tail(chan) \in Seq(1..headerSeq)
  BY <1>6, HeadTail
<1> QED
  BY <1>1, <1>2, <1>3, <1>4, <1>5, <1>7 DEF HeaderTypeOK

\* The snapshot with a change patched in is one.
LEMMA WithChangeType ==
  ASSUME HeaderTypeOK, cache # Absent, NEW k \in 1..headerSeq
  PROVE  WithChange(cache, k) \in FullOf(headerSeq) /\ WithChange(cache, k) # Absent
<1>1. headerSeq \in Nat /\ log[k].row \in Rows
  BY HeaderFacts
<1>2. cache.rows \in [Rows -> RowOf(headerSeq)]
  BY DEF HeaderTypeOK, RowOf
<1>3. patched(cache.rows, k) \in [Rows -> RowOf(headerSeq)]
  BY <1>1, <1>2, PatchedRows
<1>4. WithChange(cache, k) \in FullOf(headerSeq)
  BY <1>1, <1>3 DEF WithChange, FullOf
<1> QED
  BY <1>1, <1>4, NotAbsent

\* An event that is not the next change invalidates; the next one is patched in
\* by the first engine, and then refetched by the second.
LEMMA Handled ==
  ASSUME HeaderTypeOK, Uniform, chan # <<>>
  PROVE  LET k == Head(chan)
             new == WithChange(cache, k)
         IN  handledBy[mounted] =
               IF ~Fast THEN Invalidate(Tab)
               ELSE IF mounted = 1 THEN TabOf(new, FALSE, fetch, At(k), owed, failed)
               ELSE TabOf(new, TRUE, NotRead, At(k), headerSeq, FALSE)
<1> DEFINE k == Head(chan)
           new == WithChange(cache, k)
           ls == At(k)
<1>0. /\ Tab = TabOf(cache, stale, fetch, last, owed, failed)
      /\ 1 \in Engines /\ mounted \in Engines /\ k \in 1..headerSeq /\ headerSeq \in Nat
      /\ NotRead # Absent
  BY HeaderFacts DEF Tab, TabOf
<1>1. CASE ~Fast
  <2> DEFINE first == Invalidate(Tab)
  <2>1. \A e \in Engines : ~(last[e] # Absent /\ k = last[e] + 1)
    BY <1>1 DEF Uniform, Fast
  <2>2. handleUpdate(Tab, 1, k) = first
    <3>1. \A s, x : handleUpdate(TabOf(cache, s, fetch, last, owed, x), 1, k)
                      = Invalidate(TabOf(cache, s, fetch, last, owed, x))
      BY <1>0, <2>1, Skips
    <3> QED
      BY <1>0, <3>1, Zenon
  <2>3. ASSUME NEW e \in Engines PROVE handleUpdate(first, e, k) = first
    <3>1. PICK f, o : \E x : first = TabOf(cache, TRUE, f, last, o, x)
      <4>1. CASE cache = Absent /\ fetch # Absent
        <5>1. \A s, x : Invalidate(TabOf(cache, s, fetch, last, owed, x)) = TabOf(cache, TRUE, fetch, last, owed, x)
          BY <4>1, FetchKept
        <5> QED
          BY <1>0, <5>1, Zenon
      <4>2. CASE ~(cache = Absent /\ fetch # Absent)
        <5>1. \A s, x : Invalidate(TabOf(cache, s, fetch, last, owed, x))
                          = TabOf(cache, TRUE, NotRead, last, headerSeq, FALSE)
          BY <4>2, FetchReplaced
        <5> QED
          BY <1>0, <5>1, Zenon
      <4> QED
        BY <4>1, <4>2
    <3>2. \A s, x : handleUpdate(TabOf(cache, s, f, last, o, x), e, k)
                      = Invalidate(TabOf(cache, s, f, last, o, x))
      BY <2>1, <2>3, Skips
    <3>3. handleUpdate(first, e, k) = Invalidate(first)
      BY <3>1, <3>2, Zenon
    <3>4. Invalidate(first) = first
      <4>1. \A s, x : Invalidate(Invalidate(TabOf(cache, s, fetch, last, owed, x)))
                        = Invalidate(TabOf(cache, s, fetch, last, owed, x))
        BY <1>0, InvalidatedTwice
      <4> QED
        BY <1>0, <4>1, Zenon
    <3> QED
      BY <3>3, <3>4, Zenon
  <2> HIDE DEF first
  <2>4. \A n \in Engines : handledBy[n] = IF n = 1 THEN first ELSE first
    BY <2>2, <2>3, Engine_ByEngine
  <2> QED
    BY <1>0, <1>1, <2>4 DEF first
<1>2. CASE Fast
  <2> DEFINE first == TabOf(new, FALSE, fetch, ls, owed, failed)
             second == TabOf(new, TRUE, NotRead, ls, headerSeq, FALSE)
  <2>1. handleUpdate(Tab, 1, k) = first
    <3>1. Tab.last = last /\ last[1] = cache.seq /\ cache.seq # Absent
      <4>1. cache.seq \in 0..headerSeq
        BY <1>2 DEF Fast, HeaderTypeOK
      <4> QED
        BY <1>0, <1>2, <4>1, NotAbsent DEF Tab, Uniform, Fast
    <3>2. handleUpdate(Tab, 1, k) = FastPath(Tab, 1, k)
      BY <1>2, <3>1 DEF handleUpdate, Fast, FastPath
    <3>3. FastPath(Tab, 1, k) = first
      BY <1>0, <1>2, FastPathTab DEF Fast
    <3> QED
      BY <1>0, <3>2, <3>3, Zenon
  <2>2. new # Absent /\ \A e \in Engines : ~(ls[e] # Absent /\ k = ls[e] + 1)
    <3>1. new # Absent
      BY <1>0, <1>2, WithChangeType DEF Fast
    <3> QED
      BY <1>0, <3>1 DEF At
  <2> HIDE DEF new, ls
  <2>3. \A n \in Engines : handleUpdate(first, n, k) = second
    <3>1. \A n \in Engines : \A s, x : handleUpdate(TabOf(new, s, fetch, ls, owed, x), n, k)
                                = Invalidate(TabOf(new, s, fetch, ls, owed, x))
      BY <2>2, Skips
    <3>2. \A s, x : Invalidate(TabOf(new, s, fetch, ls, owed, x)) = TabOf(new, TRUE, NotRead, ls, headerSeq, FALSE)
      BY <2>2, FetchReplaced
    <3> QED
      BY <3>1, <3>2, Zenon
  <2>4. \A n \in Engines : handleUpdate(second, n, k) = second
    <3>1. \A n \in Engines : \A s, x : handleUpdate(TabOf(new, s, NotRead, ls, headerSeq, x), n, k)
                                = Invalidate(TabOf(new, s, NotRead, ls, headerSeq, x))
      BY <2>2, Skips
    <3>2. \A s, x : Invalidate(TabOf(new, s, NotRead, ls, headerSeq, x)) = TabOf(new, TRUE, NotRead, ls, headerSeq, FALSE)
      BY <2>2, FetchReplaced
    <3> QED
      BY <3>1, <3>2, Zenon
  <2> HIDE DEF first, second
  <2>5. \A n \in Engines : handledBy[n] = IF n = 1 THEN first ELSE second
    BY <2>1, <2>3, <2>4, Engine_ByEngine
  <2>6. handledBy[mounted] = IF mounted = 1 THEN first ELSE second
    BY <1>0, <2>5
  <2> QED
    BY <1>2, <2>6, Zenon DEF first, second, new, ls
<1> QED
  BY <1>1, <1>2
-----------------------------------------------------------------------------
(* What becomes of the tab *)

\* The fields of a tab.
LEMMA TabFields ==
  ASSUME NEW c, NEW f, NEW l, NEW o
  PROVE  \A s, x : Becomes(TabOf(c, s, f, l, o, x)) =>
           cache' = c /\ stale' = s /\ fetch' = f /\ last' = l /\ owed' = o /\ failed' = x
BY DEF Becomes, TabOf

(* The fetch is started again, for all that is committed.                  *)
Restarts ==
  /\ cache' = cache /\ last' = last
  /\ fetch' = NotRead /\ owed' = headerSeq /\ failed' = FALSE

(* The effects of an invalidation.                                         *)
Invalidates ==
  /\ stale' = TRUE
  /\ Restarts \/ (cache = Absent /\ UNCHANGED <<cache, last, fetch, owed, failed>>)

LEMMA InvalidatedTab ==
  ASSUME Becomes(Invalidate(Tab)) PROVE Invalidates
<1>0. Tab = TabOf(cache, stale, fetch, last, owed, failed)
  BY DEF Tab, TabOf
<1>1. CASE cache = Absent /\ fetch # Absent
  <2>1. \A s, x : Invalidate(TabOf(cache, s, fetch, last, owed, x)) = TabOf(cache, TRUE, fetch, last, owed, x)
    BY <1>1, FetchKept
  <2>2. Becomes(TabOf(cache, TRUE, fetch, last, owed, failed))
    BY <1>0, <2>1, Zenon
  <2> QED
    BY <1>1, <2>2, TabFields DEF Invalidates
<1>2. CASE ~(cache = Absent /\ fetch # Absent)
  <2>1. \A s, x : Invalidate(TabOf(cache, s, fetch, last, owed, x))
                    = TabOf(cache, TRUE, NotRead, last, headerSeq, FALSE)
    BY <1>2, FetchReplaced
  <2>2. Becomes(TabOf(cache, TRUE, NotRead, last, headerSeq, FALSE))
    BY <1>0, <2>1, Zenon
  <2> QED
    BY <2>2, TabFields DEF Invalidates, Restarts
<1> QED
  BY <1>1, <1>2

(* The effects of an event that is the next change.                        *)
FastEvent ==
  LET k == Head(chan)
  IN  /\ Fast
      /\ cache' = WithChange(cache, k) /\ last' = At(k)
      /\ IF mounted = 1 THEN stale' = FALSE /\ fetch' = fetch /\ owed' = owed /\ failed' = failed
         ELSE stale' = TRUE /\ fetch' = NotRead /\ owed' = headerSeq /\ failed' = FALSE

LEMMA UpdatedTab ==
  ASSUME HeaderTypeOK, Uniform, Update PROVE (~Fast /\ Invalidates) \/ FastEvent
<1> DEFINE k == Head(chan)
           new == WithChange(cache, k)
           ls == At(k)
<1>0. chan # <<>> /\ Becomes(handledBy[mounted])
  BY DEF Update
<1>1. CASE ~Fast
  <2>1. Becomes(Invalidate(Tab))
    BY <1>0, <1>1, Handled
  <2> QED
    BY <1>1, <2>1, InvalidatedTab
<1>2. CASE Fast /\ mounted = 1
  <2>1. Becomes(TabOf(new, FALSE, fetch, ls, owed, failed))
    BY <1>0, <1>2, Handled
  <2> HIDE DEF new, ls
  <2>2. cache' = new /\ stale' = FALSE /\ fetch' = fetch /\ last' = ls /\ owed' = owed /\ failed' = failed
    BY <2>1, TabFields
  <2> QED
    BY <1>2, <2>2, Zenon DEF FastEvent, new, ls
<1>3. CASE Fast /\ mounted # 1
  <2>1. Becomes(TabOf(new, TRUE, NotRead, ls, headerSeq, FALSE))
    BY <1>0, <1>3, Handled
  <2> HIDE DEF new, ls
  <2>2. cache' = new /\ stale' = TRUE /\ fetch' = NotRead /\ last' = ls /\ owed' = headerSeq /\ failed' = FALSE
    BY <2>1, TabFields
  <2> QED
    BY <1>3, <2>2, Zenon DEF FastEvent, new, ls
<1> QED
  BY <1>1, <1>2, <1>3

\* The answer becomes the snapshot, and every tracker its counter.
LEMMA RespondedTab ==
  ASSUME Respond
  PROVE  /\ cache' = fetch /\ stale' = FALSE /\ fetch' = Absent /\ last' = At(fetch.seq)
         /\ owed' = owed /\ failed' = failed
<1> DEFINE ls == At(fetch.seq)
           u == TabOf(fetch, FALSE, Absent, last, owed, failed)
<1>1. [Tab EXCEPT !.cache = fetch, !.stale = FALSE, !.fetch = Absent] = u
  <2>1. [Tab EXCEPT !.cache = fetch] = TabOf(fetch, stale, fetch, last, owed, failed)
    BY DEF TabOf, Tab
  <2>2. \A g : [TabOf(fetch, stale, fetch, last, owed, failed) EXCEPT !.stale = g]
                 = TabOf(fetch, g, fetch, last, owed, failed)
    BY DEF TabOf
  <2>3. \A g : [TabOf(fetch, g, fetch, last, owed, failed) EXCEPT !.fetch = Absent]
                 = TabOf(fetch, g, Absent, last, owed, failed)
    BY DEF TabOf
  <2>4. [TabOf(fetch, stale, fetch, last, owed, failed) EXCEPT !.stale = FALSE]
          = TabOf(fetch, FALSE, fetch, last, owed, failed)
    BY <2>2, Zenon
  <2>5. [TabOf(fetch, FALSE, fetch, last, owed, failed) EXCEPT !.fetch = Absent] = u
    BY <2>3, Zenon
  <2> HIDE DEF u
  <2> QED
    BY <2>1, <2>4, <2>5
<1>2. cacheSub(u) = TabOf(fetch, FALSE, Absent, ls, owed, failed)
  <2> HIDE DEF ls
  <2>1. \A g : TabOf(fetch, g, Absent, last, owed, failed).cache = fetch
    BY DEF TabOf
  <2>2. \A g : [TabOf(fetch, g, Absent, last, owed, failed) EXCEPT !.last = ls]
                 = TabOf(fetch, g, Absent, ls, owed, failed)
    BY DEF TabOf
  <2>3. u.cache = fetch
    BY <2>1, Zenon
  <2>4. [u EXCEPT !.last = ls] = TabOf(fetch, FALSE, Absent, ls, owed, failed)
    BY <2>2, Zenon
  <2> HIDE DEF u
  <2>5. cacheSub(u) = [u EXCEPT !.last = ls]
    BY <2>3 DEF cacheSub, At, ls
  <2> QED
    BY <2>4, <2>5, Zenon
<1>3. Becomes(TabOf(fetch, FALSE, Absent, ls, owed, failed))
  BY <1>1, <1>2, Zenon DEF Respond
<1> HIDE DEF ls
<1> QED
  BY <1>3, TabFields DEF ls

\* A failed fetch leaves the snapshot as it is.
LEMMA FailedTab ==
  ASSUME RespondFails
  PROVE  /\ UNCHANGED <<cache, last, owed>> /\ fetch' = Absent /\ stale' = TRUE /\ failed' = TRUE
<1>1. [Tab EXCEPT !.fetch = Absent] = TabOf(cache, stale, Absent, last, owed, failed)
  BY DEF Tab, TabOf
<1>2. [TabOf(cache, stale, Absent, last, owed, failed) EXCEPT !.stale = TRUE]
        = TabOf(cache, TRUE, Absent, last, owed, failed)
  <2>1. \A g : [TabOf(cache, stale, Absent, last, owed, failed) EXCEPT !.stale = g]
                 = TabOf(cache, g, Absent, last, owed, failed)
    BY DEF TabOf
  <2> QED
    BY <2>1, Zenon
<1>4. [TabOf(cache, TRUE, Absent, last, owed, failed) EXCEPT !.failed = TRUE]
        = TabOf(cache, TRUE, Absent, last, owed, TRUE)
  <2>1. \A g, x : [TabOf(cache, g, Absent, last, owed, failed) EXCEPT !.failed = x]
                    = TabOf(cache, g, Absent, last, owed, x)
    BY DEF TabOf
  <2> QED
    BY <2>1, Zenon
<1>5. [Tab EXCEPT !.fetch = Absent, !.stale = TRUE, !.failed = TRUE] = TabOf(cache, TRUE, Absent, last, owed, TRUE)
  BY <1>1, <1>2, <1>4
<1>3. Becomes(TabOf(cache, TRUE, Absent, last, owed, TRUE))
  BY <1>5, Zenon DEF RespondFails
<1> QED
  BY <1>3, TabFields

\* An engine that is mounted later finds its baseline where the others' is.
LEMMA MountedTab ==
  ASSUME HeaderTypeOK, Uniform, Mount
  PROVE  stale' = stale /\ (Restarts \/ UNCHANGED <<cache, last, fetch, owed, failed>>)
<1> DEFINE v == IF cache = Absent THEN Absent ELSE cache.seq
           seeded == [Tab EXCEPT !.last[mounted + 1] = v]
<1>1. last \in [Engines -> 0..headerSeq \cup {Absent}] /\ mounted + 1 \in Engines /\ last[mounted + 1] = v
  BY HeaderAssumption DEF HeaderTypeOK, Mount, Engines, Uniform
<1> HIDE DEF v
<1>2. [last EXCEPT ![mounted + 1] = v] = last
  BY <1>1
<1>3. Tab = TabOf(cache, stale, fetch, last, owed, failed)
  BY DEF Tab, TabOf
<1>4. [TabOf(cache, stale, fetch, last, owed, failed) EXCEPT !.last[mounted + 1] = v]
        = TabOf(cache, stale, fetch, [last EXCEPT ![mounted + 1] = v], owed, failed)
  BY DEF TabOf
<1>5. seeded = TabOf(cache, stale, fetch, last, owed, failed)
  BY <1>2, <1>3, <1>4
<1> HIDE DEF seeded
<1>6. Becomes(Refetch(seeded)) \/ Becomes(seeded)
  BY DEF Mount, seeded, v
<1>7. CASE Becomes(seeded)
  <2>1. Becomes(TabOf(cache, stale, fetch, last, owed, failed))
    BY <1>5, <1>7, Zenon
  <2> QED
    BY <2>1, TabFields
<1>8. CASE Becomes(Refetch(seeded))
  <2>1. Refetch(seeded) = TabOf(cache, stale, NotRead, last, headerSeq, FALSE)
    <3>1. \A s, x : Refetch(TabOf(cache, s, fetch, last, owed, x)) = Restarted(cache, s, last)
      BY Refetched
    <3> QED
      BY <1>5, <3>1, Zenon DEF Restarted
  <2>2. Becomes(TabOf(cache, stale, NotRead, last, headerSeq, FALSE))
    BY <1>8, <2>1, Zenon
  <2> QED
    BY <2>2, TabFields DEF Restarts
<1> QED
  BY <1>6, <1>7, <1>8
-----------------------------------------------------------------------------
(* The invariant is inductive *)

(* HeaderTypeOK without its abbreviations.                                 *)
HeaderTypes ==
  /\ log \in Seq(Changes) /\ headerSeq <= MaxSeq
  /\ unsent \subseteq 1..headerSeq
  /\ connected \in BOOLEAN /\ stale \in BOOLEAN /\ failed \in BOOLEAN
  /\ chan \in Seq(1..headerSeq)
  /\ cache \in FullOf(headerSeq) \cup {Absent}
  /\ fetch \in ReadOf(headerSeq) \cup {Absent}
  /\ mounted \in 1..NEngines /\ last \in [Engines -> 0 .. headerSeq \cup {Absent}]
  /\ owed \in 0..headerSeq /\ drops \in 0..MaxDrops

LEMMA HeaderTypeParts == HeaderTypeOK => HeaderTypes
BY DEF HeaderTypeOK, HeaderTypes, FullOf, ReadOf, RowOf

LEMMA HeaderTypeWhole == (HeaderTypes => HeaderTypeOK) /\ (HeaderTypes' => HeaderTypeOK')
BY DEF HeaderTypeOK, HeaderTypes, FullOf, ReadOf, RowOf

\* A larger counter admits all that a smaller one does.
LEMMA TypesGrow ==
  ASSUME NEW m \in Nat, NEW n \in Nat, m <= n
  PROVE  /\ 0 .. m \subseteq 0 .. n /\ 1 .. m \subseteq 1 .. n
         /\ FullOf(m) \subseteq FullOf(n) /\ ReadOf(m) \subseteq ReadOf(n)
         /\ Seq(1 .. m) \subseteq Seq(1 .. n)
         /\ [Engines -> 0 .. m \cup {Absent}] \subseteq [Engines -> 0 .. n \cup {Absent}]
<1>1. 0 .. m \subseteq 0 .. n /\ 1 .. m \subseteq 1 .. n
  OBVIOUS
<1>0. RowOf(m) \subseteq RowOf(n)
  BY DEF RowOf
<1>2. FullOf(m) \subseteq FullOf(n)
  BY <1>0 DEF FullOf
<1>3. ReadOf(m) \subseteq ReadOf(n)
  BY <1>0 DEF ReadOf
<1>4. Seq(1 .. m) \subseteq Seq(1 .. n)
  OBVIOUS
<1>5. [Engines -> 0 .. m \cup {Absent}] \subseteq [Engines -> 0 .. n \cup {Absent}]
  OBVIOUS
<1> QED
  BY <1>1, <1>2, <1>3, <1>4, <1>5

\* Appending to a list.
LEMMA Appended ==
  ASSUME NEW S, NEW q \in Seq(S), NEW x \in S
  PROVE  /\ Append(q, x) \in Seq(S) /\ Len(Append(q, x)) = Len(q) + 1
         /\ \A i \in 1..Len(q) : Append(q, x)[i] = q[i]
OBVIOUS

\* Lists of different length differ.
LEMMA Shorter ==
  ASSUME NEW S, NEW q \in Seq(S), q # <<>>
  PROVE  Len(q) \in Nat /\ Len(Tail(q)) = Len(q) - 1 /\ \A x \in S : Len(Append(q, x)) = Len(q) + 1
OBVIOUS

LEMMA HeaderInitOK == HeaderInit => HeaderIInv
<1> SUFFICES ASSUME HeaderInit PROVE HeaderIInv
  OBVIOUS
<1>1. headerSeq = 0 /\ log \in Seq(Changes) /\ chan \in Seq(1..0)
  BY DEF HeaderInit, headerSeq
<1>2. NotRead \in ReadOf(0)
  BY DEF NotRead, ReadOf
<1>3. HeaderTypeOK
  <2>1. connected \in BOOLEAN /\ stale \in BOOLEAN /\ failed \in BOOLEAN
    BY Zenon DEF HeaderInit
  <2>2. 0 <= MaxSeq /\ 0 \in 0..0 /\ 0 \in 0..MaxDrops /\ 1 \in 1..NEngines
    BY HeaderAssumption
  <2>3. /\ unsent \subseteq 1..headerSeq /\ mounted \in 1..NEngines
        /\ owed \in 0..headerSeq /\ drops \in 0..MaxDrops
    BY <1>1, <2>2 DEF HeaderInit
  <2>4. cache \in FullOf(headerSeq) \cup {Absent} /\ fetch \in ReadOf(headerSeq) \cup {Absent}
    BY <1>1, <1>2 DEF HeaderInit
  <2>5. last \in [Engines -> 0 .. headerSeq \cup {Absent}]
    BY DEF HeaderInit
  <2> QED
    BY <1>1, <2>1, <2>2, <2>3, <2>4, <2>5, HeaderTypeWhole DEF HeaderTypes
<1>4. Uniform /\ ReadInv /\ ShownInv
  BY <1>1 DEF HeaderInit, Uniform, ReadInv, ShownInv, NotRead
<1> QED
  BY <1>3, <1>4 DEF HeaderIInv

\* A change is past everything that is owed.
LEMMA ChangeKeeps ==
  ASSUME HeaderIInv, NEW r \in Rows, Change(r) PROVE HeaderIInv'
<1> USE DEF HeaderIInv
<1>1. /\ log' \in Seq(Changes) /\ headerSeq' = headerSeq + 1 /\ headerSeq' <= MaxSeq
      /\ \A k \in 1..headerSeq : log'[k] = log[k]
  <2>1. PICK c : c.row = r /\ c \in Changes /\ log' = Append(log, c)
    <3>1. PICK part \in Parts(r) : log' = Append(log, [row |-> r, part |-> part])
      BY DEF Change
    <3>2. part \in Fields \cup {"row", "gone"}
      BY DEF Parts
    <3>3. [row |-> r, part |-> part] \in Changes /\ [row |-> r, part |-> part].row = r
      BY <3>2 DEF Changes
    <3> QED
      BY <3>1, <3>3
  <2>2. log \in Seq(Changes) /\ headerSeq \in Nat /\ headerSeq < MaxSeq
    BY HeaderFacts, HeaderTypeParts DEF Change, HeaderTypes
  <2> QED
    BY <2>1, <2>2, Appended, HeaderAssumption DEF headerSeq
<1>2. UNCHANGED <<connected, chan, cache, stale, fetch, last, owed, failed, mounted, drops>>
  BY DEF Change, tab, query
<1>3. HeaderTypeOK'
  <2>1. headerSeq \in Nat /\ headerSeq' \in Nat /\ headerSeq <= headerSeq'
    BY <1>1, HeaderFacts
  <2>2. /\ 0 .. headerSeq \subseteq 0 .. headerSeq' /\ 1 .. headerSeq \subseteq 1 .. headerSeq'
        /\ FullOf(headerSeq) \subseteq FullOf(headerSeq') /\ ReadOf(headerSeq) \subseteq ReadOf(headerSeq')
        /\ Seq(1 .. headerSeq) \subseteq Seq(1 .. headerSeq')
        /\ [Engines -> 0 .. headerSeq \cup {Absent}] \subseteq [Engines -> 0 .. headerSeq' \cup {Absent}]
    BY <2>1, TypesGrow
  <2>3. unsent' \subseteq 1 .. headerSeq'
    BY <1>1, <2>1, <2>2, HeaderTypeParts DEF Change, HeaderTypes
  <2> QED
    BY <1>1, <1>2, <2>2, <2>3, HeaderTypeParts, HeaderTypeWhole DEF HeaderTypes
<1>4. Uniform'
  BY <1>2 DEF Uniform
<1>5. \A k \in 1..owed : k \in 1..headerSeq /\ log'[k] = log[k]
  BY <1>1, HeaderFacts
<1>6. ReadInv'
  BY <1>2, <1>5 DEF ReadInv, Shows, Writes
<1>7. ShownInv'
  BY <1>2, <1>5 DEF ShownInv, Shows, Writes
<1> QED
  BY <1>3, <1>4, <1>6, <1>7

\* A step that touches neither the log nor the tab.
LEMMA TabSame ==
  ASSUME HeaderIInv, UNCHANGED <<log, cache, fetch, last, owed, failed>>
  PROVE  Uniform' /\ ReadInv' /\ ShownInv' /\ headerSeq' = headerSeq
<1>1. headerSeq' = headerSeq
  BY DEF headerSeq
<1>2. Uniform'
  BY DEF HeaderIInv, Uniform
<1>3. ReadInv'
  BY DEF HeaderIInv, ReadInv, Shows, Writes
<1>4. ShownInv'
  BY DEF HeaderIInv, ShownInv, Shows, Writes
<1> QED
  BY <1>1, <1>2, <1>3, <1>4

LEMMA AnnounceKeeps ==
  ASSUME HeaderIInv, NEW k \in unsent, Announce(k) PROVE HeaderIInv'
<1> USE DEF HeaderIInv
<1>1. /\ UNCHANGED <<log, connected, cache, stale, fetch, last, owed, failed, mounted, drops>>
      /\ headerSeq' = headerSeq
  BY DEF Announce, tab, query, headerSeq
<1>2. unsent' \subseteq 1..headerSeq /\ chan' \in Seq(1..headerSeq)
  <2>1. k \in 1..headerSeq /\ chan \in Seq(1..headerSeq) /\ unsent \subseteq 1..headerSeq
    BY HeaderTypeParts DEF HeaderTypes
  <2> QED
    BY <2>1, Appended DEF Announce
<1>3. HeaderTypeOK'
  BY <1>1, <1>2, HeaderTypeParts, HeaderTypeWhole DEF HeaderTypes
<1> QED
  BY <1>1, <1>3, TabSame

\* The counter is read no earlier than the fetch was started.
LEMMA ReadAccountKeeps ==
  ASSUME HeaderIInv, ReadAccount PROVE HeaderIInv'
<1> USE DEF HeaderIInv
<1>1. /\ UNCHANGED <<log, headerSeq, unsent, connected, chan, cache, stale, last, owed, failed, mounted, drops>>
      /\ fetch # Absent /\ fetch' = [fetch EXCEPT !.seq = headerSeq]
  BY DEF ReadAccount, headerSeq
<1>2. headerSeq \in Nat /\ owed \in 0..headerSeq
  BY HeaderFacts
<1>3. /\ fetch \in ReadOf(headerSeq) /\ fetch' \in ReadOf(headerSeq)
      /\ fetch'.seq = headerSeq /\ fetch'.rows = fetch.rows
  <2> DEFINE n == headerSeq
             S == 0 .. n \cup {Absent}
             R == [Rows -> RowOf(n) \cup {Absent}]
  <2>1. fetch \in [seq : S, rows : R]
    BY <1>1, HeaderTypeParts DEF ReadOf, HeaderTypes
  <2>2. n \in S
    BY <1>2
  <2> HIDE DEF n, S, R
  <2>3. [fetch EXCEPT !.seq = n] \in [seq : S, rows : R]
        /\ [fetch EXCEPT !.seq = n].seq = n /\ [fetch EXCEPT !.seq = n].rows = fetch.rows
    BY <2>1, <2>2
  <2> QED
    BY <1>1, <2>1, <2>3 DEF ReadOf, n, S, R
<1>4. fetch' # Absent
  BY <1>2, <1>3, NotAbsent
<1>5. HeaderTypeOK'
  BY <1>1, <1>3, HeaderTypeParts, HeaderTypeWhole DEF HeaderTypes
<1>6. ReadInv'
  <2>1. fetch'.seq >= owed'
    BY <1>1, <1>2, <1>3
  <2>2. ASSUME NEW k \in 1..owed, fetch'.rows[log[k].row] # Absent PROVE Shows(fetch, k)'
    <3>1. Shows(fetch, k)
      BY <1>1, <1>3, <2>2 DEF ReadInv
    <3> QED
      BY <1>1, <1>3, <3>1 DEF Shows, Writes
  <2> QED
    BY <1>1, <2>1, <2>2 DEF ReadInv, Shows, Writes
<1>7. Uniform' /\ ShownInv'
  BY <1>1, <1>4 DEF Uniform, ShownInv
<1> QED
  BY <1>5, <1>6, <1>7

\* A row is read with the newest value of each of its fields.
LEMMA ReadRowsKeeps ==
  ASSUME HeaderIInv, NEW r \in Rows, ReadRows(r) PROVE HeaderIInv'
<1> USE DEF HeaderIInv
<1> DEFINE v == RowAt(r, headerSeq)
<1>1. /\ UNCHANGED <<log, headerSeq, unsent, connected, chan, cache, stale, last, owed, failed, mounted, drops>>
      /\ fetch # Absent /\ fetch' = [fetch EXCEPT !.rows[r] = v]
  BY DEF ReadRows, headerSeq
<1>2. headerSeq \in Nat /\ owed \in 0..headerSeq
  BY HeaderFacts
<1>3. /\ v \in RowOf(headerSeq)
      /\ \A k \in 1..headerSeq, f \in Fields : log[k].row = r /\ Writes(log[k], f) => k <= v[f]
  BY <1>2, RowAtOf
<1> HIDE DEF v
<1>4. /\ fetch \in ReadOf(headerSeq) /\ fetch' \in ReadOf(headerSeq)
      /\ fetch'.seq = fetch.seq /\ fetch'.rows = [fetch.rows EXCEPT ![r] = v]
  <2> DEFINE S == 0 .. headerSeq \cup {Absent}
             A == RowOf(headerSeq) \cup {Absent}
  <2>1. fetch \in [seq : S, rows : [Rows -> A]] /\ v \in A
    BY <1>1, <1>3, HeaderTypeParts DEF ReadOf, HeaderTypes
  <2> HIDE DEF S, A
  <2>2. [fetch EXCEPT !.rows[r] = v] \in [seq : S, rows : [Rows -> A]]
    BY <2>1
  <2>3. [fetch EXCEPT !.rows[r] = v].seq = fetch.seq
        /\ [fetch EXCEPT !.rows[r] = v].rows = [fetch.rows EXCEPT ![r] = v]
    BY <2>1
  <2> QED
    BY <1>1, <2>1, <2>2, <2>3 DEF ReadOf, S, A
<1>5. fetch' # Absent
  BY <1>2, <1>4, NotAbsent
<1>6. HeaderTypeOK'
  BY <1>1, <1>4, HeaderTypeParts, HeaderTypeWhole DEF HeaderTypes
<1>7. ReadInv'
  <2>1. DOMAIN fetch.rows = Rows
    BY <1>4 DEF ReadOf
  <2>2. ASSUME NEW k \in 1..owed, fetch'.rows[log[k].row] # Absent PROVE Shows(fetch, k)'
    <3>1. k \in 1..headerSeq /\ log[k].row \in Rows
      BY <1>2, HeaderFacts
    <3>2. CASE log[k].row = r
      <4>1. fetch'.rows[log[k].row] = v
        BY <1>4, <2>1, <3>2
      <4>2. \A f \in Fields : Writes(log[k], f) => v[f] >= k
        <5>1. \A f \in Fields : v[f] \in Nat
          BY <1>2, <1>3 DEF RowOf
        <5> QED
          BY <1>3, <3>1, <3>2, <5>1
      <4> QED
        BY <1>1, <4>1, <4>2 DEF Shows, Writes
    <3>3. CASE log[k].row # r
      <4>1. fetch'.rows[log[k].row] = fetch.rows[log[k].row]
        BY <1>4, <2>1, <3>1, <3>3
      <4>2. Shows(fetch, k)
        BY <1>1, <2>2, <4>1 DEF ReadInv
      <4> QED
        BY <1>1, <4>1, <4>2 DEF Shows, Writes
    <3> QED
      BY <3>2, <3>3
  <2> QED
    BY <1>1, <1>4, <2>2 DEF ReadInv, Shows, Writes
<1>8. Uniform' /\ ShownInv'
  BY <1>1, <1>5 DEF Uniform, ShownInv
<1> QED
  BY <1>6, <1>7, <1>8

\* A complete answer shows what was owed.
LEMMA RespondKeeps ==
  ASSUME HeaderIInv, Respond PROVE HeaderIInv'
<1> USE DEF HeaderIInv
<1>1. /\ UNCHANGED <<log, headerSeq, unsent, connected, chan, mounted, drops>>
      /\ fetch # Absent /\ fetch.seq # Absent /\ \A r \in Rows : fetch.rows[r] # Absent
  BY DEF Respond, headerSeq
<1>2. /\ cache' = fetch /\ stale' = FALSE /\ fetch' = Absent /\ last' = At(fetch.seq)
      /\ owed' = owed /\ failed' = failed
  BY RespondedTab
<1>3. fetch \in FullOf(headerSeq) /\ fetch.seq \in 0..headerSeq
  <2>1. headerSeq \in Nat /\ fetch \in ReadOf(headerSeq)
    BY <1>1, HeaderFacts, HeaderTypeParts DEF HeaderTypes
  <2>2. fetch \in FullOf(headerSeq)
    BY <1>1, <2>1, NotAbsent
  <2> QED
    BY <2>2 DEF FullOf
<1>4. HeaderTypeOK'
  <2>1. last' \in [Engines -> 0 .. headerSeq \cup {Absent}]
    BY <1>2, <1>3 DEF At
  <2>2. stale' \in BOOLEAN
    BY <1>2, Zenon
  <2> QED
    BY <1>1, <1>2, <1>3, <2>1, <2>2, HeaderTypeParts, HeaderTypeWhole DEF HeaderTypes
<1>5. Uniform' /\ ReadInv'
  BY <1>1, <1>2 DEF Uniform, At, ReadInv
<1>6. ShownInv'
  <2>1. \A k \in 1..owed : Shows(fetch, k) /\ fetch.seq >= owed
    BY <1>1, HeaderFacts DEF ReadInv
  <2>2. fetch.seq >= owed
    BY <1>1 DEF ReadInv
  <2> QED
    BY <1>1, <1>2, <2>1, <2>2 DEF ShownInv, Shows, Writes
<1> QED
  BY <1>4, <1>5, <1>6

\* A failed fetch has delivered nothing, and is remembered to have failed.
LEMMA RespondFailsKeeps ==
  ASSUME HeaderIInv, RespondFails PROVE HeaderIInv'
<1> USE DEF HeaderIInv
<1>1. UNCHANGED <<log, headerSeq, unsent, connected, chan, mounted, drops>>
  BY DEF RespondFails, headerSeq
<1>2. /\ UNCHANGED <<cache, last, owed>> /\ fetch' = Absent /\ stale' = TRUE /\ failed' = TRUE
  BY FailedTab
<1>3. stale' \in BOOLEAN /\ failed' \in BOOLEAN
  BY <1>2, Zenon
<1>4. HeaderTypeOK'
  BY <1>1, <1>2, <1>3, HeaderTypeParts, HeaderTypeWhole DEF HeaderTypes
<1>5. Uniform' /\ ReadInv' /\ ShownInv'
  BY <1>1, <1>2 DEF Uniform, ReadInv, ShownInv
<1> QED
  BY <1>4, <1>5

\* A fetch started now has read nothing yet.
LEMMA RestartsKeeps ==
  ASSUME HeaderIInv, Restarts, UNCHANGED log
  PROVE  /\ Uniform' /\ ReadInv' /\ ShownInv'
         /\ UNCHANGED <<cache, last>> /\ fetch' \in ReadOf(headerSeq) \cup {Absent}
         /\ owed' \in 0..headerSeq /\ failed' \in BOOLEAN
<1>1. /\ fetch' = NotRead /\ fetch' # Absent /\ fetch' \in ReadOf(headerSeq)
      /\ owed' \in 0..headerSeq /\ UNCHANGED <<cache, last>>
      /\ headerSeq \in Nat /\ \A k \in 1..headerSeq : log[k].row \in Rows
  BY HeaderFacts DEF Restarts, HeaderIInv
<1>2. failed' \in BOOLEAN
  BY Zenon DEF Restarts
<1>3. ReadInv'
  <2>1. fetch'.seq = Absent /\ \A k \in 1..headerSeq : fetch'.rows[log[k].row] = Absent
    BY <1>1 DEF NotRead
  <2> QED
    BY <1>1, <2>1 DEF ReadInv
<1>4. Uniform' /\ ShownInv'
  BY <1>1 DEF HeaderIInv, Uniform, ShownInv
<1> QED
  BY <1>1, <1>2, <1>3, <1>4

\* An invalidation starts the reads again, or leaves the first fetch to it.
LEMMA InvalidatesKeeps ==
  ASSUME HeaderIInv, Invalidates, UNCHANGED log
  PROVE  /\ Uniform' /\ ReadInv' /\ ShownInv' /\ stale' \in BOOLEAN
         /\ UNCHANGED <<cache, last>> /\ fetch' \in ReadOf(headerSeq) \cup {Absent}
         /\ owed' \in 0..headerSeq /\ failed' \in BOOLEAN
<1>1. stale' \in BOOLEAN
  BY Zenon DEF Invalidates
<1>2. CASE Restarts
  BY <1>1, <1>2, RestartsKeeps
<1>3. CASE UNCHANGED <<cache, last, fetch, owed, failed>>
  <2>1. Uniform' /\ ReadInv' /\ ShownInv'
    BY <1>3, TabSame
  <2>2. HeaderTypes
    BY HeaderTypeParts DEF HeaderIInv
  <2> QED
    BY <1>1, <1>3, <2>1, <2>2 DEF HeaderTypes
<1> QED
  BY <1>2, <1>3 DEF Invalidates

LEMMA MountKeeps ==
  ASSUME HeaderIInv, Mount PROVE HeaderIInv'
<1> USE DEF HeaderIInv
<1>1. UNCHANGED <<log, headerSeq, unsent, connected, chan, drops>>
  BY DEF Mount, headerSeq
<1>2. mounted' \in 1..NEngines
  BY HeaderAssumption, HeaderTypeParts DEF Mount, HeaderTypes
<1>3. stale' = stale /\ (Restarts \/ UNCHANGED <<cache, last, fetch, owed, failed>>)
  BY MountedTab
<1>4. CASE Restarts
  <2>1. /\ Uniform' /\ ReadInv' /\ ShownInv'
        /\ UNCHANGED <<cache, last>> /\ fetch' \in ReadOf(headerSeq) \cup {Absent}
        /\ owed' \in 0..headerSeq /\ failed' \in BOOLEAN
    BY <1>1, <1>4, RestartsKeeps
  <2>2. HeaderTypeOK'
    BY <1>1, <1>2, <1>3, <2>1, HeaderTypeParts, HeaderTypeWhole DEF HeaderTypes
  <2> QED
    BY <2>1, <2>2
<1>5. CASE UNCHANGED <<cache, last, fetch, owed, failed>>
  <2>1. Uniform' /\ ReadInv' /\ ShownInv'
    BY <1>1, <1>5, TabSame
  <2>2. HeaderTypeOK'
    BY <1>1, <1>2, <1>3, <1>5, HeaderTypeParts, HeaderTypeWhole DEF HeaderTypes
  <2> QED
    BY <2>1, <2>2
<1> QED
  BY <1>3, <1>4, <1>5

LEMMA UnmountKeeps ==
  ASSUME HeaderIInv, Unmount PROVE HeaderIInv'
<1> USE DEF HeaderIInv
<1>1. /\ UNCHANGED <<log, unsent, connected, chan, cache, stale, fetch, last, owed, failed, drops>>
      /\ headerSeq' = headerSeq
  BY DEF Unmount, tab, query, headerSeq
<1>2. mounted' \in 1..NEngines
  BY HeaderAssumption, HeaderTypeParts DEF Unmount, HeaderTypes
<1>3. HeaderTypeOK'
  BY <1>1, <1>2, HeaderTypeParts, HeaderTypeWhole DEF HeaderTypes
<1> QED
  BY <1>1, <1>3, TabSame

\* What a patch shows afterwards: a change at or below its own, as before; and its
\* own, unless it is of a row that the snapshot lacks.
LEMMA FastEventShows ==
  ASSUME HeaderIInv, FastEvent, chan # <<>>, UNCHANGED log
  PROVE  LET k == Head(chan) IN
           /\ k \in 1..headerSeq /\ k = cache.seq + 1 /\ cache.seq \in Nat
           /\ cache' \in FullOf(headerSeq) /\ cache' # Absent /\ cache'.seq = k
           /\ \A j \in 1..cache.seq : Shows(cache, j) => Shows(cache', j)
           /\ ~(log[k].part \in Fields /\ ~Has(cache.rows, log[k].row)) => Shows(cache', k)
<1> USE DEF HeaderIInv
<1> DEFINE k == Head(chan)
           n == headerSeq
           new == WithChange(cache, k)
<1>1. n \in Nat /\ k \in 1..n /\ (\A j \in 1..n : log[j].row \in Rows)
  BY HeaderFacts
<1>2. cache # Absent /\ k = cache.seq + 1 /\ cache' = new
  BY DEF FastEvent, Fast
<1>3. cache \in FullOf(n) /\ cache.seq \in 0..n /\ cache.rows \in [Rows -> RowOf(n)]
  BY <1>2, HeaderTypeParts DEF HeaderTypes, FullOf
<1>4. new \in FullOf(n) /\ new # Absent
  BY <1>1, <1>2, WithChangeType
<1>5. new.seq = k /\ new.rows = patched(cache.rows, k)
  BY DEF WithChange
<1>6. /\ \A r \in Rows, f \in Fields : new.rows[r][f] = cache.rows[r][f] \/ new.rows[r][f] = k
      /\ ~(log[k].part \in Fields /\ ~Has(cache.rows, log[k].row)) =>
           \A f \in Fields : Writes(log[k], f) => new.rows[log[k].row][f] = k
  BY <1>1, <1>3, <1>5, PatchedRows
<1> HIDE DEF k, n, new
<1>7. ASSUME NEW j \in 1..cache.seq, Shows(cache, j) PROVE Shows(new, j)
  <2>1. j \in 1..n /\ k >= j /\ log[j].row \in Rows
    BY <1>1, <1>2, <1>3
  <2>2. SUFFICES ASSUME NEW f \in Fields, Writes(log[j], f) PROVE new.rows[log[j].row][f] >= j
    BY DEF Shows
  <2>3. cache.rows[log[j].row][f] >= j
    BY <1>7, <2>2 DEF Shows
  <2>4. new.rows[log[j].row][f] = cache.rows[log[j].row][f] \/ new.rows[log[j].row][f] = k
    BY <1>6, <2>1
  <2> QED
    BY <2>1, <2>3, <2>4
<1>8. ASSUME ~(log[k].part \in Fields /\ ~Has(cache.rows, log[k].row)) PROVE Shows(new, k)
  BY <1>1, <1>6, <1>8 DEF Shows
<1> QED
  BY <1>1, <1>2, <1>3, <1>4, <1>5, <1>7, <1>8 DEF k, n

\* A patch moves the snapshot by one: what was owed is still shown or being read,
\* and with a second engine all of it is read again.
LEMMA FastEventKeeps ==
  ASSUME HeaderIInv, FastEvent, chan # <<>>, UNCHANGED log
  PROVE  /\ Uniform' /\ ReadInv' /\ ShownInv' /\ stale' \in BOOLEAN /\ failed' \in BOOLEAN
         /\ cache' \in FullOf(headerSeq) /\ fetch' \in ReadOf(headerSeq) \cup {Absent}
         /\ last' \in [Engines -> 0 .. headerSeq \cup {Absent}] /\ owed' \in 0..headerSeq
<1> USE DEF HeaderIInv
<1> DEFINE k == Head(chan)
<1>0. headerSeq' = headerSeq /\ headerSeq \in Nat /\ owed \in 0..headerSeq
  BY HeaderFacts DEF headerSeq
<1>1. /\ k \in 1..headerSeq /\ k = cache.seq + 1 /\ cache.seq \in Nat
      /\ cache' \in FullOf(headerSeq) /\ cache' # Absent /\ cache'.seq = k
      /\ \A j \in 1..cache.seq : Shows(cache, j) => Shows(cache', j)
  BY FastEventShows
<1>2. /\ cache # Absent /\ last' = At(k)
      /\ mounted = 1 => fetch' = fetch /\ owed' = owed /\ failed' = failed
      /\ mounted # 1 => fetch' = NotRead /\ owed' = headerSeq
  BY DEF FastEvent, Fast
<1>3. stale' \in BOOLEAN /\ failed' \in BOOLEAN
  <2>1. stale \in BOOLEAN /\ failed \in BOOLEAN
    BY HeaderTypeParts DEF HeaderTypes
  <2>2. (stale' = TRUE \/ stale' = FALSE) /\ (failed' = FALSE \/ failed' = failed)
    BY Zenon DEF FastEvent
  <2> QED
    BY <2>1, <2>2, Zenon
<1> HIDE DEF k
<1>4. last' \in [Engines -> 0 .. headerSeq \cup {Absent}]
  BY <1>0, <1>1, <1>2 DEF At
<1>5. fetch' \in ReadOf(headerSeq) \cup {Absent} /\ owed' \in 0..headerSeq
  BY <1>0, <1>2, HeaderFacts, HeaderTypeParts DEF HeaderTypes
<1>6. Uniform'
  BY <1>1, <1>2 DEF Uniform, At
<1>7. ReadInv'
  <2>1. CASE mounted = 1
    BY <1>2, <2>1 DEF ReadInv, Shows, Writes
  <2>2. CASE mounted # 1
    <3>1. \A j \in 1..headerSeq : log[j].row \in Rows
      BY HeaderFacts
    <3>2. fetch'.seq = Absent /\ \A j \in 1..headerSeq : fetch'.rows[log[j].row] = Absent
      BY <1>2, <2>2, <3>1 DEF NotRead
    <3> QED
      BY <1>0, <1>2, <2>2, <3>2 DEF ReadInv
  <2> QED
    BY <2>1, <2>2
<1>8. ShownInv'
  <2>1. CASE mounted = 1 /\ fetch = Absent /\ ~failed
    <3>1. cache.seq >= owed /\ \A j \in 1..owed : Shows(cache, j)
      BY <1>2, <2>1 DEF ShownInv
    <3>2. k >= owed /\ \A j \in 1..owed : Shows(cache', j)
      BY <1>0, <1>1, <3>1
    <3> QED
      BY <1>1, <1>2, <2>1, <3>2 DEF ShownInv, Shows, Writes
  <2>2. CASE mounted = 1 /\ ~(fetch = Absent /\ ~failed)
    BY <1>2, <2>2 DEF ShownInv
  <2>3. CASE mounted # 1
    BY <1>2, <2>3, HeaderFacts DEF ShownInv
  <2> QED
    BY <2>1, <2>2, <2>3
<1> QED
  BY <1>1, <1>3, <1>4, <1>5, <1>6, <1>7, <1>8

LEMMA UpdateKeeps ==
  ASSUME HeaderIInv, Update PROVE HeaderIInv'
<1> USE DEF HeaderIInv
<1>1. /\ UNCHANGED <<log, headerSeq, unsent, connected, mounted, drops>>
      /\ chan # <<>> /\ chan' = Tail(chan)
  BY DEF Update, headerSeq
<1>2. chan' \in Seq(1..headerSeq)
  BY <1>1, HeaderFacts
<1>3. CASE ~Fast /\ Invalidates
  <2>1. /\ Uniform' /\ ReadInv' /\ ShownInv' /\ stale' \in BOOLEAN
        /\ UNCHANGED <<cache, last>> /\ fetch' \in ReadOf(headerSeq) \cup {Absent}
        /\ owed' \in 0..headerSeq /\ failed' \in BOOLEAN
    BY <1>1, <1>3, InvalidatesKeeps
  <2>2. HeaderTypeOK'
    BY <1>1, <1>2, <2>1, HeaderTypeParts, HeaderTypeWhole DEF HeaderTypes
  <2> QED
    BY <2>1, <2>2
<1>4. CASE FastEvent
  <2>1. /\ Uniform' /\ ReadInv' /\ ShownInv' /\ stale' \in BOOLEAN /\ failed' \in BOOLEAN
        /\ cache' \in FullOf(headerSeq) /\ fetch' \in ReadOf(headerSeq) \cup {Absent}
        /\ last' \in [Engines -> 0 .. headerSeq \cup {Absent}] /\ owed' \in 0..headerSeq
    BY <1>1, <1>4, FastEventKeeps
  <2>2. HeaderTypeOK'
    BY <1>1, <1>2, <2>1, HeaderTypeParts, HeaderTypeWhole DEF HeaderTypes
  <2> QED
    BY <2>1, <2>2
<1> QED
  BY <1>3, <1>4, UpdatedTab

LEMMA DisconnectKeeps ==
  ASSUME HeaderIInv, Disconnect PROVE HeaderIInv'
<1> USE DEF HeaderIInv
<1>1. /\ UNCHANGED <<log, unsent, cache, stale, fetch, last, owed, failed, mounted>> /\ headerSeq' = headerSeq
      /\ connected' = FALSE /\ chan' = <<>> /\ drops' = drops + 1 /\ drops < MaxDrops
  BY DEF Disconnect, tab, query, headerSeq
<1>2. connected' \in BOOLEAN
  BY <1>1, Zenon
<1>3. drops' \in 0..MaxDrops /\ chan' \in Seq(1..headerSeq)
  BY <1>1, HeaderAssumption, HeaderTypeParts DEF HeaderTypes
<1>4. HeaderTypeOK'
  BY <1>1, <1>2, <1>3, HeaderTypeParts, HeaderTypeWhole DEF HeaderTypes
<1> QED
  BY <1>1, <1>4, TabSame

LEMMA ReconnectKeeps ==
  ASSUME HeaderIInv, Reconnect PROVE HeaderIInv'
<1> USE DEF HeaderIInv
<1>1. UNCHANGED <<log, headerSeq, unsent, chan, mounted, drops>>
  BY DEF Reconnect, headerSeq
<1>2. connected' \in BOOLEAN
  BY Zenon DEF Reconnect
<1>3. Invalidates
  BY InvalidatedTab DEF Reconnect
<1>4. /\ Uniform' /\ ReadInv' /\ ShownInv' /\ stale' \in BOOLEAN
      /\ UNCHANGED <<cache, last>> /\ fetch' \in ReadOf(headerSeq) \cup {Absent}
      /\ owed' \in 0..headerSeq /\ failed' \in BOOLEAN
  BY <1>1, <1>3, InvalidatesKeeps
<1>5. HeaderTypeOK'
  BY <1>1, <1>2, <1>4, HeaderTypeParts, HeaderTypeWhole DEF HeaderTypes
<1> QED
  BY <1>4, <1>5

LEMMA HeaderStutterKeeps ==
  ASSUME HeaderIInv, UNCHANGED headerVars PROVE HeaderIInv'
<1> USE DEF HeaderIInv
<1>1. /\ UNCHANGED <<log, unsent, connected, chan, mounted, drops>> /\ headerSeq' = headerSeq
      /\ UNCHANGED <<cache, stale, fetch, last, owed, failed>>
  BY DEF headerVars, tab, query, headerSeq
<1>2. HeaderTypeOK'
  BY <1>1, HeaderTypeParts, HeaderTypeWhole DEF HeaderTypes
<1> QED
  BY <1>1, <1>2, TabSame

LEMMA HeaderStepKeeps ==
  ASSUME HeaderIInv, [HeaderNext]_headerVars PROVE HeaderIInv'
<1>1. ASSUME NEW r \in Rows, Change(r) PROVE HeaderIInv'
  BY <1>1, ChangeKeeps
<1>2. ASSUME NEW r \in Rows, ReadRows(r) PROVE HeaderIInv'
  BY <1>2, ReadRowsKeeps
<1>3. ASSUME NEW k \in unsent, Announce(k) PROVE HeaderIInv'
  BY <1>3, AnnounceKeeps
<1>4. CASE ReadAccount
  BY <1>4, ReadAccountKeeps
<1>5. CASE Respond
  BY <1>5, RespondKeeps
<1>6. CASE Update
  BY <1>6, UpdateKeeps
<1>7. CASE Disconnect
  BY <1>7, DisconnectKeeps
<1>8. CASE Reconnect
  BY <1>8, ReconnectKeeps
<1>9. CASE UNCHANGED headerVars
  BY <1>9, HeaderStutterKeeps
<1>10. CASE RespondFails
  BY <1>10, RespondFailsKeeps
<1>11. CASE Mount
  BY <1>11, MountKeeps
<1>12. CASE Unmount
  BY <1>12, UnmountKeeps
<1> QED
  BY <1>1, <1>2, <1>3, <1>4, <1>5, <1>6, <1>7, <1>8, <1>9, <1>10, <1>11, <1>12 DEF HeaderNext

LEMMA HeaderInductive == HeaderSpec => []HeaderIInv
BY HeaderInitOK, HeaderStepKeeps, PTL DEF HeaderSpec

-----------------------------------------------------------------------------
(* What the header stream guarantees *)

\* The counters, the announcements and the snapshot stay within the log of the
\* account's changes (routes/sync.ts, sync/engine.ts).
THEOREM HeaderTypeCorrect == HeaderSpec => []HeaderTypeOK
<1>1. HeaderIInv => HeaderTypeOK
  BY DEF HeaderIInv
<1> QED
  BY <1>1, HeaderInductive, PTL

\* What a refetch was started for it delivers, unless it fails, however the
\* statements of GET /v1/sync (routes/sync.ts) interleave with commits and
\* announcements, and what applyStructural (sync/engine.ts) patched in meanwhile
\* is still shown when a second engine refetches after it.
THEOREM RefetchDeliversCorrect == HeaderSpec => []RefetchDelivers
<1>1. ASSUME HeaderIInv PROVE RefetchDelivers
  BY <1>1 DEF HeaderIInv, ShownInv, Settled, RefetchDelivers
<1> QED
  BY <1>1, HeaderInductive, PTL

\* handleUpdate (sync/engine.ts) drops an announced change only where a lone
\* engine's patchSession finds no row to merge the fields of a session into:
\* after every other event the change is on screen, or a refetch is marked.
THEOREM NoSilentDropCorrect == HeaderSpec => NoSilentDrop
<1> DEFINE Outcome == \/ stale'
                      \/ cache' # Absent /\ Shows(cache', Head(chan))
                      \/ /\ mounted = 1 /\ cache # Absent
                         /\ log[Head(chan)].part \in Fields /\ ~Has(cache.rows, log[Head(chan)].row)
           Noticed == chan # <<>> /\ connected' /\ chan' = Tail(chan) => Outcome
<1>1. ASSUME HeaderIInv, [HeaderNext]_headerVars, chan # <<>>, connected', chan' = Tail(chan),
             chan' # chan, ~Update
      PROVE  FALSE
  <2>1. CASE \E k \in unsent : Announce(k)
    <3>1. PICK k \in unsent : Announce(k)
      BY <2>1
    <3>2. chan \in Seq(1..headerSeq) /\ k \in 1..headerSeq
      BY <1>1, HeaderTypeParts DEF HeaderIInv, HeaderTypes
    <3>3. Len(Tail(chan)) = Len(chan) - 1 /\ Len(Append(chan, k)) = Len(chan) + 1 /\ Len(chan) \in Nat
      BY <1>1, <3>2, Shorter
    <3>4. chan' = Append(chan, k) \/ chan' = chan
      BY <3>1 DEF Announce
    <3>5. CASE chan' = Append(chan, k)
      <4>1. Len(Tail(chan)) = Len(Append(chan, k))
        BY <1>1, <3>5
      <4> QED
        BY <3>3, <4>1
    <3> QED
      BY <1>1, <3>4, <3>5
  <2>2. CASE Disconnect
    BY <1>1, <2>2 DEF Disconnect
  <2>3. CASE ~(\E k \in unsent : Announce(k)) /\ ~Disconnect
    BY <1>1, <2>3 DEF HeaderNext, Change, ReadRows, ReadAccount, Respond, RespondFails, Mount, Unmount, Reconnect, headerVars
  <2> QED
    BY <2>1, <2>2, <2>3
<1>2. ASSUME HeaderIInv, chan # <<>>, chan' = Tail(chan) PROVE chan' # chan
  <2>1. chan \in Seq(1..headerSeq)
    BY <1>2, HeaderTypeParts DEF HeaderIInv, HeaderTypes
  <2>2. Len(Tail(chan)) = Len(chan) - 1 /\ Len(chan) \in Nat
    BY <1>2, <2>1, Shorter
  <2>3. Tail(chan) # chan
    <3>1. ASSUME Tail(chan) = chan PROVE FALSE
      <4>1. Len(Tail(chan)) = Len(chan)
        BY <3>1, Zenon
      <4> QED
        BY <2>2, <4>1
    <3> QED
      BY <3>1
  <2> QED
    BY <1>2, <2>3
<1>3. ASSUME HeaderIInv, Update PROVE Outcome
  <2>1. CASE Invalidates
    BY <2>1, Zenon DEF Invalidates
  <2>2. CASE FastEvent /\ mounted # 1
    BY <2>2, Zenon DEF FastEvent
  <2>3. CASE FastEvent /\ mounted = 1
    <3>1. chan # <<>> /\ UNCHANGED log
      BY <1>3 DEF Update
    <3>2. /\ cache' # Absent
          /\ ~(log[Head(chan)].part \in Fields /\ ~Has(cache.rows, log[Head(chan)].row)) => Shows(cache', Head(chan))
      BY <1>3, <2>3, <3>1, FastEventShows
    <3>3. cache # Absent
      BY <2>3 DEF FastEvent, Fast
    <3> QED
      BY <2>3, <3>2, <3>3
  <2> QED
    BY <1>3, <2>1, <2>2, <2>3, UpdatedTab DEF HeaderIInv
<1>4. ASSUME HeaderIInv, [HeaderNext]_headerVars PROVE Noticed
  BY <1>1, <1>2, <1>3, <1>4
<1>5. ASSUME HeaderIInv, [HeaderNext]_headerVars PROVE [Noticed]_headerVars
  BY <1>4, <1>5
<1> QED
  BY <1>5, HeaderInductive, PTL DEF HeaderSpec, NoSilentDrop

=============================================================================
