------------------------ MODULE PermissionBridgeProofs ------------------------
(***************************************************************************)
(* Proofs about the permission bridge, for any number of tool calls.       *)
(***************************************************************************)
EXTENDS PermissionBridge, SequenceTheorems, TLAPS

------------------------------------------------------------------------------
(* Sequences                                                               *)

\* An element is removed, the others keep their order.
LEMMA RemoveAtType ==
  ASSUME NEW S, NEW s \in Seq(S), NEW i \in 1 .. Len(s)
  PROVE  /\ RemoveAt(s, i) \in Seq(S)
         /\ Len(RemoveAt(s, i)) = Len(s) - 1
         /\ \A j \in 1 .. Len(s) - 1 : RemoveAt(s, i)[j] = IF j < i THEN s[j] ELSE s[j + 1]
<1> DEFINE a == SubSeq(s, 1, i - 1)
           b == SubSeq(s, i + 1, Len(s))
<1>1. a \in Seq(S) /\ Len(a) = i - 1 /\ \A j \in 1 .. i - 1 : a[j] = s[j]
  BY SubSeqProperties
<1>2. b \in Seq(S) /\ Len(b) = Len(s) - i /\ \A j \in 1 .. Len(s) - i : b[j] = s[i + j]
  BY SubSeqProperties
<1> HIDE DEF a, b
<1>3. /\ a \o b \in Seq(S) /\ Len(a \o b) = Len(a) + Len(b)
      /\ \A j \in 1 .. Len(a) + Len(b) :
           (a \o b)[j] = IF j <= Len(a) THEN a[j] ELSE b[j - Len(a)]
  BY <1>1, <1>2, ConcatProperties
<1>4. Len(a) + Len(b) = Len(s) - 1
  BY <1>1, <1>2
<1>5. ASSUME NEW j \in 1 .. Len(s) - 1
      PROVE  (a \o b)[j] = IF j < i THEN s[j] ELSE s[j + 1]
  <2>1. j \in 1 .. Len(a) + Len(b)
    BY <1>4
  <2>2. CASE j < i
    BY <1>1, <1>3, <2>1, <2>2
  <2>3. CASE ~(j < i)
    <3>1. j - Len(a) \in 1 .. Len(s) - i /\ ~(j <= Len(a)) /\ i + (j - Len(a)) = j + 1
      BY <1>1, <2>3
    <3> QED
      BY <1>2, <1>3, <2>1, <2>3, <3>1
  <2> QED
    BY <2>2, <2>3
<1>6. RemoveAt(s, i) = a \o b
  BY DEF RemoveAt, a, b
<1> QED
  BY <1>3, <1>4, <1>5, <1>6

\* No element twice.
Distinct(s) == \A i, j \in 1 .. Len(s) : s[i] = s[j] => i = j

\* A sequence without repetition loses the removed element and no other.
LEMMA RemoveAtRange ==
  ASSUME NEW S, NEW s \in Seq(S), NEW i \in 1 .. Len(s), Distinct(s)
  PROVE  /\ Range(RemoveAt(s, i)) = Range(s) \ {s[i]}
         /\ Distinct(RemoveAt(s, i))
<1> DEFINE r == RemoveAt(s, i)
<1>1. /\ r \in Seq(S) /\ Len(r) = Len(s) - 1
      /\ \A j \in 1 .. Len(s) - 1 : r[j] = IF j < i THEN s[j] ELSE s[j + 1]
  BY RemoveAtType
<1> HIDE DEF r
<1>2. Distinct(r)
  BY <1>1 DEF Distinct
<1>3. ASSUME NEW x \in Range(r) PROVE x \in Range(s) \ {s[i]}
  <2>1. PICK j \in 1 .. Len(s) - 1 : x = r[j]
    BY <1>1 DEF Range
  <2>2. \E k \in 1 .. Len(s) : x = s[k] /\ k # i
    <3>1. CASE j < i
      BY <1>1, <2>1, <3>1
    <3>2. CASE ~(j < i)
      <4>1. j + 1 \in 1 .. Len(s) /\ j + 1 # i
        BY <3>2
      <4> QED
        BY <1>1, <2>1, <3>2, <4>1
    <3> QED
      BY <3>1, <3>2
  <2> QED
    BY <2>2 DEF Distinct, Range
<1>4. ASSUME NEW x \in Range(s) \ {s[i]} PROVE x \in Range(r)
  <2>1. PICK j \in 1 .. Len(s) : x = s[j] /\ j # i
    BY DEF Range
  <2>2. CASE j < i
    BY <1>1, <2>1, <2>2 DEF Range
  <2>3. CASE j > i
    <3>1. j - 1 \in 1 .. Len(s) - 1 /\ ~(j - 1 < i) /\ (j - 1) + 1 = j
      BY <2>1, <2>3
    <3>2. r[j - 1] = x
      BY <1>1, <2>1, <3>1
    <3>3. DOMAIN r = 1 .. Len(s) - 1
      BY <1>1
    <3> QED
      BY <3>1, <3>2, <3>3 DEF Range
  <2> QED
    BY <2>1, <2>2, <2>3
<1> QED
  BY <1>2, <1>3, <1>4 DEF r

\* A new element at the end.
LEMMA AppendRange ==
  ASSUME NEW S, NEW s \in Seq(S), NEW x \in S
  PROVE  /\ Append(s, x) \in Seq(S)
         /\ Range(Append(s, x)) = Range(s) \cup {x}
         /\ Distinct(s) /\ x \notin Range(s) => Distinct(Append(s, x))
<1>1. /\ Append(s, x) \in Seq(S) /\ Len(Append(s, x)) = Len(s) + 1
      /\ \A i \in 1 .. Len(s) : Append(s, x)[i] = s[i]
      /\ Append(s, x)[Len(s) + 1] = x
  BY AppendProperties
<1>2. Range(Append(s, x)) = Range(s) \cup {x}
  BY <1>1 DEF Range
<1>3. Distinct(s) /\ x \notin Range(s) => Distinct(Append(s, x))
  BY <1>1 DEF Distinct, Range
<1> QED
  BY <1>1, <1>2, <1>3

------------------------------------------------------------------------------
(* Types                                                                   *)

Statuses == {"none", "pending", "approved", "denied", "canceled"}

\* Completing requests keeps the agent state typed.
LEMMA FinishType ==
  ASSUME TypeOK, NEW cs, NEW status \in Statuses, FinishRequest(cs, status)
  PROVE  requests' \in [Calls -> Statuses] /\ resolves' \in [Calls -> Nat]
  BY DEF TypeOK, FinishRequest, Statuses

\* So does a decision for a call, and what it records.
LEMMA DecidedType ==
  ASSUME TypeOK, NEW c \in Calls, NEW d, Decided(c, d)
  PROVE  /\ call' \in [Calls -> [st : {"none", "asks", "widget", "held", "dialog", "run", "done"},
                                 tool : {Question, Tool}]]
         /\ transcript' \in Seq([id : Calls, ok : BOOLEAN])
         /\ \A x \in Calls : call'[x].st \in {"none", "asks"} => call[x].st \in {"none", "asks"}
<1>1. [id |-> c, ok |-> FALSE] \in [id : Calls, ok : BOOLEAN]
  OBVIOUS
<1>2. CASE d = "allow"
  BY <1>2 DEF TypeOK, Decided
<1>3. CASE d # "allow"
  <2>1. /\ call' = [call EXCEPT ![c].st = "done"]
        /\ transcript' = Append(transcript, [id |-> c, ok |-> FALSE])
    BY <1>3 DEF Decided, Record
  <2>2. transcript' \in Seq([id : Calls, ok : BOOLEAN])
    BY <1>1, <2>1, AppendRange DEF TypeOK
  <2> QED
    BY <2>1, <2>2 DEF TypeOK
<1> QED
  BY <1>2, <1>3

\* A result completes one local prompt, or nothing comes of it.
LEMMA TailResultCases ==
  ASSUME TypeOK, TailResult
  PROVE  /\ missed' \subseteq {Question, Tool}
         /\ \/ UNCHANGED <<requests, resolves, local, driven>>
            \/ \E i \in DOMAIN local : CompleteLocal(i, Head(transcript).ok)
<1> DEFINE result == Head(transcript)
<1>1. result \in [id : Calls, ok : BOOLEAN]
  BY HeadTailProperties DEF TypeOK, TailResult
<1>2. result.id \in Calls /\ call[result.id].tool \in {Question, Tool}
  BY <1>1 DEF TypeOK
<1> HIDE DEF result
<1>3. Report(result.id, result.ok) \/ Miss(result.id)
  BY DEF TailResult, result
<1>4. CASE Report(result.id, result.ok)
  BY <1>4 DEF TypeOK, Report, OfTool, result
<1>5. CASE Miss(result.id)
  BY <1>2, <1>5 DEF TypeOK, Miss
<1> QED
  BY <1>3, <1>4, <1>5

\* The bridge and Claude Code keep to their types.
LEMMA TypeStep == TypeOK /\ [Next]_vars => TypeOK'
<1> SUFFICES ASSUME TypeOK, [Next]_vars PROVE TypeOK'
  OBVIOUS
<1>1. ASSUME NEW c \in Calls, Start(c) PROVE TypeOK'
  BY <1>1 DEF TypeOK, Start, bridge
<1>2. ASSUME NEW c \in Calls, NEW ok \in BOOLEAN, Record(c, ok)
      PROVE  /\ call' \in [Calls -> [st : {"none", "asks", "widget", "held", "dialog", "run", "done"},
                                     tool : {Question, Tool}]]
             /\ transcript' \in Seq([id : Calls, ok : BOOLEAN])
  <2>1. [id |-> c, ok |-> ok] \in [id : Calls, ok : BOOLEAN]
    OBVIOUS
  <2>2. transcript' \in Seq([id : Calls, ok : BOOLEAN])
    BY <1>2, <2>1, AppendRange DEF TypeOK, Record
  <2> QED
    BY <1>2, <2>2 DEF TypeOK, Record
<1>3. ASSUME NEW c \in Calls, Finishes(c) \/ Interrupt(c) PROVE TypeOK'
  BY <1>2, <1>3 DEF TypeOK, Finishes, Interrupt, bridge
<1>4. CASE AtTerminal
  <2>1. Head(dialogs) \in Calls /\ Tail(dialogs) \in Seq(Calls)
    BY <1>4, HeadTailProperties DEF TypeOK, AtTerminal
  <2> QED
    BY <1>4, <2>1, DecidedType DEF TypeOK, AtTerminal, bridge
<1>5. ASSUME NEW c \in Calls, PreToolUse(c) PROVE TypeOK'
  <2>1. Append(local, c) \in Seq(Calls)
    BY AppendRange DEF TypeOK
  <2>2. /\ requests' = [requests EXCEPT ![c] = "pending"]
        /\ \/ /\ blocked' = blocked \cup {c}
              /\ call' = [call EXCEPT ![c].st = "held"]
              /\ UNCHANGED <<local, dialogs>>
           \/ /\ local' = Append(local, c)
              /\ call' = [call EXCEPT ![c].st = "widget"]
              /\ UNCHANGED <<dialogs, blocked>>
    BY <1>5, Zenon DEF PreToolUse, Ask
  <2>3. UNCHANGED <<transcript, web, ended, resolves, driven, oks, missed>>
    BY <1>5 DEF PreToolUse
  <2>4. /\ call' \in [Calls -> [st : {"none", "asks", "widget", "held", "dialog", "run", "done"},
                               tool : {Question, Tool}]]
        /\ requests' \in [Calls -> {"none", "pending", "approved", "denied", "canceled"}]
    BY <2>2 DEF TypeOK
  <2>5. dialogs' \in Seq(Calls) /\ local' \in Seq(Calls) /\ blocked' \subseteq Calls
    BY <2>1, <2>2 DEF TypeOK
  <2> QED
    BY <2>3, <2>4, <2>5 DEF TypeOK
<1>6. ASSUME NEW c \in Calls, PermissionRequest(c) PROVE TypeOK'
  <2>1. Append(local, c) \in Seq(Calls) /\ Append(dialogs, c) \in Seq(Calls)
    BY AppendRange DEF TypeOK
  <2>2. \/ /\ requests' = [requests EXCEPT ![c] = "pending"]
           /\ blocked' = blocked \cup {c}
           /\ call' = [call EXCEPT ![c].st = "held"]
           /\ UNCHANGED <<local, dialogs>>
        \/ /\ requests' = [requests EXCEPT ![c] = "pending"]
           /\ local' = Append(local, c)
           /\ UNCHANGED blocked
           /\ ShowDialog(c)
        \/ ShowDialog(c) /\ UNCHANGED <<requests, blocked, local>>
    BY <1>6, Zenon DEF PermissionRequest, Ask
  <2>3. UNCHANGED <<transcript, web, ended, resolves, driven, oks, missed>>
    BY <1>6 DEF PermissionRequest
  <2>4. call' \in [Calls -> [st : {"none", "asks", "widget", "held", "dialog", "run", "done"},
                            tool : {Question, Tool}]]
    <3>1. CASE call' = [call EXCEPT ![c].st = "held"]
      BY <3>1 DEF TypeOK
    <3>2. CASE call' = [call EXCEPT ![c].st = "dialog"]
      BY <3>2 DEF TypeOK
    <3> QED
      BY <2>2, <3>1, <3>2 DEF ShowDialog
  <2>5. requests' \in [Calls -> {"none", "pending", "approved", "denied", "canceled"}]
    BY <2>2 DEF TypeOK
  <2>6. dialogs' \in Seq(Calls) /\ local' \in Seq(Calls) /\ blocked' \subseteq Calls
    BY <2>1, <2>2 DEF TypeOK, ShowDialog
  <2> QED
    BY <2>3, <2>4, <2>5, <2>6 DEF TypeOK
<1>7. ASSUME NEW c \in Calls, NEW d, Settle(c, d)
      PROVE  /\ call' \in [Calls -> [st : {"none", "asks", "widget", "held", "dialog", "run", "done"},
                                     tool : {Question, Tool}]]
             /\ transcript' \in Seq([id : Calls, ok : BOOLEAN])
             /\ requests' \in [Calls -> Statuses] /\ resolves' \in [Calls -> Nat]
             /\ blocked' \subseteq Calls /\ dialogs' = dialogs /\ driven' = driven
  <2>1. requests' \in [Calls -> Statuses] /\ resolves' \in [Calls -> Nat]
    BY <1>7, FinishType DEF Settle, Statuses
  <2> QED
    BY <1>7, <2>1, DecidedType DEF TypeOK, Settle, HookReturns
<1>8. ASSUME NEW c \in Calls, NEW d \in {"allow", "deny"}, Resolve(c, d) PROVE TypeOK'
  <2> oks' \in [Calls -> Nat]
    BY <1>8 DEF TypeOK, Resolve
  <2>1. CASE Drive(c, d)
    <3>1. CASE dialogs = <<>>
      BY <1>8, <2>1, <3>1 DEF TypeOK, Resolve, Drive, claude
    <3>2. CASE dialogs # <<>>
      <4>1. Head(dialogs) \in Calls /\ Tail(dialogs) \in Seq(Calls)
        BY <3>2, HeadTailProperties DEF TypeOK
      <4> QED
        BY <1>8, <2>1, <3>2, <4>1, DecidedType DEF TypeOK, Resolve, Drive
    <3> QED
      BY <3>1, <3>2
  <2>2. CASE Settle(c, d)
    BY <1>7, <1>8, <2>2 DEF TypeOK, Resolve, Statuses
  <2> QED
    BY <1>8, <2>1, <2>2 DEF Resolve
<1>9. ASSUME NEW c \in Calls, AnswerTimeout(c) PROVE TypeOK'
  BY <1>7, <1>9 DEF TypeOK, AnswerTimeout, Statuses
<1>10. CASE TurnChanges
  BY <1>10 DEF TypeOK, TurnChanges, claude, bridge
<1>11. CASE TailResult
  <2>1. /\ Tail(transcript) \in Seq([id : Calls, ok : BOOLEAN])
        /\ Head(transcript) \in [id : Calls, ok : BOOLEAN]
    BY <1>11, HeadTailProperties DEF TypeOK, TailResult
  <2>2. CASE UNCHANGED <<requests, resolves, local, driven>>
    BY <1>11, <2>1, <2>2, TailResultCases DEF TypeOK, TailResult
  <2>3. ASSUME NEW i \in DOMAIN local, CompleteLocal(i, Head(transcript).ok) PROVE TypeOK'
    <3>1. i \in 1 .. Len(local)
      BY DEF TypeOK
    <3>2. local' \in Seq(Calls)
      BY <2>3, <3>1, RemoveAtType DEF TypeOK, CompleteLocal
    <3>3. requests' \in [Calls -> Statuses] /\ resolves' \in [Calls -> Nat]
      BY <2>3, FinishType DEF CompleteLocal, Statuses
    <3> QED
      BY <1>11, <2>1, <2>3, <3>2, <3>3, TailResultCases DEF TypeOK, TailResult, CompleteLocal, Statuses
  <2> QED
    BY <1>11, <2>2, <2>3, TailResultCases
<1>12. CASE End
  <2>1. requests' \in [Calls -> Statuses] /\ resolves' \in [Calls -> Nat]
    BY <1>12, FinishType DEF End, Statuses
  <2> QED
    BY <1>12, <2>1 DEF TypeOK, End, claude, Statuses
<1>13. CASE UNCHANGED vars
  BY <1>13 DEF TypeOK, vars, claude, bridge
<1> QED
  BY <1>1, <1>3, <1>4, <1>5, <1>6, <1>8, <1>9, <1>10, <1>11, <1>12, <1>13 DEF Next

LEMMA InitType == Init => TypeOK
<1>1. <<>> \in Seq(Calls) /\ <<>> \in Seq([id : Calls, ok : BOOLEAN])
  OBVIOUS
<1>2. Init => web \in BOOLEAN /\ ended \in BOOLEAN
  BY Zenon DEF Init
<1>3. Init => /\ call \in [Calls -> [st : {"none", "asks", "widget", "held", "dialog", "run", "done"},
                                     tool : {Question, Tool}]]
              /\ requests \in [Calls -> Statuses]
              /\ resolves \in [Calls -> Nat] /\ oks \in [Calls -> Nat]
  BY DEF Init, Statuses
<1> QED
  BY <1>1, <1>2, <1>3 DEF Init, TypeOK, Statuses

\* Every variable keeps to its type, for any calls.
THEOREM TypeCorrect == Spec => []TypeOK
  BY InitType, TypeStep, PTL DEF Spec
------------------------------------------------------------------------------
(* One perm-resolve, one winner                                            *)

\* A request is open in one place only, and once.
Exclusive == Distinct(local) /\ blocked \cap Range(local) = {}

\* What is open is pending, and what has not asked has no request.
OpenIsPending == \A c \in Calls : c \in blocked \cup Range(local) => requests[c] = "pending"
UnaskedIsNone == \A c \in Calls : call[c].st \in {"none", "asks"} => requests[c] = "none"

\* A prompt that was won can be won no more: no hook is held for it, and its
\* local entry is marked as driven.
Closed(c) == /\ requests[c] # "none" /\ c \notin blocked
             /\ c \in Range(local) => c \in driven
WonIsClosed == \A c \in Calls : oks[c] = 0 \/ (oks[c] = 1 /\ Closed(c))

IInv == TypeOK /\ ResolvedOnce /\ Exclusive /\ OpenIsPending /\ UnaskedIsNone /\ WonIsClosed

\* A step of Claude Code's own that forgets no call.
LEMMA ClaudeStep ==
  ASSUME IInv, TypeOK', UNCHANGED <<requests, resolves, blocked, local, driven, oks>>,
         \A c \in Calls : call'[c].st \in {"none", "asks"} => call[c].st \in {"none", "asks"}
  PROVE  IInv'
  BY DEF IInv, ResolvedOnce, Exclusive, OpenIsPending, UnaskedIsNone, WonIsClosed, Closed

\* Completing open requests keeps the count of their perm-resolves.
LEMMA FinishStep ==
  ASSUME IInv, NEW cs \in SUBSET Calls, cs \subseteq blocked \cup Range(local),
         NEW status \in {"approved", "denied", "canceled"}, FinishRequest(cs, status)
  PROVE  /\ ResolvedOnce'
         /\ \A c \in Calls : requests'[c] = IF c \in cs THEN status ELSE requests[c]
         /\ \A c \in cs : requests[c] = "pending"
<1>1. \A c \in cs : c \in Calls /\ requests[c] = "pending" /\ resolves[c] = 0
  BY DEF IInv, OpenIsPending, ResolvedOnce
<1>2. \A c \in Calls : /\ requests'[c] = IF c \in cs THEN status ELSE requests[c]
                       /\ resolves'[c] = IF c \in cs THEN resolves[c] + 1 ELSE resolves[c]
  BY DEF FinishRequest
<1>3. ASSUME NEW c \in Calls
      PROVE  resolves'[c] = IF requests'[c] \in {"none", "pending"} THEN 0 ELSE 1
  BY <1>1, <1>2, <1>3 DEF IInv, ResolvedOnce
<1> QED
  BY <1>1, <1>2, <1>3 DEF ResolvedOnce

\* A call that asks had no request, and has one that is open in one place.
LEMMA AskStep ==
  ASSUME IInv, TypeOK', NEW c \in Calls, call[c].st = "asks",
         requests' = [requests EXCEPT ![c] = "pending"],
         \/ blocked' = blocked \cup {c} /\ local' = local
         \/ blocked' = blocked /\ local' = Append(local, c),
         NEW st \in {"held", "widget", "dialog"}, call' = [call EXCEPT ![c].st = st],
         UNCHANGED <<resolves, driven, oks>>
  PROVE  IInv'
<1>1. requests[c] = "none" /\ c \notin blocked /\ c \notin Range(local) /\ oks[c] = 0
  BY DEF IInv, UnaskedIsNone, OpenIsPending, WonIsClosed, Closed
<1>2. /\ Distinct(local')
      /\ Range(local') \subseteq Range(local) \cup {c}
      /\ blocked' \cap Range(local') = {}
      /\ blocked' \cup Range(local') = blocked \cup Range(local) \cup {c}
  <2>1. local \in Seq(Calls) /\ Distinct(local) /\ blocked \cap Range(local) = {}
    BY DEF IInv, TypeOK, Exclusive
  <2>2. /\ Range(Append(local, c)) = Range(local) \cup {c}
        /\ Distinct(Append(local, c))
    BY <1>1, <2>1, AppendRange
  <2> QED
    BY <1>1, <2>1, <2>2
<1>3. ResolvedOnce'
  BY <1>1 DEF IInv, TypeOK, ResolvedOnce
<1>4. OpenIsPending' /\ UnaskedIsNone'
  BY <1>2 DEF IInv, TypeOK, OpenIsPending, UnaskedIsNone
<1>5. WonIsClosed'
  BY <1>1, <1>2 DEF IInv, TypeOK, WonIsClosed, Closed
<1> QED
  BY <1>2, <1>3, <1>4, <1>5 DEF IInv, Exclusive

\* A held hook is settled: its prompt had no winner yet.
LEMMA SettleStep ==
  ASSUME IInv, TypeOK', NEW c \in Calls, NEW d, Settle(c, d), UNCHANGED local,
         oks' = oks \/ oks' = [oks EXCEPT ![c] = @ + 1]
  PROVE  IInv'
<1>1. PICK status \in {"approved", "denied", "canceled"} : FinishRequest({c}, status)
  BY DEF Settle
<1>2. /\ ResolvedOnce'
      /\ \A x \in Calls : requests'[x] = IF x = c THEN status ELSE requests[x]
  BY <1>1, FinishStep DEF Settle
<1>3. blocked' = blocked \ {c} /\ c \in blocked /\ c \notin Range(local) /\ driven' = driven
  BY DEF IInv, Exclusive, Settle
<1>4. oks[c] = 0 /\ requests[c] = "pending"
  BY <1>3 DEF IInv, WonIsClosed, Closed, OpenIsPending
<1>5. \A x \in Calls : call'[x].st \in {"none", "asks"} => call[x].st \in {"none", "asks"}
  <2>1. TypeOK
    BY DEF IInv
  <2> QED
    BY <2>1, DecidedType DEF Settle, HookReturns
<1>6. Exclusive' /\ OpenIsPending' /\ UnaskedIsNone'
  BY <1>2, <1>3, <1>4, <1>5 DEF IInv, Exclusive, OpenIsPending, UnaskedIsNone
<1>7. WonIsClosed'
  BY <1>2, <1>3, <1>4 DEF IInv, TypeOK, WonIsClosed, Closed
<1> QED
  BY <1>2, <1>6, <1>7 DEF IInv

\* A local prompt is driven: nobody drove it before.
LEMMA DriveStep ==
  ASSUME IInv, TypeOK', NEW c \in Calls, NEW d, Drive(c, d), UNCHANGED local,
         oks' = [oks EXCEPT ![c] = @ + 1]
  PROVE  IInv'
<1>1. /\ c \in Range(local) /\ c \notin driven /\ driven' = driven \cup {c}
      /\ UNCHANGED <<requests, resolves, blocked>>
  BY DEF Drive
<1>2. oks[c] = 0 /\ requests[c] = "pending" /\ c \notin blocked
  BY <1>1 DEF IInv, WonIsClosed, Closed, OpenIsPending, Exclusive
<1>3. \A x \in Calls : call'[x].st \in {"none", "asks"} => call[x].st \in {"none", "asks"}
  <2>1. CASE dialogs = <<>>
    BY <2>1 DEF Drive, claude
  <2>2. CASE dialogs # <<>>
    <3>1. Head(dialogs) \in Calls
      BY <2>2, HeadTailProperties DEF IInv, TypeOK
    <3> QED
      BY <2>2, <3>1, DecidedType DEF IInv, Drive
  <2> QED
    BY <2>1, <2>2
<1>4. ResolvedOnce' /\ Exclusive' /\ OpenIsPending' /\ UnaskedIsNone'
  BY <1>1, <1>3 DEF IInv, ResolvedOnce, Exclusive, OpenIsPending, UnaskedIsNone
<1>5. WonIsClosed'
  BY <1>1, <1>2 DEF IInv, TypeOK, WonIsClosed, Closed
<1> QED
  BY <1>4, <1>5 DEF IInv

\* The transcript completes one local prompt.
LEMMA CompleteStep ==
  ASSUME IInv, TypeOK', NEW i \in DOMAIN local, NEW ok \in BOOLEAN, CompleteLocal(i, ok),
         UNCHANGED <<call, blocked, oks>>
  PROVE  IInv'
<1>1. i \in 1 .. Len(local) /\ local[i] \in Calls /\ local[i] \in Range(local)
  BY DEF IInv, TypeOK, Range
<1>2. Range(local') = Range(local) \ {local[i]} /\ Distinct(local')
  BY <1>1, RemoveAtRange DEF IInv, TypeOK, Exclusive, CompleteLocal
<1>3. PICK status \in {"approved", "denied", "canceled"} : FinishRequest({local[i]}, status)
  BY DEF CompleteLocal
<1>4. /\ ResolvedOnce'
      /\ \A x \in Calls : requests'[x] = IF x = local[i] THEN status ELSE requests[x]
      /\ requests[local[i]] = "pending"
  BY <1>1, <1>3, FinishStep
<1>5. driven' = driven \ {local[i]}
  BY DEF CompleteLocal
<1>6. Exclusive' /\ OpenIsPending' /\ UnaskedIsNone'
  BY <1>1, <1>2, <1>4 DEF IInv, Exclusive, OpenIsPending, UnaskedIsNone
<1>7. WonIsClosed'
  BY <1>2, <1>4, <1>5 DEF IInv, WonIsClosed, Closed
<1> QED
  BY <1>2, <1>4, <1>6, <1>7 DEF IInv

\* The end of the session cancels what is open.
LEMMA EndStep ==
  ASSUME IInv, TypeOK', End PROVE IInv'
<1>1. blocked \cup Range(local) \in SUBSET Calls
  BY DEF IInv, TypeOK, Range
<1>2. /\ ResolvedOnce'
      /\ \A x \in Calls : requests'[x] = IF x \in blocked \cup Range(local) THEN "canceled" ELSE requests[x]
      /\ \A x \in blocked \cup Range(local) : requests[x] = "pending"
  BY <1>1, FinishStep DEF End
<1>3. blocked' = {} /\ Range(local') = {} /\ Distinct(local') /\ UNCHANGED <<call, oks>>
  BY DEF End, Range, Distinct, claude
<1>4. Exclusive' /\ OpenIsPending' /\ UnaskedIsNone' /\ WonIsClosed'
  BY <1>2, <1>3 DEF IInv, Exclusive, OpenIsPending, UnaskedIsNone, WonIsClosed, Closed
<1> QED
  BY <1>2, <1>4 DEF IInv

\* Every step keeps the invariant.
LEMMA InvStep == IInv /\ [Next]_vars => IInv'
<1> SUFFICES ASSUME IInv, [Next]_vars PROVE IInv'
  OBVIOUS
<1> USE TypeStep
<1>0. TypeOK'
  BY DEF IInv
<1>1. ASSUME NEW c \in Calls, Start(c) \/ Finishes(c) \/ Interrupt(c) PROVE IInv'
  <2>1. \A x \in Calls : call'[x].st \in {"none", "asks"} => call[x].st \in {"none", "asks"}
    <3>1. CASE Start(c)
      BY <3>1 DEF IInv, TypeOK, Start
    <3>2. CASE Finishes(c) \/ Interrupt(c)
      <4>1. call' = [call EXCEPT ![c].st = "done"]
        BY <3>2 DEF Finishes, Interrupt, Record
      <4> QED
        BY <4>1 DEF IInv, TypeOK
    <3> QED
      BY <1>1, <3>1, <3>2
  <2>2. UNCHANGED bridge
    BY <1>1 DEF Start, Finishes, Interrupt
  <2> QED
    BY <1>0, <2>1, <2>2, ClaudeStep DEF bridge
<1>2. CASE AtTerminal
  <2>1. Head(dialogs) \in Calls
    BY <1>2, HeadTailProperties DEF IInv, TypeOK, AtTerminal
  <2>2. \A x \in Calls : call'[x].st \in {"none", "asks"} => call[x].st \in {"none", "asks"}
    BY <1>2, <2>1, DecidedType DEF IInv, AtTerminal
  <2> QED
    BY <1>0, <1>2, <2>2, ClaudeStep DEF AtTerminal, bridge
<1>3. ASSUME NEW c \in Calls, PreToolUse(c) PROVE IInv'
  <2>1. /\ requests' = [requests EXCEPT ![c] = "pending"]
        /\ \/ /\ blocked' = blocked \cup {c} /\ UNCHANGED local
              /\ call' = [call EXCEPT ![c].st = "held"]
           \/ /\ local' = Append(local, c) /\ UNCHANGED blocked
              /\ call' = [call EXCEPT ![c].st = "widget"]
    BY <1>3, Zenon DEF PreToolUse, Ask
  <2> QED
    BY <1>0, <1>3, <2>1, AskStep DEF PreToolUse
<1>4. ASSUME NEW c \in Calls, PermissionRequest(c) PROVE IInv'
  <2>1. CASE call[c].st = "asks" /\ Ask(c, ShowDialog(c))
    <3>1. /\ requests' = [requests EXCEPT ![c] = "pending"]
          /\ \/ /\ blocked' = blocked \cup {c} /\ UNCHANGED local
                /\ call' = [call EXCEPT ![c].st = "held"]
             \/ /\ local' = Append(local, c) /\ UNCHANGED blocked
                /\ call' = [call EXCEPT ![c].st = "dialog"]
      BY <2>1, Zenon DEF Ask, ShowDialog
    <3> QED
      BY <1>0, <1>4, <2>1, <3>1, AskStep DEF PermissionRequest
  <2>2. CASE ShowDialog(c) /\ UNCHANGED <<requests, blocked, local>>
    BY <1>0, <1>4, <2>2, ClaudeStep DEF IInv, TypeOK, PermissionRequest, ShowDialog, bridge
  <2> QED
    BY <1>4, <2>1, <2>2 DEF PermissionRequest
<1>5. ASSUME NEW c \in Calls, NEW d, Resolve(c, d) PROVE IInv'
  BY <1>0, <1>5, DriveStep, SettleStep DEF Resolve
<1>6. ASSUME NEW c \in Calls, AnswerTimeout(c) PROVE IInv'
  BY <1>0, <1>6, SettleStep DEF AnswerTimeout
<1>7. CASE TurnChanges \/ UNCHANGED vars
  BY <1>0, <1>7, ClaudeStep DEF TurnChanges, vars, claude, bridge
<1>8. CASE TailResult
  <2>1. CASE UNCHANGED <<requests, resolves, local, driven>>
    BY <1>0, <1>8, <2>1, ClaudeStep DEF TailResult
  <2>2. ASSUME NEW i \in DOMAIN local, CompleteLocal(i, Head(transcript).ok) PROVE IInv'
    <3>1. Head(transcript).ok \in BOOLEAN
      <4>1. Head(transcript) \in [id : Calls, ok : BOOLEAN]
        BY <1>8, HeadTailProperties DEF IInv, TypeOK, TailResult
      <4> QED
        BY <4>1, Zenon
    <3> QED
      BY <1>0, <1>8, <2>2, <3>1, CompleteStep DEF TailResult
  <2> QED
    BY <1>8, <2>1, <2>2, TailResultCases DEF IInv
<1>9. CASE End
  BY <1>0, <1>9, EndStep
<1> QED
  BY <1>1, <1>2, <1>3, <1>4, <1>5, <1>6, <1>7, <1>8, <1>9 DEF Next

LEMMA InvInit == Init => IInv
<1> SUFFICES ASSUME Init PROVE IInv
  OBVIOUS
<1>1. Range(local) = {} /\ Distinct(local)
  BY DEF Init, Range, Distinct
<1>2. /\ \A c \in Calls : requests[c] = "none" /\ resolves[c] = 0 /\ oks[c] = 0
      /\ blocked = {}
  BY DEF Init
<1> QED
  BY <1>1, <1>2, InitType DEF IInv, ResolvedOnce, Exclusive, OpenIsPending, UnaskedIsNone, WonIsClosed

\* One perm-resolve for every prompt that is completed, none before.
THEOREM ResolvedOnceCorrect == Spec => []ResolvedOnce
<1>1. IInv => ResolvedOnce
  BY DEF IInv
<1> QED
  BY <1>1, InvInit, InvStep, PTL DEF Spec

\* At most one perm.answer of a prompt is told that it was the answer.
THEOREM OneWinnerCorrect == Spec => []OneWinner
<1>1. IInv => OneWinner
  BY DEF IInv, WonIsClosed, OneWinner
<1> QED
  BY <1>1, InvInit, InvStep, PTL DEF Spec
=============================================================================
