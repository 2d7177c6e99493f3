----------------------------- MODULE MessageLog -----------------------------
(***************************************************************************)
(* What `POST /v1/sessions/:id/messages` promises its callers, without the *)
(* transactions that implement it: every message takes effect at one       *)
(* instant, at the next number of its session; an answer names the number  *)
(* of a message that took effect; a message is announced to the watchers   *)
(* at most once, and only after it took effect.                            *)
(***************************************************************************)
EXTENDS Naturals

CONSTANTS
    Sessions,       \* session ids
    LocalIds        \* the idempotency keys the senders choose

VARIABLES
    live,           \* the sessions that have not been deleted
    top,            \* top[s]: the number of the last message of session s
    rows,           \* the messages that took effect, ever
    replies,        \* the 200 answers handed to clients
    fanouts         \* fanouts[m]: how often message m was announced

vars == <<live, top, rows, replies, fanouts>>

Messages == Sessions \X LocalIds

Row(m, n) == [sid |-> m[1], lid |-> m[2], seq |-> n]

Stored(m) == \E x \in rows : x.sid = m[1] /\ x.lid = m[2]

Init ==
    /\ live = Sessions
    /\ top = [s \in Sessions |-> 0]
    /\ rows = {}
    /\ replies = {}
    /\ fanouts = [m \in Messages |-> 0]

TakeEffect(m) ==
    /\ m[1] \in live
    /\ ~Stored(m)
    /\ top' = [top EXCEPT ![m[1]] = @ + 1]
    /\ rows' = rows \cup {Row(m, top[m[1]] + 1)}
    /\ UNCHANGED <<live, replies, fanouts>>

\* The answer to a request, with or without the announcement its insert owes.
Answer(m, announce) ==
    /\ \E x \in rows : x.sid = m[1] /\ x.lid = m[2] /\ replies' = replies \cup {x}
    /\ announce => fanouts[m] = 0
    /\ fanouts' = [fanouts EXCEPT ![m] = IF announce THEN 1 ELSE @]
    /\ UNCHANGED <<live, top, rows>>

Delete(s) ==
    /\ s \in live
    /\ live' = live \ {s}
    /\ UNCHANGED <<top, rows, replies, fanouts>>

Next ==
    \/ \E m \in Messages : TakeEffect(m) \/ (\E a \in BOOLEAN : Answer(m, a))
    \/ \E s \in Sessions : Delete(s)

Spec == Init /\ [][Next]_vars
=============================================================================
