--------------------------- MODULE PermissionBridge ---------------------------
(***************************************************************************)
(* Answering the live TUI's permission prompts from the web: the bridge    *)
(* behind Claude Code's PreToolUse and PermissionRequest hooks, its timer, *)
(* the perm.answer RPC, the transcript tailer that tells it how prompts    *)
(* answered at the terminal ended, and the session's shutdown.             *)
(*                                                                         *)
(* Claude Code is external: it starts tool calls, also in parallel         *)
(* (subagents do), runs the hooks, shows one dialog at a time in the order *)
(* they were asked for, and records a result of every call.  The reqId of  *)
(* a prompt is the call it is for.  A decision to switch the mode counts   *)
(* as an allow; the keystrokes that switch it, and those that a late       *)
(* answer types into the composer, are left out.                           *)
(***************************************************************************)
EXTENDS SequencesExt, Naturals

CONSTANTS
    Calls,          \* the tool calls of the session
    Question,       \* the tool AskUserQuestion
    Tool            \* any other tool, Task among them

VARIABLES
    call,       \* Claude Code's view of each call, and its tool
    dialogs,    \* the calls whose TUI dialog is shown (the first) or waits
    transcript, \* results recorded and not yet tailed
    web,        \* the turn was started from the web
    ended,
    requests,   \* the agent state: requests and completedRequests
    resolves,   \* the perm-resolve envelopes of each request
    blocked,    \* pending and permRequestPending: hooks held open
    local,      \* localOutcomePending
    driven,     \* drivenLocalReqIds
    oks,        \* the perm.answer calls told {ok: true}
    missed      \* history: tools of which the result of a prompted call was not reported

claude == <<call, dialogs, transcript>>
bridge == <<requests, resolves, blocked, local, driven, oks, missed>>
vars == <<claude, web, ended, bridge>>

Init ==
    /\ call = [c \in Calls |-> [st |-> "none", tool |-> Tool]]
    /\ dialogs = <<>> /\ transcript = <<>>
    /\ web = FALSE /\ ended = FALSE
    /\ requests = [c \in Calls |-> "none"]
    /\ resolves = [c \in Calls |-> 0]
    /\ blocked = {} /\ local = <<>> /\ driven = {}
    /\ oks = [c \in Calls |-> 0] /\ missed = {}

------------------------------------------------------------------------------
(* Claude Code                                                             *)

(* The result of a call is recorded: an error when it was denied, and also *)
(* when it ran and failed.                                                 *)
Record(c, ok) ==
    /\ call' = [call EXCEPT ![c].st = "done"]
    /\ transcript' = Append(transcript, [id |-> c, ok |-> ok])

(* What an answer makes of the call; a question asked through PreToolUse   *)
(* is always denied, its answer being the reason.                          *)
Decided(c, d) ==
    IF d = "allow" THEN call' = [call EXCEPT ![c].st = "run"] /\ UNCHANGED transcript
                   ELSE Record(c, FALSE)
HookReturns(c, d) ==
    Decided(c, IF call[c].tool = Question THEN "deny" ELSE d)

(* A call starts: it runs by itself if no rule asks for a permission.      *)
Start(c) ==
    /\ ~ended /\ call[c].st = "none"
    /\ \E t \in {Question, Tool}, st \in {"asks", "run"} :
         /\ t = Question => st = "asks"
         /\ call' = [call EXCEPT ![c] = [st |-> st, tool |-> t]]
    /\ UNCHANGED <<dialogs, transcript, web, ended, bridge>>

Finishes(c) ==
    /\ ~ended /\ call[c].st = "run"
    /\ \E ok \in BOOLEAN : Record(c, ok)
    /\ UNCHANGED <<dialogs, web, ended, bridge>>

(* The human answers the dialog that is shown.                             *)
AtTerminal ==
    /\ ~ended /\ dialogs # <<>>
    /\ \E d \in {"allow", "deny"} : Decided(Head(dialogs), d)
    /\ dialogs' = Tail(dialogs)
    /\ UNCHANGED <<web, ended, bridge>>

(* Escape while a hook is held open: Claude Code gives the call up, and    *)
(* nobody tells the bridge.                                                *)
Interrupt(c) ==
    /\ ~ended /\ call[c].st = "held"
    /\ Record(c, FALSE)
    /\ UNCHANGED <<dialogs, web, ended, bridge>>

(* isWebTurnActive changes: a message was injected; the turn ended, the    *)
(* human pressed Enter or the watchdog expired.                            *)
TurnChanges ==
    /\ ~ended
    /\ web' = ~web
    /\ UNCHANGED <<claude, ended, bridge>>

------------------------------------------------------------------------------
(* The bridge                                                              *)

FinishRequest(cs, status) ==
    /\ requests' = [c \in Calls |-> IF c \in cs THEN status ELSE requests[c]]
    /\ resolves' = [c \in Calls |-> IF c \in cs THEN resolves[c] + 1 ELSE resolves[c]]

(* A prompt becomes pending, for the web to see.  A web turn holds the     *)
(* hook open, a local one hands off to the terminal at once.               *)
Ask(c, atTerminal) ==
    /\ requests' = [requests EXCEPT ![c] = "pending"]
    /\ IF web
         THEN /\ blocked' = blocked \cup {c}
              /\ call' = [call EXCEPT ![c].st = "held"]
              /\ UNCHANGED <<local, dialogs>>
         ELSE /\ local' = Append(local, c)
              /\ atTerminal
              /\ UNCHANGED blocked

ShowDialog(c) ==
    /\ call' = [call EXCEPT ![c].st = "dialog"]
    /\ dialogs' = Append(dialogs, c)

(* handlePreToolUse: everything but a question defers at once (the call    *)
(* stays as it is: no action).  A question's own PermissionRequest hook    *)
(* follows when the terminal is to answer it.                              *)
PreToolUse(c) ==
    /\ ~ended /\ call[c].st = "asks" /\ call[c].tool = Question
    /\ Ask(c, call' = [call EXCEPT ![c].st = "widget"] /\ UNCHANGED dialogs)
    /\ UNCHANGED <<transcript, web, ended, resolves, driven, oks, missed>>

(* handlePermissionRequest.                                                *)
PermissionRequest(c) ==
    /\ ~ended
    /\ \/ /\ call[c].st = "asks" /\ call[c].tool = Tool
          /\ Ask(c, ShowDialog(c))
       \/ /\ call[c].st = "widget"
          /\ ShowDialog(c)
          /\ UNCHANGED <<requests, blocked, local>>
    /\ UNCHANGED <<transcript, web, ended, resolves, driven, oks, missed>>

(* resolve: a local prompt is answered with keystrokes, which go to        *)
(* whatever dialog is shown, once; a held hook is settled, and the request *)
(* is complete.  Every other caller is told no.                            *)
Drive_Replays(c, d) ==
    /\ c \in Range(local)
    /\ IF dialogs # <<>>
         THEN Decided(Head(dialogs), d) /\ dialogs' = Tail(dialogs)
         ELSE UNCHANGED claude
    /\ UNCHANGED <<requests, resolves, blocked, driven>>
Drive(c, d) ==
    /\ c \in Range(local) /\ c \notin driven
    /\ driven' = driven \cup {c}
    /\ IF dialogs # <<>>
         THEN Decided(Head(dialogs), d) /\ dialogs' = Tail(dialogs)
         ELSE UNCHANGED claude
    /\ UNCHANGED <<requests, resolves, blocked>>

Settle(c, d) ==
    /\ c \in blocked
    /\ blocked' = blocked \ {c}
    /\ FinishRequest({c}, IF d = "deny" \/ call[c].tool = Question THEN "denied" ELSE "approved")
    /\ IF call[c].st = "held" THEN HookReturns(c, d) ELSE UNCHANGED <<call, transcript>>
    /\ UNCHANGED <<dialogs, driven>>

Resolve(c, d) ==
    /\ ~ended
    /\ Drive(c, d) \/ Settle(c, d)
    /\ oks' = [oks EXCEPT ![c] = @ + 1]
    /\ UNCHANGED <<web, ended, local, missed>>

(* The answer timer of a held hook.                                        *)
AnswerTimeout_KeepsEntry(c) ==
    /\ ~ended /\ c \in blocked
    /\ FinishRequest({c}, "denied")
    /\ IF call[c].st = "held" THEN HookReturns(c, "deny") ELSE UNCHANGED <<call, transcript>>
    /\ UNCHANGED <<dialogs, web, ended, blocked, driven, local, oks, missed>>
AnswerTimeout(c) ==
    /\ ~ended
    /\ Settle(c, "deny")
    /\ UNCHANGED <<web, ended, local, oks, missed>>

(* resolveLocalOutcome: a result completes the oldest local prompt of a    *)
(* tool of its name, if there is one.                                      *)
OfTool(t) == {i \in DOMAIN local : call[local[i]].tool = t}

CompleteLocal(i, ok) ==
    /\ local' = RemoveAt(local, i)
    /\ driven' = driven \ {local[i]}
    /\ FinishRequest({local[i]}, IF ok THEN "approved" ELSE "denied")

Report(c, ok) ==
    LET is == OfTool(call[c].tool)
    IN  /\ \/ is = {} /\ UNCHANGED <<requests, resolves, local, driven>>
           \/ \E i \in is : (\A j \in is : i <= j) /\ CompleteLocal(i, ok)
        /\ UNCHANGED missed

(* The mapper reports no result of a Task, whose calls it hides, nor of a  *)
(* call whose turn was closed meanwhile, by a message or the Stop hook: it *)
(* has forgotten the name.  Which calls those are is left open.            *)
Miss(c) ==
    /\ missed' = IF requests[c] = "none" THEN missed ELSE missed \cup {call[c].tool}
    /\ UNCHANGED <<requests, resolves, local, driven>>

(* The tailer delivers a result.                                           *)
TailResult ==
    /\ transcript # <<>>
    /\ transcript' = Tail(transcript)
    /\ LET result == Head(transcript) IN Report(result.id, result.ok) \/ Miss(result.id)
    /\ UNCHANGED <<call, dialogs, web, ended, blocked, oks>>

(* Claude Code has exited: reset() cancels whatever is open.               *)
End_KeepsLocal ==
    /\ ~ended /\ ended' = TRUE
    /\ FinishRequest(blocked, "canceled")
    /\ blocked' = {}
    /\ UNCHANGED <<claude, web, local, driven, oks, missed>>

End ==
    /\ ~ended /\ ended' = TRUE
    /\ FinishRequest(blocked \cup Range(local), "canceled")
    /\ blocked' = {} /\ local' = <<>> /\ driven' = {}
    /\ UNCHANGED <<claude, web, oks, missed>>

------------------------------------------------------------------------------
Next ==
    \/ \E c \in Calls :
         \/ Start(c) \/ Finishes(c) \/ Interrupt(c)
         \/ PreToolUse(c) \/ PermissionRequest(c) \/ AnswerTimeout(c)
         \/ \E d \in {"allow", "deny"} : Resolve(c, d)
    \/ AtTerminal \/ TurnChanges \/ TailResult \/ End

Spec == Init /\ [][Next]_vars

(* Claude Code's calls come to an end, the tailer reads on and the timers  *)
(* fire.  Nothing is assumed of the humans.                                *)
Fairness ==
    /\ \A c \in Calls : WF_vars(Finishes(c)) /\ WF_vars(AnswerTimeout(c))
    /\ WF_vars(TailResult)

FairSpec == Spec /\ Fairness

------------------------------------------------------------------------------
(* What the variables range over.                                          *)
TypeOK ==
    /\ call \in [Calls -> [st : {"none", "asks", "widget", "held", "dialog", "run", "done"},
                           tool : {Question, Tool}]]
    /\ dialogs \in Seq(Calls)
    /\ transcript \in Seq([id : Calls, ok : BOOLEAN])
    /\ web \in BOOLEAN /\ ended \in BOOLEAN
    /\ requests \in [Calls -> {"none", "pending", "approved", "denied", "canceled"}]
    /\ resolves \in [Calls -> Nat] /\ oks \in [Calls -> Nat]
    /\ blocked \subseteq Calls /\ local \in Seq(Calls) /\ driven \subseteq Calls
    /\ missed \subseteq {Question, Tool}

(* A pending prompt has had no perm-resolve and a completed one exactly    *)
(* one, whoever came first: the web's answer, the timer, a result in the   *)
(* transcript (perhaps of another call) or the end of the session.         *)
ResolvedOnce ==
    \A c \in Calls : resolves[c] = IF requests[c] \in {"none", "pending"} THEN 0 ELSE 1

(* "a double-click can't replay the keystrokes": of all the perm.answer    *)
(* calls for one prompt, at most one is told that it was the answer,       *)
(* however the prompt was handled.                                         *)
OneWinner == \A c \in Calls : oks[c] <= 1

(* The web card of a prompt "resolves instead of hanging forever": once    *)
(* Claude Code is done with its calls or the session has ended, no prompt  *)
(* stays pending, although a result completes the oldest prompt of its     *)
(* tool and not its own, and an interrupted hook is reported to nobody.    *)
(* The results are counted, not matched: one that the mapper does not      *)
(* report leaves a card of its tool behind until the session ends.         *)
(* Calls are interchangeable: one of them stands for all.                  *)
AllOver == \A c \in Calls : call[c].st \in {"none", "done"}
CardOf(c) ==
    requests[c] = "pending" /\ (AllOver \/ ended) ~>
      requests[c] # "pending" \/ (~ended /\ call[c].tool \in missed)
CardCloses == CardOf(CHOOSE c \in Calls : TRUE)
==============================================================================
