------------------------------ MODULE Injection ------------------------------
(***************************************************************************)
(* The injection controller of the terminal flow (injectionController.ts)  *)
(* wired into one pseudo-terminal session (ptyClaudeSession.ts).           *)
(*                                                                         *)
(* A web message is typed into the very terminal a person is using: its    *)
(* text is written when a gate of six flags is open, and the Enter that    *)
(* submits it is written 250 ms later.  Between the two, and around them,  *)
(* the person types, the agent runs turns and opens dialogs, and the       *)
(* signals that drive the flags (fetch events, hooks, the transcript       *)
(* tailer, timers) arrive when they arrive.                                *)
(*                                                                         *)
(* The terminal UI itself is external: it keeps a composer, with text that *)
(* was typed and not yet submitted or without, a dialog that swallows keys *)
(* while it is open, and a turn that runs after a prompt was submitted.    *)
(*                                                                         *)
(* Bounds: MaxDialogs dialogs, MaxToolEnds results of other tool calls     *)
(* that arrive while a dialog may be open, MaxFetches model requests.  The *)
(* person's keys are not bounded.                                          *)
(***************************************************************************)
EXTENDS Naturals, FiniteSets, Sequences, SequencesExt

CONSTANTS Msgs,             \* the web messages, each injected under its envelope id
          None,             \* no message between its text and its Enter
          MaxDialogs, MaxToolEnds, MaxFetches

ASSUME BoundsAssumption ==
    None \notin Msgs /\ {MaxDialogs, MaxToolEnds, MaxFetches} \subseteq Nat

VARIABLES
    ctl,       \* the controller: its queue, the message typed but not yet
               \* submitted (injecting), and the flags of the gate
    tui,       \* the terminal UI: alive, composer (it holds text), dialog, turn,
               \* fetching, and toolUse: the turn's last reply asked for tool calls
    accepted,  \* the messages enqueue() took, in order
    injected,  \* the ids onInjected reported, in order
    dropped,   \* the ids onDropped reported, in order
    draftTimer,\* the 15 s timer that every printable key starts anew
    up,        \* the process has not exited
    used       \* how much of each bound is spent

vars == <<ctl, tui, accepted, injected, dropped, draftTimer, up, used>>

Flags == {"ready", "busy", "cooldown", "promptOpen", "localDraft", "disposed"}

Init ==
    /\ ctl = [queue |-> <<>>, typed |-> None, flag |-> [f \in Flags |-> FALSE]]
    /\ tui = [alive |-> TRUE, composer |-> FALSE, dialog |-> FALSE,
              turn |-> FALSE, fetching |-> FALSE, toolUse |-> FALSE]
    /\ accepted = <<>> /\ injected = <<>> /\ dropped = <<>>
    /\ draftTimer = FALSE /\ up = TRUE
    /\ used = [dialog |-> 0, tool |-> 0, fetch |-> 0]

------------------------------------------------------------------------------
(* canInjectNow: the gate. *)
GateOpen(c) ==
    /\ c.flag["ready"] /\ c.typed = None
    /\ \A f \in Flags \ {"ready"} : ~c.flag[f]

(* tryFlush: with the gate open the head of the queue becomes the message  *)
(* being injected; writeText puts it into the terminal in the same step.   *)
tryFlush(c) ==
    IF GateOpen(c) /\ c.queue # <<>>
      THEN [c EXCEPT !.queue = Tail(@), !.typed = Head(c.queue)]
      ELSE c

Set(c, f, b) == [c EXCEPT !.flag[f] = b]

(* Text reaches the composer unless the child is gone or a dialog has the  *)
(* focus.                                                                  *)
Written(t) == IF t.alive /\ ~t.dialog THEN [t EXCEPT !.composer = TRUE] ELSE t

(* What the terminal holds once the controller went from ctl to c: the     *)
(* text of a message c has just begun to inject is in it.                  *)
AfterFlush(c, t) ==
    IF c.typed # None /\ ctl.typed = None THEN Written(t) ELSE t

(* A carriage return answers an open dialog, and otherwise submits what is *)
(* in the composer; on an empty composer it does nothing.                  *)
Entered(t) ==
    CASE ~t.alive           -> t
      [] t.alive /\ t.dialog -> [t EXCEPT !.dialog = FALSE]
      [] OTHER -> [t EXCEPT !.composer = FALSE, !.turn = @ \/ t.composer]

(* Escape closes a dialog, cancels a running turn, and leaves an idle      *)
(* composer alone.                                                         *)
Escaped(t) ==
    IF ~t.alive THEN t
    ELSE IF t.dialog THEN [t EXCEPT !.dialog = FALSE]
    ELSE [t EXCEPT !.turn = FALSE, !.fetching = FALSE, !.toolUse = FALSE]

Holding == IF ctl.typed = None THEN <<>> ELSE <<ctl.typed>>

Spend(k, bound) == used[k] < bound /\ used' = [used EXCEPT ![k] = @ + 1]

(* A setter of the controller: a no-op once disposed or when the flag has  *)
(* the value already; the setters flush when they open the gate.           *)
Setter(f, b) ==
    /\ ~ctl.flag["disposed"] /\ ctl.flag[f] # b
    /\ ctl' = tryFlush(Set(ctl, f, b))
    /\ tui' = AfterFlush(ctl', tui)

------------------------------------------------------------------------------
(* enqueue: from the message RPC.  A disposed controller returns silently. *)
Enqueue(m) ==
    /\ ~ctl.flag["disposed"]
    /\ \A i \in DOMAIN accepted : accepted[i] # m
    /\ accepted' = Append(accepted, m)
    /\ ctl' = tryFlush([ctl EXCEPT !.queue = Append(@, m)])
    /\ tui' = AfterFlush(ctl', tui)
    /\ UNCHANGED <<injected, dropped, draftTimer, up, used>>

(* The ready timer: the prompt is taken to be painted.                     *)
MarkReady ==
    /\ tui.alive
    /\ Setter("ready", TRUE)
    /\ UNCHANGED <<accepted, injected, dropped, draftTimer, up, used>>

(* The submit timer, 250 ms after the text: the gate is not looked at      *)
(* again.  A controller disposed in between reports the message dropped.   *)
Submit ==
    /\ up /\ ctl.typed # None
    /\ IF ctl.flag["disposed"]
         THEN /\ dropped' = Append(dropped, ctl.typed)
              /\ ctl' = [ctl EXCEPT !.typed = None]
              /\ UNCHANGED <<tui, injected>>
         ELSE /\ tui' = Entered(tui)
              /\ injected' = Append(injected, ctl.typed)
              /\ ctl' = Set([ctl EXCEPT !.typed = None], "cooldown", TRUE)
              /\ UNCHANGED dropped
    /\ UNCHANGED <<accepted, draftTimer, up, used>>

(* The cooldown timer after a submit; dispose cancels it.                  *)
CooldownEnds ==
    /\ Setter("cooldown", FALSE)
    /\ UNCHANGED <<accepted, injected, dropped, draftTimer, up, used>>

(* setBusy from the launcher's fetch signal: set on the first fetch-start, *)
(* cleared by the debounce timer once no fetch is active.                  *)
FetchStart ==
    /\ tui.alive /\ tui.turn /\ ~tui.dialog /\ ~tui.fetching
    /\ Spend("fetch", MaxFetches)
    /\ tui' = [tui EXCEPT !.fetching = TRUE]
    /\ ctl' = IF ctl.flag["disposed"] THEN ctl ELSE Set(ctl, "busy", TRUE)
    /\ UNCHANGED <<accepted, injected, dropped, draftTimer, up>>

FetchEnd ==
    /\ tui.fetching
    /\ \E b \in BOOLEAN : tui' = [tui EXCEPT !.fetching = FALSE, !.toolUse = b]
    /\ UNCHANGED <<ctl, accepted, injected, dropped, draftTimer, up, used>>

BusyDebounced ==
    /\ ~tui.fetching
    /\ Setter("busy", FALSE)
    /\ UNCHANGED <<accepted, injected, dropped, draftTimer, up, used>>

(* The agent wants to run a tool of this turn: the bridge's onPromptLikely *)
(* or the Notification hook sets the gate, and a dialog is on the screen.  *)
DialogOpens ==
    /\ tui.alive /\ tui.toolUse /\ ~tui.fetching /\ ~tui.dialog
    /\ Spend("dialog", MaxDialogs)
    /\ tui' = [tui EXCEPT !.dialog = TRUE]
    /\ ctl' = IF ctl.flag["disposed"] THEN ctl ELSE Set(ctl, "promptOpen", TRUE)
    /\ UNCHANGED <<accepted, injected, dropped, draftTimer, up>>

(* The tailer delivers a tool-end of the turn, which clears the prompt     *)
(* gate whichever call it belongs to: of the call whose dialog was         *)
(* answered, or (MaxToolEnds) of another call of the same turn.            *)
ToolEnd ==
    /\ \/ ~tui.dialog /\ UNCHANGED used
       \/ tui.dialog /\ Spend("tool", MaxToolEnds)
    /\ Setter("promptOpen", FALSE)
    /\ UNCHANGED <<accepted, injected, dropped, draftTimer, up>>

(* Mutant. setPromptOpen(true) arms no failsafe. *)
PromptOpenFailsafe_Unarmed ==
    /\ FALSE
    /\ UNCHANGED vars

(* The failsafe timer, 120 s after the gate was set: it looks at nothing.  *)
PromptOpenFailsafe ==
    /\ Setter("promptOpen", FALSE)
    /\ UNCHANGED <<accepted, injected, dropped, draftTimer, up, used>>

(* The turn ends, and the Stop hook (onAttention "done") clears the gate.  *)
TurnEnds ==
    /\ tui.turn /\ ~tui.fetching /\ ~tui.dialog
    /\ ctl' = IF ctl.flag["disposed"] \/ ~ctl.flag["promptOpen"] THEN ctl
              ELSE tryFlush(Set(ctl, "promptOpen", FALSE))
    /\ tui' = AfterFlush(ctl', [tui EXCEPT !.turn = FALSE, !.toolUse = FALSE])
    /\ UNCHANGED <<accepted, injected, dropped, draftTimer, up, used>>

------------------------------------------------------------------------------
(* onStdinData: a printable key starts a draft and its timer anew, Enter   *)
(* and Escape end the draft, all three ignored while a message is being    *)
(* injected; only after that bookkeeping are the bytes themselves written  *)
(* to the terminal.                                                        *)
Drafting(b) ==
    IF ctl.typed # None \/ ctl.flag["disposed"] \/ ctl.flag["localDraft"] = b THEN ctl
    ELSE tryFlush(Set(ctl, "localDraft", b))

HumanTypes ==
    /\ tui.alive
    /\ ctl' = Drafting(TRUE)
    /\ draftTimer' = (draftTimer \/ ctl.typed = None)
    /\ tui' = Written(tui)
    /\ UNCHANGED <<accepted, injected, dropped, up, used>>

HumanEnters ==
    /\ tui.alive
    /\ ctl' = Drafting(FALSE)
    /\ tui' = Entered(AfterFlush(ctl', tui))
    /\ UNCHANGED <<accepted, injected, dropped, draftTimer, up, used>>

HumanEscapes ==
    /\ tui.alive
    /\ ctl' = Drafting(FALSE)
    /\ tui' = Escaped(AfterFlush(ctl', tui))
    /\ UNCHANGED <<accepted, injected, dropped, draftTimer, up, used>>

(* Mutant. Ending a draft by inactivity does not flush. *)
DraftIdles_NoFlush ==
    /\ draftTimer /\ draftTimer' = FALSE
    /\ ctl' = IF ctl.flag["disposed"] THEN ctl ELSE Set(ctl, "localDraft", FALSE)
    /\ UNCHANGED <<tui, accepted, injected, dropped, up, used>>

(* The draft timer: fifteen seconds without a printable key end the draft, *)
(* if Enter or Escape have not ended it before.                            *)
DraftIdles ==
    /\ draftTimer /\ draftTimer' = FALSE
    /\ ctl' = IF ctl.flag["disposed"] \/ ~ctl.flag["localDraft"] THEN ctl
              ELSE tryFlush(Set(ctl, "localDraft", FALSE))
    /\ tui' = AfterFlush(ctl', tui)
    /\ UNCHANGED <<accepted, injected, dropped, up, used>>

(* Mutant. dispose() reports the message being injected and leaves its timer be. *)
dispose_ReportsTyped ==
    /\ ~tui.alive /\ ~ctl.flag["disposed"]
    /\ dropped' = dropped \o Holding \o ctl.queue
    /\ ctl' = Set([ctl EXCEPT !.queue = <<>>], "disposed", TRUE)
    /\ draftTimer' = FALSE
    /\ UNCHANGED <<tui, accepted, injected, up, used>>

------------------------------------------------------------------------------
(* The child exits; teardown runs its cleanups in reverse, so the          *)
(* controller is disposed only after the earlier ones have finished.       *)
ChildExits ==
    /\ tui.alive
    /\ tui' = [tui EXCEPT !.alive = FALSE, !.dialog = FALSE,
                          !.turn = FALSE, !.fetching = FALSE, !.toolUse = FALSE]
    /\ UNCHANGED <<ctl, accepted, injected, dropped, draftTimer, up, used>>

dispose ==
    /\ ~tui.alive /\ ~ctl.flag["disposed"]
    /\ dropped' = dropped \o ctl.queue
    /\ ctl' = Set([ctl EXCEPT !.queue = <<>>], "disposed", TRUE)
    /\ draftTimer' = FALSE
    /\ UNCHANGED <<tui, accepted, injected, up, used>>

(* After teardown the process exits; it does not wait for the timer of a   *)
(* message whose text is typed and whose Enter is not.                     *)
ProcessExits ==
    /\ up /\ ctl.flag["disposed"]
    /\ up' = FALSE
    /\ UNCHANGED <<ctl, tui, accepted, injected, dropped, draftTimer, used>>

------------------------------------------------------------------------------
Next ==
    \/ \E m \in Msgs : Enqueue(m)
    \/ MarkReady \/ Submit \/ CooldownEnds
    \/ FetchStart \/ FetchEnd \/ BusyDebounced
    \/ DialogOpens \/ ToolEnd \/ PromptOpenFailsafe \/ TurnEnds
    \/ HumanTypes \/ HumanEnters \/ HumanEscapes \/ DraftIdles
    \/ ChildExits \/ dispose \/ ProcessExits

Spec == Init /\ [][Next]_vars

(* The timers of the process fire while it is up, the model's requests     *)
(* end and are finitely many, and teardown finishes.  Nothing is assumed   *)
(* of the hooks or of the tailer: the signals that a dialog was closed may *)
(* never come.  The draft timer is the person's: it does not run out while *)
(* keys come.                                                              *)
FairSpec ==
    /\ Spec
    /\ WF_vars(MarkReady) /\ WF_vars(Submit) /\ WF_vars(CooldownEnds)
    /\ WF_vars(FetchEnd) /\ WF_vars(BusyDebounced)
    /\ WF_vars(PromptOpenFailsafe) /\ WF_vars(dispose)

------------------------------------------------------------------------------
(* Types of the state; a disposed controller keeps no queue behind.        *)
Controllers == [queue : Seq(Msgs), typed : Msgs \cup {None}, flag : [Flags -> BOOLEAN]]
Terminals == [alive : BOOLEAN, composer : BOOLEAN, dialog : BOOLEAN,
              turn : BOOLEAN, fetching : BOOLEAN, toolUse : BOOLEAN]
TypeOK ==
    /\ ctl \in Controllers /\ (ctl.flag["disposed"] => ctl.queue = <<>>)
    /\ tui \in Terminals
    /\ accepted \in Seq(Msgs) /\ injected \in Seq(Msgs) /\ dropped \in Seq(Msgs)
    /\ draftTimer \in BOOLEAN /\ up \in BOOLEAN
    /\ used \in [{"dialog", "tool", "fetch"} -> Nat]

(* Six setters and two timers each remember to call tryFlush: no state is  *)
(* left in which the gate is open and a message waits for a signal that    *)
(* has already come.                                                       *)
NothingStranded == GateOpen(ctl) => ctl.queue = <<>>

(* Every message the controller took is waiting, being injected, or has    *)
(* been reported to the send-claims exactly once, as injected or as        *)
(* dropped: also when dispose() runs between a message's text and its      *)
(* Enter.  Messages are injected in the order they were taken.             *)
ReportedOnce ==
    /\ IsPrefix(injected \o Holding, accepted)
    /\ ToSet(accepted) = ToSet(injected \o dropped \o Holding \o ctl.queue)
    /\ Len(accepted) = Len(injected \o dropped \o Holding \o ctl.queue)

(* The person pauses for fifteen seconds, again and again.                 *)
PersonPauses == []<>~draftTimer

(* The only guard against a dialog whose clearing signal is lost is the    *)
(* failsafe: whatever becomes of the hooks and of the tailer, no message   *)
(* waits for ever, unless keys come for ever without a pause.  One message *)
(* may go unreported: the one whose Enter was due when the process exited. *)
EveryMessageReported ==
    PersonPauses =>
      \A m \in Msgs :
        (\E i \in DOMAIN accepted : accepted[i] = m)
          ~> \/ \E i \in DOMAIN (injected \o dropped) : (injected \o dropped)[i] = m
             \/ ~up /\ ctl.typed = m
==============================================================================
