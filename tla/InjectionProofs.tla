--------------------------- MODULE InjectionProofs ---------------------------
(***************************************************************************)
(* Proofs about the injection controller, for any messages and bounds: its *)
(* types, that an open gate leaves nothing in the queue, and that every    *)
(* message is reported once.                                               *)
(***************************************************************************)
EXTENDS Injection, SequenceTheorems, TLAPS

\* A controller that is disposed has no queue.
Emptied(c) == c.flag["disposed"] => c.queue = <<>>
\* A controller whose gate is open has no queue.
Tidy(c) == GateOpen(c) => c.queue = <<>>

LEMMA QueueHead ==
  ASSUME NEW q \in Seq(Msgs), q # <<>>
  PROVE  Head(q) \in Msgs /\ Tail(q) \in Seq(Msgs)
  BY HeadTailProperties

\* A flush leaves nothing behind an open gate.
LEMMA FlushTidies ==
  ASSUME NEW c \in Controllers, Emptied(c)
  PROVE  /\ tryFlush(c) \in Controllers
         /\ Emptied(tryFlush(c))
         /\ Tidy(tryFlush(c))
         /\ tryFlush(c).flag = c.flag
<1>1. CASE GateOpen(c) /\ c.queue # <<>>
  <2> DEFINE d == [c EXCEPT !.queue = Tail(@), !.typed = Head(c.queue)]
  <2>1. Head(c.queue) \in Msgs /\ Tail(c.queue) \in Seq(Msgs)
    BY <1>1, QueueHead DEF Controllers
  <2>2. d \in Controllers /\ d.flag = c.flag /\ d.typed = Head(c.queue)
    BY <2>1 DEF Controllers
  <2>3. tryFlush(c) = d
    BY <1>1 DEF tryFlush
  <2>4. ~GateOpen(d)
    BY <2>1, <2>2, BoundsAssumption DEF GateOpen
  <2>5. ~c.flag["disposed"]
    BY <1>1 DEF Emptied
  <2> HIDE DEF d
  <2> QED
    BY <2>2, <2>3, <2>4, <2>5 DEF Emptied, Tidy
<1>2. CASE ~(GateOpen(c) /\ c.queue # <<>>)
  BY <1>2 DEF tryFlush, Tidy
<1> QED
  BY <1>1, <1>2

\* Raising or lowering a flag other than disposed.
LEMMA SetType ==
  ASSUME NEW c \in Controllers, Emptied(c), NEW f \in Flags \ {"disposed"}, NEW b \in BOOLEAN
  PROVE  Set(c, f, b) \in Controllers /\ Emptied(Set(c, f, b))
  BY DEF Set, Controllers, Emptied, Flags

\* A flag other than ready that is up closes the gate.
LEMMA SetCloses ==
  ASSUME NEW c \in Controllers, NEW f \in Flags \ {"ready"}
  PROVE  Tidy(Set(c, f, TRUE))
<1>1. Set(c, f, TRUE).flag[f]
  BY DEF Set, Controllers
<1> QED
  BY <1>1 DEF Tidy, GateOpen

\* The terminal keeps its type, whatever is written to it.
LEMMA WrittenType ==
  ASSUME NEW t \in Terminals PROVE Written(t) \in Terminals
  BY DEF Written, Terminals

LEMMA AfterFlushType ==
  ASSUME NEW c \in Controllers, NEW t \in Terminals PROVE AfterFlush(c, t) \in Terminals
  BY WrittenType DEF AfterFlush

LEMMA EnteredType ==
  ASSUME NEW t \in Terminals PROVE Entered(t) \in Terminals
<1>1. [t EXCEPT !.composer = FALSE, !.turn = @ \/ t.composer] \in Terminals
  <2>1. (t.turn \/ t.composer) \in BOOLEAN
    BY Zenon
  <2> QED
    BY <2>1 DEF Terminals
<1>2. [t EXCEPT !.dialog = FALSE] \in Terminals
  BY DEF Terminals
<1> QED
  BY <1>1, <1>2 DEF Entered

LEMMA EscapedType ==
  ASSUME NEW t \in Terminals PROVE Escaped(t) \in Terminals
  BY DEF Escaped, Terminals

------------------------------------------------------------------------------
IInv == TypeOK /\ NothingStranded

\* What a step has to show of the controller and of the terminal.
Sound(c, t) == c \in Controllers /\ Emptied(c) /\ Tidy(c) /\ t \in Terminals
History == /\ accepted \in Seq(Msgs) /\ injected \in Seq(Msgs) /\ dropped \in Seq(Msgs)
           /\ used \in [{"dialog", "tool", "fetch"} -> Nat]
           /\ draftTimer \in BOOLEAN /\ up \in BOOLEAN

LEMMA IInvIs == IInv <=> Sound(ctl, tui) /\ History
  BY DEF IInv, TypeOK, NothingStranded, Sound, History, Emptied, Tidy
LEMMA IInvIsNext == IInv' <=> Sound(ctl', tui') /\ History'
  BY DEF IInv, TypeOK, NothingStranded, Sound, History, Emptied, Tidy, GateOpen

\* A setter of the controller.
LEMMA SetterSound ==
  ASSUME IInv, NEW f \in Flags \ {"disposed"}, NEW b \in BOOLEAN, Setter(f, b)
  PROVE  Sound(ctl', tui')
<1>1. ctl \in Controllers /\ Emptied(ctl) /\ tui \in Terminals
  BY IInvIs DEF Sound
<1>2. Set(ctl, f, b) \in Controllers /\ Emptied(Set(ctl, f, b))
  BY <1>1, SetType
<1>3. ctl' \in Controllers /\ Emptied(ctl') /\ Tidy(ctl')
  BY <1>2, FlushTidies DEF Setter
<1>4. tui' \in Terminals
  BY <1>1, <1>3, AfterFlushType DEF Setter
<1> QED
  BY <1>3, <1>4 DEF Sound

\* A flag raised without a flush, as the busy and dialog signals do.
LEMMA RaiseSound ==
  ASSUME IInv, NEW f \in Flags \ {"disposed", "ready"}, NEW t \in Terminals,
         ctl' = IF ctl.flag["disposed"] THEN ctl ELSE Set(ctl, f, TRUE), tui' = t
  PROVE  Sound(ctl', tui')
<1>1. Sound(ctl, tui)
  BY IInvIs
<1>2. CASE ctl' = ctl
  BY <1>1, <1>2 DEF Sound
<1>3. CASE ctl' = Set(ctl, f, TRUE)
  BY <1>1, <1>3, SetType, SetCloses DEF Sound
<1> QED
  BY <1>2, <1>3

\* The bookkeeping of a key.
LEMMA DraftingSound ==
  ASSUME IInv, NEW b \in BOOLEAN
  PROVE  Drafting(b) \in Controllers /\ Emptied(Drafting(b)) /\ Tidy(Drafting(b))
<1>1. ctl \in Controllers /\ Emptied(ctl) /\ Tidy(ctl)
  BY IInvIs DEF Sound
<1>2. /\ Set(ctl, "localDraft", b) \in Controllers
      /\ Emptied(Set(ctl, "localDraft", b))
  BY <1>1, SetType DEF Flags
<1> QED
  BY <1>1, <1>2, FlushTidies DEF Drafting

LEMMA SpendType ==
  ASSUME IInv, NEW k \in {"dialog", "tool", "fetch"}, NEW n, Spend(k, n)
  PROVE  used' \in [{"dialog", "tool", "fetch"} -> Nat]
  BY DEF IInv, TypeOK, Spend

\* Every step keeps the invariant.
LEMMA InvStep == IInv /\ [Next]_vars => IInv'
<1> SUFFICES ASSUME IInv, [Next]_vars PROVE IInv'
  OBVIOUS
<1>0. /\ ctl \in Controllers /\ Emptied(ctl) /\ Tidy(ctl) /\ tui \in Terminals
      /\ History
  BY IInvIs DEF Sound
<1>1. ASSUME NEW m \in Msgs, Enqueue(m) PROVE IInv'
  <2> DEFINE c == [ctl EXCEPT !.queue = Append(@, m)]
  <2>1. Append(ctl.queue, m) \in Seq(Msgs) /\ Append(accepted, m) \in Seq(Msgs)
    BY <1>0, AppendProperties DEF Controllers, History
  <2>2. c \in Controllers /\ Emptied(c)
    BY <1>0, <1>1, <2>1 DEF Controllers, Emptied, Enqueue
  <2>3. ctl' = tryFlush(c) /\ tui' = AfterFlush(ctl', tui)
    BY <1>1 DEF Enqueue
  <2> HIDE DEF c
  <2>4. Sound(ctl', tui')
    BY <1>0, <2>2, <2>3, FlushTidies, AfterFlushType DEF Sound
  <2>5. History'
    BY <1>0, <1>1, <2>1 DEF Enqueue, History
  <2> QED
    BY <2>4, <2>5, IInvIsNext
<1>2. CASE MarkReady \/ CooldownEnds \/ BusyDebounced \/ PromptOpenFailsafe
  <2>1. Sound(ctl', tui')
    BY <1>2, SetterSound DEF MarkReady, CooldownEnds, BusyDebounced, PromptOpenFailsafe, Flags
  <2>2. History'
    BY <1>0, <1>2 DEF MarkReady, CooldownEnds, BusyDebounced, PromptOpenFailsafe, History
  <2> QED
    BY <2>1, <2>2, IInvIsNext
<1>3. CASE ToolEnd
  <2>1. Sound(ctl', tui')
    BY <1>3, SetterSound DEF ToolEnd, Flags
  <2>2. used' \in [{"dialog", "tool", "fetch"} -> Nat]
    BY <1>0, <1>3, SpendType DEF ToolEnd, History
  <2>3. History'
    BY <1>0, <1>3, <2>2 DEF ToolEnd, History
  <2> QED
    BY <2>1, <2>3, IInvIsNext
<1>13. CASE DraftIdles
  <2>1. /\ Set(ctl, "localDraft", FALSE) \in Controllers
        /\ Emptied(Set(ctl, "localDraft", FALSE))
    BY <1>0, SetType DEF Flags
  <2>2. ctl' = ctl \/ ctl' = tryFlush(Set(ctl, "localDraft", FALSE))
    BY <1>13 DEF DraftIdles
  <2>3. ctl' \in Controllers /\ Emptied(ctl') /\ Tidy(ctl')
    BY <1>0, <2>1, <2>2, FlushTidies
  <2>4. Sound(ctl', tui')
    BY <1>0, <1>13, <2>3, AfterFlushType DEF Sound, DraftIdles
  <2>5. History'
    BY <1>0, <1>13 DEF DraftIdles, History
  <2> QED
    BY <2>4, <2>5, IInvIsNext
<1>14. CASE ProcessExits
  <2>1. Sound(ctl', tui') /\ History'
    BY <1>0, <1>14 DEF ProcessExits, Sound, History
  <2> QED
    BY <2>1, IInvIsNext
<1>4. CASE Submit
  <2>1. ctl.typed \in Msgs
    BY <1>0, <1>4 DEF Submit, Controllers
  <2>2. Append(dropped, ctl.typed) \in Seq(Msgs) /\ Append(injected, ctl.typed) \in Seq(Msgs)
    BY <1>0, <2>1, AppendProperties DEF History
  <2> DEFINE c == [ctl EXCEPT !.typed = None]
  <2>3. c \in Controllers /\ Emptied(c) /\ c.flag = ctl.flag
    BY <1>0 DEF Controllers, Emptied
  <2>4. CASE ctl.flag["disposed"]
    <3>1. ctl' = c /\ tui' = tui /\ injected' = injected
          /\ dropped' = Append(dropped, ctl.typed)
      BY <1>4, <2>4 DEF Submit
    <3> HIDE DEF c
    <3>2. Tidy(c)
      BY <2>3, <2>4 DEF Tidy, GateOpen, Flags
    <3>3. Sound(ctl', tui')
      BY <1>0, <2>3, <3>1, <3>2 DEF Sound
    <3>4. History'
      BY <1>0, <1>4, <2>2, <3>1 DEF History, Submit
    <3> QED
      BY <3>3, <3>4, IInvIsNext
  <2>5. CASE ~ctl.flag["disposed"]
    <3>1. ctl' = Set(c, "cooldown", TRUE) /\ tui' = Entered(tui)
          /\ injected' = Append(injected, ctl.typed) /\ dropped' = dropped
      BY <1>4, <2>5 DEF Submit
    <3> HIDE DEF c
    <3>2. ctl' \in Controllers /\ Emptied(ctl') /\ Tidy(ctl')
      BY <2>3, <3>1, SetType, SetCloses DEF Flags
    <3>3. Sound(ctl', tui')
      BY <1>0, <3>1, <3>2, EnteredType DEF Sound
    <3>4. History'
      BY <1>0, <1>4, <2>2, <3>1 DEF History, Submit
    <3> QED
      BY <3>3, <3>4, IInvIsNext
  <2> QED
    BY <2>4, <2>5
<1>5. CASE FetchStart
  <2>1. [tui EXCEPT !.fetching = TRUE] \in Terminals
    BY <1>0 DEF Terminals
  <2>2. Sound(ctl', tui')
    BY <1>5, <2>1, RaiseSound DEF FetchStart, Flags
  <2>3. History'
    BY <1>0, <1>5, SpendType DEF FetchStart, History
  <2> QED
    BY <2>2, <2>3, IInvIsNext
<1>6. CASE DialogOpens
  <2>1. [tui EXCEPT !.dialog = TRUE] \in Terminals
    BY <1>0 DEF Terminals
  <2>2. Sound(ctl', tui')
    BY <1>6, <2>1, RaiseSound DEF DialogOpens, Flags
  <2>3. History'
    BY <1>0, <1>6, SpendType DEF DialogOpens, History
  <2> QED
    BY <2>2, <2>3, IInvIsNext
<1>7. CASE FetchEnd
  <2>1. tui' \in Terminals
    BY <1>0, <1>7 DEF FetchEnd, Terminals
  <2>2. Sound(ctl', tui') /\ History'
    BY <1>0, <1>7, <2>1 DEF FetchEnd, Sound, History
  <2> QED
    BY <2>2, IInvIsNext
<1>8. CASE TurnEnds
  <2> DEFINE t == [tui EXCEPT !.turn = FALSE, !.toolUse = FALSE]
  <2>1. t \in Terminals
    BY <1>0 DEF Terminals
  <2>2. Set(ctl, "promptOpen", FALSE) \in Controllers /\ Emptied(Set(ctl, "promptOpen", FALSE))
    BY <1>0, SetType DEF Flags
  <2>3. ctl' = ctl \/ ctl' = tryFlush(Set(ctl, "promptOpen", FALSE))
    BY <1>8 DEF TurnEnds
  <2>4. ctl' \in Controllers /\ Emptied(ctl') /\ Tidy(ctl')
    BY <1>0, <2>2, <2>3, FlushTidies
  <2>5. tui' = AfterFlush(ctl', t)
    BY <1>8 DEF TurnEnds
  <2> HIDE DEF t
  <2>6. Sound(ctl', tui')
    BY <2>1, <2>4, <2>5, AfterFlushType DEF Sound
  <2>7. History'
    BY <1>0, <1>8 DEF TurnEnds, History
  <2> QED
    BY <2>6, <2>7, IInvIsNext
<1>9. CASE HumanTypes \/ HumanEnters \/ HumanEscapes
  <2>1. ctl' = Drafting(TRUE) \/ ctl' = Drafting(FALSE)
    BY <1>9 DEF HumanTypes, HumanEnters, HumanEscapes
  <2>2. ctl' \in Controllers /\ Emptied(ctl') /\ Tidy(ctl')
    BY <2>1, DraftingSound
  <2>3. AfterFlush(ctl', tui) \in Terminals
    BY <1>0, <2>2, AfterFlushType
  <2>4. tui' \in Terminals
    BY <1>0, <1>9, <2>3, WrittenType, EnteredType, EscapedType DEF HumanTypes, HumanEnters, HumanEscapes
  <2>5. History'
    <3>1. draftTimer' \in BOOLEAN
      BY <1>0, <1>9 DEF HumanTypes, HumanEnters, HumanEscapes, History
    <3> QED
      BY <1>0, <1>9, <3>1 DEF HumanTypes, HumanEnters, HumanEscapes, History
  <2> QED
    BY <2>2, <2>4, <2>5, IInvIsNext DEF Sound
<1>10. CASE ChildExits
  <2>1. tui' \in Terminals
    BY <1>0, <1>10 DEF ChildExits, Terminals
  <2>2. Sound(ctl', tui') /\ History'
    BY <1>0, <1>10, <2>1 DEF ChildExits, Sound, History
  <2> QED
    BY <2>2, IInvIsNext
<1>11. CASE dispose
  <2> DEFINE c == [ctl EXCEPT !.queue = <<>>]
  <2>0. <<>> \in Seq(Msgs)
    OBVIOUS
  <2>1. c \in Controllers /\ c.queue = <<>>
    BY <1>0, <2>0 DEF Controllers
  <2>2. ctl' = Set(c, "disposed", TRUE) /\ tui' = tui
    BY <1>11 DEF dispose
  <2>3. Set(c, "disposed", TRUE) \in Controllers /\ Set(c, "disposed", TRUE).queue = <<>>
    BY <2>1 DEF Controllers, Set, Flags
  <2> HIDE DEF c
  <2>4. Sound(ctl', tui')
    BY <1>0, <2>2, <2>3 DEF Sound, Emptied, Tidy
  <2>5. dropped \o ctl.queue \in Seq(Msgs)
    BY <1>0, ConcatProperties DEF History, Controllers
  <2>6. History'
    BY <1>0, <1>11, <2>5 DEF dispose, History
  <2> QED
    BY <2>4, <2>6, IInvIsNext
<1>12. CASE UNCHANGED vars
  <2>1. Sound(ctl', tui') /\ History'
    BY <1>0, <1>12 DEF vars, Sound, History
  <2> QED
    BY <2>1, IInvIsNext
<1> QED
  BY <1>1, <1>2, <1>3, <1>4, <1>5, <1>6, <1>7, <1>8, <1>9, <1>10, <1>11, <1>12, <1>13, <1>14
     DEF Next

LEMMA InvInit == Init => IInv
<1> SUFFICES ASSUME Init PROVE IInv
  OBVIOUS
<1>1. <<>> \in Seq(Msgs)
  OBVIOUS
<1>2. ctl \in Controllers /\ ctl.queue = <<>>
  BY <1>1 DEF Init, Controllers
<1>3. tui \in Terminals
  BY <1>1 DEF Init, Terminals
<1>5. draftTimer \in BOOLEAN /\ up \in BOOLEAN
  BY Zenon DEF Init
<1>4. History
  BY <1>1, <1>5 DEF Init, History
<1> QED
  BY <1>2, <1>3, <1>4, IInvIs DEF Sound, Emptied, Tidy

\* The controller and the terminal keep to their types, and a disposed
\* controller has no queue.
THEOREM TypeCorrect == Spec => []TypeOK
<1>1. IInv => TypeOK
  BY DEF IInv
<1> QED
  BY <1>1, InvInit, InvStep, PTL DEF Spec

\* No message waits behind an open gate.
THEOREM NothingStrandedCorrect == Spec => []NothingStranded
<1>1. IInv => NothingStranded
  BY DEF IInv
<1> QED
  BY <1>1, InvInit, InvStep, PTL DEF Spec

------------------------------------------------------------------------------
\* ReportedOnce: the books.

\* What a controller has taken and not reported, in the order of the reports.
Held(c) == IF c.typed = None THEN <<>> ELSE <<c.typed>>
Line(c) == Held(c) \o c.queue

\* Until dispose() the messages taken are those injected and then the line;
\* afterwards the line's queue has become the dropped ones, and the message
\* between its text and its Enter, reported last, is dropped behind them.
Books ==
    /\ ~ctl.flag["disposed"] => dropped = <<>> /\ accepted = injected \o Line(ctl)
    /\ ctl.flag["disposed"] =>
         \/ accepted = injected \o (Holding \o dropped)
         \/ /\ ctl.typed = None
            /\ \E m \in Msgs, q \in Seq(Msgs) :
                 dropped = Append(q, m) /\ accepted = injected \o (<<m>> \o q)

LEMMA LineType ==
  ASSUME NEW c \in Controllers PROVE Held(c) \in Seq(Msgs) /\ Line(c) \in Seq(Msgs)
<1>1. c.typed # None => <<c.typed>> \in Seq(Msgs)
  BY DEF Controllers
<1>2. Held(c) \in Seq(Msgs) /\ c.queue \in Seq(Msgs)
  BY <1>1, EmptySeq DEF Held, Controllers
<1> QED
  BY <1>2, ConcatProperties DEF Line

LEMMA Associates ==
  \A a, b, c \in Seq(Msgs) : (a \o b) \o c = a \o (b \o c)
  BY ConcatAssociative

LEMMA Ranges ==
  \A a, b \in Seq(Msgs) : Range(a \o b) = Range(a) \cup Range(b)
  BY RangeConcatenation

LEMMA HeadThenTail ==
  ASSUME NEW q \in Seq(Msgs), q # <<>> PROVE <<Head(q)>> \o Tail(q) = q
<1>1. Head(q) \in Msgs /\ Tail(q) \in Seq(Msgs) /\ Len(Tail(q)) = Len(q) - 1
      /\ \A i \in 1 .. Len(Tail(q)) : Tail(q)[i] = q[i + 1]
  BY HeadTailProperties
<1>2. <<Head(q)>> \in Seq(Msgs) /\ Len(<<Head(q)>>) = 1 /\ <<Head(q)>>[1] = q[1]
  BY <1>1
<1> DEFINE r == <<Head(q)>> \o Tail(q)
<1>3. r \in Seq(Msgs) /\ Len(r) = 1 + Len(Tail(q))
      /\ \A i \in 1 .. 1 + Len(Tail(q)) : r[i] = IF i <= 1 THEN <<Head(q)>>[i] ELSE Tail(q)[i - 1]
  BY <1>1, <1>2, ConcatProperties
<1>4. Len(q) \in Nat
  OBVIOUS
<1>5. \A i \in 1 .. Len(r) : r[i] = q[i]
  <2> SUFFICES ASSUME NEW i \in 1 .. Len(r) PROVE r[i] = q[i]
    OBVIOUS
  <2>1. CASE i = 1
    BY <1>1, <1>2, <1>3, <1>4, <2>1
  <2>2. CASE i # 1
    <3>1. i - 1 \in 1 .. Len(Tail(q)) /\ (i - 1) + 1 = i
      BY <1>1, <1>3, <1>4, <2>2
    <3>2. Tail(q)[i - 1] = q[i]
      BY <1>1, <3>1
    <3> QED
      BY <1>1, <1>3, <1>4, <2>2, <3>2
  <2> QED
    BY <2>1, <2>2
<1> HIDE DEF r
<1>6. Len(r) = Len(q)
  BY <1>1, <1>3, <1>4
<1>7. r = q
  BY <1>3, <1>5, <1>6, SeqEqual
<1> QED
  BY <1>7 DEF r

\* A flush moves the head of the queue, and the line stays what it is.
LEMMA FlushKeepsLine ==
  ASSUME NEW c \in Controllers PROVE Line(tryFlush(c)) = Line(c)
<1>1. CASE GateOpen(c) /\ c.queue # <<>>
  <2> DEFINE d == [c EXCEPT !.queue = Tail(@), !.typed = Head(c.queue)]
  <2>1. c.queue \in Seq(Msgs) /\ Head(c.queue) \in Msgs
    BY <1>1, QueueHead DEF Controllers
  <2>2. tryFlush(c) = d /\ d.queue = Tail(c.queue) /\ d.typed = Head(c.queue)
    BY <1>1 DEF tryFlush, Controllers
  <2> HIDE DEF d
  <2>3. Held(d) = <<Head(c.queue)>> /\ Held(c) = <<>>
    BY <1>1, <2>1, <2>2, BoundsAssumption DEF Held, GateOpen
  <2>4. Line(d) = c.queue
    BY <1>1, <2>1, <2>2, <2>3, HeadThenTail DEF Line
  <2>5. Line(c) = c.queue
    BY <2>1, <2>3, ConcatEmptySeq DEF Line
  <2> QED
    BY <2>2, <2>4, <2>5
<1>2. CASE ~(GateOpen(c) /\ c.queue # <<>>)
  BY <1>2 DEF tryFlush
<1> QED
  BY <1>1, <1>2

\* Raising and lowering flags leaves the line alone, with a flush or without.
LEMMA SetKeepsLine ==
  ASSUME NEW c \in Controllers, Emptied(c), NEW f \in Flags \ {"disposed"}, NEW b \in BOOLEAN
  PROVE  /\ Line(Set(c, f, b)) = Line(c)
         /\ Line(tryFlush(Set(c, f, b))) = Line(c)
         /\ Set(c, f, b).flag["disposed"] = c.flag["disposed"]
         /\ tryFlush(Set(c, f, b)).flag["disposed"] = c.flag["disposed"]
<1>1. Set(c, f, b) \in Controllers /\ Emptied(Set(c, f, b))
  BY SetType
<1>2. Line(Set(c, f, b)) = Line(c) /\ Set(c, f, b).flag["disposed"] = c.flag["disposed"]
  BY DEF Set, Line, Held, Controllers, Flags
<1> QED
  BY <1>1, <1>2, FlushKeepsLine, FlushTidies

\* A step that reports nothing, takes nothing and leaves the line alone.
Silent ==
    /\ UNCHANGED <<accepted, injected, dropped>>
    /\ ctl'.flag["disposed"] = ctl.flag["disposed"]
    /\ ctl.flag["disposed"] => ctl' = ctl
    /\ Line(ctl') = Line(ctl)
LEMMA SilentKeepsBooks == Books /\ Silent => Books'
<1> SUFFICES ASSUME Books, Silent PROVE Books'
  OBVIOUS
<1>1. CASE ctl.flag["disposed"]
  BY <1>1 DEF Books, Silent, Holding
<1>2. CASE ~ctl.flag["disposed"]
  BY <1>2 DEF Books, Silent
<1> QED
  BY <1>1, <1>2

LEMMA BooksStep == IInv /\ Books /\ [Next]_vars => Books'
<1> SUFFICES ASSUME IInv, Books, [Next]_vars PROVE Books'
  OBVIOUS
<1>0. /\ ctl \in Controllers /\ Emptied(ctl) /\ ctl.queue \in Seq(Msgs)
      /\ ctl.typed \in Msgs \cup {None}
      /\ accepted \in Seq(Msgs) /\ injected \in Seq(Msgs) /\ dropped \in Seq(Msgs)
      /\ Held(ctl) \in Seq(Msgs) /\ Line(ctl) \in Seq(Msgs)
  BY IInvIs, LineType DEF Sound, History, Controllers
<1>1. ASSUME NEW m \in Msgs, Enqueue(m) PROVE Books'
  <2> DEFINE c == [ctl EXCEPT !.queue = Append(@, m)]
  <2>0. <<m>> \in Seq(Msgs)
    OBVIOUS
  <2>1. Append(ctl.queue, m) \in Seq(Msgs) /\ Append(ctl.queue, m) = ctl.queue \o <<m>>
    BY <1>0, AppendProperties, AppendIsConcat
  <2>2. c \in Controllers /\ Emptied(c) /\ c.queue = ctl.queue \o <<m>>
        /\ Held(c) = Held(ctl) /\ c.flag = ctl.flag
    BY <1>0, <1>1, <2>1 DEF Controllers, Emptied, Enqueue, Held
  <2>3. ctl' = tryFlush(c) /\ ~ctl.flag["disposed"]
        /\ accepted' = Append(accepted, m) /\ UNCHANGED <<injected, dropped>>
    BY <1>1 DEF Enqueue
  <2> HIDE DEF c
  <2>4. Line(ctl') = Line(ctl) \o <<m>>
    <3>1. Line(ctl') = Held(ctl) \o (ctl.queue \o <<m>>)
      BY <2>2, <2>3, FlushKeepsLine DEF Line
    <3>2. (Held(ctl) \o ctl.queue) \o <<m>> = Held(ctl) \o (ctl.queue \o <<m>>)
      BY <1>0, <2>0, Associates, Zenon
    <3> QED
      BY <3>1, <3>2 DEF Line
  <2>5. ~ctl'.flag["disposed"]
    BY <2>2, <2>3, FlushTidies
  <2>6. accepted = injected \o Line(ctl) /\ dropped = <<>>
    BY <2>3 DEF Books
  <2>7. accepted' = (injected \o Line(ctl)) \o <<m>>
    BY <1>0, <2>3, <2>6, AppendIsConcat
  <2>8. accepted' = injected' \o Line(ctl')
    <3>1. injected \in Seq(Msgs) /\ Line(ctl) \in Seq(Msgs) /\ <<m>> \in Seq(Msgs)
      BY <1>0, <2>0
    <3>2. (injected \o Line(ctl)) \o <<m>> = injected \o (Line(ctl) \o <<m>>)
      BY <3>1, Associates, Zenon
    <3> QED
      BY <2>3, <2>4, <2>7, <3>2
  <2> QED
    BY <2>3, <2>5, <2>6, <2>8 DEF Books
<1>2. ASSUME NEW f \in Flags \ {"disposed"}, NEW b \in BOOLEAN, Setter(f, b),
             UNCHANGED <<accepted, injected, dropped>>
      PROVE  Books'
  <2>1. Silent
    BY <1>0, <1>2, SetKeepsLine DEF Setter, Silent
  <2> QED
    BY <2>1, SilentKeepsBooks
<1>3. CASE MarkReady \/ CooldownEnds \/ BusyDebounced \/ PromptOpenFailsafe \/ ToolEnd
  BY <1>2, <1>3 DEF MarkReady, CooldownEnds, BusyDebounced, PromptOpenFailsafe, ToolEnd, Flags
<1>10. CASE DraftIdles
  <2>1. /\ UNCHANGED <<accepted, injected, dropped>>
        /\ ctl' = IF ctl.flag["disposed"] \/ ~ctl.flag["localDraft"] THEN ctl
                  ELSE tryFlush(Set(ctl, "localDraft", FALSE))
    BY <1>10 DEF DraftIdles
  <2>2. Silent
    BY <1>0, <2>1, SetKeepsLine DEF Silent, Flags
  <2> QED
    BY <2>2, SilentKeepsBooks
<1>4. CASE FetchStart \/ DialogOpens
  <2>1. PICK f \in {"busy", "promptOpen"} :
          ctl' = IF ctl.flag["disposed"] THEN ctl ELSE Set(ctl, f, TRUE)
    BY <1>4 DEF FetchStart, DialogOpens
  <2>2. f \in Flags \ {"disposed"}
    BY DEF Flags
  <2>3. UNCHANGED <<accepted, injected, dropped>>
    BY <1>4 DEF FetchStart, DialogOpens
  <2>4. Silent
    BY <1>0, <2>1, <2>2, <2>3, SetKeepsLine DEF Silent
  <2> QED
    BY <2>4, SilentKeepsBooks
<1>5. CASE TurnEnds
  <2>1. /\ UNCHANGED <<accepted, injected, dropped>>
        /\ ctl' = IF ctl.flag["disposed"] \/ ~ctl.flag["promptOpen"] THEN ctl
                  ELSE tryFlush(Set(ctl, "promptOpen", FALSE))
    BY <1>5 DEF TurnEnds
  <2>2. Silent
    BY <1>0, <2>1, SetKeepsLine DEF Silent, Flags
  <2> QED
    BY <2>2, SilentKeepsBooks
<1>6. CASE HumanTypes \/ HumanEnters \/ HumanEscapes
  <2>1. PICK b \in BOOLEAN : ctl' = Drafting(b)
    BY <1>6 DEF HumanTypes, HumanEnters, HumanEscapes
  <2>2. UNCHANGED <<accepted, injected, dropped>>
    BY <1>6 DEF HumanTypes, HumanEnters, HumanEscapes
  <2>3. Silent
    BY <1>0, <2>1, <2>2, SetKeepsLine DEF Drafting, Silent, Flags
  <2> QED
    BY <2>3, SilentKeepsBooks
<1>7. CASE FetchEnd \/ ChildExits \/ ProcessExits \/ UNCHANGED vars
  <2>1. Silent
    BY <1>7 DEF FetchEnd, ChildExits, ProcessExits, vars, Silent
  <2> QED
    BY <2>1, SilentKeepsBooks
<1>8. CASE Submit
  <2> DEFINE t == ctl.typed
             c == [ctl EXCEPT !.typed = None]
  <2>1. t \in Msgs /\ <<t>> \in Seq(Msgs) /\ Held(ctl) = <<t>> /\ Holding = <<t>>
    BY <1>0, <1>8 DEF Submit, Held, Holding
  <2>2. /\ c.queue = ctl.queue /\ c.flag = ctl.flag /\ c.typed = None
        /\ c \in Controllers /\ Emptied(c)
    BY <1>0 DEF Controllers, Emptied
  <2>3. CASE ctl.flag["disposed"]
    <3>1. ctl' = c /\ dropped' = Append(dropped, t) /\ UNCHANGED <<accepted, injected>>
      BY <1>8, <2>3 DEF Submit
    <3>2. accepted = injected \o (<<t>> \o dropped)
      BY <1>8, <2>1, <2>3 DEF Books, Submit
    <3> QED
      BY <1>0, <2>1, <2>2, <2>3, <3>1, <3>2 DEF Books
  <2>4. CASE ~ctl.flag["disposed"]
    <3>1. ctl' = Set(c, "cooldown", TRUE) /\ injected' = Append(injected, t)
          /\ UNCHANGED <<accepted, dropped>>
      BY <1>8, <2>4 DEF Submit
    <3> HIDE DEF c
    <3>2. Line(c) = ctl.queue
      BY <1>0, <2>2, ConcatEmptySeq DEF Line, Held
    <3>3. Line(ctl') = ctl.queue /\ ~ctl'.flag["disposed"]
      <4>1. "cooldown" \in Flags \ {"disposed"}
        BY DEF Flags
      <4>2. /\ Line(Set(c, "cooldown", TRUE)) = Line(c)
            /\ Set(c, "cooldown", TRUE).flag["disposed"] = c.flag["disposed"]
        BY <2>2, <4>1, SetKeepsLine
      <4> QED
        BY <2>2, <2>4, <3>1, <3>2, <4>2
    <3>4. accepted = injected \o (<<t>> \o ctl.queue) /\ dropped = <<>>
      BY <2>1, <2>4 DEF Books, Line
    <3>5. injected' = injected \o <<t>>
      BY <1>0, <2>1, <3>1, AppendIsConcat
    <3>6. accepted' = injected' \o Line(ctl')
      <4>1. (injected \o <<t>>) \o ctl.queue = injected \o (<<t>> \o ctl.queue)
        BY <1>0, <2>1, Associates, Zenon
      <4> QED
        BY <3>1, <3>3, <3>4, <3>5, <4>1
    <3> QED
      BY <3>1, <3>3, <3>4, <3>6 DEF Books
  <2> QED
    BY <2>3, <2>4
<1>9. CASE dispose
  <2>1. /\ ~ctl.flag["disposed"] /\ dropped' = dropped \o ctl.queue
        /\ UNCHANGED <<accepted, injected>>
        /\ ctl' = Set([ctl EXCEPT !.queue = <<>>], "disposed", TRUE)
    BY <1>9 DEF dispose
  <2>2. ctl'.typed = ctl.typed /\ ctl'.flag["disposed"]
    BY <1>0, <2>1 DEF Set, Controllers, Flags
  <2>3. dropped = <<>> /\ accepted = injected \o (Held(ctl) \o ctl.queue)
    BY <2>1 DEF Books, Line
  <2>4. dropped' = ctl.queue
    BY <1>0, <2>1, <2>3, ConcatEmptySeq
  <2>5. Holding' = Held(ctl)
    BY <2>2 DEF Holding, Held
  <2> QED
    BY <2>1, <2>2, <2>3, <2>4, <2>5 DEF Books
<1> QED
  BY <1>1, <1>3, <1>4, <1>5, <1>6, <1>7, <1>8, <1>9, <1>10 DEF Next

LEMMA PrefixOfConcat ==
  ASSUME NEW a \in Seq(Msgs), NEW b \in Seq(Msgs) PROVE IsPrefix(a, a \o b)
<1>1. Len(a) \in Nat /\ Len(b) \in Nat /\ Len(a \o b) = Len(a) + Len(b)
  BY ConcatProperties
<1>2. SubSeq(a, 1, Len(a)) = SubSeq(a \o b, 1, Len(a))
  <2>1. CASE Len(a) = 0
    BY <2>1, SubSeqEmpty
  <2>2. CASE Len(a) # 0
    <3>1. 1 \in 1 .. Len(a) /\ Len(a) \in 1 .. Len(a)
      BY <1>1, <2>2
    <3> QED
      BY <3>1, SubSeqOfConcat1
  <2> QED
    BY <2>1, <2>2
<1> QED
  BY <1>1, <1>2 DEF IsPrefix

\* Two neighbours may change places: the same elements, as many of them.
LEMMA SameReports ==
  ASSUME NEW a \in Seq(Msgs), NEW b \in Seq(Msgs), NEW c \in Seq(Msgs)
  PROVE  /\ ToSet(a \o (b \o c)) = ToSet((a \o c) \o b)
         /\ Len(a \o (b \o c)) = Len((a \o c) \o b)
<1>1. b \o c \in Seq(Msgs) /\ a \o c \in Seq(Msgs)
  BY ConcatProperties
<1>2. ToSet(a \o (b \o c)) = Range(a \o (b \o c)) /\ ToSet((a \o c) \o b) = Range((a \o c) \o b)
  BY DEF ToSet, Range
<1>3. ToSet(a \o (b \o c)) = Range(a) \cup (Range(b) \cup Range(c))
  <2>1. Range(b \o c) = Range(b) \cup Range(c)
    BY Ranges, Zenon
  <2>2. Range(a \o (b \o c)) = Range(a) \cup Range(b \o c)
    BY <1>1, Ranges, Zenon
  <2> QED
    BY <1>2, <2>1, <2>2
<1>4. ToSet((a \o c) \o b) = (Range(a) \cup Range(c)) \cup Range(b)
  <2>1. Range(a \o c) = Range(a) \cup Range(c)
    BY Ranges, Zenon
  <2>2. Range((a \o c) \o b) = Range(a \o c) \cup Range(b)
    BY <1>1, Ranges, Zenon
  <2> QED
    BY <1>2, <2>1, <2>2
<1>5. Len(a) \in Nat /\ Len(b) \in Nat /\ Len(c) \in Nat
  OBVIOUS
<1>6. Len(a \o (b \o c)) = Len(a) + (Len(b) + Len(c))
  BY <1>1, ConcatProperties
<1>7. Len((a \o c) \o b) = (Len(a) + Len(c)) + Len(b)
  BY <1>1, ConcatProperties
<1> QED
  BY <1>3, <1>4, <1>5, <1>6, <1>7

LEMMA BooksBalance == IInv /\ Books => ReportedOnce
<1> SUFFICES ASSUME IInv, Books PROVE ReportedOnce
  OBVIOUS
<1>0. /\ ctl.queue \in Seq(Msgs) /\ Holding \in Seq(Msgs)
      /\ accepted \in Seq(Msgs) /\ injected \in Seq(Msgs) /\ dropped \in Seq(Msgs)
      /\ Holding = Held(ctl) /\ (ctl.flag["disposed"] => ctl.queue = <<>>)
      /\ <<>> \in Seq(Msgs)
  BY IInvIs, LineType, EmptySeq DEF Sound, History, Controllers, Holding, Held, Emptied
<1> DEFINE all == injected \o dropped \o Holding \o ctl.queue
<1>1. ASSUME NEW r \in Seq(Msgs), accepted = injected \o (Holding \o r)
      PROVE  IsPrefix(injected \o Holding, accepted)
  <2>1. accepted = (injected \o Holding) \o r
    BY <1>0, <1>1, ConcatAssociative
  <2> QED
    BY <1>0, <2>1, ConcatProperties, PrefixOfConcat
<1>2. CASE ~ctl.flag["disposed"]
  <2>1. dropped = <<>> /\ accepted = injected \o (Holding \o ctl.queue)
    BY <1>0, <1>2 DEF Books, Line
  <2>2. all = (injected \o Holding) \o ctl.queue
    BY <1>0, <2>1, ConcatEmptySeq
  <2>3. all = accepted
    <3>1. (injected \o Holding) \o ctl.queue = injected \o (Holding \o ctl.queue)
      BY <1>0, Associates, Zenon
    <3> QED
      BY <2>1, <2>2, <3>1
  <2> QED
    BY <1>0, <1>1, <2>1, <2>3 DEF ReportedOnce
<1>3. CASE ctl.flag["disposed"] /\ accepted = injected \o (Holding \o dropped)
  <2>1. (injected \o dropped) \o Holding \in Seq(Msgs)
    BY <1>0, ConcatProperties
  <2>2. all = (injected \o dropped) \o Holding
    BY <1>0, <1>3, <2>1, ConcatEmptySeq
  <2>3. ToSet(accepted) = ToSet(all) /\ Len(accepted) = Len(all)
    BY <1>0, <1>3, <2>2, SameReports
  <2> QED
    BY <1>0, <1>1, <1>3, <2>3 DEF ReportedOnce
<1>4. ASSUME ctl.flag["disposed"], ctl.typed = None, NEW m \in Msgs, NEW q \in Seq(Msgs),
             dropped = Append(q, m), accepted = injected \o (<<m>> \o q)
      PROVE  ReportedOnce
  <2>1. <<m>> \in Seq(Msgs) /\ <<m>> \o q \in Seq(Msgs) /\ Holding = <<>>
    BY <1>0, <1>4, ConcatProperties DEF Held
  <2>2. dropped = q \o <<m>> /\ injected \o dropped \in Seq(Msgs)
    BY <1>0, <1>4, AppendIsConcat, ConcatProperties
  <2>3. all = injected \o (q \o <<m>>)
    <3>1. injected \o dropped \o <<>> \o <<>> = injected \o dropped
      BY <2>2, ConcatEmptySeq
    <3> QED
      BY <1>0, <1>4, <2>1, <2>2, <3>1
  <2>4. all = (injected \o q) \o <<m>>
    <3>1. injected \in Seq(Msgs) /\ q \in Seq(Msgs) /\ <<m>> \in Seq(Msgs)
      BY <1>0, <2>1
    <3>2. (injected \o q) \o <<m>> = injected \o (q \o <<m>>)
      BY <3>1, Associates, Zenon
    <3> QED
      BY <2>3, <3>2
  <2>5. ToSet(accepted) = ToSet(all) /\ Len(accepted) = Len(all)
    <3>1. /\ ToSet(injected \o (<<m>> \o q)) = ToSet((injected \o q) \o <<m>>)
          /\ Len(injected \o (<<m>> \o q)) = Len((injected \o q) \o <<m>>)
      BY <1>0, <2>1, SameReports
    <3> QED
      BY <1>4, <2>4, <3>1
  <2>6. accepted = injected \o (Holding \o (<<m>> \o q))
    BY <1>4, <2>1, ConcatEmptySeq
  <2> QED
    BY <1>1, <2>1, <2>5, <2>6 DEF ReportedOnce
<1> QED
  BY <1>2, <1>3, <1>4 DEF Books

\* Every message taken is waiting, being injected, or reported exactly once,
\* also when dispose() runs between its text and its Enter.
THEOREM ReportedOnceCorrect == Spec => []ReportedOnce
<1>1. Init => Books
  <2> SUFFICES ASSUME Init PROVE Books
    OBVIOUS
  <2>1. Line(ctl) = <<>> \o <<>> /\ ~ctl.flag["disposed"]
    BY DEF Init, Line, Held, Flags
  <2> QED
    BY <2>1, EmptySeq, ConcatEmptySeq DEF Init, Books
<1> QED
  BY <1>1, InvInit, InvStep, BooksStep, BooksBalance, PTL DEF Spec
==============================================================================
