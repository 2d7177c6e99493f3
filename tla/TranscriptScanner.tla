--------------------------- MODULE TranscriptScanner ---------------------------
(***************************************************************************)
(* The tailer of Claude Code's transcripts: it reads the files of the      *)
(* sessions it follows again and again and hands on every entry it has not *)
(* seen.  A pass over the files awaits each read; passes are asked for by  *)
(* the poll and the file watchers (coalesced), by flush() (the Stop hook,  *)
(* possibly several at a time) and by cleanup().                           *)
(*                                                                         *)
(* The process is single-threaded: an action is what runs between two      *)
(* awaits, and the continuations of settled promises run before any timer, *)
(* hook or finished read (Quiet).  Transcripts are external: Claude Code   *)
(* appends to them at any time, and an entry (a summary) may be in several *)
(* files.  A file is the set of its entries; one without any is absent.    *)
(*                                                                         *)
(* A read may fail (it then counts as a file without entries), and handing *)
(* an entry on may throw, which ends the pass: both are logged, and the    *)
(* entries left out wait for another pass, if there is one.                *)
(***************************************************************************)
EXTENDS Naturals

CONSTANTS
    Sessions,   \* provider session ids with a transcript in the directory
    Entries,    \* entry keys
    Flushers,   \* calls of flush() that may overlap
    NoOne       \* no session, no promise

Runners == Flushers \cup {"poll", "final"}
Idle == [on |-> FALSE, list |-> {}, todo |-> {}, got |-> {}]

ASSUME NamesDiffer ==
    NoOne \notin Sessions \cup Runners /\ "poll" \notin Flushers /\ "final" \notin Flushers

VARIABLES
    file,       \* the transcripts
    current, pending, finished, dead, watchers,
    hooked,     \* hookConfirmed
    armed,      \* before fallbackArmedUntil
    processed,  \* processedEntryKeys
    marking,    \* announced with treatExistingAsProcessed, being read
    running, rerun,
    promise,    \* currentSyncPromise, by the runner that settles it
    pass,       \* the runSync of each runner
    waits,      \* the promise a flush() waits for
    phase,      \* run, stopping, final, over: cleanup()
    awaited,    \* the promise cleanup() waits for
    shown,      \* history: how often an entry was handed on
    history,    \* history: the entries marked without being handed on
    want,       \* history: what was on disk when a flush() was called,
                \* but for what its own pass has missed
    tail,       \* history: the same of cleanup() and the final pass
    owed        \* history: sessions announced and not dropped since

sessions == <<current, pending, finished, dead, watchers, hooked, armed>>
sync == <<running, rerun, promise, pass, waits>>
ghosts == <<history, want, tail>>
vars == <<file, sessions, processed, marking, sync, phase, awaited, shown, ghosts, owed>>

stopped == phase # "run"

(* What a pass reads, given the session sets it starts from.               *)
Collected(cur, pend, watch, gone) ==
    ((pend \cup watch \cup {cur}) \ {NoOne}) \ gone
Followed == Collected(current, pending, watchers, dead)
OnDisk == UNION {file[s] : s \in Followed}

(* The child is about to be spawned.  createSessionScanner has returned:   *)
(* of a session known beforehand it has marked what it could read, and its *)
(* first pass has handed on what it read beyond that.  Another session to  *)
(* resume has been announced with treatExistingAsProcessed, not awaited.   *)
Init ==
    /\ file \in [Sessions -> SUBSET Entries]
    /\ current \in Sessions \cup {NoOne}
    /\ marking \in Sessions \cup {NoOne} /\ (current # NoOne => marking = NoOne)
    /\ watchers = {current} \ {NoOne}
    /\ hooked = (current # NoOne \/ marking # NoOne)
    /\ processed \in SUBSET UNION {file[s] : s \in watchers}
    /\ history \in SUBSET processed
    /\ shown = [e \in Entries |-> IF e \in processed \ history THEN 1 ELSE 0]
    /\ pending = {} /\ finished = {} /\ dead = {} /\ armed = TRUE
    /\ running = FALSE /\ rerun = FALSE /\ promise = NoOne
    /\ pass = [r \in Runners |-> Idle] /\ waits = [f \in Flushers |-> NoOne]
    /\ phase = "run" /\ awaited = NoOne
    /\ want = [f \in Flushers |-> {}] /\ tail = {} /\ owed = watchers

------------------------------------------------------------------------------
(* The promises that have settled and the continuations that run next.     *)
Settled(p) == p # NoOne => ~pass[p].on
Read_Done(r) == pass[r].on /\ pass[r].todo = {} /\ pass[r].got = {}
Quiet ==
    /\ \A f \in Flushers : waits[f] # NoOne => ~Settled(waits[f])
    /\ \A r \in Runners : ~Read_Done(r)
    /\ phase = "stopping" => ~Settled(awaited)

(* Claude Code, or a sibling in the same directory, appends to a file.     *)
Write(s, e) ==
    /\ phase # "over" /\ e \notin file[s]
    /\ file' = [file EXCEPT ![s] = @ \cup {e}]
    /\ UNCHANGED <<sessions, processed, marking, sync, phase, awaited, shown, ghosts, owed>>

------------------------------------------------------------------------------
(* runSync                                                                 *)

Begin(list) == [on |-> TRUE, list |-> list, todo |-> list, got |-> {}]

Visit(r, todo, got) ==
    [pass EXCEPT ![r] = [on |-> TRUE, list |-> pass[r].list, todo |-> todo, got |-> got]]

(* readFile returns what the file holds at some moment before its          *)
(* continuation runs; got is empty or holds that content.                  *)
Content(r, s, content) ==
    /\ pass[r].on /\ pass[r].got = {} /\ s \in pass[r].todo
    /\ pass' = Visit(r, pass[r].todo \ {s}, {content})
    /\ UNCHANGED <<file, sessions, processed, marking, running, rerun, promise, waits,
                   phase, awaited, shown, history, owed>>

Read(r, s) == Content(r, s, file[s]) /\ UNCHANGED <<want, tail>>

(* Whoever asked for this pass is not given these entries by it.           *)
Miss(r, entries) ==
    /\ want' = [f \in Flushers |-> IF f = r THEN want[f] \ entries ELSE want[f]]
    /\ tail' = IF r = "final" THEN tail \ entries ELSE tail

ReadFails(r, s) == Content(r, s, {}) /\ file[s] # {} /\ Miss(r, file[s])

HandOn(new) ==
    /\ processed' = processed \cup new
    /\ shown' = [e \in Entries |-> IF e \in new THEN shown[e] + 1 ELSE shown[e]]

Unseen(r) == (UNION pass[r].got) \ processed
Process(r) ==
    /\ Quiet /\ pass[r].on /\ pass[r].got # {}
    /\ pass' = Visit(r, pass[r].todo, {})
    /\ HandOn(Unseen(r))
    /\ UNCHANGED <<file, sessions, marking, running, rerun, promise, waits, phase, awaited,
                   ghosts, owed>>

(* onMessage throws for the last of new: nothing is left of the pass, not  *)
(* even its bookkeeping.                                                   *)
Throw(r) ==
    /\ Quiet /\ pass[r].on
    /\ pass' = [pass EXCEPT ![r] = Begin({})]
    /\ \E new \in SUBSET Unseen(r) \ {{}} : HandOn(new)
    /\ Miss(r, Entries)
    /\ UNCHANGED <<file, sessions, marking, running, rerun, promise, waits, phase, awaited,
                   history, owed>>

(* The end of a pass: pending sessions are finished, and everything read   *)
(* gets a watcher.                                                         *)
Bookkeeping(list) ==
    /\ pending' = pending \ list
    /\ finished' = finished \cup (pending \cap list)
    /\ watchers' = watchers \cup (list \ dead)
    /\ UNCHANGED <<current, dead, hooked, armed>>

(* runSyncCoalesced goes round again if it was asked to meanwhile.         *)
EndPass(r) ==
    /\ r # "final" /\ Read_Done(r)
    /\ Bookkeeping(pass[r].list)
    /\ \/ /\ rerun /\ ~stopped
          /\ rerun' = FALSE
          /\ pass' = [pass EXCEPT ![r] = Begin(Collected(current, pending', watchers', dead))]
          /\ UNCHANGED running
       \/ /\ ~rerun \/ stopped
          /\ running' = FALSE
          /\ pass' = [pass EXCEPT ![r] = Idle]
          /\ UNCHANGED rerun
    /\ UNCHANGED <<file, processed, marking, promise, waits, phase, awaited, shown, ghosts, owed>>

------------------------------------------------------------------------------
(* invalidate, with the session sets its caller has just updated.          *)
Invalidate(list) ==
    \/ /\ ~stopped /\ running
       /\ rerun' = TRUE
       /\ UNCHANGED <<running, promise, pass, waits>>
    \/ /\ ~stopped /\ ~running
       /\ running' = TRUE /\ promise' = "poll"
       /\ pass' = [pass EXCEPT !["poll"] = Begin(list)]
       /\ UNCHANGED <<rerun, waits>>
    \/ stopped /\ UNCHANGED sync

(* The poll interval or a file watcher.                                    *)
Poll ==
    /\ Quiet /\ ~stopped
    /\ Invalidate(Followed)
    /\ UNCHANGED <<file, sessions, processed, marking, phase, awaited, shown, ghosts, owed>>

(* flush(): wait until nothing runs, then run a pass of one's own.         *)
OwnPass(f) ==
    /\ running' = TRUE /\ promise' = f
    /\ pass' = IF stopped THEN pass ELSE [pass EXCEPT ![f] = Begin(Followed)]
    /\ waits' = [waits EXCEPT ![f] = NoOne]
    /\ UNCHANGED rerun
Wait(f) ==
    /\ rerun' = TRUE
    /\ waits' = [waits EXCEPT ![f] = promise]
    /\ UNCHANGED <<running, promise, pass>>

Flush_Joins(f) ==
    /\ Quiet /\ ~stopped /\ waits[f] = NoOne /\ ~pass[f].on
    /\ want' = [want EXCEPT ![f] = OnDisk]
    /\ IF running THEN UNCHANGED sync ELSE OwnPass(f)
    /\ UNCHANGED <<file, sessions, processed, marking, phase, awaited, shown, history, tail,
                   owed>>
Flush_Alone(f) ==
    /\ Quiet /\ ~stopped /\ waits[f] = NoOne /\ ~pass[f].on
    /\ want' = [want EXCEPT ![f] = OnDisk]
    /\ OwnPass(f)
    /\ UNCHANGED <<file, sessions, processed, marking, phase, awaited, shown, history, tail,
                   owed>>
Flush(f) ==
    /\ Quiet /\ ~stopped /\ waits[f] = NoOne /\ ~pass[f].on
    /\ want' = [want EXCEPT ![f] = OnDisk]
    /\ IF running THEN Wait(f) ELSE OwnPass(f)
    /\ UNCHANGED <<file, sessions, processed, marking, phase, awaited, shown, history, tail,
                   owed>>

Wake(f) ==
    /\ waits[f] # NoOne /\ Settled(waits[f])
    /\ IF running THEN Wait(f) ELSE OwnPass(f)
    /\ UNCHANGED <<file, sessions, processed, marking, phase, awaited, shown, ghosts, owed>>

------------------------------------------------------------------------------
(* The sessions                                                            *)

(* The last part of announceNewSession; gone is what remains dead.         *)
Switch_ForgetsPrevious(s, gone) ==
    /\ current' = s
    /\ owed' = owed \cup ({s} \ gone)
    /\ UNCHANGED pending
    /\ Invalidate(Collected(s, pending, watchers, gone))
Switch(s, gone) ==
    /\ current' = s
    /\ owed' = owed \cup ({s} \ gone)
    /\ pending' = pending \cup ({current} \ {NoOne})
    /\ Invalidate(Collected(s, pending', watchers, gone))

Announce(s, gone) ==
    \/ /\ current = s
       /\ UNCHANGED <<current, pending, dead, sync, owed>>
    \/ /\ current # s /\ s \in finished \cup pending
       /\ dead' = gone
       /\ UNCHANGED <<current, pending, sync, owed>>
    \/ /\ current # s /\ s \notin finished \cup pending
       /\ dead' = gone
       /\ Switch(s, gone)

(* treatExistingAsProcessed: the announcement passed its checks before the *)
(* read and makes none after it.  The read returns the file of an earlier  *)
(* moment, a part of what it holds now, or nothing when it fails.          *)
Mark ==
    /\ Quiet /\ marking # NoOne
    /\ marking' = NoOne
    /\ \E content \in SUBSET file[marking] :
         /\ processed' = processed \cup content
         /\ history' = history \cup (content \ processed)
    /\ Switch(marking, dead)
    /\ UNCHANGED <<file, dead, finished, watchers, hooked, armed, phase, awaited, shown, want,
                   tail>>

(* onNewSession: the SessionStart hook.                                    *)
HookAnnounces(s) ==
    /\ Quiet /\ phase # "over"
    /\ hooked' = TRUE
    /\ Announce(s, dead \ {s})
    /\ UNCHANGED <<file, finished, watchers, armed, processed, marking, phase, awaited, shown,
                   ghosts>>

(* The directory watcher, while it is trusted: until a hook has spoken,    *)
(* and for a while.                                                        *)
SeesFile(s) ==
    /\ Quiet /\ ~stopped /\ file[s] # {}
    /\ armed /\ ~hooked
    /\ Announce(s, dead)
    /\ UNCHANGED <<file, finished, watchers, hooked, armed, processed, marking, phase, awaited,
                   shown, ghosts>>
Disarm ==
    /\ Quiet /\ ~stopped /\ armed /\ ~hooked
    /\ armed' = FALSE
    /\ UNCHANGED <<file, current, pending, finished, dead, watchers, hooked, processed,
                   marking, sync,
                   phase, awaited, shown, ghosts, owed>>

(* A watcher whose file never appeared in a minute (the read of a          *)
(* transcript takes less).                                                 *)
GiveUp(s) ==
    /\ Quiet /\ s \in watchers /\ file[s] = {} /\ marking = NoOne
    /\ watchers' = watchers \ {s}
    /\ dead' = dead \cup {s}
    /\ pending' = pending \ {s}
    /\ armed' = TRUE
    /\ owed' = owed \ {s}
    /\ UNCHANGED <<file, current, finished, hooked, processed, marking, sync, phase, awaited,
                   shown, ghosts>>

------------------------------------------------------------------------------
(* cleanup()                                                               *)
Stop ==
    /\ Quiet /\ ~stopped
    /\ phase' = "stopping" /\ awaited' = promise
    /\ tail' = OnDisk /\ want' = [f \in Flushers |-> {}]
    /\ UNCHANGED <<file, sessions, processed, marking, running, rerun, promise, pass, waits,
                   shown, history, owed>>
FinalPass ==
    /\ phase = "stopping" /\ Settled(awaited)
    /\ phase' = "final"
    /\ pass' = [pass EXCEPT !["final"] = Begin(Followed)]
    /\ UNCHANGED <<file, sessions, processed, marking, running, rerun, promise, waits, awaited,
                   shown, ghosts, owed>>
Closed_NoTail ==
    /\ phase = "stopping"
    /\ phase' = "over"
    /\ watchers' = {}
    /\ UNCHANGED <<file, current, pending, finished, dead, hooked, armed, processed, marking,
                   sync,
                   awaited, shown, ghosts, owed>>
Closed ==
    /\ phase = "final" /\ Read_Done("final")
    /\ phase' = "over"
    /\ pending' = pending \ pass["final"].list
    /\ finished' = finished \cup (pending \cap pass["final"].list)
    /\ watchers' = {}
    /\ pass' = [pass EXCEPT !["final"] = Idle]
    /\ UNCHANGED <<file, current, dead, hooked, armed, processed, marking, running, rerun,
                   promise, waits,
                   awaited, shown, ghosts, owed>>

------------------------------------------------------------------------------
Next ==
    \/ \E s \in Sessions :
         \/ HookAnnounces(s) \/ SeesFile(s) \/ GiveUp(s)
         \/ \E e \in Entries : Write(s, e)
         \/ \E r \in Runners : Read(r, s) \/ ReadFails(r, s)
    \/ \E r \in Runners : Process(r) \/ Throw(r) \/ EndPass(r)
    \/ \E f \in Flushers : Flush(f) \/ Wake(f)
    \/ Mark \/ Poll \/ Disarm \/ Stop \/ FinalPass \/ Closed

Spec == Init /\ [][Next]_vars

(* Reads end, continuations run and the poll interval keeps firing; that a *)
(* file which is read again and again is read in the end is assumed of the *)
(* file system.  Nothing is assumed of Claude Code and its hooks.          *)
Fairness ==
    /\ WF_vars(\E r \in Runners, s \in Sessions : Read(r, s) \/ ReadFails(r, s))
    /\ WF_vars(\E r \in Runners : Process(r) \/ EndPass(r))
    /\ WF_vars(\E f \in Flushers : Wake(f)) /\ WF_vars(Poll)
    /\ \A s \in Sessions : SF_vars(\E r \in Runners : Read(r, s))

FairSpec == Spec /\ Fairness

------------------------------------------------------------------------------
(* What the variables range over.                                          *)
Passes == [on : BOOLEAN, list : SUBSET Sessions, todo : SUBSET Sessions,
           got : SUBSET SUBSET Entries]
TypeOK ==
    /\ file \in [Sessions -> SUBSET Entries]
    /\ current \in Sessions \cup {NoOne}
    /\ pending \subseteq Sessions /\ finished \subseteq Sessions
    /\ dead \subseteq Sessions /\ watchers \subseteq Sessions /\ owed \subseteq Sessions
    /\ hooked \in BOOLEAN /\ armed \in BOOLEAN /\ running \in BOOLEAN /\ rerun \in BOOLEAN
    /\ processed \subseteq Entries /\ history \subseteq Entries /\ tail \subseteq Entries
    /\ promise \in Runners \cup {NoOne} /\ awaited \in Runners \cup {NoOne}
    /\ pass \in [Runners -> Passes]
    /\ waits \in [Flushers -> Runners \cup {NoOne}]
    /\ phase \in {"run", "stopping", "final", "over"}
    /\ marking \in Sessions \cup {NoOne}
    /\ shown \in [Entries -> Nat] /\ want \in [Flushers -> SUBSET Entries]

(* "emits each newly-appended, previously unseen entry exactly once": an   *)
(* entry that was processed was handed on once, unless it was marked as    *)
(* history while still unseen, and then never, whatever passes, files,     *)
(* failed reads and aborted passes it went through.                        *)
EmittedOnce ==
    \A e \in Entries : shown[e] = IF e \in processed \ history THEN 1 ELSE 0

(* runSync "is not safe to run twice at once": there is never more than    *)
(* one pass, of whoever, and until cleanup() the flag tells the truth.     *)
OnePass ==
    /\ \A q, r \in Runners : pass[q].on /\ pass[r].on => q = r
    /\ ~stopped => (running <=> \E r \in Runners : pass[r].on)

(* flush() is "one guaranteed-fresh read": when it has returned before     *)
(* cleanup(), every entry that was on disk at its call is processed,       *)
(* although it may have met a pass that had already read the file.  Only   *)
(* what a failed read or a throw in its own pass has kept back (Miss) is   *)
(* left for the next poll.                                                 *)
FlushIsFresh ==
    \A f \in Flushers :
        ~stopped /\ waits[f] = NoOne /\ ~pass[f].on => want[f] \subseteq processed

(* "the shutdown tail": when cleanup() has returned, every entry that was  *)
(* on disk at its call is processed, but for what a failed read or a throw *)
(* in the final pass has kept back (Miss): nobody reads again.             *)
TailMapped == phase = "over" => tail \subseteq processed

(* "so it must never be re-collected or re-watched": a dropped session has *)
(* no watcher, also when it was dropped in the middle of a pass over it.   *)
DeadUnwatched == dead \cap watchers = {}

(* An entry of a session that was announced, and not dropped since, is     *)
(* handed on sooner or later, also when the session is no longer current   *)
(* and however the announcement fell into a pass; unless it was marked as  *)
(* history, which an entry written until the mark's read has ended may be. *)
Delivered == \A e \in Entries :
    (\E s \in owed : e \in file[s]) /\ ~stopped ~> shown[e] > 0 \/ e \in history \/ stopped

==============================================================================
