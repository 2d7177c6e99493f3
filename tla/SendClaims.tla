------------------------------ MODULE SendClaims ------------------------------
(***************************************************************************)
(* The path of a web message through the session process of the terminal   *)
(* flow: the message RPC, the durable send-claims (claimStore.ts), the     *)
(* injection controller, and the end or crash of the process.              *)
(*                                                                         *)
(* A message is an envelope, and the same envelope may be delivered more   *)
(* than once: each delivery is one call of the RPC handler.  The handler   *)
(* claims the envelope in a file before anything is typed, and the claim   *)
(* is completed when the message was submitted or is known never to be.    *)
(*                                                                         *)
(* The claim file is read, changed and written in sections that a lock     *)
(* file guards, a step for every await.  A process killed in a section     *)
(* leaves the lock file behind, and whoever then finds it old removes it;  *)
(* nothing checks that the file removed is the one that was found old.     *)
(* A section that cannot remove its lock file at its end leaves the same   *)
(* behind; this failure is left out.                                       *)
(* When the gate of the controller opens is module Injection's business:   *)
(* here it may open at any time, and for any of the waiting messages.      *)
(*                                                                         *)
(* Bounds: MaxDeliveries calls in all, MaxRestarts restarts of the         *)
(* process, MaxFaults refused locks and failing file operations.           *)
(* Completed claims are kept for a week; no delivery comes later than      *)
(* that.  A section of a live process takes less than the 10 s after which *)
(* its lock would be taken for stale.                                      *)
(***************************************************************************)
EXTENDS Naturals, FiniteSets

CONSTANTS Envelopes, None, MaxDeliveries, MaxRestarts, MaxFaults

ASSUME BoundsAssumption == {MaxDeliveries, MaxRestarts, MaxFaults} \subseteq Nat

(* A call: the n-th delivery, of an envelope.  It also stands for the      *)
(* claim id the handler draws, and for the entry the controller queues.    *)
Calls == [env : Envelopes, n : 1 .. MaxDeliveries]

ASSUME NoneAssumption == None \notin Calls

VARIABLES
    proc,        \* the process: "up", "exited" (the agent child is gone and
                 \* teardown runs), "ended" (disposed, RPC unregistered), "down"
    call,        \* where each call's message is
    openClaims,  \* the process's map from an envelope to its open claim id
    writes,      \* completions on their way to the claim file
    store,       \* the claim file
    lock,        \* its lock file: "free", "held", or left behind, "orphan"
    stealing,    \* the sections that found the lock file old, not yet removed it
    inside,      \* the sections that created the lock file, with their progress
    sound,       \* history: no section's lock was removed under it, and no
                 \* unreadable claim file was taken for an empty one
    ran,         \* the calls whose message was submitted to the live agent
    restarts, faults

mem == <<call, openClaims, writes>>
file == <<store, lock, stealing, inside, sound>>
vars == <<proc, mem, file, ran, restarts, faults>>

Unclaimed == [status |-> "none", by |-> None, result |-> "none"]
Empty == [e \in Envelopes |-> Unclaimed]

Init ==
    /\ proc = "up"
    /\ call = [c \in Calls |-> "unsent"]
    /\ openClaims = [e \in Envelopes |-> None]
    /\ writes = {}
    /\ store = Empty
    /\ lock = "free" /\ stealing = {} /\ inside = {} /\ sound = TRUE
    /\ ran = {}
    /\ restarts = 0 /\ faults = 0

Typed == {c \in Calls : call[c] = "typed"}

------------------------------------------------------------------------------
(* The message RPC of a registered process: the handler asks for the claim. *)
Deliver(c) ==
    /\ proc \in {"up", "exited"}
    /\ call[c] = "unsent"
    /\ {d.n : d \in {b \in Calls : call[b] # "unsent"}} = 1 .. c.n - 1
    /\ call' = [call EXCEPT ![c] = "claiming"]
    /\ UNCHANGED <<proc, openClaims, writes, file, ran, restarts, faults>>

(* The sections wanted: claims of handlers, and completions.  One waits    *)
(* when it is neither inside nor about to remove the lock file.            *)
Sections == {c \in Calls : call[c] = "claiming"} \cup writes
Inside(s) == \E x \in inside : x.sec = s
Waits(s) == s \in Sections \ stealing /\ ~Inside(s)

(* A section ends: the handler resumes with the outcome, or the completion *)
(* is done with, a failed one with a warning in the log.                   *)
Finish(s, outcome) ==
    IF s \in Calls
      THEN call' = [call EXCEPT ![s] = outcome] /\ UNCHANGED writes
      ELSE writes' = writes \ {s} /\ UNCHANGED call

(* acquireLock: the lock file is created if it is not there.               *)
Open(s) ==
    /\ proc # "down" /\ Waits(s) /\ lock = "free"
    /\ lock' = "held"
    /\ inside' = inside \cup
                   {[sec |-> s, at |-> "opened", next |-> Empty, outcome |-> "error"]}
    /\ UNCHANGED <<proc, mem, store, stealing, sound, ran, restarts, faults>>

(* The stat of a lock file that is there: it is older than 10 s.           *)
FindStale(s) ==
    /\ proc # "down" /\ Waits(s) /\ lock = "orphan"
    /\ stealing' = stealing \cup {s}
    /\ UNCHANGED <<proc, mem, store, lock, inside, sound, ran, restarts, faults>>

(* The unlink that follows: whatever lock file is there now goes.          *)
Steal(s) ==
    /\ proc # "down" /\ s \in stealing
    /\ stealing' = stealing \ {s}
    /\ lock' = "free"
    /\ sound' = (sound /\ lock # "held")
    /\ UNCHANGED <<proc, mem, store, inside, ran, restarts, faults>>

(* The lock cannot be had in 5 s, or the file system refuses: the section  *)
(* throws, and nothing was done.                                           *)
GiveUp(s) ==
    /\ proc # "down" /\ s \in Sections /\ ~Inside(s) /\ faults < MaxFaults
    /\ faults' = faults + 1
    /\ stealing' = stealing \ {s}
    /\ Finish(s, "error")
    /\ UNCHANGED <<proc, openClaims, store, lock, inside, sound, ran, restarts>>

(* Mutant. An open claim is taken for an old one, and claimed again.       *)
claimMessageSend_Reclaims(c, current) ==
    IF current[c.env].status = "completed"
      THEN [next |-> current, outcome |-> "duplicate"]
      ELSE [next |-> [current EXCEPT ![c.env] =
                        [status |-> "claimed", by |-> c, result |-> "none"]],
            outcome |-> "claimed"]

(* claimMessageSend: what the file's entry decides.                        *)
claimMessageSend(c, current) ==
    CASE current[c.env].status = "completed" ->
           [next |-> current, outcome |-> "duplicate"]
      [] current[c.env].status = "claimed" ->
           [next |-> current, outcome |-> "outcome-unknown"]
      [] OTHER ->
           [next |-> [current EXCEPT ![c.env] =
                        [status |-> "claimed", by |-> c, result |-> "none"]],
            outcome |-> "claimed"]

(* completeMessageSend insists on the very claim, or throws.               *)
completeMessageSend(w, current) ==
    IF current[w.env].status = "claimed" /\ current[w.env].by = w.by
      THEN [next |-> [current EXCEPT ![w.env] =
                        [status |-> "completed", by |-> None, result |-> w.result]],
            outcome |-> "recorded"]
      ELSE [next |-> current, outcome |-> "thrown"]

mutate(s, current) ==
    IF s \in Calls THEN claimMessageSend(s, current) ELSE completeMessageSend(s, current)

Computed(x, result) ==
    [x EXCEPT !.at = IF result.outcome = "thrown" THEN "done" ELSE "read",
              !.next = result.next, !.outcome = result.outcome]

(* withClaimsFile, inside the lock: the file is read, and what it becomes  *)
(* is computed.  A file that cannot be read counts as an empty one.        *)
Read(x) ==
    /\ proc # "down" /\ x \in inside /\ x.at = "opened"
    /\ \E current \in {store, Empty} :
         /\ IF current = store
              THEN UNCHANGED <<sound, faults>>
              ELSE faults < MaxFaults /\ faults' = faults + 1 /\ sound' = FALSE
         /\ inside' = (inside \ {x}) \cup {Computed(x, mutate(x.sec, current))}
    /\ UNCHANGED <<proc, mem, store, lock, stealing, ran, restarts>>

(* The new contents are written whole and renamed into place, or that      *)
(* fails and the section throws.                                           *)
Write(x) ==
    /\ proc # "down" /\ x \in inside /\ x.at = "read"
    /\ \/ /\ store' = x.next
          /\ inside' = (inside \ {x}) \cup {[x EXCEPT !.at = "done"]}
          /\ UNCHANGED faults
       \/ /\ faults < MaxFaults /\ faults' = faults + 1
          /\ inside' = (inside \ {x}) \cup {[x EXCEPT !.at = "done", !.outcome = "error"]}
          /\ UNCHANGED store
    /\ UNCHANGED <<proc, mem, lock, stealing, sound, ran, restarts>>

(* The section ends: whatever lock file is there is removed.               *)
Release(x) ==
    /\ proc # "down" /\ x \in inside /\ x.at = "done"
    /\ inside' = inside \ {x}
    /\ lock' = "free"
    /\ Finish(x.sec, x.outcome)
    /\ UNCHANGED <<proc, openClaims, store, stealing, sound, ran, restarts, faults>>

(* The handler resumes with its claim: it is remembered as open, and the   *)
(* message goes to the controller.  A disposed controller returns without  *)
(* a word, and the caller is told "queued" all the same.                   *)
Begin(c) ==
    /\ proc # "down" /\ call[c] = "claimed"
    /\ openClaims' = [openClaims EXCEPT ![c.env] = c]
    /\ call' = [call EXCEPT ![c] = IF proc = "ended" THEN "ignored" ELSE "waiting"]
    /\ UNCHANGED <<proc, writes, file, ran, restarts, faults>>

(* tryFlush: a waiting message becomes the one being injected.             *)
Type(c) ==
    /\ proc \in {"up", "exited"}
    /\ call[c] = "waiting" /\ Typed = {}
    /\ call' = [call EXCEPT ![c] = "typed"]
    /\ UNCHANGED <<proc, openClaims, writes, file, ran, restarts, faults>>

(* completeClaim, for the messages of the calls cs: the open claims leave  *)
(* the map, and their completions are written without being waited for.    *)
completeClaims(cs, result) ==
    LET open == {c \in cs : openClaims[c.env] # None} IN
    /\ openClaims' = [e \in Envelopes |->
                        IF \E c \in open : c.env = e THEN None ELSE openClaims[e]]
    /\ writes' = writes \cup
                   {[env |-> c.env, by |-> openClaims[c.env], result |-> result] : c \in open}

(* Mutant. The timer of a disposed controller just returns.                *)
Submit_NotReported(c) ==
    /\ proc # "down" /\ call[c] = "typed"
    /\ \/ /\ proc = "ended"
          /\ call' = [call EXCEPT ![c] = "dropped"]
          /\ UNCHANGED <<openClaims, writes, ran>>
       \/ /\ proc # "ended"
          /\ call' = [call EXCEPT ![c] = "submitted"]
          /\ completeClaims({c}, "injected")
          /\ ran' = IF proc = "up" THEN ran \cup {c} ELSE ran
    /\ UNCHANGED <<proc, file, restarts, faults>>

(* The submit timer of the message being injected.                         *)
Submit(c) ==
    /\ proc # "down" /\ call[c] = "typed"
    /\ \/ /\ proc = "ended"
          /\ call' = [call EXCEPT ![c] = "dropped"]
          /\ completeClaims({c}, "dropped-session-ended")
          /\ UNCHANGED ran
       \/ /\ proc # "ended"
          /\ call' = [call EXCEPT ![c] = "submitted"]
          /\ completeClaims({c}, "injected")
          /\ ran' = IF proc = "up" THEN ran \cup {c} ELSE ran
    /\ UNCHANGED <<proc, file, restarts, faults>>

------------------------------------------------------------------------------
(* The agent child exits: teardown starts, with the controller still live. *)
ChildExits ==
    /\ proc = "up"
    /\ proc' = "exited"
    /\ UNCHANGED <<mem, file, ran, restarts, faults>>

(* Teardown reaches the controller: its queue is dropped, and the RPC      *)
(* handlers are unregistered before anything else can run.                 *)
Dispose ==
    /\ proc = "exited"
    /\ proc' = "ended"
    /\ LET queue == {c \in Calls : call[c] = "waiting"} IN
         /\ call' = [c \in Calls |-> IF c \in queue THEN "dropped" ELSE call[c]]
         /\ completeClaims(queue, "dropped-session-ended")
    /\ UNCHANGED <<file, ran, restarts, faults>>

(* The process is gone: it ended and exited, or it was killed.  Handlers,  *)
(* timers and sections under way go with it, a lock file held stays.       *)
Stop ==
    /\ proc # "down"
    /\ proc' = "down"
    /\ call' = [c \in Calls |->
                  IF call[c] \in {"claiming", "claimed", "waiting", "typed"}
                    THEN "lost" ELSE call[c]]
    /\ openClaims' = [e \in Envelopes |-> None]
    /\ writes' = {} /\ stealing' = {} /\ inside' = {}
    /\ lock' = IF lock = "held" THEN "orphan" ELSE lock
    /\ UNCHANGED <<store, sound, ran, restarts, faults>>

(* Mutant. A fresh process starts from a fresh claim file.                 *)
Restart_ClearsClaims ==
    /\ proc = "down" /\ restarts < MaxRestarts
    /\ restarts' = restarts + 1
    /\ proc' = "up"
    /\ store' = Empty
    /\ UNCHANGED <<mem, lock, stealing, inside, sound, ran, faults>>

(* The session is started again under the same id, on the same claim file. *)
Restart ==
    /\ proc = "down" /\ restarts < MaxRestarts
    /\ restarts' = restarts + 1
    /\ proc' = "up"
    /\ UNCHANGED <<mem, file, ran, faults>>

------------------------------------------------------------------------------
Section ==
    \/ \E s \in Sections : Open(s) \/ FindStale(s) \/ Steal(s) \/ GiveUp(s)
    \/ \E x \in inside : Read(x) \/ Write(x) \/ Release(x)

(* What the event loop resumes: handlers, timers, sections.                *)
Resume ==
    \/ \E c \in Calls : Begin(c) \/ Type(c) \/ Submit(c)
    \/ Section

Next ==
    \/ \E c \in Calls : Deliver(c)
    \/ Resume
    \/ ChildExits \/ Dispose \/ Stop \/ Restart

Spec == Init /\ [][Next]_vars

(* The event loop goes on while it has something to do (a section that     *)
(* gets no lock gives up), the gate opens sooner or later (Injection's     *)
(* EveryMessageReported), and teardown finishes.                           *)
FairSpec == Spec /\ WF_vars(Resume) /\ WF_vars(Dispose)

------------------------------------------------------------------------------
Stages == {"unsent", "claiming", "claimed", "waiting", "typed", "submitted", "dropped",
           "ignored", "duplicate", "outcome-unknown", "error", "lost"}
Results == {"injected", "dropped-session-ended"}
Writes == [env : Envelopes, by : Calls, result : Results]
Files == [Envelopes -> [status : {"none", "claimed", "completed"},
                        by : Calls \cup {None}, result : Results \cup {"none"}]]
Outcomes == {"claimed", "outcome-unknown", "duplicate", "error", "recorded", "thrown"}

(* Types of the state; one message at most is being injected, of however   *)
(* many are waiting.                                                       *)
TypeOK ==
    /\ proc \in {"up", "exited", "ended", "down"}
    /\ call \in [Calls -> Stages]
    /\ openClaims \in [Envelopes -> Calls \cup {None}]
    /\ writes \subseteq Writes
    /\ store \in Files
    /\ lock \in {"free", "held", "orphan"} /\ sound \in BOOLEAN
    /\ stealing \subseteq Sections
    /\ inside \subseteq [sec : Sections, at : {"opened", "read", "done"},
                         next : Files, outcome : Outcomes]
    /\ ran \subseteq Calls
    /\ restarts \in 0 .. MaxRestarts /\ faults \in 0 .. MaxFaults
    /\ \A c, d \in Typed : c = d

(* However often an envelope is delivered, in whatever order handlers,     *)
(* timers and sections run, wherever the process is killed, a lock is      *)
(* refused or a write fails: the agent is given its text at most once, as  *)
(* long as no lock is stolen from a live section and no claim file is      *)
(* unreadable.                                                             *)
AtMostOnce == sound => \A c, d \in ran : c.env = d.env => c = d

(* A message the agent may have seen is never forgotten: its claim is in   *)
(* the file before the text is typed, and stays.                           *)
RunIsClaimed == \A c \in ran : store[c.env].status # "none"

(* What the web is told is true: an envelope reported as a duplicate has a *)
(* recorded end, and one recorded as dropped was never submitted.          *)
Honest ==
    /\ \A c \in Calls : call[c] = "duplicate" => store[c.env].status = "completed"
    /\ \A e \in Envelopes :
         store[e].result = "dropped-session-ended" => \A c \in ran : c.env # e

(* The same, over crashes and restarts, refused locks and failing writes,  *)
(* as long as no lock is stolen and no file unreadable.                    *)
DuplicateIsHonest == sound => Honest

(* A message that was taken while the process lives on gets a recorded end *)
(* (unless a lock was refused, a file operation failed or a lock was       *)
(* stolen), so that a retry is not answered "outcome-unknown" for ever.    *)
TakenIsSettled ==
    \A e \in Envelopes :
        (\E c \in Calls : c.env = e /\ call[c] = "waiting") ~>
          (store[e].status = "completed" \/ proc = "down" \/ faults > 0 \/ ~sound)

------------------------------------------------------------------------------
(* The inductive invariant.  One section at most is inside, while the lock *)
(* file it created is there.                                               *)
LockInv ==
    /\ \A x, y \in inside : x = y
    /\ inside # {} <=> lock = "held"

(* What a section is about to write is what the file becomes, and what it  *)
(* is about to report is what the file says.                               *)
InsideInv ==
    \A x \in inside :
        /\ x.at = "read" =>
             /\ x.next = mutate(x.sec, store).next
             /\ x.outcome = mutate(x.sec, store).outcome
        /\ x.at = "done" /\ x.outcome = "claimed" =>
             x.sec \in Calls /\ store[x.sec.env].status = "claimed" /\ store[x.sec.env].by = x.sec
        /\ x.at = "done" /\ x.outcome = "duplicate" =>
             x.sec \in Calls /\ store[x.sec.env].status = "completed"

(* A live message is the one that holds the claim of its envelope, and its *)
(* claim is the open one.                                                  *)
LiveInv ==
    \A c \in Calls :
        /\ call[c] \in {"claimed", "waiting", "typed"}
             => store[c.env].status = "claimed" /\ store[c.env].by = c
        /\ call[c] \in {"waiting", "typed"} => openClaims[c.env] = c

(* A completion under way says what became of its message.                 *)
WritesInv ==
    \A w \in writes :
        /\ w.by.env = w.env
        /\ call[w.by] = IF w.result = "injected" THEN "submitted" ELSE "dropped"

(* The claim of a submitted message is its own until it is completed, and  *)
(* then the recorded result is the true one.                               *)
RanInv ==
    \A c \in ran :
        /\ call[c] = "submitted"
        /\ store[c.env].status = "claimed" => store[c.env].by = c
        /\ store[c.env].status = "completed" => store[c.env].result = "injected"

StoreInv == \A e \in Envelopes : store[e].status # "completed" => store[e].result = "none"

(* A section is at one place at a time, and tells its own caller its end.  *)
SectionsInv ==
    /\ \A x, y \in inside : x.sec = y.sec => x = y
    /\ \A x \in inside : x.sec \notin stealing
    /\ \A x \in inside : x.sec \in Calls => x.outcome \in Stages

(* All of it holds until the lock or the file is broken.                   *)
ClaimsInv ==
    /\ LockInv /\ InsideInv /\ LiveInv /\ WritesInv /\ RanInv /\ StoreInv
    /\ RunIsClaimed /\ Honest

IInv == TypeOK /\ SectionsInv /\ (sound => ClaimsInv)
==============================================================================
