---------------------------- MODULE DaemonSessions ----------------------------
(***************************************************************************)
(* The daemon's registry of session processes: the live map, the resumable *)
(* set, the durable sessions.json, the spawn and resumeSession RPCs with   *)
(* the awaiter their processes report to, the heartbeat that prunes dead   *)
(* processes, and the daemon's crash, restart and re-adoption.             *)
(*                                                                         *)
(* All sessions run in one directory, the hardest case for the lock that   *)
(* every session process takes on its directory (sessionLock.ts), whose    *)
(* link, read, re-check and unlink are steps of their own.  A release and  *)
(* the rename that adds a session's id to the lock re-read it too: either  *)
(* can hit another's lock only once a reclaim has removed the process's    *)
(* own (raced), and is one step here.  No session is started with          *)
(* --force-new-session, which takes no lock.                               *)
(*                                                                         *)
(* Assumed of the machine: a pid is not used twice, and a new process does *)
(* not report before its launch has been tracked (it needs a round trip to *)
(* the server first, the launch 200 ms).                                   *)
(*                                                                         *)
(* Records do not expire (14 days).                                        *)
(*                                                                         *)
(* Bounds: as many launches as there are Pids, MaxCrashes daemon crashes.  *)
(***************************************************************************)
EXTENDS SequencesExt

CONSTANTS
    Pids, Sessions, Calls,
    None,           \* no pid, no session, no record
    MaxCrashes

ASSUME DaemonAssumption ==
    None \notin Pids \cup Sessions /\ IsFiniteSet(Sessions) /\ MaxCrashes \in Nat

VARIABLES
    proc,       \* what each process does, the session it is for, and the
                \* dead owner of the lock it has seen
    dirLock,    \* the pid the directory's lock file names
    raced,      \* a reclaim has removed a lock that is not the one it
                \* re-read (history)
    up,         \* the daemon serves RPCs and reports
    tracked,    \* pidToSession, in the Map's order
    resumable,  \* each session's record in the resumable set
    pending,    \* persistSession calls in the write chain
    sessionsFile,  \* each session's record in sessions.json
    restored,   \* the last boot could read sessions.json (history)
    skipped,    \* running processes the last boot left out (history)
    call,       \* the RPC handlers
    crashes

lock == <<dirLock, raced>>
probed == <<restored, skipped>>
daemon == <<up, tracked, resumable, pending, sessionsFile, probed>>
daemonVars == <<proc, lock, daemon, call, crashes>>

Alive == {p \in Pids : proc[p].st \notin {"none", "dead"}}
Fresh == {p \in Pids : proc[p].st = "none"}
NoRecord == [pid |-> None, sid |-> None, dir |-> FALSE]
NoRecords == [s \in Sessions |-> NoRecord]
IdleCall == [kind |-> "none", pc |-> "idle", sid |-> None, pid |-> None]

DaemonInit ==
    /\ proc = [p \in Pids |-> [st |-> "none", sid |-> None, saw |-> None]]
    /\ dirLock = None /\ raced = FALSE
    /\ up = TRUE
    /\ tracked = <<>>
    /\ resumable = NoRecords
    /\ pending = <<>>
    /\ sessionsFile = NoRecords
    /\ restored = TRUE /\ skipped = {}
    /\ call = [c \in Calls |-> IdleCall]
    /\ crashes = 0

------------------------------------------------------------------------------
(* The registry                                                            *)

(* An entry of the live map and a record of it: the process, the session   *)
(* it has reported and whether its directory is known.                     *)
Entry(p, s, d) == [pid |-> p, sid |-> s, dir |-> d]

(* Map.set: an entry of this pid keeps its place.                          *)
Set(map, e) ==
    IF \E i \in DOMAIN map : map[i].pid = e.pid
      THEN [i \in DOMAIN map |-> IF map[i].pid = e.pid THEN e ELSE map[i]]
      ELSE Append(map, e)

(* getLivePid and stopSession: the first entry of the session.             *)
Of(s) == {i \in DOMAIN tracked : tracked[i].sid = s}
FirstOf(s) == IF Of(s) = {} THEN None ELSE tracked[Min(Of(s))].pid

FindResumable(s) == IF Of(s) = {} THEN resumable[s] ELSE tracked[Min(Of(s))]

(* Whoever waits for this process's report is answered; a resume hands its *)
(* awaiter no watcher of the process's exit.                               *)
Watching == {"spawn", "adopt"}
Launching == Watching \cup {"resume"}
Settle(p, kinds) ==
    call' = [c \in Calls |->
               IF call[c].pc = "wait" /\ call[c].pid = p /\ call[c].kind \in kinds
                 THEN IdleCall ELSE call[c]]

(* onSessionStarted: the live map takes the process, the session leaves    *)
(* the resumable set and its record joins the write chain.  Its directory  *)
(* is that of the entry it had: a process this daemon did not launch or    *)
(* re-adopt has none.                                                      *)
OnSessionStarted(p, s) ==
    LET e == Entry(p, s, \E old \in Range(tracked) : old.pid = p /\ old.dir) IN
    /\ tracked' = Set(tracked, e)
    /\ resumable' = [resumable EXCEPT ![s] = NoRecord]
    /\ pending' = Append(pending, e)
    /\ Settle(p, Launching)
    /\ UNCHANGED <<up, sessionsFile, probed>>

(* One turn of the write chain: a write that fails is logged, and a file   *)
(* that cannot be read counts as empty, which drops the other records.     *)
PersistSession ==
    /\ pending # <<>>
    /\ \/ UNCHANGED sessionsFile
       \/ \E existing \in {sessionsFile, NoRecords} :
            sessionsFile' = [existing EXCEPT ![Head(pending).sid] = Head(pending)]
    /\ pending' = Tail(pending)
    /\ UNCHANGED <<proc, lock, up, tracked, resumable, probed, call, crashes>>

(* Map.delete: what is left keeps its order.                               *)
InOrder(q) ==
    \A i, j \in DOMAIN tracked, k, l \in DOMAIN q :
       i < j /\ q[k] = tracked[i] /\ q[l] = tracked[j] => k < l

(* pruneDeadSessions: what has a record graduates into the resumable set,  *)
(* the last entry of a session winning.                                    *)
Dead(e) == e.pid \notin Alive
DeleteDead ==
    /\ up /\ \E e \in Range(tracked) : Dead(e)
    /\ \E q \in SetToSeqs({e \in Range(tracked) : ~Dead(e)}) : InOrder(q) /\ tracked' = q
Prune_Forgets ==
    /\ DeleteDead
    /\ UNCHANGED <<proc, lock, up, resumable, pending, sessionsFile, probed, call, crashes>>
PruneDeadSessions ==
    /\ DeleteDead
    /\ resumable' = [s \in Sessions |->
         LET gone == {i \in Of(s) : Dead(tracked[i])}
         IN  IF gone = {} THEN resumable[s] ELSE tracked[Max(gone)]]
    /\ UNCHANGED <<proc, lock, up, pending, sessionsFile, probed, call, crashes>>

------------------------------------------------------------------------------
(* RPC handlers                                                            *)

(* A spawn has validated its directory, and an adopt.take has stopped the  *)
(* provider process it continues from; a resume has found a record and     *)
(* resolved its directory, which fails when the record has none.           *)
Spawn(c, kind) ==
    /\ up /\ call[c].pc = "idle" /\ Fresh # {}
    /\ call' = [call EXCEPT ![c] = [IdleCall EXCEPT !.kind = kind, !.pc = "launch"]]
    /\ UNCHANGED <<proc, lock, daemon, crashes>>

Resume(c, s) ==
    /\ up /\ call[c].pc = "idle" /\ Fresh # {}
    /\ FindResumable(s).dir
    /\ call' = [call EXCEPT ![c] = [kind |-> "resume", pc |-> "stop", sid |-> s, pid |-> None]]
    /\ UNCHANGED <<proc, lock, daemon, crashes>>

(* SIGTERM for the process the registry names first, or on to the launch.  *)
StopSession(c) ==
    /\ call[c].pc = "stop"
    /\ LET p == FirstOf(call[c].sid)
       IN  call' = [call EXCEPT ![c] =
                      [@ EXCEPT !.pid = p, !.pc = IF p = None THEN "launch" ELSE "exit"]]
    /\ UNCHANGED <<proc, lock, daemon, crashes>>

(* waitForOldProcessToExit: gone within the grace period, killed, or (a    *)
(* kill is not instantaneous) still there at the last look, which refuses. *)
OldProcessGone(c) ==
    /\ call[c].pc = "exit" /\ call[c].pid \notin Alive
    /\ call' = [call EXCEPT ![c].pc = "launch"]
    /\ UNCHANGED <<proc, lock, daemon, crashes>>

Refuse(c) ==
    /\ call[c].pc = "exit" /\ call[c].pid \in Alive
    /\ call' = [call EXCEPT ![c] = IdleCall]
    /\ UNCHANGED <<proc, lock, daemon, crashes>>

(* The dedup of a spawn: a session is already tracked in this directory.   *)
(* An adopt.take launches into an occupied directory on purpose.           *)
Dedup(c) ==
    /\ call[c].pc = "launch" /\ call[c].kind = "spawn"
    /\ \E e \in Range(tracked) : e.sid # None /\ e.dir
    /\ call' = [call EXCEPT ![c] = IdleCall]
    /\ UNCHANGED <<proc, lock, daemon, crashes>>

(* The process is launched and tracked, and the handler waits for its      *)
(* report.  A spawned one creates a session of its own; a resumed one gets *)
(* the session's id and key from its environment.                          *)
NewSession == {s \in Sessions : \A p \in Pids : proc[p].sid # s}
Launch(c) ==
    /\ call[c].pc = "launch"
    /\ call[c].kind = "spawn" => \A e \in Range(tracked) : e.sid = None \/ ~e.dir
    /\ \E p \in Fresh, s \in IF call[c].kind = "resume" THEN {call[c].sid} ELSE NewSession :
         /\ proc' = [proc EXCEPT ![p] = [st |-> "boot", sid |-> s, saw |-> None]]
         /\ tracked' = Set(tracked, Entry(p, None, TRUE))
         /\ call' = [call EXCEPT ![c] = [@ EXCEPT !.pc = "wait", !.pid = p]]
    /\ UNCHANGED <<lock, up, resumable, pending, sessionsFile, probed, crashes>>

(* The awaiter's timer: the process may still report later.                *)
Timeout(c) ==
    /\ call[c].pc = "wait"
    /\ call' = [call EXCEPT ![c] = IdleCall]
    /\ UNCHANGED <<proc, lock, daemon, crashes>>

------------------------------------------------------------------------------
(* Session processes                                                       *)

(* kvy claude at a terminal, unknown to the daemon until it reports.       *)
StartAtTerminal(p) ==
    /\ p \in Fresh
    /\ \E s \in NewSession :
         proc' = [proc EXCEPT ![p] = [st |-> "boot", sid |-> s, saw |-> None]]
    /\ UNCHANGED <<lock, daemon, call, crashes>>

(* acquireSessionLock: the payload is linked onto a free path.             *)
LinkLock(p) ==
    /\ proc[p].st = "boot" /\ dirLock = None
    /\ proc' = [proc EXCEPT ![p].st = "held"]
    /\ dirLock' = p
    /\ UNCHANGED <<raced, daemon, call, crashes>>

LinkRefused(p) ==
    /\ proc[p].st = "boot" /\ dirLock # None
    /\ proc' = [proc EXCEPT ![p].st = "look"]
    /\ UNCHANGED <<lock, daemon, call, crashes>>

(* The lock is read: a live owner makes the process exit with 1.           *)
HeldByRunning(p) ==
    /\ proc[p].st = "look" /\ dirLock \in Alive
    /\ proc' = [proc EXCEPT ![p].st = "dead"]
    /\ Settle(p, Watching)
    /\ UNCHANGED <<lock, daemon, crashes>>

(* A dead owner's lock is to be reclaimed; one that is gone by now reads   *)
(* as a corrupt one.                                                       *)
Diagnose(p) ==
    /\ proc[p].st = "look" /\ dirLock \notin Alive
    /\ proc' = [proc EXCEPT ![p] = [@ EXCEPT !.st = "stale", !.saw = dirLock]]
    /\ UNCHANGED <<lock, daemon, call, crashes>>

(* reclaimIfStillStale: the file is read again, and if it still says what  *)
(* was diagnosed, it is removed; then the link is tried again.             *)
Recheck_Skipped(p) ==
    /\ proc[p].st = "stale"
    /\ proc' = [proc EXCEPT ![p] = [@ EXCEPT !.st = "unlink", !.saw = dirLock]]
    /\ UNCHANGED <<lock, daemon, call, crashes>>
Recheck(p) ==
    /\ proc[p].st = "stale"
    /\ proc' = [proc EXCEPT ![p] =
                  IF dirLock = @.saw THEN [@ EXCEPT !.st = "unlink"]
                                     ELSE [@ EXCEPT !.st = "boot", !.saw = None]]
    /\ UNCHANGED <<lock, daemon, call, crashes>>

(* Whatever the path names by now is removed.                              *)
RemoveStale(p) ==
    /\ proc[p].st = "unlink"
    /\ proc' = [proc EXCEPT ![p] = [@ EXCEPT !.st = "boot", !.saw = None]]
    /\ dirLock' = None
    /\ raced' = (raced \/ dirLock # proc[p].saw)
    /\ UNCHANGED <<daemon, call, crashes>>

(* The self-report, sent when the session is there and again when the      *)
(* provider's session id is known: best effort, it may be lost.            *)
Report(p) ==
    /\ proc[p].st \in {"held", "up"}
    /\ proc' = [proc EXCEPT ![p].st = IF @ = "held" THEN "up" ELSE "known"]
    /\ \/ up /\ OnSessionStarted(p, proc[p].sid)
       \/ UNCHANGED <<daemon, call>>
    /\ UNCHANGED <<lock, crashes>>

(* The session cannot be created or re-attached: the process says so (to   *)
(* the awaiter, when the daemon is up), lets go of the lock and exits.     *)
StartFails(p) ==
    /\ proc[p].st = "held"
    /\ proc' = [proc EXCEPT ![p].st = "dead"]
    /\ dirLock' = IF dirLock = p THEN None ELSE dirLock
    /\ IF up THEN Settle(p, Launching) ELSE UNCHANGED call
    /\ UNCHANGED <<raced, daemon, crashes>>

(* The end of a process: its own, a contended lock, a crash, or a signal   *)
(* of StopSession and its SIGKILL.  It releases its lock, or leaves it     *)
(* behind, stale from here.                                                *)
Die(p) ==
    /\ p \in Alive
    /\ proc' = [proc EXCEPT ![p] = [@ EXCEPT !.st = "dead", !.saw = None]]
    /\ dirLock' \in {dirLock, IF dirLock = p THEN None ELSE dirLock}
    /\ Settle(p, Watching)
    /\ UNCHANGED <<raced, daemon, crashes>>

------------------------------------------------------------------------------
(* The daemon's own life                                                   *)

(* It crashes or is stopped: memory and the handlers are gone, the         *)
(* detached session processes are not.                                     *)
DaemonCrash ==
    /\ up /\ crashes < MaxCrashes
    /\ crashes' = crashes + 1
    /\ up' = FALSE
    /\ tracked' = <<>> /\ pending' = <<>>
    /\ resumable' = NoRecords
    /\ restored' = TRUE /\ skipped' = {}
    /\ call' = [c \in Calls |-> IdleCall]
    /\ UNCHANGED <<proc, lock, sessionsFile>>

(* restore() and readoptLiveSessions(), before the control server listens: *)
(* the records of sessions.json, and those with a directory whose process  *)
(* still runs.  A file that cannot be read counts as empty; a running      *)
(* process is left out when ps or lsof fails or its directory cannot be    *)
(* resolved (deleted, unmounted, renamed).                                 *)
Orphans(records) == {e \in Range(records) : e.dir /\ e.pid \in Alive}
Boot_RestoresOnly ==
    /\ ~up
    /\ up' = TRUE
    /\ resumable' = sessionsFile
    /\ UNCHANGED <<proc, lock, tracked, pending, sessionsFile, probed, call, crashes>>
Boot ==
    /\ ~up
    /\ up' = TRUE
    /\ resumable' \in {sessionsFile, NoRecords}
    /\ restored' = (resumable' = sessionsFile)
    /\ skipped' \in SUBSET {e.pid : e \in Orphans(resumable')}
    /\ tracked' \in SetToSeqs({e \in Orphans(resumable') : e.pid \notin skipped'})
    /\ UNCHANGED <<proc, lock, pending, sessionsFile, call, crashes>>

------------------------------------------------------------------------------
Handler(c) ==
    \/ StopSession(c) \/ OldProcessGone(c) \/ Refuse(c) \/ Dedup(c) \/ Launch(c) \/ Timeout(c)

DaemonNext ==
    \/ \E c \in Calls :
         \/ \E kind \in Watching : Spawn(c, kind)
         \/ \E s \in Sessions : Resume(c, s)
         \/ Handler(c)
    \/ \E p \in Pids :
         \/ StartAtTerminal(p) \/ LinkLock(p) \/ LinkRefused(p) \/ HeldByRunning(p) \/ Diagnose(p)
         \/ Recheck(p) \/ RemoveStale(p) \/ Report(p) \/ StartFails(p) \/ Die(p)
    \/ PersistSession \/ PruneDeadSessions \/ DaemonCrash \/ Boot

DaemonSpec == DaemonInit /\ [][DaemonNext]_daemonVars

Sym == Permutations(Pids) \cup Permutations(Sessions) \cup Permutations(Calls)

------------------------------------------------------------------------------
(* What the variables range over.                                          *)
Entries == [pid : Pids, sid : Sessions \cup {None}, dir : BOOLEAN]
Records == [pid : Pids, sid : Sessions, dir : BOOLEAN]

DaemonTypeOK ==
    /\ proc \in [Pids -> [st : {"none", "boot", "look", "stale", "unlink", "held", "up", "known", "dead"},
                          sid : Sessions \cup {None}, saw : Pids \cup {None}]]
    /\ dirLock \in Pids \cup {None} /\ raced \in BOOLEAN
    /\ up \in BOOLEAN
    /\ tracked \in Seq(Entries)
    /\ \A i, j \in DOMAIN tracked : tracked[i].pid = tracked[j].pid => i = j
    /\ resumable \in [Sessions -> Records \cup {NoRecord}]
    /\ sessionsFile \in [Sessions -> Records \cup {NoRecord}]
    /\ \A s \in Sessions : \A record \in {resumable[s], sessionsFile[s]} :
         record.sid \in {None, s}
    /\ pending \in Seq(Records)
    /\ restored \in BOOLEAN /\ skipped \subseteq Pids
    /\ call \in [Calls -> [kind : Launching \cup {"none"},
                           pc : {"idle", "stop", "exit", "launch", "wait"},
                           sid : Sessions \cup {None}, pid : Pids \cup {None}]]
    /\ crashes \in 0..MaxCrashes

(* "a crashed session must still be resumable, not just forgotten": as     *)
(* long as a daemon runs that could read sessions.json when it booted,     *)
(* whatever has died, been pruned, resumed in vain or been re-adopted, a   *)
(* session sessions.json has a record of is found again.                   *)
ResumableKept ==
    up /\ restored => \A s \in Sessions : sessionsFile[s] # NoRecord => FindResumable(s) # NoRecord

(* A process that runs on with the session and the directory sessions.json *)
(* has for it is in the live map, directory and all, after any number of   *)
(* daemon restarts: stop, dedup and resume see it "without waiting for an  *)
(* explicit resumeSession RPC".  Left out is what the last boot had no way *)
(* to see: the file or the process, its directory included.                *)
LiveIsTracked ==
    up /\ restored =>
      \A s \in Sessions :
         sessionsFile[s].dir /\ sessionsFile[s].pid \in Alive \ skipped =>
           sessionsFile[s] \in Range(tracked)

(* One session process per directory gets past its lock, however many      *)
(* spawns, resumes and stale registry entries there are and however many   *)
(* processes find the same stale lock at once, as long as nobody has       *)
(* replaced a stale lock between the re-read and the unlink of one that    *)
(* reclaims it, the window reclaimIfStillStale narrows and leaves open.    *)
OneOwner ==
    ~raced =>
      \A p, q \in Pids :
         proc[p].st \in {"held", "up", "known"} /\ proc[q].st \in {"held", "up", "known"} => p = q

(* "A still-live process for the same session is stopped first and         *)
(* confirmed dead before the replacement is launched".                     *)
StoppedBeforeLaunch ==
    [][\A c \in Calls :
         call[c].kind = "resume" /\ call[c].pc = "launch" /\ call'[c].pc = "wait" =>
           \A e \in Range(tracked) : e.sid = call[c].sid => Dead(e)]_daemonVars
==============================================================================
