------------------------------- MODULE FileLock -------------------------------
(***************************************************************************)
(* The lock file of the machine's processes (credentialsLock.ts, with the  *)
(* isProcessAlive of daemon/lock.ts): a payload naming its owner, made     *)
(* visible by a hard link, reclaimed when the owner is dead.               *)
(*                                                                         *)
(* A payload is the pid alone: its startedAt tells apart two acquisitions  *)
(* of one process, and a process reads back only a payload it wrote last.  *)
(* A crashed process does not come back under its old pid.                 *)
(* Each file system call is a step of its own: what one of them read may   *)
(* be stale by the next one.  An unreadable lock file reads like an absent *)
(* one.                                                                    *)
(***************************************************************************)
EXTENDS Naturals

CONSTANTS Proc, NoOwner

ASSUME NoOwnerAssumption == NoOwner \notin Proc

VARIABLES
    alive,      \* the processes that kill(pid, 0) finds
    lockFile,   \* the pid the lock file names, NoOwner when there is no file
    lockPc,     \* where each process is in acquireCredentialsLock and release
    observed    \* the payload a process has diagnosed as stale

lockVars == <<lockFile, lockPc, observed>>

LockStates ==
    {"idle", "link", "read", "reread", "unlink", "held", "unlocked", "release", "remove"}

LockTypeOK ==
    /\ alive \subseteq Proc
    /\ lockFile \in Proc \cup {NoOwner}
    /\ lockPc \in [Proc -> LockStates]
    /\ observed \in [Proc -> Proc \cup {NoOwner}]

LockInit ==
    /\ lockFile = NoOwner
    /\ lockPc = [p \in Proc |-> "idle"]
    /\ observed = [p \in Proc |-> NoOwner]

IsProcessAlive(p) == p \in alive

LockStep(p, from, to) ==
    /\ p \in alive
    /\ lockPc[p] = from
    /\ lockPc' = [lockPc EXCEPT ![p] = to]

(* The private payload is linked onto the lock's path: the link fails when *)
(* the path exists.                                                        *)
Link(p) ==
    /\ lockFile = NoOwner
    /\ LockStep(p, "link", "held")
    /\ lockFile' = p
    /\ UNCHANGED observed

LinkExists(p) ==
    /\ lockFile # NoOwner
    /\ LockStep(p, "link", "read")
    /\ UNCHANGED <<lockFile, observed>>

(* The payload names a live process: sleep and try again, or give up when  *)
(* the deadline has passed, and go on without the lock.                    *)
OwnerLives(p) ==
    /\ IsProcessAlive(lockFile)
    /\ \/ LockStep(p, "read", "link")
       \/ LockStep(p, "read", "unlocked")
    /\ UNCHANGED <<lockFile, observed>>

(* The owner is dead, or the file is gone or unreadable.                   *)
OwnerStale(p) ==
    /\ ~IsProcessAlive(lockFile)
    /\ LockStep(p, "read", "reread")
    /\ observed' = [observed EXCEPT ![p] = lockFile]
    /\ UNCHANGED lockFile

(* A mutation: the re-check is the wrong way round.                        *)
Reread_Inverted(p) ==
    /\ LockStep(p, "reread", IF lockFile # observed[p] THEN "unlink" ELSE "link")
    /\ observed' = [observed EXCEPT ![p] = NoOwner]
    /\ UNCHANGED lockFile

(* reclaimIfStillStale: the file is read once more, and removed when it    *)
(* still says what was diagnosed ...                                       *)
Reread(p) ==
    /\ LockStep(p, "reread", IF lockFile = observed[p] THEN "unlink" ELSE "link")
    /\ observed' = [observed EXCEPT ![p] = NoOwner]
    /\ UNCHANGED lockFile

(* ... whatever it says when the removal takes place.                      *)
Unlink(p) ==
    /\ LockStep(p, "unlink", "link")
    /\ lockFile' = NoOwner
    /\ UNCHANGED observed

(* release: the file is read, and removed when it is this process's own.   *)
Release(p) ==
    /\ LockStep(p, "release", IF lockFile = p THEN "remove" ELSE "idle")
    /\ UNCHANGED <<lockFile, observed>>

RemoveOwn(p) ==
    /\ LockStep(p, "remove", "idle")
    /\ lockFile' = NoOwner
    /\ UNCHANGED observed

(* A process dies wherever it is, and leaves the lock file as it is.       *)
LockCrash(p) ==
    /\ p \in alive
    /\ alive' = alive \ {p}
    /\ lockPc' = [lockPc EXCEPT ![p] = "idle"]
    /\ observed' = [observed EXCEPT ![p] = NoOwner]
    /\ UNCHANGED lockFile

LockNext(p) ==
    \/ Link(p) \/ LinkExists(p) \/ OwnerLives(p) \/ OwnerStale(p)
    \/ Reread(p) \/ Unlink(p) \/ Release(p) \/ RemoveOwn(p)
===============================================================================
