----------------------------- MODULE TokenRefresh -----------------------------
(***************************************************************************)
(* The refresh token that the processes of one machine share: the token    *)
(* provider of each process (tokenProvider.ts), the credentials file, the  *)
(* lock around a refresh (FileLock) and the server's single-use rotation   *)
(* with its grace window (routes/refresh.ts).                              *)
(*                                                                         *)
(* The tokens of the family are numbered in the order the server draws     *)
(* them: only the newest one (cur) and the one before it are known to the  *)
(* server, the others are garbage to it.                                   *)
(*                                                                         *)
(* The network may lose a request before the server acts, or the answer    *)
(* after it did; a server error is a lost request.  Assumed of real time:  *)
(* a call does not take as long as the grace window of 60 s, so the window *)
(* never closes while a call is under way that presented a superseded      *)
(* token.  Nothing is assumed of the lock: a process may give up waiting   *)
(* for it and go on without.                                               *)
(*                                                                         *)
(* Bound: MaxRefreshes refreshes are begun in all.                         *)
(***************************************************************************)
EXTENDS FileLock

CONSTANTS NoToken, MaxRefreshes

ASSUME TokenAssumption == MaxRefreshes \in Nat /\ NoToken \notin Nat

VARIABLES
    born,      \* the processes that have started
    mem,       \* the refresh token each provider holds
    dead,      \* the providers that demand a new login
    pc,        \* where each refresh is; "out" when none is under way
    retried,   \* retriedStaleToken
    reply,     \* the token of a 200, NoToken for a 401
    file,      \* the refresh token in ~/.kvy/access.key
    cur,       \* the newest token of the family
    inGrace,   \* the last rotation is less than GRACE_MS ago
    revoked,   \* the family is revoked
    begun,     \* bound: the refreshes begun so far
    faults     \* history: "dropped" when no live process ever gets the answer
               \* of a rotation, "unsaved" when it cannot be written to the file

provider == <<born, mem, dead, pc, retried>>
server == <<cur, inGrace, revoked>>
vars == <<alive, lockVars, provider, server, reply, file, begun, faults>>

Token == Nat \ {0}
InCall(p) == pc[p] \in {"sent", "lookup", "revoke"} \/ (pc[p] = "reply" /\ p \in alive)
Rotated(p) == reply[p] \notin {NoToken, mem[p]}

Init ==
    /\ alive = {} /\ LockInit
    /\ born = {}
    /\ mem = [p \in Proc |-> 1]
    /\ dead = [p \in Proc |-> FALSE]
    /\ pc = [p \in Proc |-> "out"]
    /\ retried = [p \in Proc |-> FALSE]
    /\ reply = [p \in Proc |-> NoToken]
    /\ file = 1
    /\ cur = 1 /\ inGrace = FALSE /\ revoked = FALSE
    /\ begun = 0
    /\ faults = {}

------------------------------------------------------------------------------
(* The process                                                             *)

(* A process starts and reads the credentials once.                        *)
Start(p) ==
    /\ p \notin born /\ file # NoToken
    /\ born' = born \cup {p} /\ alive' = alive \cup {p}
    /\ mem' = [mem EXCEPT ![p] = file]
    /\ UNCHANGED <<lockVars, dead, pc, retried, server, reply, file, begun, faults>>

(* refreshOnce: callers share one refresh, which starts by taking the lock.*)
Begin(p) ==
    /\ begun < MaxRefreshes /\ ~dead[p]
    /\ LockStep(p, "idle", "link")
    /\ begun' = begun + 1
    /\ UNCHANGED <<alive, lockFile, observed, provider, server, reply, file, faults>>

Lock(p) ==
    /\ LockNext(p)
    /\ UNCHANGED <<alive, provider, server, reply, file, begun, faults>>

(* A mutation: the file is not read before the token is presented.         *)
Send_NoAdopt(p) ==
    /\ p \in alive /\ pc[p] = "out"
    /\ lockPc[p] \in {"held", "unlocked"}
    /\ pc' = [pc EXCEPT ![p] = "sent"]
    /\ UNCHANGED <<alive, lockVars, born, mem, dead, retried, server, reply, file, begun, faults>>

(* doRefresh: adopt what a sibling has written, then present the token.    *)
Send(p) ==
    /\ p \in alive /\ pc[p] = "out"
    /\ lockPc[p] \in {"held", "unlocked"}
    /\ mem' = [mem EXCEPT ![p] = IF file = NoToken THEN @ ELSE file]
    /\ pc' = [pc EXCEPT ![p] = "sent"]
    /\ UNCHANGED <<alive, lockVars, born, dead, retried, server, reply, file, begun, faults>>

(* The end of the section: release the lock if it is held.                 *)
EndSection(p) ==
    /\ pc' = [pc EXCEPT ![p] = "out"]
    /\ retried' = [retried EXCEPT ![p] = FALSE]
    /\ reply' = [reply EXCEPT ![p] = NoToken]
    /\ lockPc' = [lockPc EXCEPT ![p] = IF @ = "held" THEN "release" ELSE "idle"]
    /\ UNCHANGED <<alive, lockFile, observed, born, server, begun>>

(* A mutation: an echoed token is written as if it were a rotation.        *)
ReceiveToken_AlwaysPersists(p) ==
    /\ p \in alive /\ pc[p] = "reply" /\ reply[p] # NoToken
    /\ mem' = [mem EXCEPT ![p] = reply[p]]
    /\ file' = reply[p]
    /\ EndSection(p)
    /\ UNCHANGED <<dead, faults>>

(* 200: keep the token, and write it to the file if it is a new one; the   *)
(* write may fail.                                                         *)
ReceiveToken(p) ==
    /\ p \in alive /\ pc[p] = "reply" /\ reply[p] # NoToken
    /\ mem' = [mem EXCEPT ![p] = reply[p]]
    /\ \/ /\ file' = IF Rotated(p) THEN reply[p] ELSE file
          /\ UNCHANGED faults
       \/ /\ Rotated(p)
          /\ faults' = faults \cup {"unsaved"}
          /\ UNCHANGED file
    /\ EndSection(p)
    /\ UNCHANGED dead

(* 401: present the file's token if it is another one, once.               *)
RetryWithFile(p) ==
    /\ p \in alive /\ pc[p] = "reply" /\ reply[p] = NoToken
    /\ ~retried[p] /\ file \notin {NoToken, mem[p]}
    /\ mem' = [mem EXCEPT ![p] = file]
    /\ retried' = [retried EXCEPT ![p] = TRUE]
    /\ pc' = [pc EXCEPT ![p] = "sent"]
    /\ UNCHANGED <<alive, lockVars, born, dead, server, reply, file, begun, faults>>

(* 401 again, or nothing else to present: a new login is needed.           *)
Condemn(p) ==
    /\ p \in alive /\ pc[p] = "reply" /\ reply[p] = NoToken
    /\ retried[p] \/ file \in {NoToken, mem[p]}
    /\ dead' = [dead EXCEPT ![p] = TRUE]
    /\ EndSection(p)
    /\ UNCHANGED <<mem, file, faults>>

(* The process dies; in the middle of a write it leaves an empty file.     *)
Crash(p) ==
    /\ LockCrash(p)
    /\ IF pc[p] = "reply" /\ Rotated(p)
         THEN file' \in {file, NoToken} /\ faults' = faults \cup {"dropped"}
         ELSE UNCHANGED <<file, faults>>
    /\ retried' = [retried EXCEPT ![p] = FALSE]
    /\ UNCHANGED <<born, mem, dead, pc, server, reply, begun>>

------------------------------------------------------------------------------
(* The server and the network                                              *)

(* (1) The presented token is the current one: one UPDATE rotates it.      *)
Rotate(p) ==
    /\ pc[p] = "sent" /\ mem[p] = cur /\ ~revoked
    /\ cur' = cur + 1 /\ inGrace' = TRUE
    /\ reply' = [reply EXCEPT ![p] = cur + 1]
    /\ pc' = [pc EXCEPT ![p] = "reply"]
    /\ faults' = IF p \in alive THEN faults ELSE faults \cup {"dropped"}
    /\ UNCHANGED <<alive, lockVars, born, mem, dead, retried, revoked, file, begun>>

Miss(p) ==
    /\ pc[p] = "sent" /\ (mem[p] # cur \/ revoked)
    /\ pc' = [pc EXCEPT ![p] = "lookup"]
    /\ UNCHANGED <<alive, lockVars, born, mem, dead, retried, server, reply, file, begun, faults>>

Answer(p, from, token) ==
    /\ pc[p] = from
    /\ reply' = [reply EXCEPT ![p] = token]
    /\ pc' = [pc EXCEPT ![p] = "reply"]
    /\ UNCHANGED <<alive, lockVars, born, mem, dead, retried, cur, inGrace, file, begun, faults>>

(* (2) The previous one, within the grace window: echo it.                 *)
Echo(p) ==
    /\ mem[p] = cur - 1 /\ inGrace /\ ~revoked
    /\ Answer(p, "lookup", mem[p])
    /\ UNCHANGED revoked

(* The previous one after the window: reuse, the family is revoked ...     *)
Reuse(p) ==
    /\ pc[p] = "lookup"
    /\ mem[p] = cur - 1 /\ (~inGrace \/ revoked)
    /\ pc' = [pc EXCEPT ![p] = "revoke"]
    /\ UNCHANGED <<alive, lockVars, born, mem, dead, retried, server, reply, file, begun, faults>>

RevokeFamily(p) == Answer(p, "revoke", NoToken) /\ revoked' = TRUE

(* (3) A token the server does not know.                                   *)
Unknown(p) ==
    /\ mem[p] # cur - 1
    /\ Answer(p, "lookup", NoToken)
    /\ UNCHANGED revoked

(* The 60 s since the last rotation are over.                              *)
GraceEnds ==
    /\ inGrace
    /\ \A p \in Proc : InCall(p) => mem[p] = cur
    /\ inGrace' = FALSE
    /\ UNCHANGED <<alive, lockVars, provider, cur, revoked, reply, file, begun, faults>>

(* The call throws, or answers neither 200 nor 401.                        *)
LoseCall(p) ==
    /\ p \in alive /\ pc[p] \in {"sent", "reply"}
    /\ faults' = IF pc[p] = "reply" /\ Rotated(p) THEN faults \cup {"dropped"} ELSE faults
    /\ EndSection(p)
    /\ UNCHANGED <<mem, dead, file>>

Handle(p) == Rotate(p) \/ Miss(p) \/ Echo(p) \/ Reuse(p) \/ RevokeFamily(p) \/ Unknown(p)
Receive(p) == ReceiveToken(p) \/ RetryWithFile(p) \/ Condemn(p)

Next ==
    \/ \E p \in Proc :
         \/ Start(p) \/ Begin(p) \/ Lock(p) \/ Send(p) \/ Handle(p) \/ Receive(p)
         \/ LoseCall(p) \/ Crash(p)
    \/ GraceEnds

Spec == Init /\ [][Next]_vars

(* A live process goes on with its own steps, and a call gets an answer or *)
(* an error.  Starting, crashing and the beginning of a refresh are free.  *)
Fairness ==
    \A p \in Proc :
        WF_vars(Lock(p)) /\ WF_vars(Send(p)) /\ WF_vars(Receive(p)) /\ WF_vars(Handle(p))

FairSpec == Spec /\ Fairness

------------------------------------------------------------------------------
TypeOK ==
    /\ LockTypeOK
    /\ born \subseteq Proc
    /\ mem \in [Proc -> Token]
    /\ dead \in [Proc -> BOOLEAN] /\ retried \in [Proc -> BOOLEAN]
    /\ pc \in [Proc -> {"out", "sent", "lookup", "revoke", "reply"}]
    /\ reply \in [Proc -> Token \cup {NoToken}]
    /\ file \in Token \cup {NoToken}
    /\ cur \in Token /\ inGrace \in BOOLEAN /\ revoked \in BOOLEAN
    /\ begun \in 0 .. MaxRefreshes
    /\ faults \subseteq {"dropped", "unsaved"}

(* Processes of one machine never get their own family revoked, however    *)
(* they race and whether or not they hold the lock: only a rotation whose  *)
(* token was lost can do that.                                             *)
FamilyKept == revoked => faults # {}

(* A token is never written over a newer one: not by an echoed answer, not *)
(* by a sibling that was slow.                                             *)
FileAdvances ==
    [][file # NoToken /\ file' # NoToken => file' >= file]_vars

(* The lock file of a process that died is removed once somebody waits.    *)
StaleLockGoes ==
    \A p, q \in Proc :
        lockPc[p] = "link" /\ lockFile = q ~> q \in alive \/ lockFile # q \/ p \notin alive

------------------------------------------------------------------------------
(* The inductive invariant.  While the answer of a rotation is under way   *)
(* nobody else knows the newest token, so nobody can rotate it.            *)
Pending(p) == pc[p] = "reply" /\ Rotated(p)

NewestInv ==
    /\ alive \subseteq born
    /\ \A p \in Proc : p \notin born => pc[p] = "out"
    /\ \A p \in Proc : mem[p] <= cur
    /\ file # NoToken => file <= cur
    /\ \A p \in Proc : Pending(p) =>
         /\ reply[p] = cur
         /\ \A q \in Proc : mem[q] < cur /\ (Pending(q) => q = p)
         /\ file # NoToken => file < cur

(* As long as no rotated token was lost, the file has the newest one or a  *)
(* live process is about to write it, and a call that presented an older   *)
(* one is answered within the grace window.                                *)
KeptInv ==
    faults = {} =>
        /\ ~revoked
        /\ file # NoToken
        /\ file = cur \/ \E p \in Proc : Pending(p)
        /\ \A p \in Proc :
             /\ Pending(p) => p \in alive
             /\ InCall(p) /\ mem[p] # cur => inGrace
             /\ pc[p] # "revoke"
             /\ pc[p] = "lookup" => mem[p] # cur

IInv == TypeOK /\ NewestInv /\ KeptInv
==============================================================================
