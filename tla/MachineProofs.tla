----------------------------- MODULE MachineProofs -----------------------------
(***************************************************************************)
(* Proofs about the processes of one machine: the refresh token they       *)
(* share, for any number of processes and of refreshes; the lock of a      *)
(* session directory and the daemon's registry of session processes, for   *)
(* any number of processes, sessions, RPC handlers and daemon crashes.     *)
(***************************************************************************)
EXTENDS TokenRefresh, DaemonSessions, FiniteSetTheorems, TLAPS

-----------------------------------------------------------------------------
(* The shared refresh token *)

\* A fresh login satisfies the invariant.
LEMMA InitIInv == Init => IInv
<1> SUFFICES ASSUME Init PROVE IInv
  OBVIOUS
<1> USE TokenAssumption, NoOwnerAssumption DEF Init, LockInit
<1>1. TypeOK
  <2>1. LockTypeOK
    BY DEF LockTypeOK, LockStates
  <2>2. /\ mem \in [Proc -> Token] /\ cur \in Token
        /\ reply \in [Proc -> Token \cup {NoToken}] /\ file \in Token \cup {NoToken}
    BY DEF Token
  <2>3. /\ pc \in [Proc -> {"out", "sent", "lookup", "revoke", "reply"}]
        /\ dead \in [Proc -> BOOLEAN] /\ retried \in [Proc -> BOOLEAN]
    OBVIOUS
  <2>4. begun \in 0 .. MaxRefreshes
    OBVIOUS
  <2>. QED
    BY <2>1, <2>2, <2>3, <2>4 DEF TypeOK
<1>2. \A p \in Proc : ~Pending(p) /\ ~InCall(p)
  BY DEF Pending, InCall
<1>. QED
  BY <1>1, <1>2 DEF IInv, NewestInv, KeptInv

\* Every step keeps the state well typed.
LEMMA NextTypeOK == TypeOK /\ [Next]_vars => TypeOK'
<1> SUFFICES ASSUME TypeOK, [Next]_vars PROVE TypeOK'
  OBVIOUS
<1>1. ASSUME NEW p \in Proc, Start(p) PROVE TypeOK'
  BY <1>1, TokenAssumption DEF Start, TypeOK, LockTypeOK, LockStates, Token, lockVars, provider, server
<1>2. ASSUME NEW p \in Proc, Begin(p) PROVE TypeOK'
  BY <1>2, TokenAssumption DEF Begin, LockStep, TypeOK, LockTypeOK, LockStates, Token, lockVars, provider, server
<1>3. ASSUME NEW p \in Proc, Lock(p) PROVE TypeOK'
  BY <1>3, TokenAssumption DEF Lock, LockNext, Link, LinkExists, OwnerLives, OwnerStale, Reread, Unlink, Release, RemoveOwn, LockStep, TypeOK, LockTypeOK, LockStates, Token, lockVars, provider, server
<1>4. ASSUME NEW p \in Proc, Send(p) PROVE TypeOK'
  BY <1>4, TokenAssumption DEF Send, TypeOK, LockTypeOK, LockStates, Token, lockVars, provider, server
<1>5. ASSUME NEW p \in Proc, Rotate(p) PROVE TypeOK'
  BY <1>5, TokenAssumption DEF Rotate, TypeOK, LockTypeOK, LockStates, Token, lockVars, provider, server
<1>6. ASSUME NEW p \in Proc, Miss(p) PROVE TypeOK'
  BY <1>6, TokenAssumption DEF Miss, TypeOK, LockTypeOK, LockStates, Token, lockVars, provider, server
<1>7. ASSUME NEW p \in Proc, Echo(p) PROVE TypeOK'
  BY <1>7, TokenAssumption DEF Echo, Answer, TypeOK, LockTypeOK, LockStates, Token, lockVars, provider, server
<1>8. ASSUME NEW p \in Proc, Reuse(p) PROVE TypeOK'
  BY <1>8, TokenAssumption DEF Reuse, TypeOK, LockTypeOK, LockStates, Token, lockVars, provider, server
<1>9. ASSUME NEW p \in Proc, RevokeFamily(p) PROVE TypeOK'
  BY <1>9, TokenAssumption DEF RevokeFamily, Answer, TypeOK, LockTypeOK, LockStates, Token, lockVars, provider, server
<1>10. ASSUME NEW p \in Proc, Unknown(p) PROVE TypeOK'
  BY <1>10, TokenAssumption DEF Unknown, Answer, TypeOK, LockTypeOK, LockStates, Token, lockVars, provider, server
<1>11. ASSUME NEW p \in Proc, ReceiveToken(p) PROVE TypeOK'
  BY <1>11, TokenAssumption DEF ReceiveToken, EndSection, Rotated, TypeOK, LockTypeOK, LockStates, Token, lockVars, provider, server
<1>12. ASSUME NEW p \in Proc, RetryWithFile(p) PROVE TypeOK'
  BY <1>12, TokenAssumption DEF RetryWithFile, TypeOK, LockTypeOK, LockStates, Token, lockVars, provider, server
<1>13. ASSUME NEW p \in Proc, Condemn(p) PROVE TypeOK'
  BY <1>13, TokenAssumption DEF Condemn, EndSection, TypeOK, LockTypeOK, LockStates, Token, lockVars, provider, server
<1>14. ASSUME NEW p \in Proc, LoseCall(p) PROVE TypeOK'
  BY <1>14, TokenAssumption DEF LoseCall, EndSection, Rotated, TypeOK, LockTypeOK, LockStates, Token, lockVars, provider, server
<1>15. ASSUME NEW p \in Proc, Crash(p) PROVE TypeOK'
  BY <1>15, TokenAssumption DEF Crash, LockCrash, Rotated, TypeOK, LockTypeOK, LockStates, Token, lockVars, provider, server
<1>16. ASSUME GraceEnds PROVE TypeOK'
  BY <1>16, TokenAssumption DEF GraceEnds, InCall, TypeOK, LockTypeOK, LockStates, Token, lockVars, provider, server
<1>17. CASE UNCHANGED vars
  BY <1>17 DEF vars, lockVars, provider, server, TypeOK, LockTypeOK, LockStates, Token
<1>. QED
  BY <1>1, <1>2, <1>3, <1>4, <1>5, <1>6, <1>7, <1>8, <1>9, <1>10, <1>11, <1>12, <1>13, <1>14, <1>15, <1>16, <1>17 DEF Next, Handle, Receive

\* Nobody but the process the answer goes to knows the newest token before
\* it is written, and nobody holds a token the server has not drawn.
LEMMA NextNewestInv == TypeOK /\ NewestInv /\ [Next]_vars => NewestInv'
<1> SUFFICES ASSUME TypeOK, NewestInv, [Next]_vars PROVE NewestInv'
  OBVIOUS
<1>1. ASSUME NEW p \in Proc, Start(p) PROVE NewestInv'
  BY <1>1, TokenAssumption DEF Start, TypeOK, LockTypeOK, Token, NewestInv, Pending, Rotated, lockVars, provider, server
<1>2. ASSUME NEW p \in Proc, Begin(p) PROVE NewestInv'
  BY <1>2, TokenAssumption DEF Begin, LockStep, TypeOK, LockTypeOK, Token, NewestInv, Pending, Rotated, lockVars, provider, server
<1>3. ASSUME NEW p \in Proc, Lock(p) PROVE NewestInv'
  BY <1>3, TokenAssumption DEF Lock, LockNext, Link, LinkExists, OwnerLives, OwnerStale, Reread, Unlink, Release, RemoveOwn, LockStep, TypeOK, LockTypeOK, Token, NewestInv, Pending, Rotated, lockVars, provider, server
<1>4. ASSUME NEW p \in Proc, Send(p) PROVE NewestInv'
  BY <1>4, TokenAssumption DEF Send, TypeOK, LockTypeOK, Token, NewestInv, Pending, Rotated, lockVars, provider, server
<1>5. ASSUME NEW p \in Proc, Rotate(p) PROVE NewestInv'
  BY <1>5, TokenAssumption DEF Rotate, TypeOK, LockTypeOK, Token, NewestInv, Pending, Rotated, lockVars, provider, server
<1>6. ASSUME NEW p \in Proc, Miss(p) PROVE NewestInv'
  BY <1>6, TokenAssumption DEF Miss, TypeOK, LockTypeOK, Token, NewestInv, Pending, Rotated, lockVars, provider, server
<1>7. ASSUME NEW p \in Proc, Echo(p) PROVE NewestInv'
  BY <1>7, TokenAssumption DEF Echo, Answer, TypeOK, LockTypeOK, Token, NewestInv, Pending, Rotated, lockVars, provider, server
<1>8. ASSUME NEW p \in Proc, Reuse(p) PROVE NewestInv'
  BY <1>8, TokenAssumption DEF Reuse, TypeOK, LockTypeOK, Token, NewestInv, Pending, Rotated, lockVars, provider, server
<1>9. ASSUME NEW p \in Proc, RevokeFamily(p) PROVE NewestInv'
  BY <1>9, TokenAssumption DEF RevokeFamily, Answer, TypeOK, LockTypeOK, Token, NewestInv, Pending, Rotated, lockVars, provider, server
<1>10. ASSUME NEW p \in Proc, Unknown(p) PROVE NewestInv'
  BY <1>10, TokenAssumption DEF Unknown, Answer, TypeOK, LockTypeOK, Token, NewestInv, Pending, Rotated, lockVars, provider, server
<1>11. ASSUME NEW p \in Proc, ReceiveToken(p) PROVE NewestInv'
  BY <1>11, TokenAssumption DEF ReceiveToken, EndSection, Rotated, TypeOK, LockTypeOK, Token, NewestInv, Pending, lockVars, provider, server
<1>12. ASSUME NEW p \in Proc, RetryWithFile(p) PROVE NewestInv'
  BY <1>12, TokenAssumption DEF RetryWithFile, TypeOK, LockTypeOK, Token, NewestInv, Pending, Rotated, lockVars, provider, server
<1>13. ASSUME NEW p \in Proc, Condemn(p) PROVE NewestInv'
  BY <1>13, TokenAssumption DEF Condemn, EndSection, TypeOK, LockTypeOK, Token, NewestInv, Pending, Rotated, lockVars, provider, server
<1>14. ASSUME NEW p \in Proc, LoseCall(p) PROVE NewestInv'
  BY <1>14, TokenAssumption DEF LoseCall, EndSection, Rotated, TypeOK, LockTypeOK, Token, NewestInv, Pending, lockVars, provider, server
<1>15. ASSUME NEW p \in Proc, Crash(p) PROVE NewestInv'
  BY <1>15, TokenAssumption DEF Crash, LockCrash, Rotated, TypeOK, LockTypeOK, Token, NewestInv, Pending, lockVars, provider, server
<1>16. ASSUME GraceEnds PROVE NewestInv'
  BY <1>16, TokenAssumption DEF GraceEnds, InCall, TypeOK, LockTypeOK, Token, NewestInv, Pending, Rotated, lockVars, provider, server
<1>17. CASE UNCHANGED vars
  BY <1>17 DEF vars, lockVars, provider, server, TypeOK, LockTypeOK, Token, NewestInv, Pending, Rotated
<1>. QED
  BY <1>1, <1>2, <1>3, <1>4, <1>5, <1>6, <1>7, <1>8, <1>9, <1>10, <1>11, <1>12, <1>13, <1>14, <1>15, <1>16, <1>17 DEF Next, Handle, Receive

\* As long as nothing was lost, the newest token is on disk or about to be.
LEMMA NextKeptInv == TypeOK /\ NewestInv /\ KeptInv /\ [Next]_vars => KeptInv'
<1> SUFFICES ASSUME TypeOK, NewestInv, KeptInv, [Next]_vars PROVE KeptInv'
  OBVIOUS
<1>1. ASSUME NEW p \in Proc, Start(p) PROVE KeptInv'
  BY <1>1, TokenAssumption DEF Start, TypeOK, LockTypeOK, Token, NewestInv, KeptInv, Pending, Rotated, InCall, lockVars, provider, server
<1>2. ASSUME NEW p \in Proc, Begin(p) PROVE KeptInv'
  BY <1>2, TokenAssumption DEF Begin, LockStep, TypeOK, LockTypeOK, Token, NewestInv, KeptInv, Pending, Rotated, InCall, lockVars, provider, server
<1>3. ASSUME NEW p \in Proc, Lock(p) PROVE KeptInv'
  BY <1>3, TokenAssumption DEF Lock, LockNext, Link, LinkExists, OwnerLives, OwnerStale, Reread, Unlink, Release, RemoveOwn, LockStep, TypeOK, LockTypeOK, Token, NewestInv, KeptInv, Pending, Rotated, InCall, lockVars, provider, server
<1>4. ASSUME NEW p \in Proc, Send(p) PROVE KeptInv'
  BY <1>4, TokenAssumption DEF Send, TypeOK, LockTypeOK, Token, NewestInv, KeptInv, Pending, Rotated, InCall, lockVars, provider, server
<1>5. ASSUME NEW p \in Proc, Rotate(p) PROVE KeptInv'
  BY <1>5, TokenAssumption DEF Rotate, TypeOK, LockTypeOK, Token, NewestInv, KeptInv, Pending, Rotated, InCall, lockVars, provider, server
<1>6. ASSUME NEW p \in Proc, Miss(p) PROVE KeptInv'
  BY <1>6, TokenAssumption DEF Miss, TypeOK, LockTypeOK, Token, NewestInv, KeptInv, Pending, Rotated, InCall, lockVars, provider, server
<1>7. ASSUME NEW p \in Proc, Echo(p) PROVE KeptInv'
  BY <1>7, TokenAssumption DEF Echo, Answer, TypeOK, LockTypeOK, Token, NewestInv, KeptInv, Pending, Rotated, InCall, lockVars, provider, server
<1>8. ASSUME NEW p \in Proc, Reuse(p) PROVE KeptInv'
  BY <1>8, TokenAssumption DEF Reuse, TypeOK, LockTypeOK, Token, NewestInv, KeptInv, Pending, Rotated, InCall, lockVars, provider, server
<1>9. ASSUME NEW p \in Proc, RevokeFamily(p) PROVE KeptInv'
  BY <1>9, TokenAssumption DEF RevokeFamily, Answer, TypeOK, LockTypeOK, Token, NewestInv, KeptInv, Pending, Rotated, InCall, lockVars, provider, server
<1>10. ASSUME NEW p \in Proc, Unknown(p) PROVE KeptInv'
  BY <1>10, TokenAssumption DEF Unknown, Answer, TypeOK, LockTypeOK, Token, NewestInv, KeptInv, Pending, Rotated, InCall, lockVars, provider, server
<1>11. ASSUME NEW p \in Proc, ReceiveToken(p) PROVE KeptInv'
  BY <1>11, TokenAssumption DEF ReceiveToken, EndSection, Rotated, TypeOK, LockTypeOK, Token, NewestInv, KeptInv, Pending, InCall, lockVars, provider, server
<1>12. ASSUME NEW p \in Proc, RetryWithFile(p) PROVE KeptInv'
  BY <1>12, TokenAssumption DEF RetryWithFile, TypeOK, LockTypeOK, Token, NewestInv, KeptInv, Pending, Rotated, InCall, lockVars, provider, server
<1>13. ASSUME NEW p \in Proc, Condemn(p) PROVE KeptInv'
  BY <1>13, TokenAssumption DEF Condemn, EndSection, TypeOK, LockTypeOK, Token, NewestInv, KeptInv, Pending, Rotated, InCall, lockVars, provider, server
<1>14. ASSUME NEW p \in Proc, LoseCall(p) PROVE KeptInv'
  BY <1>14, TokenAssumption DEF LoseCall, EndSection, Rotated, TypeOK, LockTypeOK, Token, NewestInv, KeptInv, Pending, InCall, lockVars, provider, server
<1>15. ASSUME NEW p \in Proc, Crash(p) PROVE KeptInv'
  BY <1>15, TokenAssumption DEF Crash, LockCrash, Rotated, TypeOK, LockTypeOK, Token, NewestInv, KeptInv, Pending, InCall, lockVars, provider, server
<1>16. ASSUME GraceEnds PROVE KeptInv'
  BY <1>16, TokenAssumption DEF GraceEnds, InCall, TypeOK, LockTypeOK, Token, NewestInv, KeptInv, Pending, Rotated, lockVars, provider, server
<1>17. CASE UNCHANGED vars
  BY <1>17 DEF vars, lockVars, provider, server, TypeOK, LockTypeOK, Token, NewestInv, KeptInv, Pending, Rotated, InCall
<1>. QED
  BY <1>1, <1>2, <1>3, <1>4, <1>5, <1>6, <1>7, <1>8, <1>9, <1>10, <1>11, <1>12, <1>13, <1>14, <1>15, <1>16, <1>17 DEF Next, Handle, Receive

\* The invariant holds in every state of the specification.
LEMMA Invariance == Spec => []IInv
<1>1. IInv /\ [Next]_vars => IInv'
  BY NextTypeOK, NextNewestInv, NextKeptInv DEF IInv
<1>. QED
  BY InitIInv, <1>1, PTL DEF Spec

\* The state is well typed, for any number of processes.
THEOREM TypeCorrect == Spec => []TypeOK
<1>1. IInv => TypeOK
  BY DEF IInv
<1>. QED
  BY Invariance, <1>1, PTL

\* Siblings that race for the token, with the lock or without it, do not get
\* the family revoked (the server's reuse branch, routes/refresh.ts).
THEOREM SiblingsKeepFamily == Spec => []FamilyKept
<1>1. IInv => FamilyKept
  BY DEF IInv, KeptInv, FamilyKept
<1>. QED
  BY Invariance, <1>1, PTL

\* A step writes a token over an older one only.
LEMMA StepAdvances ==
  ASSUME IInv, [Next]_vars, file # NoToken, file' # NoToken
  PROVE  file' >= file
<1>1. CASE \E p \in Proc : ReceiveToken(p)
  <2>1. PICK p \in Proc : ReceiveToken(p)
    BY <1>1
  <2>2. CASE Rotated(p)
    BY <2>1, <2>2 DEF ReceiveToken, IInv, TypeOK, Token, NewestInv, Pending
  <2>3. CASE ~Rotated(p)
    BY <2>1, <2>3 DEF ReceiveToken, IInv, TypeOK, Token
  <2>. QED
    BY <2>2, <2>3
<1>2. CASE ~ \E p \in Proc : ReceiveToken(p)
  <2>1. file' \in {file, NoToken}
    BY <1>2 DEF Next, Start, Begin, Lock, Send, Handle, Rotate, Miss, Echo, Reuse, RevokeFamily,
       Unknown, Answer, Receive, RetryWithFile, Condemn, LoseCall, Crash, GraceEnds, vars
  <2>. QED
    BY <2>1 DEF IInv, TypeOK, Token
<1>. QED
  BY <1>1, <1>2

\* The credentials file never goes back to an older token (the check that an
\* echoed token is no rotation, tokenProvider.ts).
THEOREM FileOnlyAdvances == Spec => FileAdvances
<1>1. IInv /\ [Next]_vars => [file # NoToken /\ file' # NoToken => file' >= file]_vars
  BY StepAdvances
<1>. QED
  BY Invariance, <1>1, PTL DEF Spec, FileAdvances
-----------------------------------------------------------------------------
(* One owner of the directory's lock.  The property does not look at the   *)
(* lock; its strengthening does: as long as no reclaim has raced, whoever  *)
(* got past the lock is the pid the lock file names.  That alone is not    *)
(* inductive: a process that reclaims a stale lock removes the file of the *)
(* owner it has seen, so the owner it has seen must be dead, and stay dead.*)

Past(p) == proc[p].st \in {"held", "up", "known"}
Was(p) == p \in Pids /\ proc[p].st = "dead"

Shape ==
  proc = [p \in Pids |-> [st |-> proc[p].st, sid |-> proc[p].sid, saw |-> proc[p].saw]]

Stages == {"none", "boot", "look", "stale", "unlink", "held", "up", "known", "dead"}
States == \A p \in Pids : proc[p].st \in Stages

(* Whoever is past the lock is named by the lock file.                     *)
Named == ~raced => \A p \in Pids : Past(p) => dirLock = p

(* The lock file names a process that was launched.                        *)
Launched == dirLock # None => dirLock \in Pids /\ proc[dirLock].st # "none"

(* The owner that was found dead is; None stands for a lock that was gone. *)
SawDead == \A p \in Pids : proc[p].st \in {"stale", "unlink"} => proc[p].saw = None \/ Was(proc[p].saw)

DaemonIInv == Shape /\ States /\ Named /\ Launched /\ SawDead

LEMMA DaemonInitInv == DaemonInit => DaemonIInv
BY DEF DaemonInit, DaemonIInv, Shape, States, Stages, Named, Launched, SawDead, Past

(* Process p moves on to st.                                               *)
Moves(p, st, saw) ==
  proc' = [q \in Pids |-> IF q = p THEN [st |-> st, sid |-> proc[p].sid, saw |-> saw] ELSE proc[q]]

LEMMA StepMoves ==
  ASSUME Shape, NEW p \in Pids, NEW st, NEW saw
  PROVE  /\ proc' = [proc EXCEPT ![p].st = st] => Moves(p, st, proc[p].saw)
         /\ proc' = [proc EXCEPT ![p] = [@ EXCEPT !.st = st, !.saw = saw]] => Moves(p, st, saw)
<1>1. proc[p] = [st |-> proc[p].st, sid |-> proc[p].sid, saw |-> proc[p].saw]
  BY DEF Shape
<1>2. ASSUME proc' = [proc EXCEPT ![p].st = st] PROVE Moves(p, st, proc[p].saw)
  <2>1. [proc[p] EXCEPT !.st = st] = [st |-> st, sid |-> proc[p].sid, saw |-> proc[p].saw]
    BY <1>1
  <2>2. proc' = [q \in Pids |-> IF q = p THEN [proc[p] EXCEPT !.st = st] ELSE proc[q]]
    BY <1>2 DEF Shape
  <2> QED
    BY <2>1, <2>2 DEF Moves
<1>3. ASSUME proc' = [proc EXCEPT ![p] = [@ EXCEPT !.st = st, !.saw = saw]] PROVE Moves(p, st, saw)
  <2>1. [proc[p] EXCEPT !.st = st, !.saw = saw] = [st |-> st, sid |-> proc[p].sid, saw |-> saw]
    <3>1. [proc[p] EXCEPT !.st = st] = [st |-> st, sid |-> proc[p].sid, saw |-> proc[p].saw]
      BY <1>1
    <3>2. [[st |-> st, sid |-> proc[p].sid, saw |-> proc[p].saw] EXCEPT !.saw = saw]
            = [st |-> st, sid |-> proc[p].sid, saw |-> saw]
      OBVIOUS
    <3> QED
      BY <3>1, <3>2
  <2>2. proc' = [q \in Pids |-> IF q = p THEN [proc[p] EXCEPT !.st = st, !.saw = saw] ELSE proc[q]]
    BY <1>3 DEF Shape
  <2> QED
    BY <2>1, <2>2 DEF Moves
<1> QED
  BY <1>2, <1>3

(* A live process moves on, and with it the lock file.                     *)
LEMMA Moved ==
  ASSUME DaemonIInv, NEW p \in Pids, NEW st, NEW saw,
         proc[p].st # "dead", st \in Stages \ {"none"},
         Moves(p, st, saw),
         st \in {"stale", "unlink"} => saw = None \/ Was(saw),
         raced => raced',
         ~raced' /\ st \in {"held", "up", "known"} => dirLock' = p /\ \A q \in Pids \ {p} : ~Past(q),
         ~raced' => \A q \in Pids \ {p} : Past(q) => dirLock' = dirLock,
         dirLock' \in {dirLock, p, None}
  PROVE  DaemonIInv'
<1>1. proc' = [q \in Pids |-> IF q = p THEN [st |-> st, sid |-> proc[p].sid, saw |-> saw]
                                       ELSE proc[q]]
  BY DEF Moves
<1>2. \A q \in Pids \ {p} : proc'[q] = proc[q]
  BY <1>1
<1>3. proc'[p].st = st /\ proc'[p].saw = saw
  BY <1>1
<1>4. Shape' /\ States'
  BY <1>1, <1>2, <1>3 DEF DaemonIInv, Shape, States, Stages
<1>5. Named'
  BY <1>2, <1>3 DEF DaemonIInv, Named, Past
<1>6. Launched'
  BY <1>2, <1>3 DEF DaemonIInv, Launched
<1>7. SawDead'
  <2>1. ASSUME NEW q PROVE Was(q) => Was(q)'
    BY <1>2 DEF Was
  <2> QED
    BY <1>2, <1>3, <2>1 DEF DaemonIInv, SawDead
<1> QED
  BY <1>4, <1>5, <1>6, <1>7 DEF DaemonIInv

(* A fresh process starts, for any session.                                *)
LEMMA Started ==
  ASSUME DaemonIInv, NEW p \in Fresh, NEW s,
         proc' = [proc EXCEPT ![p] = [st |-> "boot", sid |-> s, saw |-> None]],
         dirLock' = dirLock, raced' = raced
  PROVE  DaemonIInv'
<1>1. p \in Pids /\ proc[p].st = "none"
  BY DEF Fresh
<1>2. proc' = [q \in Pids |-> IF q = p THEN [st |-> "boot", sid |-> s, saw |-> None] ELSE proc[q]]
  BY <1>1 DEF DaemonIInv, Shape
<1>3. Shape' /\ States'
  BY <1>2 DEF DaemonIInv, Shape, States, Stages
<1>4. Named' /\ Launched'
  BY <1>1, <1>2 DEF DaemonIInv, Named, Launched, Past
<1>5. SawDead'
  BY <1>1, <1>2 DEF DaemonIInv, SawDead, Was
<1> QED
  BY <1>3, <1>4, <1>5 DEF DaemonIInv

LEMMA DaemonStep == DaemonIInv /\ [DaemonNext]_daemonVars => DaemonIInv'
<1> SUFFICES ASSUME DaemonIInv, [DaemonNext]_daemonVars PROVE DaemonIInv'
  OBVIOUS
<1>0. Shape
  BY DEF DaemonIInv
<1>1. ASSUME NEW c \in Calls, Launch(c) PROVE DaemonIInv'
  <2>1. PICK p \in Fresh, s \in IF call[c].kind = "resume" THEN {call[c].sid} ELSE NewSession :
          proc' = [proc EXCEPT ![p] = [st |-> "boot", sid |-> s, saw |-> None]]
    BY <1>1 DEF Launch
  <2> QED
    BY <1>1, <2>1, Started DEF Launch, lock
<1>13. ASSUME NEW p \in Pids, StartAtTerminal(p) PROVE DaemonIInv'
  <2>1. PICK s \in NewSession :
          proc' = [proc EXCEPT ![p] = [st |-> "boot", sid |-> s, saw |-> None]]
    BY <1>13 DEF StartAtTerminal
  <2> QED
    BY <1>13, <2>1, Started DEF StartAtTerminal, lock
<1>2. ASSUME NEW p \in Pids, LinkLock(p) PROVE DaemonIInv'
  <2>1. ~raced => \A q \in Pids : ~Past(q)
    BY <1>2, DaemonAssumption DEF LinkLock, DaemonIInv, Named
  <2>2. proc' = [proc EXCEPT ![p].st = "held"] /\ dirLock' = p /\ raced' = raced /\ proc[p].st = "boot"
    BY <1>2 DEF LinkLock
  <2>3. Moves(p, "held", proc[p].saw)
    BY <1>0, <2>2, StepMoves
  <2> QED
    BY <2>1, <2>2, <2>3, Moved DEF Stages
<1>14. ASSUME NEW p \in Pids, LinkRefused(p) PROVE DaemonIInv'
  <2>1. proc' = [proc EXCEPT ![p].st = "look"] /\ dirLock' = dirLock /\ raced' = raced /\ proc[p].st = "boot"
    BY <1>14 DEF LinkRefused, lock
  <2>2. Moves(p, "look", proc[p].saw)
    BY <1>0, <2>1, StepMoves
  <2> QED
    BY <2>1, <2>2, Moved DEF Stages
<1>3. ASSUME NEW p \in Pids, HeldByRunning(p) PROVE DaemonIInv'
  <2>1. proc' = [proc EXCEPT ![p].st = "dead"] /\ dirLock' = dirLock /\ raced' = raced /\ proc[p].st = "look"
    BY <1>3 DEF HeldByRunning, lock
  <2>2. Moves(p, "dead", proc[p].saw)
    BY <1>0, <2>1, StepMoves
  <2> QED
    BY <2>1, <2>2, Moved DEF Stages
<1>4. ASSUME NEW p \in Pids, Diagnose(p) PROVE DaemonIInv'
  <2>1. proc' = [proc EXCEPT ![p] = [@ EXCEPT !.st = "stale", !.saw = dirLock]]
        /\ dirLock' = dirLock /\ raced' = raced /\ proc[p].st = "look"
    BY <1>4 DEF Diagnose, lock
  <2>2. dirLock = None \/ Was(dirLock)
    BY <1>4 DEF Diagnose, DaemonIInv, Launched, States, Was, Alive
  <2>4. Moves(p, "stale", dirLock)
    BY <1>0, <2>1, StepMoves
  <2> QED
    BY <2>1, <2>2, <2>4, Moved DEF Stages
<1>5. ASSUME NEW p \in Pids, Recheck(p) PROVE DaemonIInv'
  <2>1. proc[p].st = "stale" /\ dirLock' = dirLock /\ raced' = raced
    BY <1>5 DEF Recheck, lock
  <2>2. proc[p].saw = None \/ Was(proc[p].saw)
    BY <2>1 DEF DaemonIInv, SawDead
  <2>3. CASE dirLock = proc[p].saw
    <3>1. proc' = [proc EXCEPT ![p].st = "unlink"]
      BY <1>5, <2>3 DEF Recheck, DaemonIInv, Shape
    <3>2. Moves(p, "unlink", proc[p].saw)
      BY <1>0, <3>1, StepMoves
    <3> QED
      BY <2>1, <2>2, <3>2, Moved DEF Stages
  <2>4. CASE dirLock # proc[p].saw
    <3>1. proc' = [proc EXCEPT ![p] = [@ EXCEPT !.st = "boot", !.saw = None]]
      BY <1>5, <2>4 DEF Recheck, DaemonIInv, Shape
    <3>2. Moves(p, "boot", None)
      BY <1>0, <3>1, StepMoves
    <3> QED
      BY <2>1, <3>2, Moved DEF Stages
  <2> QED
    BY <2>3, <2>4
<1>15. ASSUME NEW p \in Pids, RemoveStale(p) PROVE DaemonIInv'
  <2>1. proc' = [proc EXCEPT ![p] = [@ EXCEPT !.st = "boot", !.saw = None]]
        /\ proc[p].st = "unlink" /\ dirLock' = None /\ raced' = (raced \/ dirLock # proc[p].saw)
    BY <1>15 DEF RemoveStale
  <2>2. proc[p].saw = None \/ Was(proc[p].saw)
    BY <2>1 DEF DaemonIInv, SawDead
  <2>3. /\ raced => raced'
        /\ ~raced' => ~raced /\ dirLock = proc[p].saw
    BY <2>1
  <2>4. ~raced' => \A q \in Pids : ~Past(q)
    BY <2>2, <2>3, DaemonAssumption DEF DaemonIInv, Named, Past, Was
  <2>5. Moves(p, "boot", None)
    BY <1>0, <2>1, StepMoves
  <2> QED
    BY <2>1, <2>3, <2>4, <2>5, Moved DEF Stages
<1>6. ASSUME NEW p \in Pids, Report(p) PROVE DaemonIInv'
  <2>1. Past(p) /\ dirLock' = dirLock /\ raced' = raced /\ proc[p].st # "dead"
    BY <1>6 DEF Report, Past, lock
  <2>2. ~raced => dirLock = p /\ \A q \in Pids \ {p} : ~Past(q)
    BY <2>1 DEF DaemonIInv, Named
  <2>3. PICK st : st \in {"up", "known"} /\ proc' = [proc EXCEPT ![p].st = st]
    <3>1. proc' = [proc EXCEPT ![p].st = IF proc[p].st = "held" THEN "up" ELSE "known"]
      BY <1>6 DEF Report, DaemonIInv, Shape
    <3> QED
      BY <3>1
  <2>4. Moves(p, st, proc[p].saw)
    BY <1>0, <2>3, StepMoves
  <2> QED
    BY <2>1, <2>2, <2>3, <2>4, Moved DEF Stages
<1>7. ASSUME NEW p \in Pids, StartFails(p) PROVE DaemonIInv'
  <2>1. ~raced => \A q \in Pids \ {p} : ~Past(q)
    BY <1>7 DEF StartFails, DaemonIInv, Named, Past
  <2>2. proc' = [proc EXCEPT ![p].st = "dead"] /\ proc[p].st = "held" /\ raced' = raced
        /\ dirLock' \in {dirLock, None}
    BY <1>7 DEF StartFails
  <2>3. Moves(p, "dead", proc[p].saw)
    BY <1>0, <2>2, StepMoves
  <2> QED
    BY <2>1, <2>2, <2>3, Moved DEF Stages
<1>8. ASSUME NEW p \in Pids, Die(p) PROVE DaemonIInv'
  <2>1. proc' = [proc EXCEPT ![p] = [@ EXCEPT !.st = "dead", !.saw = None]]
        /\ proc[p].st # "dead" /\ raced' = raced /\ dirLock' \in {dirLock, IF dirLock = p THEN None ELSE dirLock}
    BY <1>8 DEF Die, Alive
  <2>2. ~raced => \A q \in Pids \ {p} : Past(q) => dirLock' = dirLock
    BY <2>1 DEF DaemonIInv, Named
  <2>3. Moves(p, "dead", None)
    BY <1>0, <2>1, StepMoves
  <2> QED
    BY <2>1, <2>2, <2>3, Moved DEF Stages
<1>9. ASSUME UNCHANGED <<proc, lock>> PROVE DaemonIInv'
  BY <1>9 DEF DaemonIInv, Shape, States, Named, Launched, SawDead, Past, Was, lock
<1>10. ASSUME NEW c \in Calls,
              \/ \E kind \in Watching : Spawn(c, kind)
              \/ \E s \in Sessions : Resume(c, s)
              \/ StopSession(c) \/ OldProcessGone(c) \/ Refuse(c) \/ Dedup(c) \/ Timeout(c)
       PROVE DaemonIInv'
  BY <1>9, <1>10 DEF Spawn, StopSession, OldProcessGone, Refuse, Dedup, Timeout, Resume
<1>11. CASE PersistSession \/ PruneDeadSessions \/ DaemonCrash \/ Boot
  BY <1>9, <1>11 DEF PersistSession, PruneDeadSessions, DaemonCrash, Boot
<1>12. CASE UNCHANGED daemonVars
  BY <1>9, <1>12 DEF daemonVars
<1> QED
  BY <1>1, <1>2, <1>3, <1>4, <1>5, <1>6, <1>7, <1>8, <1>10, <1>11, <1>12, <1>13,
     <1>14, <1>15 DEF DaemonNext, Handler

LEMMA DaemonInvIsOneOwner == DaemonIInv => OneOwner
BY DEF DaemonIInv, Named, Past, OneOwner

(* However many spawns, resumes, crashes, stale registry entries and       *)
(* contenders for a stale lock there are, one session process gets past    *)
(* acquireSessionLock at a time, until somebody reclaims a lock that is    *)
(* replaced between the re-read and the unlink of reclaimIfStillStale.     *)
THEOREM OneOwnerCorrect == DaemonSpec => []OneOwner
BY DaemonInitInv, DaemonStep, DaemonInvIsOneOwner, PTL DEF DaemonSpec
-----------------------------------------------------------------------------
(* The daemon's registry.  What sessions.json says was said by the process *)
(* it names, so its session is that process's; what waits in the write     *)
(* chain is in the live map, unless its process is dead; and a session on  *)
(* disk or on its way there is in the live map or in the resumable set.    *)

Owned(e) == proc[e.pid].st # "none" /\ e.sid \in {None, proc[e.pid].sid}
Found(s) == resumable[s] # NoRecord \/ \E e \in Range(tracked) : e.sid = s
Seen(e) == e.dir /\ e.pid \in Alive \ skipped => e \in Range(tracked)

ForSessions ==
    /\ \A p \in Pids : proc[p].st # "none" => proc[p].sid \in Sessions
    /\ \A c \in Calls : call[c].kind = "resume" => call[c].sid \in Sessions

OwnedInv ==
    /\ \A e \in Range(tracked) \cup Range(pending) : Owned(e)
    /\ \A s \in Sessions : sessionsFile[s] # NoRecord => Owned(sessionsFile[s])

FoundInv ==
    /\ ~up => pending = <<>> /\ tracked = <<>> /\ \A c \in Calls : call[c].pc = "idle"
    /\ up => \A e \in Range(pending) : Found(e.sid) /\ Seen(e)
    /\ up /\ restored => \A s \in Sessions : sessionsFile[s] # NoRecord => Found(s) /\ Seen(sessionsFile[s])

RegistryInv == DaemonTypeOK /\ ForSessions /\ OwnedInv /\ FoundInv

\* A nonempty set of natural numbers has a least element: the intervals below
\* its elements are well ordered by inclusion.
LEMMA MinOf ==
  ASSUME NEW S \in SUBSET Nat, S # {}
  PROVE  Min(S) \in S /\ \A n \in S : Min(S) <= n
<1>1. PICK k \in S : TRUE
  OBVIOUS
<1> DEFINE Below == {n \in S : n <= k}
           T == {0 .. n : n \in Below}
           U == 0 .. k
<1>2. IsFiniteSet(U)
  BY FS_Interval
<1>3. IsWellFoundedOn(StrictSubsetOrdering(U), FiniteSubsetsOf(U))
  BY FS_StrictSubsetOrderingWellFounded
<1>4. T \subseteq SUBSET U /\ T # {}
  OBVIOUS
<1>5. T \subseteq FiniteSubsetsOf(U)
  BY <1>2, <1>4, FS_Subset DEF FiniteSubsetsOf
<1>6. PICK x \in T : \A y \in T : <<y, x>> \notin StrictSubsetOrdering(U)
  BY <1>3, <1>4, <1>5, WFMin
<1>7. PICK m \in Below : x = 0 .. m
  OBVIOUS
<1>8. ASSUME NEW n \in S, n < m PROVE FALSE
  <2>1. n \in Below /\ 0 .. n \in T
    BY <1>7, <1>8
  <2>2. 0 .. n \subseteq 0 .. m /\ 0 .. n # 0 .. m
    BY <1>8
  <2> QED
    BY <1>4, <1>6, <1>7, <2>1, <2>2 DEF StrictSubsetOrdering
<1>9. \E a \in S : \A n \in S : a <= n
  BY <1>7, <1>8
<1> QED
  BY <1>9 DEF Min

\* So has a bounded one a greatest element: its least upper bound.
LEMMA MaxOf ==
  ASSUME NEW n \in Nat, NEW S \in SUBSET (1 .. n), S # {}
  PROVE  Max(S) \in S
<1> DEFINE B == {m \in Nat : \A k \in S : k <= m}
<1>1. n \in B
  OBVIOUS
<1>2. PICK b \in B : \A m \in B : b <= m
  BY <1>1, MinOf
<1>3. b \in S
  <2>1. ASSUME b \notin S PROVE FALSE
    <3>1. \A k \in S : k < b
      BY <2>1
    <3>2. PICK k \in S : TRUE
      OBVIOUS
    <3>3. b - 1 \in Nat /\ \A j \in S : j <= b - 1
      BY <3>1, <3>2
    <3> QED
      BY <1>2, <3>3
  <2> QED
    BY <2>1
<1> QED
  BY <1>3 DEF Max

\* An enumeration of a finite set, each element once, leaves none out.
LEMMA Enumerated ==
  ASSUME NEW S, IsFiniteSet(S), NEW q \in SetToSeqs(S)
  PROVE  q \in Seq(S) /\ Range(q) = S /\ \A i, j \in DOMAIN q : q[i] = q[j] => i = j
<1> DEFINE D == 1 .. Cardinality(S)
<1>1. Cardinality(S) \in Nat
  BY FS_CardinalityType
<1>2. q \in [D -> S] /\ \A i, j \in D : i # j => q[i] # q[j]
  BY DEF SetToSeqs
<1>3. IsFiniteSet(D) /\ Cardinality(D) = Cardinality(S)
  BY <1>1, FS_Interval
<1>4. q \in Injection(D, S)
  BY <1>2 DEF Injection, IsInjective
<1>5. q \in Surjection(D, S)
  BY <1>3, <1>4, FS_Injection
<1>6. Range(q) = S
  BY <1>2, <1>5 DEF Surjection, Range
<1>7. q \in Seq(S)
  BY <1>1, <1>2
<1> QED
  BY <1>2, <1>6, <1>7

\* The entries of a list are finitely many.
LEMMA RangeFinite ==
  ASSUME NEW S, NEW q \in Seq(S)
  PROVE  IsFiniteSet(Range(q)) /\ Range(q) \subseteq S
<1>1. Len(q) \in Nat /\ DOMAIN q = 1 .. Len(q) /\ \A i \in 1 .. Len(q) : q[i] \in S
  OBVIOUS
<1>2. Range(q) \subseteq S
  BY <1>1 DEF Range
<1>3. IsFiniteSet(1 .. Len(q))
  BY <1>1, FS_Interval
<1>4. [i \in 1 .. Len(q) |-> q[i]] \in Surjection(1 .. Len(q), Range(q))
  BY <1>1 DEF Range, Surjection
<1>5. IsFiniteSet(Range(q))
  BY <1>3, <1>4, FS_Surjection
<1> QED
  BY <1>2, <1>5

\* What is appended to a list, and what its first element leaves behind.
LEMMA RangeAppend ==
  ASSUME NEW S, NEW q \in Seq(S), NEW e \in S
  PROVE  Append(q, e) \in Seq(S) /\ Range(Append(q, e)) = Range(q) \cup {e}
<1> DEFINE new == Append(q, e)
<1>1. /\ Len(q) \in Nat /\ DOMAIN q = 1 .. Len(q) /\ new \in Seq(S)
      /\ DOMAIN new = 1 .. Len(q) + 1 /\ new[Len(q) + 1] = e
      /\ \A i \in 1 .. Len(q) : new[i] = q[i]
  OBVIOUS
<1> HIDE DEF new
<1>2. \A i : i \in 1 .. Len(q) + 1 <=> i \in 1 .. Len(q) \/ i = Len(q) + 1
  BY <1>1
<1>3. Range(new) = Range(q) \cup {e}
  BY <1>1, <1>2, Zenon DEF Range
<1> QED
  BY <1>1, <1>3 DEF new

LEMMA RangeTail ==
  ASSUME NEW S, NEW q \in Seq(S), q # <<>>
  PROVE  Head(q) \in Range(q) /\ Tail(q) \in Seq(S) /\ Range(Tail(q)) \subseteq Range(q)
<1> DEFINE new == Tail(q)
<1>1. /\ Len(q) \in Nat \ {0} /\ DOMAIN q = 1 .. Len(q) /\ new \in Seq(S) /\ Head(q) = q[1]
      /\ DOMAIN new = 1 .. Len(q) - 1 /\ \A i \in 1 .. Len(q) - 1 : new[i] = q[i + 1]
  OBVIOUS
<1> HIDE DEF new
<1>2. 1 \in 1 .. Len(q) /\ \A i \in 1 .. Len(q) - 1 : i + 1 \in 1 .. Len(q)
  BY <1>1
<1>3. Range(new) \subseteq Range(q) /\ Head(q) \in Range(q)
  BY <1>1, <1>2 DEF Range
<1> QED
  BY <1>1, <1>3 DEF new

\* Map.set leaves what is there under other keys.
LEMMA MapSet ==
  ASSUME NEW map \in Seq(Entries), NEW e \in Entries,
         \A i, j \in DOMAIN map : map[i].pid = map[j].pid => i = j
  PROVE  /\ Set(map, e) \in Seq(Entries)
         /\ Range(Set(map, e)) = {x \in Range(map) : x.pid # e.pid} \cup {e}
         /\ \A i, j \in DOMAIN Set(map, e) : Set(map, e)[i].pid = Set(map, e)[j].pid => i = j
<1> DEFINE new == Set(map, e)
<1>1. Len(map) \in Nat /\ DOMAIN map = 1 .. Len(map) /\ \A i \in 1 .. Len(map) : map[i] \in Entries
  OBVIOUS
<1>2. CASE \E i \in DOMAIN map : map[i].pid = e.pid
  <2>1. new = [i \in DOMAIN map |-> IF map[i].pid = e.pid THEN e ELSE map[i]]
    BY <1>2 DEF Set
  <2> HIDE DEF new
  <2>2. DOMAIN new = 1 .. Len(map) /\ \A i \in 1 .. Len(map) :
          new[i] = IF map[i].pid = e.pid THEN e ELSE map[i]
    BY <1>1, <2>1
  <2>3. new \in Seq(Entries)
    BY <1>1, <2>1
  <2>4. Range(new) = {x \in Range(map) : x.pid # e.pid} \cup {e}
    BY <1>1, <1>2, <2>2 DEF Range
  <2>5. \A i, j \in DOMAIN new : new[i].pid = new[j].pid => i = j
    BY <1>1, <2>2
  <2> QED
    BY <2>3, <2>4, <2>5 DEF new
<1>3. CASE ~\E i \in DOMAIN map : map[i].pid = e.pid
  <2>1. new = Append(map, e)
    BY <1>3 DEF Set
  <2> HIDE DEF new
  <2>2. /\ DOMAIN new = 1 .. Len(map) + 1 /\ new[Len(map) + 1] = e
        /\ \A i \in 1 .. Len(map) : new[i] = map[i]
        /\ new \in Seq(Entries)
    BY <2>1
  <2>3. \A i \in 1 .. Len(map) + 1 : i \in 1 .. Len(map) \/ i = Len(map) + 1
    BY <1>1
  <2>4. Range(new) = {x \in Range(map) : x.pid # e.pid} \cup {e}
    <3>1. ASSUME NEW x \in Range(new) PROVE x \in {y \in Range(map) : y.pid # e.pid} \cup {e}
      BY <1>1, <1>3, <2>2, <2>3 DEF Range
    <3>2. e \in Range(new)
      BY <1>1, <2>2 DEF Range
    <3>3. ASSUME NEW x \in Range(map) PROVE x \in Range(new)
      <4>1. PICK i \in 1 .. Len(map) : x = map[i]
        BY <1>1 DEF Range
      <4>2. i \in 1 .. Len(map) + 1
        BY <1>1
      <4> QED
        BY <2>2, <4>1, <4>2 DEF Range
    <3> QED
      BY <3>1, <3>2, <3>3
  <2>5. \A i, j \in DOMAIN new : new[i].pid = new[j].pid => i = j
    BY <1>1, <1>3, <2>2, <2>3
  <2> QED
    BY <2>2, <2>4, <2>5 DEF new
<1> QED
  BY <1>2, <1>3

-----------------------------------------------------------------------------
(* The steps of the processes and of the RPC handlers *)

ProcType ==
    [Pids -> [st : Stages,
              sid : Sessions \cup {None}, saw : Pids \cup {None}]]
CallState ==
    [kind : Launching \cup {"none"}, pc : {"idle", "stop", "exit", "launch", "wait"},
     sid : Sessions \cup {None}, pid : Pids \cup {None}]
CallType == [Calls -> CallState]
CallsServed ==
    /\ call' \in CallType
    /\ \A c \in Calls : call'[c].kind = "resume" => call'[c].sid \in Sessions
    /\ ~up' => \A c \in Calls : call'[c].pc = "idle"

\* Only a fresh process takes up a session; the others keep theirs and, once dead,
\* stay dead.
Advances ==
    /\ proc' \in ProcType
    /\ \A q \in Pids :
         IF proc[q].st = "none"
           THEN proc'[q].st # "none" => proc'[q].sid \in Sessions
           ELSE /\ proc'[q].st # "none" /\ proc'[q].sid = proc[q].sid
                /\ q \in Alive' => q \in Alive

\* A step that leaves the registry alone.
LEMMA Elsewhere ==
  ASSUME RegistryInv, Advances, UNCHANGED daemon, dirLock' \in Pids \cup {None}, raced' \in BOOLEAN,
         crashes' = crashes, CallsServed
  PROVE  RegistryInv'
<1>1. UNCHANGED <<up, tracked, resumable, pending, sessionsFile, restored, skipped>>
  BY DEF daemon, probed
<1>2. DaemonTypeOK
  BY DEF RegistryInv
<1>3. DaemonTypeOK'
  <2>1. /\ proc' \in ProcType /\ call' \in CallType /\ up' \in BOOLEAN
    BY <1>1, <1>2 DEF Advances, CallsServed, DaemonTypeOK
  <2> QED
    BY <1>1, <1>2, <2>1 DEF DaemonTypeOK, ProcType, Stages, CallType, CallState
<1>4. ForSessions'
  BY DEF Advances, CallsServed, ForSessions, RegistryInv
<1>5. /\ Range(tracked) \subseteq Entries /\ Range(pending) \subseteq Entries
      /\ \A s \in Sessions : sessionsFile[s] # NoRecord => sessionsFile[s] \in Entries
  <2>1. Records \subseteq Entries
    BY DEF Records, Entries
  <2>2. Range(tracked) \subseteq Entries /\ Range(pending) \subseteq Records
    BY <1>2, RangeFinite DEF DaemonTypeOK
  <2>3. \A s \in Sessions : sessionsFile[s] # NoRecord => sessionsFile[s] \in Records
    BY <1>2 DEF DaemonTypeOK
  <2> QED
    BY <2>1, <2>2, <2>3
<1>6. \A e \in Entries : Owned(e) => Owned(e)' /\ (e.pid \in Alive' => e.pid \in Alive)
  BY DEF Advances, Owned, Entries
<1>7. OwnedInv'
  BY <1>1, <1>5, <1>6 DEF OwnedInv, RegistryInv
<1>8. FoundInv'
  <2>1. \A e \in Entries : Owned(e) /\ Seen(e) => Seen(e)'
    BY <1>1, <1>6 DEF Seen
  <2>2. \A s : Found(s) => Found(s)'
    BY <1>1 DEF Found
  <2> QED
    BY <1>1, <1>5, <2>1, <2>2 DEF FoundInv, OwnedInv, CallsServed, RegistryInv
<1> QED
  BY <1>3, <1>4, <1>7, <1>8 DEF RegistryInv

\* Nothing at all happens to the processes.
LEMMA SameProcs ==
  ASSUME DaemonTypeOK, ForSessions, UNCHANGED proc PROVE Advances
BY DEF DaemonTypeOK, ForSessions, Advances, ProcType, Stages, Alive

\* A process moves on to another state.
LEMMA Moving ==
  ASSUME DaemonTypeOK, ForSessions, NEW p \in Pids, NEW st, NEW saw \in Pids \cup {None},
         proc[p].st # "none",
         st \in {"boot", "look", "stale", "unlink", "held", "up", "known", "dead"},
         st = "dead" \/ p \in Alive,
         \/ proc' = [proc EXCEPT ![p].st = st]
         \/ proc' = [proc EXCEPT ![p] = [@ EXCEPT !.st = st, !.saw = saw]]
  PROVE  Advances
<1>1. proc \in ProcType
  BY DEF DaemonTypeOK, ProcType, Stages
<1>2. /\ proc' \in ProcType /\ proc'[p].st = st /\ proc'[p].sid = proc[p].sid
      /\ \A q \in Pids \ {p} : proc'[q] = proc[q]
  <2>1. CASE proc' = [proc EXCEPT ![p].st = st]
    BY <1>1, <2>1 DEF ProcType, Stages
  <2>2. CASE proc' = [proc EXCEPT ![p] = [@ EXCEPT !.st = st, !.saw = saw]]
    BY <1>1, <2>2 DEF ProcType, Stages
  <2> QED
    BY <2>1, <2>2
<1>3. \A q \in Pids : proc[q].st # "none" /\ q \in Alive' => q \in Alive
  BY <1>2 DEF Alive, Stages
<1> QED
  BY <1>2, <1>3 DEF Advances, ForSessions

\* The awaiters of a process are answered.
LEMMA SettleType ==
  ASSUME RegistryInv, up' = up, NEW p, NEW kinds, Settle(p, kinds)
  PROVE  CallsServed
<1>1. \A c \in Calls : call'[c] \in {IdleCall, call[c]}
  BY DEF Settle
<1>2. IdleCall \in CallState /\ call \in CallType
  BY DEF IdleCall, CallState, CallType, RegistryInv, DaemonTypeOK
<1>3. call' \in CallType
  BY <1>1, <1>2 DEF CallType, Settle
<1> QED
  BY <1>1, <1>3 DEF ForSessions, IdleCall, FoundInv, RegistryInv, CallsServed

\* A process starts, at a terminal or launched.
LEMMA Starting ==
  ASSUME DaemonTypeOK, ForSessions, NEW p \in Fresh, NEW s \in Sessions,
         proc' = [proc EXCEPT ![p] = [st |-> "boot", sid |-> s, saw |-> None]]
  PROVE  Advances /\ p \in Pids /\ proc[p].st = "none" /\ proc'[p].st = "boot" /\ proc'[p].sid = s
BY DEF DaemonTypeOK, ForSessions, Advances, ProcType, Stages, Alive, Fresh

\* The steps of the processes that the daemon does not hear of.
LEMMA ProcStep ==
  ASSUME RegistryInv, NEW p \in Pids,
         \/ StartAtTerminal(p) \/ LinkLock(p) \/ LinkRefused(p) \/ HeldByRunning(p) \/ Diagnose(p)
         \/ Recheck(p) \/ RemoveStale(p) \/ StartFails(p) \/ Die(p)
  PROVE  RegistryInv'
<1> USE DEF lock
<1>0. DaemonTypeOK /\ ForSessions /\ dirLock \in Pids \cup {None} /\ raced \in BOOLEAN
  BY DEF RegistryInv, DaemonTypeOK
<1>1. UNCHANGED daemon /\ crashes' = crashes /\ dirLock' \in Pids \cup {None}
  BY <1>0 DEF StartAtTerminal, LinkLock, LinkRefused, HeldByRunning, Diagnose, Recheck, RemoveStale, StartFails, Die
<1>4. raced' \in BOOLEAN
  <2>1. CASE UNCHANGED raced
    BY <1>0, <2>1
  <2>2. CASE RemoveStale(p)
    <3>1. raced' = (raced \/ dirLock # proc[p].saw)
      BY <2>2 DEF RemoveStale
    <3> QED
      BY ONLY <3>1, Zenon
  <2> QED
    BY <2>1, <2>2 DEF StartAtTerminal, LinkLock, LinkRefused, HeldByRunning, Diagnose, Recheck, StartFails, Die
<1>2. CallsServed
  <2>0. up' = up
    BY <1>1 DEF daemon
  <2>1. CASE UNCHANGED call
    BY <2>0, <2>1 DEF RegistryInv, DaemonTypeOK, CallType, CallState, ForSessions, FoundInv, CallsServed
  <2>2. CASE \E kinds : Settle(p, kinds)
    BY <2>0, <2>2, SettleType
  <2> QED
    BY <2>1, <2>2 DEF StartAtTerminal, LinkLock, LinkRefused, HeldByRunning, Diagnose, Recheck, RemoveStale,
                      StartFails, Die
<1>3. Advances
  <2>1. CASE StartAtTerminal(p)
    BY <1>0, <2>1, Starting DEF StartAtTerminal, NewSession
  <2>2. CASE LinkLock(p)
    BY <1>0, <2>2, Moving DEF LinkLock, Alive
  <2>8. CASE LinkRefused(p)
    BY <1>0, <2>8, Moving DEF LinkRefused, Alive
  <2>3. CASE HeldByRunning(p)
    BY <1>0, <2>3, Moving DEF HeldByRunning
  <2>4. CASE Diagnose(p)
    BY <1>0, <2>4, Moving DEF Diagnose, Alive
  <2>5. CASE Recheck(p)
    <3>1. proc[p].st = "stale" /\ p \in Alive
      BY <2>5 DEF Recheck, Alive
    <3>2. \/ proc' = [proc EXCEPT ![p].st = "unlink"]
          \/ proc' = [proc EXCEPT ![p] = [@ EXCEPT !.st = "boot", !.saw = None]]
      BY <1>0, <2>5 DEF Recheck, DaemonTypeOK
    <3> QED
      BY <1>0, <3>1, <3>2, Moving
  <2>9. CASE RemoveStale(p)
    BY <1>0, <2>9, Moving DEF RemoveStale, Alive
  <2>6. CASE StartFails(p)
    BY <1>0, <2>6, Moving DEF StartFails
  <2>7. CASE Die(p)
    BY <1>0, <2>7, Moving DEF Die, Alive
  <2> QED
    BY <2>1, <2>2, <2>3, <2>4, <2>5, <2>6, <2>7, <2>8, <2>9
<1> QED
  BY <1>1, <1>2, <1>3, <1>4, Elsewhere

\* What the registry knows of a session is well typed.
LEMMA FirstType ==
  ASSUME DaemonTypeOK, NEW s
  PROVE  /\ Of(s) # {} => tracked[Min(Of(s))] \in Entries /\ tracked[Min(Of(s))] \in Range(tracked)
         /\ FirstOf(s) \in Pids \cup {None}
<1>1. tracked \in Seq(Entries) /\ Of(s) \in SUBSET (1 .. Len(tracked)) /\ Len(tracked) \in Nat
  BY DEF DaemonTypeOK, Of
<1>2. ASSUME Of(s) # {} PROVE Min(Of(s)) \in 1 .. Len(tracked)
  BY <1>1, <1>2, MinOf
<1>3. Of(s) # {} => tracked[Min(Of(s))] \in Entries /\ tracked[Min(Of(s))] \in Range(tracked)
  BY <1>1, <1>2 DEF Range
<1> QED
  BY <1>3 DEF FirstOf, Entries

LEMMA CallEdit ==
  ASSUME NEW r \in CallState, NEW step, NEW pid
  PROVE  /\ [r EXCEPT !.pc = step] = [kind |-> r.kind, pc |-> step, sid |-> r.sid, pid |-> r.pid]
         /\ [r EXCEPT !.pid = pid, !.pc = step] = [kind |-> r.kind, pc |-> step, sid |-> r.sid, pid |-> pid]
         /\ [r EXCEPT !.pc = step, !.pid = pid] = [kind |-> r.kind, pc |-> step, sid |-> r.sid, pid |-> pid]
<1>1. r = [kind |-> r.kind, pc |-> r.pc, sid |-> r.sid, pid |-> r.pid]
  BY DEF CallState
<1>2. [r EXCEPT !.pid = pid] = [kind |-> r.kind, pc |-> r.pc, sid |-> r.sid, pid |-> pid]
  BY <1>1
<1>3. [[kind |-> r.kind, pc |-> r.pc, sid |-> r.sid, pid |-> pid] EXCEPT !.pc = step]
        = [kind |-> r.kind, pc |-> step, sid |-> r.sid, pid |-> pid]
  OBVIOUS
<1>4. [r EXCEPT !.pc = step] = [kind |-> r.kind, pc |-> step, sid |-> r.sid, pid |-> r.pid]
  BY <1>1
<1>5. [[kind |-> r.kind, pc |-> step, sid |-> r.sid, pid |-> r.pid] EXCEPT !.pid = pid]
        = [kind |-> r.kind, pc |-> step, sid |-> r.sid, pid |-> pid]
  OBVIOUS
<1> QED
  BY <1>2, <1>3, <1>4, <1>5

\* A handler goes on as new.
LEMMA CallMoves ==
  ASSUME RegistryInv, up, up' = up, NEW c \in Calls,
         NEW kind \in Launching \cup {"none"}, NEW step \in {"idle", "stop", "exit", "launch", "wait"},
         NEW sid \in Sessions \cup {None}, NEW pid \in Pids \cup {None},
         kind = "resume" => sid \in Sessions,
         call' = [call EXCEPT ![c] = [kind |-> kind, pc |-> step, sid |-> sid, pid |-> pid]]
  PROVE  CallsServed
<1>1. call \in CallType /\ [kind |-> kind, pc |-> step, sid |-> sid, pid |-> pid] \in CallState
  BY DEF CallType, CallState, RegistryInv, DaemonTypeOK
<1>2. call' \in CallType
  BY <1>1 DEF CallType
<1>3. /\ call'[c] = [kind |-> kind, pc |-> step, sid |-> sid, pid |-> pid]
      /\ \A d \in Calls \ {c} : call'[d] = call[d]
  BY <1>1 DEF CallType
<1> QED
  BY <1>2, <1>3 DEF ForSessions, RegistryInv, CallsServed

\* The steps of a handler up to its launch, and its end.
LEMMA HandlerStep ==
  ASSUME RegistryInv, NEW c \in Calls,
         \/ \E kind \in Watching : Spawn(c, kind)
         \/ \E s \in Sessions : Resume(c, s)
         \/ StopSession(c) \/ OldProcessGone(c) \/ Refuse(c) \/ Dedup(c) \/ Timeout(c)
  PROVE  RegistryInv'
<1>0. /\ DaemonTypeOK /\ ForSessions /\ dirLock \in Pids \cup {None} /\ raced \in BOOLEAN /\ call[c] \in CallState
      /\ call = [d \in Calls |-> call[d]]
  BY DEF RegistryInv, DaemonTypeOK, CallState
<1>1. UNCHANGED <<proc, lock, daemon, crashes>> /\ up' = up
  BY DEF Spawn, Resume, StopSession, OldProcessGone, Refuse, Dedup, Timeout, daemon
<1>. up
  BY <1>0 DEF Spawn, Resume, StopSession, OldProcessGone, Refuse, Dedup, Timeout, RegistryInv, FoundInv
<1>2. /\ call[c].kind \in Launching \cup {"none"} /\ call[c].sid \in Sessions \cup {None}
      /\ call[c].pid \in Pids \cup {None} /\ FirstOf(call[c].sid) \in Pids \cup {None}
      /\ call[c].kind = "resume" => call[c].sid \in Sessions
  BY <1>0, FirstType DEF CallState, ForSessions
<1>3. CallsServed
  <2>1. ASSUME NEW kind \in Watching, Spawn(c, kind)
        PROVE  CallsServed
    <3>1. [IdleCall EXCEPT !.kind = kind, !.pc = "launch"]
            = [kind |-> kind, pc |-> "launch", sid |-> None, pid |-> None]
      <4>1. [IdleCall EXCEPT !.kind = kind] = [kind |-> kind, pc |-> "idle", sid |-> None, pid |-> None]
        BY DEF IdleCall
      <4>2. [[kind |-> kind, pc |-> "idle", sid |-> None, pid |-> None] EXCEPT !.pc = "launch"]
              = [kind |-> kind, pc |-> "launch", sid |-> None, pid |-> None]
        OBVIOUS
      <4> QED
        BY <4>1, <4>2
    <3>2. kind \in Launching /\ kind # "resume"
      BY DEF Watching, Launching
    <3>3. call' = [call EXCEPT ![c] = [kind |-> kind, pc |-> "launch", sid |-> None, pid |-> None]]
      BY <2>1, <3>1 DEF Spawn
    <3> QED
      BY <1>1, <1>0, <3>2, <3>3, CallMoves
  <2>2. ASSUME NEW s \in Sessions, Resume(c, s)
        PROVE  CallsServed
    <3>1. "resume" \in Launching
      BY DEF Launching
    <3> QED
      BY <1>1, <1>0, <2>2, <3>1, CallMoves DEF Resume
  <2>3. CASE StopSession(c)
    <3>1. PICK step \in {"launch", "exit"} :
            call' = [call EXCEPT ![c] = [@ EXCEPT !.pid = FirstOf(call[c].sid), !.pc = step]]
      BY <2>3 DEF StopSession
    <3>2. call' = [call EXCEPT ![c] = [kind |-> call[c].kind, pc |-> step, sid |-> call[c].sid,
                                       pid |-> FirstOf(call[c].sid)]]
      BY <1>0, <3>1, CallEdit
    <3> QED
      BY <1>1, <1>0, <1>2, <3>2, CallMoves
  <2>4. CASE OldProcessGone(c)
    <3>1. call' = [call EXCEPT ![c] = [@ EXCEPT !.pc = "launch"]]
      BY <1>0, <2>4 DEF OldProcessGone
    <3>2. call' = [call EXCEPT ![c] = [kind |-> call[c].kind, pc |-> "launch", sid |-> call[c].sid,
                                       pid |-> call[c].pid]]
      BY <1>0, <3>1, CallEdit
    <3> QED
      BY <1>1, <1>0, <1>2, <3>2, CallMoves
  <2>5. CASE Refuse(c) \/ Dedup(c) \/ Timeout(c)
    <3>1. call' = [call EXCEPT ![c] = [kind |-> "none", pc |-> "idle", sid |-> None, pid |-> None]]
      BY <2>5 DEF Refuse, Dedup, Timeout, IdleCall
    <3> QED
      BY <1>1, <1>0, <3>1, CallMoves
  <2> QED
    BY <2>1, <2>2, <2>3, <2>4, <2>5
<1> QED
  BY <1>0, <1>1, <1>3, SameProcs, Elsewhere DEF lock

-----------------------------------------------------------------------------
(* The steps that change the registry *)

RegistryType ==
    /\ up \in BOOLEAN
    /\ tracked \in Seq(Entries)
    /\ \A i, j \in DOMAIN tracked : tracked[i].pid = tracked[j].pid => i = j
    /\ resumable \in [Sessions -> Records \cup {NoRecord}]
    /\ sessionsFile \in [Sessions -> Records \cup {NoRecord}]
    /\ \A s \in Sessions : resumable[s].sid \in {None, s} /\ sessionsFile[s].sid \in {None, s}
    /\ pending \in Seq(Records)
    /\ restored \in BOOLEAN /\ skipped \subseteq Pids

\* What the registry holds is entries, and what it writes is records.
LEMMA Typed ==
  ASSUME RegistryInv
  PROVE  /\ RegistryType
         /\ Range(tracked) \subseteq Entries /\ Range(pending) \subseteq Records
         /\ Records \subseteq Entries
         /\ \A s \in Sessions : sessionsFile[s] # NoRecord =>
              sessionsFile[s] \in Records /\ sessionsFile[s].sid = s
<1>1. RegistryType
  BY DEF RegistryInv, DaemonTypeOK, RegistryType
<1>2. Range(tracked) \subseteq Entries /\ Range(pending) \subseteq Records
  BY <1>1, RangeFinite DEF RegistryType
<1>3. Records \subseteq Entries
  BY DEF Records, Entries
<1>4. ASSUME NEW s \in Sessions, sessionsFile[s] # NoRecord
      PROVE  sessionsFile[s] \in Records /\ sessionsFile[s].sid = s
  <2>1. sessionsFile[s] \in Records /\ sessionsFile[s].sid \in {None, s}
    BY <1>1, <1>4 DEF RegistryType
  <2> QED
    BY <2>1, DaemonAssumption DEF Records
<1> QED
  BY <1>1, <1>2, <1>3, <1>4

\* The types of a step that changes the registry, and what it leaves of an entry.
LEMMA Retyped ==
  ASSUME RegistryInv, Advances, CallsServed, RegistryType', UNCHANGED lock,
         crashes' \in 0 .. MaxCrashes
  PROVE  /\ DaemonTypeOK' /\ ForSessions'
         /\ \A e \in Entries : Owned(e) => Owned(e)' /\ (e.pid \in Alive' => e.pid \in Alive)
<1>1. DaemonTypeOK'
  BY DEF RegistryInv, DaemonTypeOK, RegistryType, Advances, CallsServed, ProcType, Stages, CallType,
         CallState, lock
<1>2. ForSessions'
  BY DEF Advances, CallsServed, ForSessions, RegistryInv
<1>3. \A e \in Entries : Owned(e) => Owned(e)' /\ (e.pid \in Alive' => e.pid \in Alive)
  BY DEF Advances, Owned, Entries
<1> QED
  BY <1>1, <1>2, <1>3

\* A launched process is tracked under a pid nothing else is tracked under.
LEMMA LaunchStep ==
  ASSUME RegistryInv, NEW c \in Calls, Launch(c) PROVE RegistryInv'
<1>0. DaemonTypeOK /\ ForSessions /\ call[c] \in CallState
  BY DEF RegistryInv, DaemonTypeOK, CallState
<1>1. PICK p \in Fresh, s \in Sessions :
        /\ proc' = [proc EXCEPT ![p] = [st |-> "boot", sid |-> s, saw |-> None]]
        /\ tracked' = Set(tracked, Entry(p, None, TRUE))
        /\ call' = [call EXCEPT ![c] = [@ EXCEPT !.pc = "wait", !.pid = p]]
  BY <1>0 DEF Launch, NewSession, ForSessions
<1>2. UNCHANGED <<lock, up, resumable, pending, sessionsFile, restored, skipped, crashes>> /\ up
  BY DEF Launch, RegistryInv, FoundInv, probed
<1>3. Advances /\ p \in Pids /\ proc[p].st = "none" /\ proc'[p].st = "boot" /\ proc'[p].sid = s
  BY <1>0, <1>1, Starting
<1>4. CallsServed
  <2>1. call' = [call EXCEPT ![c] = [kind |-> call[c].kind, pc |-> "wait", sid |-> call[c].sid, pid |-> p]]
    BY <1>0, <1>1, CallEdit
  <2>2. /\ call[c].kind \in Launching \cup {"none"} /\ call[c].sid \in Sessions \cup {None}
        /\ call[c].kind = "resume" => call[c].sid \in Sessions
    BY <1>0 DEF CallState, ForSessions
  <2> QED
    BY <1>2, <1>3, <2>1, <2>2, CallMoves
<1> DEFINE e == Entry(p, None, TRUE)
<1>5. e \in Entries /\ e.pid = p /\ e.sid = None
  BY <1>3 DEF Entry, Entries
<1> HIDE DEF e
<1>6. tracked' = Set(tracked, e)
  BY <1>1 DEF e
<1>7. \A x \in Range(tracked) : x.pid # p
  BY <1>3 DEF RegistryInv, OwnedInv, Owned
<1>8. /\ tracked' \in Seq(Entries) /\ Range(tracked') = Range(tracked) \cup {e}
      /\ \A i, j \in DOMAIN tracked' : tracked'[i].pid = tracked'[j].pid => i = j
  <2>1. tracked \in Seq(Entries) /\ \A i, j \in DOMAIN tracked : tracked[i].pid = tracked[j].pid => i = j
    BY Typed DEF RegistryType
  <2>2. {x \in Range(tracked) : x.pid # e.pid} = Range(tracked)
    BY <1>5, <1>7
  <2> QED
    BY <1>5, <1>6, <2>1, <2>2, MapSet
<1>9. RegistryType'
  BY <1>2, <1>8, Typed DEF RegistryType
<1>10. /\ DaemonTypeOK' /\ ForSessions'
       /\ \A x \in Entries : Owned(x) => Owned(x)' /\ (x.pid \in Alive' => x.pid \in Alive)
  BY <1>0, <1>2, <1>3, <1>4, <1>9, Retyped DEF DaemonTypeOK
<1>11. OwnedInv'
  BY <1>2, <1>3, <1>5, <1>8, <1>10, Typed DEF OwnedInv, Owned, RegistryInv
<1>12. FoundInv'
  <2>1. \A x : Found(x) => Found(x)'
    BY <1>2, <1>8 DEF Found
  <2>2. \A x \in Entries : Owned(x) /\ Seen(x) => Seen(x)'
    BY <1>2, <1>8, <1>10 DEF Seen
  <2> QED
    BY <1>2, <2>1, <2>2, Typed DEF FoundInv, OwnedInv, RegistryInv
<1> QED
  BY <1>10, <1>11, <1>12 DEF RegistryInv

\* A report replaces the entry of its process by the record it writes, which is
\* what any record of that process with a directory says.
LEMMA ReportStep ==
  ASSUME RegistryInv, NEW p \in Pids, Report(p) PROVE RegistryInv'
<1>0. DaemonTypeOK /\ ForSessions /\ proc[p].st \in {"held", "up"} /\ dirLock \in Pids \cup {None}
  BY DEF RegistryInv, DaemonTypeOK, Report
<1>1. UNCHANGED <<lock, crashes>> /\ dirLock' = dirLock /\ raced' = raced /\ raced \in BOOLEAN
  BY DEF Report, lock, RegistryInv, DaemonTypeOK
<1>2. Advances
  <2>1. PICK st \in {"up", "known"} : proc' = [proc EXCEPT ![p].st = st]
    BY <1>0 DEF Report
  <2>2. p \in Alive
    BY <1>0 DEF Alive
  <2> QED
    BY <1>0, <2>1, <2>2, Moving
<1>3. CASE UNCHANGED <<daemon, call>>
  <2>1. CallsServed
    BY <1>3 DEF RegistryInv, DaemonTypeOK, CallType, CallState, ForSessions, FoundInv, CallsServed, daemon
  <2> QED
    BY <1>0, <1>1, <1>2, <1>3, <2>1, Elsewhere
<1>4. CASE up /\ OnSessionStarted(p, proc[p].sid)
  <2>1. PICK s \in Sessions : s = proc[p].sid
    BY <1>0 DEF ForSessions
  <2>0. PICK d \in BOOLEAN : d = (\E old \in Range(tracked) : old.pid = p /\ old.dir)
    OBVIOUS
  <2> DEFINE e == Entry(p, s, d)
  <2>2. e \in Records /\ e.pid = p /\ e.sid = s /\ e.dir = d
    BY DEF Entry, Records
  <2>3. /\ tracked' = Set(tracked, e)
        /\ resumable' = [resumable EXCEPT ![s] = NoRecord]
        /\ pending' = Append(pending, e)
        /\ Settle(p, Launching)
        /\ up /\ up' = up /\ UNCHANGED <<sessionsFile, restored, skipped>>
    BY <1>4, <2>0, <2>1 DEF OnSessionStarted, probed
  <2>4. CallsServed
    BY <2>3, SettleType
  <2>5. \A r \in Records : r \in Range(tracked) /\ r.dir /\ r.pid = p /\ Owned(r) => r = e
    <3>1. ASSUME NEW r \in Records, r \in Range(tracked), r.dir, r.pid = p, Owned(r) PROVE r = e
      <4>1. d
        BY <2>0, <3>1
      <4>2. d = TRUE
        BY <4>1
      <4>3. r.sid = s
        BY <2>1, <3>1, DaemonAssumption DEF Owned, Records
      <4>4. r.dir = TRUE
        BY <3>1 DEF Records
      <4>5. e = [pid |-> p, sid |-> s, dir |-> TRUE]
        BY <4>2 DEF Entry
      <4>6. r = [pid |-> r.pid, sid |-> r.sid, dir |-> r.dir]
        BY DEF Records
      <4> QED
        BY <3>1, <4>3, <4>4, <4>5, <4>6
    <3> QED
      BY <3>1
  <2> HIDE DEF e
  <2>6. e \in Entries
    BY <2>2, Typed
  <2>7. /\ tracked' \in Seq(Entries)
        /\ Range(tracked') = {x \in Range(tracked) : x.pid # p} \cup {e}
        /\ \A i, j \in DOMAIN tracked' : tracked'[i].pid = tracked'[j].pid => i = j
    BY <2>2, <2>3, <2>6, Typed, MapSet DEF RegistryType
  <2>8. pending' \in Seq(Records) /\ Range(pending') = Range(pending) \cup {e}
    BY <2>2, <2>3, Typed, RangeAppend DEF RegistryType
  <2>9. /\ resumable' \in [Sessions -> Records \cup {NoRecord}]
        /\ \A t \in Sessions : resumable'[t] = IF t = s THEN NoRecord ELSE resumable[t]
    BY <2>3, Typed DEF RegistryType
  <2>10. RegistryType'
    BY <2>3, <2>7, <2>8, <2>9, Typed DEF RegistryType, NoRecord
  <2>11. /\ DaemonTypeOK' /\ ForSessions'
         /\ \A x \in Entries : Owned(x) => Owned(x)' /\ (x.pid \in Alive' => x.pid \in Alive)
    BY <1>0, <1>1, <1>2, <2>4, <2>10, Retyped DEF DaemonTypeOK
  <2>12. Owned(e)
    BY <1>0, <2>1, <2>2 DEF Owned
  <2>13. OwnedInv'
    BY <2>3, <2>6, <2>7, <2>8, <2>11, <2>12, Typed DEF OwnedInv, RegistryInv
  <2>14. \A t \in Sessions : Found(t) => Found(t)'
    <3>1. ASSUME NEW t \in Sessions, Found(t), t # s PROVE Found(t)'
      <4>1. CASE resumable[t] # NoRecord
        BY <2>9, <3>1, <4>1 DEF Found
      <4>2. CASE \E x \in Range(tracked) : x.sid = t
        <5>1. PICK x \in Range(tracked) : x.sid = t
          BY <4>2
        <5>2. x.pid # p
          BY <2>1, <3>1, <5>1, DaemonAssumption DEF RegistryInv, OwnedInv, Owned
        <5> QED
          BY <2>7, <5>1, <5>2 DEF Found
      <4> QED
        BY <3>1, <4>1, <4>2 DEF Found
    <3>2. Found(s)'
      BY <2>2, <2>7 DEF Found
    <3> QED
      BY <3>1, <3>2
  <2>15. \A r \in Records : Owned(r) /\ Seen(r) => Seen(r)'
    <3>1. ASSUME NEW r \in Records, Owned(r), Seen(r), r.dir, r.pid \in Alive' \ skipped' PROVE r \in Range(tracked')
      <4>1. r \in Range(tracked)
        BY <2>3, <2>11, <3>1, Typed DEF Seen
      <4>2. CASE r.pid # p
        BY <2>7, <4>1, <4>2
      <4>3. CASE r.pid = p
        BY <2>5, <2>7, <3>1, <4>1, <4>3
      <4> QED
        BY <4>2, <4>3
    <3> QED
      BY <3>1 DEF Seen
  <2>16. Found(e.sid)' /\ Seen(e)'
    BY <2>2, <2>7 DEF Found, Seen
  <2>17. FoundInv'
    <3>1. \A x \in Range(pending) : x \in Records /\ x.sid \in Sessions /\ Owned(x) /\ Found(x.sid) /\ Seen(x)
      BY <2>3, Typed DEF FoundInv, OwnedInv, RegistryInv, Records
    <3>2. restored => \A t \in Sessions : sessionsFile[t] # NoRecord =>
            sessionsFile[t] \in Records /\ Owned(sessionsFile[t]) /\ Found(t) /\ Seen(sessionsFile[t])
      BY <2>3, Typed DEF FoundInv, OwnedInv, RegistryInv
    <3>3. (\A x \in Range(pending) : Found(x.sid) /\ Seen(x))'
      BY <2>8, <2>14, <2>15, <2>16, <3>1
    <3>4. (restored => \A t \in Sessions : sessionsFile[t] # NoRecord => Found(t) /\ Seen(sessionsFile[t]))'
      BY <2>3, <2>14, <2>15, <3>2
    <3> QED
      BY <2>3, <3>3, <3>4 DEF FoundInv
  <2> QED
    BY <2>11, <2>13, <2>17 DEF RegistryInv
<1> QED
  BY <1>3, <1>4 DEF Report

\* What is written to sessions.json was in the write chain.
LEMMA PersistStep ==
  ASSUME RegistryInv, PersistSession PROVE RegistryInv'
<1>1. /\ UNCHANGED <<proc, lock, up, tracked, resumable, restored, skipped, call, crashes>>
      /\ pending # <<>> /\ pending' = Tail(pending) /\ up
  BY DEF PersistSession, RegistryInv, FoundInv, probed
<1>2. PICK e \in Range(pending) :
        \/ sessionsFile' = sessionsFile
        \/ \E existing \in {sessionsFile, NoRecords} : sessionsFile' = [existing EXCEPT ![e.sid] = e]
  BY <1>1, Typed, RangeTail DEF PersistSession, RegistryType
<1>3. pending' \in Seq(Records) /\ Range(pending') \subseteq Range(pending)
  BY <1>1, Typed, RangeTail DEF RegistryType
<1>4. e \in Records /\ e \in Entries /\ e.sid \in Sessions /\ Owned(e) /\ Found(e.sid) /\ Seen(e)
  BY <1>1, Typed DEF RegistryInv, OwnedInv, FoundInv, Records
<1>5. sessionsFile \in [Sessions -> Records \cup {NoRecord}]
  BY Typed DEF RegistryType
<1>6. /\ sessionsFile' \in [Sessions -> Records \cup {NoRecord}]
      /\ \A s \in Sessions : sessionsFile'[s] \in {sessionsFile[s], NoRecord} \/ (s = e.sid /\ sessionsFile'[s] = e)
  <2>1. NoRecords \in [Sessions -> Records \cup {NoRecord}] /\ \A s \in Sessions : NoRecords[s] = NoRecord
    BY DEF NoRecords
  <2>2. ASSUME NEW existing \in {sessionsFile, NoRecords}, sessionsFile' = [existing EXCEPT ![e.sid] = e]
        PROVE  /\ sessionsFile' \in [Sessions -> Records \cup {NoRecord}]
               /\ \A s \in Sessions :
                    sessionsFile'[s] \in {sessionsFile[s], NoRecord} \/ (s = e.sid /\ sessionsFile'[s] = e)
    <3>1. existing \in [Sessions -> Records \cup {NoRecord}]
      BY <1>5, <2>1
    <3>2. \A s \in Sessions : existing[s] \in {sessionsFile[s], NoRecord}
      BY <2>1
    <3> QED
      BY <1>4, <2>2, <3>1, <3>2
  <2> QED
    BY <1>2, <1>5, <2>2
<1>7. RegistryType'
  <2>1. NoRecord.sid = None
    BY DEF NoRecord
  <2>2. \A s \in Sessions : sessionsFile'[s].sid \in {None, s}
    BY <1>4, <1>6, <2>1, Typed DEF RegistryType, Records
  <2> QED
    BY <1>1, <1>3, <1>6, <2>2, Typed DEF RegistryType
<1>8. Advances /\ CallsServed
  BY <1>1, SameProcs DEF RegistryInv, DaemonTypeOK, CallType, CallState, ForSessions, FoundInv, CallsServed
<1>9. DaemonTypeOK' /\ ForSessions'
  BY <1>1, <1>7, <1>8, Retyped DEF RegistryInv, DaemonTypeOK
<1>10. /\ \A x : Owned(x)' <=> Owned(x)
       /\ \A x : Seen(x)' <=> Seen(x)
       /\ \A x : Found(x)' <=> Found(x)
  BY <1>1 DEF Owned, Seen, Found, Alive
<1>11. OwnedInv'
  <2>1. \A x \in Range(tracked) \cup Range(pending) : Owned(x)
    BY DEF RegistryInv, OwnedInv
  <2>2. \A s \in Sessions : sessionsFile[s] # NoRecord => Owned(sessionsFile[s])
    BY DEF RegistryInv, OwnedInv
  <2>3. (\A x \in Range(tracked) \cup Range(pending) : Owned(x))'
    BY <1>1, <1>3, <1>10, <2>1
  <2>4. (\A s \in Sessions : sessionsFile[s] # NoRecord => Owned(sessionsFile[s]))'
    BY <1>4, <1>6, <1>10, <2>2
  <2> QED
    BY <2>3, <2>4 DEF OwnedInv
<1>12. FoundInv'
  <2>1. \A x \in Range(pending) : Found(x.sid) /\ Seen(x)
    BY <1>1 DEF RegistryInv, FoundInv
  <2>2. restored => \A s \in Sessions : sessionsFile[s] # NoRecord => Found(s) /\ Seen(sessionsFile[s])
    BY <1>1 DEF RegistryInv, FoundInv
  <2>3. (\A x \in Range(pending) : Found(x.sid) /\ Seen(x))'
    BY <1>3, <1>10, <2>1
  <2>4. (restored => \A s \in Sessions : sessionsFile[s] # NoRecord => Found(s) /\ Seen(sessionsFile[s]))'
    BY <1>1, <1>4, <1>6, <1>10, <2>2
  <2> QED
    BY <1>1, <2>3, <2>4 DEF FoundInv
<1> QED
  BY <1>9, <1>11, <1>12 DEF RegistryInv

\* A dead entry that leaves the live map goes to the resumable set.
LEMMA PruneStep ==
  ASSUME RegistryInv, PruneDeadSessions PROVE RegistryInv'
<1> DEFINE live == {e \in Range(tracked) : ~Dead(e)}
           Gone(s) == {i \in Of(s) : Dead(tracked[i])}
<1>1. /\ UNCHANGED <<proc, lock, up, pending, sessionsFile, restored, skipped, call, crashes>> /\ up
      /\ tracked' \in SetToSeqs(live)
      /\ resumable' = [s \in Sessions |-> IF Gone(s) = {} THEN resumable[s] ELSE tracked[Max(Gone(s))]]
  BY DEF PruneDeadSessions, DeleteDead, probed
<1>2. /\ tracked \in Seq(Entries) /\ resumable \in [Sessions -> Records \cup {NoRecord}]
      /\ \A i, j \in DOMAIN tracked : tracked[i].pid = tracked[j].pid => i = j
      /\ \A s \in Sessions : resumable[s].sid \in {None, s}
  BY Typed DEF RegistryType
<1>3. Len(tracked) \in Nat /\ DOMAIN tracked = 1 .. Len(tracked) /\ \A i \in 1 .. Len(tracked) : tracked[i] \in Entries
  BY <1>2
<1>4. IsFiniteSet(live) /\ live \subseteq Range(tracked)
  BY <1>2, RangeFinite, FS_Subset
<1>5. /\ tracked' \in Seq(live) /\ Range(tracked') = live
      /\ \A i, j \in DOMAIN tracked' : tracked'[i] = tracked'[j] => i = j
  BY <1>1, <1>4, Enumerated
<1>6. \A e, f \in Range(tracked) : e.pid = f.pid => e = f
  BY <1>2 DEF Range
<1>7. /\ tracked' \in Seq(Entries)
      /\ \A i, j \in DOMAIN tracked' : tracked'[i].pid = tracked'[j].pid => i = j
  <2>1. live \subseteq Entries
    BY <1>4, Typed
  <2>2. tracked' \in Seq(Entries) /\ \A i \in DOMAIN tracked' : tracked'[i] \in live
    BY <1>5, <2>1 DEF Range
  <2> QED
    BY <1>4, <1>5, <1>6, <2>2
<1>8. ASSUME NEW s \in Sessions, Gone(s) # {}
      PROVE  tracked[Max(Gone(s))] \in Records /\ tracked[Max(Gone(s))].sid = s
  <2>1. Gone(s) \in SUBSET (1 .. Len(tracked))
    BY <1>3 DEF Of
  <2>2. Max(Gone(s)) \in Gone(s)
    BY <1>3, <1>8, <2>1, MaxOf
  <2>3. Max(Gone(s)) \in 1 .. Len(tracked) /\ tracked[Max(Gone(s))].sid = s
    BY <2>1, <2>2 DEF Of
  <2> QED
    BY <1>3, <2>3 DEF Entries, Records
<1>9. /\ resumable' \in [Sessions -> Records \cup {NoRecord}]
      /\ \A s \in Sessions : resumable'[s].sid \in {None, s}
      /\ \A s \in Sessions : Gone(s) = {} => resumable'[s] = resumable[s]
      /\ \A s \in Sessions : Gone(s) # {} => resumable'[s] \in Records
  <2> HIDE DEF Gone
  <2> QED
    BY <1>1, <1>2, <1>8
<1>10. RegistryType'
  BY <1>1, <1>7, <1>9, Typed DEF RegistryType
<1>11. Advances /\ CallsServed
  BY <1>1, SameProcs DEF RegistryInv, DaemonTypeOK, CallType, CallState, ForSessions, FoundInv, CallsServed
<1>12. DaemonTypeOK' /\ ForSessions'
  BY <1>1, <1>10, <1>11, Retyped DEF RegistryInv, DaemonTypeOK
<1>13. Alive' = Alive /\ \A x : Owned(x)' <=> Owned(x)
  BY <1>1 DEF Owned, Alive
<1>14. OwnedInv'
  BY <1>1, <1>4, <1>5, <1>13 DEF RegistryInv, OwnedInv
<1>15. \A x : Seen(x) => Seen(x)'
  BY <1>1, <1>5, <1>13 DEF Seen, Dead
<1>16. ASSUME NEW s \in Sessions, Found(s) PROVE Found(s)'
  <2>1. \A r \in Records : r # NoRecord
    BY DaemonAssumption DEF Records, NoRecord
  <2>2. CASE Gone(s) # {}
    BY <1>9, <2>1, <2>2 DEF Found
  <2>3. CASE Gone(s) = {} /\ resumable[s] # NoRecord
    BY <1>9, <2>3 DEF Found
  <2>4. CASE Gone(s) = {} /\ \E e \in Range(tracked) : e.sid = s
    <3>1. PICK i \in DOMAIN tracked : tracked[i].sid = s
      BY <2>4 DEF Range
    <3>2. ~Dead(tracked[i])
      BY <2>4, <3>1 DEF Of
    <3>3. tracked[i] \in Range(tracked')
      BY <1>5, <3>1, <3>2 DEF Range
    <3> QED
      BY <3>1, <3>3 DEF Found
  <2> QED
    BY <1>16, <2>2, <2>3, <2>4 DEF Found
<1>17. FoundInv'
  <2>1. \A x \in Range(pending) : x.sid \in Sessions /\ Found(x.sid) /\ Seen(x)
    BY <1>1, Typed DEF RegistryInv, FoundInv, Records
  <2>2. restored => \A s \in Sessions : sessionsFile[s] # NoRecord => Found(s) /\ Seen(sessionsFile[s])
    BY <1>1 DEF RegistryInv, FoundInv
  <2>3. (\A x \in Range(pending) : Found(x.sid) /\ Seen(x))'
    BY <1>1, <1>15, <1>16, <2>1
  <2>4. (restored => \A s \in Sessions : sessionsFile[s] # NoRecord => Found(s) /\ Seen(sessionsFile[s]))'
    BY <1>1, <1>15, <1>16, <2>2
  <2> QED
    BY <1>1, <2>3, <2>4 DEF FoundInv
<1> QED
  BY <1>12, <1>14, <1>17 DEF RegistryInv

\* A crash forgets everything but sessions.json.
LEMMA DaemonCrashStep ==
  ASSUME RegistryInv, DaemonCrash PROVE RegistryInv'
<1>1. /\ UNCHANGED <<proc, lock, sessionsFile>> /\ up' = FALSE
      /\ tracked' = <<>> /\ pending' = <<>> /\ restored' \in BOOLEAN /\ skipped' = {}
      /\ resumable' = [s \in Sessions |-> NoRecord]
      /\ call' = [c \in Calls |-> IdleCall]
  BY DEF DaemonCrash, NoRecords
<1>2. crashes' \in 0 .. MaxCrashes
  BY DaemonAssumption DEF DaemonCrash, RegistryInv, DaemonTypeOK
<1>3. RegistryType'
  <2>1. DOMAIN tracked' = {} /\ tracked' \in Seq(Entries) /\ pending' \in Seq(Records)
    BY <1>1
  <2>2. resumable' \in [Sessions -> {NoRecord}] /\ NoRecord.sid = None
    BY <1>1 DEF NoRecord
  <2>3. /\ resumable' \in [Sessions -> Records \cup {NoRecord}]
        /\ \A s \in Sessions : resumable'[s].sid = None
    BY <2>2
  <2> QED
    BY <1>1, <2>1, <2>3, Typed DEF RegistryType
<1>4. Advances
  BY <1>1, SameProcs DEF RegistryInv
<1>5. CallsServed
  BY <1>1 DEF CallsServed, CallType, CallState, IdleCall
<1>6. DaemonTypeOK' /\ ForSessions'
  BY <1>1, <1>2, <1>3, <1>4, <1>5, Retyped
<1>7. Range(tracked') = {} /\ Range(pending') = {}
  BY <1>1 DEF Range
<1>8. OwnedInv'
  BY <1>1, <1>7 DEF RegistryInv, OwnedInv, Owned
<1>9. FoundInv'
  BY <1>1 DEF FoundInv, IdleCall
<1> QED
  BY <1>6, <1>8, <1>9 DEF RegistryInv

\* The records of a restarted daemon are those of sessions.json, and so are the
\* live ones among them in its live map.
LEMMA BootStep ==
  ASSUME RegistryInv, Boot PROVE RegistryInv'
<1> DEFINE live == {e \in Orphans(resumable') : e.pid \notin skipped'}
<1>1. /\ UNCHANGED <<proc, lock, pending, sessionsFile, call, crashes>> /\ ~up /\ up' = TRUE
      /\ resumable' \in {sessionsFile, NoRecords} /\ restored' = (resumable' = sessionsFile)
      /\ skipped' \in SUBSET {e.pid : e \in Orphans(resumable')} /\ tracked' \in SetToSeqs(live)
  BY DEF Boot
<1>2. /\ sessionsFile \in [Sessions -> Records \cup {NoRecord}] /\ pending = <<>>
      /\ resumable' \in [Sessions -> Records \cup {NoRecord}]
      /\ \A s \in Sessions : resumable'[s] \in {sessionsFile[s], NoRecord}
  <2>1. sessionsFile \in [Sessions -> Records \cup {NoRecord}] /\ pending = <<>>
    BY <1>1, Typed DEF RegistryType, RegistryInv, FoundInv
  <2>2. NoRecords \in [Sessions -> Records \cup {NoRecord}] /\ \A s \in Sessions : NoRecords[s] = NoRecord
    BY DEF NoRecords
  <2> QED
    BY <1>1, <2>1, <2>2
<1>15. restored' \in BOOLEAN /\ skipped' \subseteq Pids
  <2>1. restored' \in BOOLEAN
    <3>1. restored' = (resumable' = sessionsFile)
      BY <1>1
    <3> QED
      BY ONLY <3>1, Zenon
  <2>2. \A e \in Orphans(resumable') : e.pid \in Pids
    BY DEF Orphans, Alive
  <2>3. skipped' \subseteq {e.pid : e \in Orphans(resumable')}
    BY <1>1
  <2> QED
    BY <2>1, <2>2, <2>3
<1>3. \A e \in live : \E s \in Sessions : e = sessionsFile[s] /\ sessionsFile[s] # NoRecord
  BY <1>2 DEF Orphans, Range, NoRecord
<1>4. \A e \in live : /\ e \in Records /\ Owned(e) /\ e.sid \in Sessions /\ e = sessionsFile[e.sid]
                      /\ e.sid = proc[e.pid].sid
  <2>1. ASSUME NEW e \in live
        PROVE  /\ e \in Records /\ Owned(e) /\ e.sid \in Sessions /\ e = sessionsFile[e.sid]
               /\ e.sid = proc[e.pid].sid
    <3>1. PICK s \in Sessions : e = sessionsFile[s] /\ sessionsFile[s] # NoRecord
      BY <1>3
    <3>2. e \in Records /\ e.sid = s /\ Owned(e)
      BY <3>1, Typed DEF RegistryInv, OwnedInv
    <3> QED
      BY <3>1, <3>2, DaemonAssumption DEF Owned
  <2> QED
    BY <2>1
<1>5. \A e, f \in live : e.pid = f.pid => e = f
  BY <1>4
<1>6. IsFiniteSet(live)
  <2>1. resumable' \in Surjection(Sessions, Range(resumable'))
    BY <1>2 DEF Surjection, Range
  <2>2. IsFiniteSet(Range(resumable'))
    BY <2>1, DaemonAssumption, FS_Surjection
  <2> QED
    BY <2>2, FS_Subset DEF Orphans
<1>7. /\ tracked' \in Seq(live) /\ Range(tracked') = live
      /\ \A i, j \in DOMAIN tracked' : tracked'[i] = tracked'[j] => i = j
  BY <1>1, <1>6, Enumerated
<1>8. /\ tracked' \in Seq(Entries)
      /\ \A i, j \in DOMAIN tracked' : tracked'[i].pid = tracked'[j].pid => i = j
  <2>1. live \subseteq Entries
    BY <1>4, Typed
  <2> HIDE DEF live
  <2>2. tracked' \in Seq(Entries) /\ \A i \in DOMAIN tracked' : tracked'[i] \in live
    BY <1>7, <2>1 DEF Range
  <2> QED
    BY <1>5, <1>7, <2>2
<1> HIDE DEF live
<1>9. RegistryType'
  <2>1. NoRecord.sid = None
    BY DEF NoRecord
  <2>2. \A s \in Sessions : resumable'[s].sid \in {None, s}
    BY <1>2, <2>1, Typed DEF RegistryType
  <2> QED
    BY <1>1, <1>2, <1>8, <1>15, <2>2, Typed DEF RegistryType
<1>10. Advances /\ CallsServed
  BY <1>1, SameProcs DEF RegistryInv, DaemonTypeOK, CallType, CallState, ForSessions, FoundInv, CallsServed
<1>11. DaemonTypeOK' /\ ForSessions'
  BY <1>1, <1>9, <1>10, Retyped DEF RegistryInv, DaemonTypeOK
<1>12. Alive' = Alive /\ \A x : Owned(x)' <=> Owned(x)
  BY <1>1 DEF Owned, Alive
<1>13. OwnedInv'
  BY <1>1, <1>4, <1>7, <1>12 DEF RegistryInv, OwnedInv
<1>14. FoundInv'
  <2>1. Range(pending') = {}
    BY <1>1, <1>2 DEF Range
  <2>2. restored' => \A s \in Sessions : sessionsFile[s] # NoRecord => resumable'[s] # NoRecord
    BY <1>1
  <2>3. restored' => \A s \in Sessions :
          sessionsFile[s].dir /\ sessionsFile[s].pid \in Alive \ skipped' => sessionsFile[s] \in Range(tracked')
    BY <1>1, <1>2, <1>7 DEF live, Orphans, Range
  <2> QED
    BY <1>1, <1>12, <2>1, <2>2, <2>3 DEF FoundInv, Found, Seen
<1> QED
  BY <1>11, <1>13, <1>14 DEF RegistryInv

LEMMA DaemonInitRegistry == DaemonInit => RegistryInv
<1> SUFFICES ASSUME DaemonInit PROVE RegistryInv
  OBVIOUS
<1>1. DaemonTypeOK
  <2>1. /\ proc \in ProcType /\ dirLock \in Pids \cup {None} /\ up \in BOOLEAN
        /\ raced \in BOOLEAN /\ restored \in BOOLEAN /\ skipped \subseteq Pids
    BY DEF DaemonInit, ProcType, Stages
  <2>2. tracked \in Seq(Entries) /\ pending \in Seq(Records) /\ DOMAIN tracked = {}
    BY DEF DaemonInit
  <2>3. /\ resumable \in [Sessions -> Records \cup {NoRecord}]
        /\ sessionsFile \in [Sessions -> Records \cup {NoRecord}]
        /\ \A s \in Sessions : resumable[s] = NoRecord /\ sessionsFile[s] = NoRecord
    BY DEF DaemonInit, NoRecords
  <2>4. call \in CallType
    BY DEF DaemonInit, CallType, CallState, IdleCall
  <2>5. crashes \in 0 .. MaxCrashes
    BY DaemonAssumption DEF DaemonInit
  <2> QED
    BY <2>1, <2>2, <2>3, <2>4, <2>5 DEF DaemonTypeOK, ProcType, Stages, CallType, CallState, NoRecord
<1>2. ForSessions
  BY DEF DaemonInit, ForSessions, IdleCall
<1>3. Range(tracked) = {} /\ Range(pending) = {}
  BY DEF DaemonInit, Range
<1>4. OwnedInv /\ FoundInv
  BY <1>3 DEF DaemonInit, NoRecords, OwnedInv, FoundInv
<1> QED
  BY <1>1, <1>2, <1>4 DEF RegistryInv

LEMMA RegistryStep == RegistryInv /\ [DaemonNext]_daemonVars => RegistryInv'
<1> SUFFICES ASSUME RegistryInv, [DaemonNext]_daemonVars PROVE RegistryInv'
  OBVIOUS
<1>1. CASE UNCHANGED daemonVars
  <2>1. UNCHANGED <<proc, dirLock, raced, daemon, call, crashes>> /\ up' = up
    BY <1>1 DEF daemonVars, daemon, lock
  <2>2. Advances /\ CallsServed /\ dirLock \in Pids \cup {None} /\ raced \in BOOLEAN
    BY <2>1, SameProcs DEF RegistryInv, DaemonTypeOK, CallType, CallState, ForSessions, FoundInv, CallsServed
  <2> QED
    BY <2>1, <2>2, Elsewhere
<1>2. CASE DaemonNext
  <2>1. CASE \E p \in Pids : Report(p)
    BY <2>1, ReportStep
  <2>2. CASE \E c \in Calls : Launch(c)
    BY <2>2, LaunchStep
  <2>3. CASE \E p \in Pids : \/ StartAtTerminal(p) \/ LinkLock(p) \/ LinkRefused(p) \/ HeldByRunning(p)
                             \/ Diagnose(p) \/ Recheck(p) \/ RemoveStale(p) \/ StartFails(p) \/ Die(p)
    BY <2>3, ProcStep
  <2>4. CASE \E c \in Calls : \/ \E kind \in Watching : Spawn(c, kind)
                              \/ \E s \in Sessions : Resume(c, s)
                              \/ StopSession(c) \/ OldProcessGone(c) \/ Refuse(c) \/ Dedup(c) \/ Timeout(c)
    BY <2>4, HandlerStep
  <2>5. CASE PersistSession \/ PruneDeadSessions \/ DaemonCrash \/ Boot
    BY <2>5, PersistStep, PruneStep, DaemonCrashStep, BootStep
  <2> QED
    BY <1>2, <2>1, <2>2, <2>3, <2>4, <2>5 DEF DaemonNext, Handler
<1> QED
  BY <1>1, <1>2

LEMMA RegistryInvariance == DaemonSpec => []RegistryInv
BY DaemonInitRegistry, RegistryStep, PTL DEF DaemonSpec

\* The registry is well typed: no two entries of the live map are of one pid
\* (pidToSession is a Map), and a session's record names that session.
THEOREM DaemonTypeCorrect == DaemonSpec => []DaemonTypeOK
<1>1. RegistryInv => DaemonTypeOK
  BY DEF RegistryInv
<1> QED
  BY RegistryInvariance, <1>1, PTL

\* "A crashed session must still be resumable, not just forgotten"
\* (pruneDeadSessions and restore, sessionRegistry.ts): what was written to
\* sessions.json is found as long as a daemon runs that could read the file.
THEOREM ResumableKeptCorrect == DaemonSpec => []ResumableKept
<1>1. RegistryInv => ResumableKept
  <2>1. ASSUME RegistryInv, up, restored, NEW s \in Sessions, sessionsFile[s] # NoRecord, FindResumable(s) = NoRecord
        PROVE  FALSE
    <3>1. Found(s)
      BY <2>1 DEF RegistryInv, FoundInv
    <3>2. CASE Of(s) = {}
      BY <2>1, <3>1, <3>2 DEF Found, FindResumable, Of, Range
    <3>3. CASE Of(s) # {}
      <4>1. FindResumable(s) \in Entries
        BY <2>1, <3>3, FirstType DEF RegistryInv, FindResumable
      <4> QED
        BY <2>1, <4>1, DaemonAssumption DEF Entries, NoRecord
    <3> QED
      BY <3>2, <3>3
  <2> QED
    BY <2>1 DEF ResumableKept
<1> QED
  BY RegistryInvariance, <1>1, PTL

\* A process that runs on with the session and the directory sessions.json has
\* for it is in the live map (onSessionStarted, readoptLiveSessions), whatever
\* launches, reports, prunings and restarts came between, unless the last boot
\* could not see the file or the process.
THEOREM LiveIsTrackedCorrect == DaemonSpec => []LiveIsTracked
<1>1. RegistryInv => LiveIsTracked
  BY DEF RegistryInv, FoundInv, Seen, LiveIsTracked, NoRecord
<1> QED
  BY RegistryInvariance, <1>1, PTL
================================================================================
