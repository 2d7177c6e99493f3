------------------------ MODULE TranscriptScannerProofs ------------------------
(***************************************************************************)
(* The tailer's passes exclude each other, every entry is handed on once   *)
(* and a flush() is fresh, for any sessions, entries and overlapping       *)
(* calls of flush().                                                       *)
(***************************************************************************)
EXTENDS TranscriptScanner, TLAPS

(* The tailer keeps to its types.                                          *)
THEOREM TypeCorrect == Spec => []TypeOK
<1>1. Init => TypeOK
  <2> SUFFICES ASSUME Init PROVE TypeOK
    OBVIOUS
  <2>1. hooked \in BOOLEAN /\ armed \in BOOLEAN /\ running \in BOOLEAN /\ rerun \in BOOLEAN
    BY DEF Init
  <2>2. pass \in [Runners -> Passes] /\ waits \in [Flushers -> Runners \cup {NoOne}]
    BY DEF Init, Passes, Idle
  <2>3. watchers \subseteq Sessions
    BY DEF Init
  <2>4. (UNION {file[s] : s \in watchers}) \subseteq Entries
    BY <2>3 DEF Init
  <2>5. history \subseteq Entries /\ processed \subseteq Entries
    BY <2>4 DEF Init
  <2> QED
    BY <2>1, <2>2, <2>3, <2>5 DEF Init, TypeOK
<1>2. TypeOK /\ [Next]_vars => TypeOK'
  <2> SUFFICES ASSUME TypeOK, [Next]_vars PROVE TypeOK'
    OBVIOUS
  <2> USE NamesDiffer
  <2>a. ASSUME NEW r \in Runners, NEW l \in SUBSET Sessions
        PROVE [pass EXCEPT ![r] = Begin(l)] \in [Runners -> Passes]
    BY DEF TypeOK, Passes, Begin
  <2>b. Followed \in SUBSET Sessions
    BY DEF TypeOK, Followed, Collected
  <2>c. "poll" \in Runners /\ "final" \in Runners /\ Flushers \subseteq Runners
    BY DEF Runners
  <2>d. ASSUME NEW f \in Flushers, OwnPass(f) \/ Wait(f)
        PROVE  /\ running' \in BOOLEAN /\ rerun' \in BOOLEAN
               /\ promise' \in Runners \cup {NoOne}
               /\ pass' \in [Runners -> Passes]
               /\ waits' \in [Flushers -> Runners \cup {NoOne}]
    <3>1. pass' \in [Runners -> Passes]
      BY <2>a, <2>b, <2>c, <2>d DEF TypeOK, OwnPass, Wait
    <3>2. running' \in BOOLEAN /\ rerun' \in BOOLEAN
      BY <2>d, Zenon DEF TypeOK, OwnPass, Wait
    <3>3. promise' \in Runners \cup {NoOne} /\ waits' \in [Flushers -> Runners \cup {NoOne}]
      BY <2>c, <2>d DEF TypeOK, OwnPass, Wait
    <3> QED
      BY <3>1, <3>2, <3>3
  <2>e. ASSUME NEW l \in SUBSET Sessions, Invalidate(l)
        PROVE  /\ running' \in BOOLEAN /\ rerun' \in BOOLEAN
               /\ promise' \in Runners \cup {NoOne}
               /\ pass' \in [Runners -> Passes]
               /\ waits' \in [Flushers -> Runners \cup {NoOne}]
    <3>1. pass' \in [Runners -> Passes]
      BY <2>a, <2>c, <2>e DEF TypeOK, Invalidate, sync
    <3>2. running' \in BOOLEAN /\ rerun' \in BOOLEAN
      BY <2>e, Zenon DEF TypeOK, Invalidate, sync
    <3>3. promise' \in Runners \cup {NoOne} /\ waits' \in [Flushers -> Runners \cup {NoOne}]
      BY <2>c, <2>e DEF TypeOK, Invalidate, sync
    <3> QED
      BY <3>1, <3>2, <3>3
  <2>s. ASSUME NEW s \in Sessions, NEW gone \in SUBSET Sessions, Switch(s, gone)
        PROVE  /\ current' \in Sessions \cup {NoOne} /\ pending' \subseteq Sessions
               /\ owed' \subseteq Sessions
               /\ running' \in BOOLEAN /\ rerun' \in BOOLEAN
               /\ promise' \in Runners \cup {NoOne}
               /\ pass' \in [Runners -> Passes]
               /\ waits' \in [Flushers -> Runners \cup {NoOne}]
    <3>1. pending' \subseteq Sessions
      BY <2>s DEF Switch, TypeOK
    <3>2. Collected(s, pending', watchers, gone) \in SUBSET Sessions
      BY <3>1 DEF Collected, TypeOK
    <3> QED
      BY <2>s, <3>1, <3>2, <2>e DEF Switch, TypeOK
  <2>f. ASSUME NEW s \in Sessions, NEW gone \in SUBSET Sessions, Announce(s, gone)
        PROVE  /\ current' \in Sessions \cup {NoOne} /\ pending' \subseteq Sessions
               /\ dead' \subseteq Sessions /\ owed' \subseteq Sessions
               /\ running' \in BOOLEAN /\ rerun' \in BOOLEAN
               /\ promise' \in Runners \cup {NoOne}
               /\ pass' \in [Runners -> Passes]
               /\ waits' \in [Flushers -> Runners \cup {NoOne}]
    <3>1. CASE UNCHANGED <<current, pending, sync, owed>> /\ dead' \in {dead, gone}
      BY <3>1 DEF TypeOK, sync
    <3>2. CASE Switch(s, gone) /\ dead' = gone
      BY <3>2, <2>s
    <3> QED
      BY <2>f, <3>1, <3>2 DEF Announce
  <2>1. ASSUME NEW s \in Sessions, HookAnnounces(s) PROVE TypeOK'
    <3>1. dead \ {s} \in SUBSET Sessions /\ Announce(s, dead \ {s}) /\ hooked' \in BOOLEAN
      BY <2>1 DEF HookAnnounces, TypeOK
    <3> QED
      BY <2>1, <3>1, <2>f DEF HookAnnounces, TypeOK, ghosts
  <2>2. ASSUME NEW s \in Sessions, SeesFile(s) PROVE TypeOK'
    <3>1. dead \in SUBSET Sessions /\ Announce(s, dead)
      BY <2>2 DEF SeesFile, TypeOK
    <3> QED
      BY <2>2, <3>1, <2>f DEF SeesFile, TypeOK, ghosts
  <2>3. ASSUME NEW s \in Sessions, GiveUp(s) PROVE TypeOK'
    <3>1. armed' \in BOOLEAN
      BY <2>3 DEF GiveUp
    <3> QED
      BY <2>3, <3>1 DEF GiveUp, TypeOK, sync, ghosts
  <2>4. ASSUME NEW s \in Sessions, NEW e \in Entries, Write(s, e) PROVE TypeOK'
    BY <2>4 DEF Write, TypeOK, sessions, sync, ghosts
  <2>m. ASSUME NEW r, NEW d, Miss(r, d)
        PROVE  want' \in [Flushers -> SUBSET Entries] /\ tail' \subseteq Entries
    BY <2>m DEF Miss, TypeOK
  <2>n. ASSUME NEW new \in SUBSET Entries, HandOn(new)
        PROVE  processed' \subseteq Entries /\ shown' \in [Entries -> Nat]
    BY <2>n DEF HandOn, TypeOK
  <2>o. ASSUME NEW r \in Runners PROVE Unseen(r) \subseteq Entries
    BY DEF Unseen, TypeOK, Passes
  <2>p. ASSUME NEW r \in Runners, NEW s \in Sessions, NEW c \in SUBSET Entries,
               Content(r, s, c), want' \in [Flushers -> SUBSET Entries], tail' \subseteq Entries
        PROVE  TypeOK'
    <3>1. pass' \in [Runners -> Passes]
      BY <2>p DEF Content, TypeOK, Passes, Visit
    <3> QED
      BY <2>p, <3>1 DEF Content, TypeOK, sessions
  <2>5. ASSUME NEW r \in Runners, NEW s \in Sessions, Read(r, s) \/ ReadFails(r, s) PROVE TypeOK'
    <3>1. CASE Read(r, s)
      <4>1. want' \in [Flushers -> SUBSET Entries] /\ tail' \subseteq Entries
        BY <3>1 DEF Read, TypeOK
      <4>2. file[s] \in SUBSET Entries /\ Content(r, s, file[s])
        BY <3>1 DEF Read, TypeOK
      <4> QED
        BY <4>1, <4>2, <2>p
    <3>2. CASE ReadFails(r, s)
      <4>1. {} \in SUBSET Entries /\ Content(r, s, {}) /\ Miss(r, file[s])
        BY <3>2 DEF ReadFails
      <4> QED
        BY <4>1, <2>m, <2>p
    <3> QED
      BY <2>5, <3>1, <3>2
  <2>6. ASSUME NEW r \in Runners, Process(r) PROVE TypeOK'
    <3>1. pass' \in [Runners -> Passes]
      BY <2>6 DEF Process, TypeOK, Passes, Visit
    <3>2. HandOn(Unseen(r))
      BY <2>6 DEF Process
    <3> QED
      BY <2>6, <3>1, <3>2, <2>n, <2>o DEF Process, TypeOK, sessions, ghosts
  <2>16. ASSUME NEW r \in Runners, Throw(r) PROVE TypeOK'
    <3>1. pass' \in [Runners -> Passes]
      BY <2>16, <2>a DEF Throw
    <3>2. PICK new \in SUBSET Unseen(r) : HandOn(new)
      BY <2>16 DEF Throw
    <3>3. processed' \subseteq Entries /\ shown' \in [Entries -> Nat]
      BY <3>2, <2>n, <2>o
    <3>4. want' \in [Flushers -> SUBSET Entries] /\ tail' \subseteq Entries
      BY <2>16, <2>m DEF Throw
    <3> QED
      BY <2>16, <3>1, <3>3, <3>4 DEF Throw, TypeOK, sessions
  <2>17. CASE Mark
    <3>1. marking \in Sessions /\ dead \in SUBSET Sessions /\ Switch(marking, dead)
      BY <2>17 DEF Mark, TypeOK
    <3>2. PICK c \in SUBSET file[marking] :
            processed' = processed \cup c /\ history' = history \cup (c \ processed)
      BY <2>17 DEF Mark
    <3>3. processed' \subseteq Entries /\ history' \subseteq Entries
      BY <3>1, <3>2 DEF TypeOK
    <3>4. marking' \in Sessions \cup {NoOne}
      BY <2>17 DEF Mark
    <3> QED
      BY <2>17, <3>1, <3>3, <3>4, <2>s DEF Mark, TypeOK
  <2>7. ASSUME NEW r \in Runners, EndPass(r) PROVE TypeOK'
    <3>1. pass[r].list \subseteq Sessions
      BY DEF TypeOK, Passes
    <3>2. pending' \subseteq Sessions /\ finished' \subseteq Sessions /\ watchers' \subseteq Sessions
      BY <2>7, <3>1 DEF EndPass, Bookkeeping, TypeOK
    <3>3. Collected(current, pending', watchers', dead) \in SUBSET Sessions
      BY <3>2 DEF Collected, TypeOK
    <3>4. Idle \in Passes
      BY DEF Idle, Passes
    <3>5. pass' \in [Runners -> Passes]
      <4>1. \/ pass' = [pass EXCEPT ![r] = Begin(Collected(current, pending', watchers', dead))]
            \/ pass' = [pass EXCEPT ![r] = Idle]
        BY <2>7 DEF EndPass
      <4> QED
        BY <4>1, <3>3, <3>4, <2>a DEF TypeOK
    <3>6. running' \in BOOLEAN /\ rerun' \in BOOLEAN
      BY <2>7, Zenon DEF EndPass, TypeOK
    <3> QED
      BY <2>7, <3>2, <3>5, <3>6 DEF EndPass, Bookkeeping, TypeOK, ghosts
  <2>8. ASSUME NEW f \in Flushers, Flush(f) PROVE TypeOK'
    <3>1. OnDisk \subseteq Entries
      BY <2>b DEF OnDisk, TypeOK
    <3> QED
      BY <2>8, <3>1, <2>d DEF Flush, TypeOK, sessions
  <2>9. ASSUME NEW f \in Flushers, Wake(f) PROVE TypeOK'
    BY <2>9, <2>d DEF Wake, TypeOK, sessions, ghosts
  <2>10. CASE Poll
    BY <2>10, <2>b, <2>e DEF Poll, TypeOK, sessions, ghosts
  <2>11. CASE Disarm
    BY <2>11 DEF Disarm, TypeOK, sync, ghosts
  <2>12. CASE Stop
    BY <2>12, <2>b DEF Stop, TypeOK, sessions, sync, OnDisk
  <2>13. CASE FinalPass
    BY <2>13, <2>a, <2>b, <2>c DEF FinalPass, TypeOK, sessions, ghosts
  <2>14. CASE Closed
    <3>1. Idle \in Passes /\ pass["final"].list \subseteq Sessions
      BY <2>c DEF Idle, Passes, TypeOK
    <3> QED
      BY <2>14, <3>1 DEF Closed, TypeOK, ghosts
  <2>15. CASE UNCHANGED vars
    BY <2>15 DEF vars, sessions, sync, ghosts, TypeOK
  <2> QED
    BY <2>1, <2>2, <2>3, <2>4, <2>5, <2>6, <2>7, <2>8, <2>9, <2>10, <2>11, <2>12, <2>13, <2>14,
       <2>15, <2>16, <2>17 DEF Next
<1> QED
  BY <1>1, <1>2, PTL DEF Spec

------------------------------------------------------------------------------
(* Every entry is handed on once: what was handed on is what was processed *)
(* beyond the history; a pass hands on and processes in one step, and the  *)
(* mark adds to the history what it is the first to process.               *)
Counted == history \subseteq processed /\ EmittedOnce

(* EmittedOnce for any sessions, entries and passes, overlapping or not.   *)
THEOREM EmittedOnceCorrect == Spec => []EmittedOnce
<1>1. Init => Counted
  BY DEF Init, Counted, EmittedOnce
<1>2. TypeOK /\ Counted /\ [Next]_vars => Counted'
  <2> SUFFICES ASSUME TypeOK, Counted, [Next]_vars PROVE Counted'
    OBVIOUS
  <2>1. ASSUME UNCHANGED <<history, processed, shown>> PROVE Counted'
    BY <2>1 DEF Counted, EmittedOnce
  <2>2. ASSUME NEW new, HandOn(new), new \cap processed = {}, history' = history PROVE Counted'
    <3>1. processed' = processed \cup new
      BY <2>2 DEF HandOn
    <3>2. shown' = [e \in Entries |-> IF e \in new THEN shown[e] + 1 ELSE shown[e]]
      BY <2>2 DEF HandOn
    <3>3. ASSUME NEW e \in Entries
          PROVE  shown'[e] = IF e \in processed' \ history' THEN 1 ELSE 0
      <4>1. /\ shown[e] = IF e \in processed \ history THEN 1 ELSE 0
            /\ e \in history => e \in processed
        BY DEF Counted, EmittedOnce
      <4>2. shown'[e] = IF e \in new THEN shown[e] + 1 ELSE shown[e]
        BY <3>2
      <4>3. e \in processed' \ history' <=> (e \in processed \/ e \in new) /\ e \notin history
        BY <2>2, <3>1
      <4>4. ~(e \in new /\ e \in processed)
        BY <2>2
      <4> QED
        BY <4>1, <4>2, <4>3, <4>4
    <3> QED
      BY <2>2, <3>1, <3>3 DEF Counted, EmittedOnce
  <2>8. ASSUME NEW r \in Runners, Process(r) \/ Throw(r) PROVE Counted'
    <3>1. PICK new \in SUBSET Unseen(r) : HandOn(new)
      BY <2>8 DEF Process, Throw
    <3>2. new \cap processed = {} /\ history' = history
      BY <2>8, <3>1 DEF Process, Throw, Unseen, ghosts
    <3> QED
      BY <2>2, <3>1, <3>2
  <2>9. CASE Mark
    <3>1. PICK c : processed' = processed \cup c /\ history' = history \cup (c \ processed)
      BY <2>9 DEF Mark
    <3>2. shown' = shown /\ processed' \ history' = processed \ history
      BY <2>9, <3>1 DEF Mark, Counted
    <3> QED
      BY <3>1, <3>2 DEF Counted, EmittedOnce
  <2>3. CASE UNCHANGED vars
    BY <2>1, <2>3 DEF vars, ghosts
  <2>4. ASSUME NEW s \in Sessions,
               HookAnnounces(s) \/ SeesFile(s) \/ GiveUp(s) \/ \E e \in Entries : Write(s, e)
        PROVE Counted'
    BY <2>1, <2>4 DEF HookAnnounces, SeesFile, GiveUp, Write, ghosts
  <2>5. ASSUME NEW r \in Runners,
               EndPass(r) \/ \E s \in Sessions : Read(r, s) \/ ReadFails(r, s)
        PROVE  Counted'
    BY <2>1, <2>5 DEF Read, ReadFails, Content, EndPass, ghosts
  <2>6. ASSUME NEW f \in Flushers, Flush(f) \/ Wake(f) PROVE Counted'
    BY <2>1, <2>6 DEF Flush, Wake, ghosts
  <2>7. CASE Poll \/ Disarm \/ Stop \/ FinalPass \/ Closed
    BY <2>1, <2>7 DEF Poll, Disarm, Stop, FinalPass, Closed, ghosts
  <2> QED
    BY <2>3, <2>4, <2>5, <2>6, <2>7, <2>8, <2>9 DEF Next
<1> QED
  BY <1>1, <1>2, TypeCorrect, PTL DEF Spec, Counted

------------------------------------------------------------------------------
(* Passes exclude each other because whoever starts one has seen the flag  *)
(* down and leaves its promise behind, and cleanup() waits for the promise *)
(* it finds: the only pass there can be is the one it names.               *)
Exclusive ==
    /\ phase = "run" =>
         /\ running <=> \E r \in Runners : pass[r].on
         /\ \A r \in Runners : pass[r].on => r = promise /\ r # "final"
    /\ phase = "stopping" => \A r \in Runners : pass[r].on => r = awaited /\ r # "final"
    /\ phase \in {"final", "over"} => \A r \in Runners : pass[r].on => r = "final"

(* How a step may change the passes: none starts, r's goes on, or r starts *)
(* one.                                                                    *)
LEMMA Exclusion == TypeOK /\ Exclusive /\ [Next]_vars => Exclusive'
<1> SUFFICES ASSUME TypeOK, Exclusive, [Next]_vars PROVE Exclusive'
  OBVIOUS
<1> USE NamesDiffer
<1>a. "poll" \in Runners /\ "final" \in Runners /\ Flushers \subseteq Runners
  BY DEF Runners
<1>1. ASSUME UNCHANGED <<running, promise, phase, awaited>>,
             \A r \in Runners : pass'[r].on <=> pass[r].on
      PROVE Exclusive'
  BY <1>1 DEF Exclusive
<1>2. ASSUME NEW f \in Flushers \cup {"poll"}, NEW l, phase = "run", ~running,
             running' = TRUE, promise' = f, pass' = [pass EXCEPT ![f] = Begin(l)],
             UNCHANGED phase
      PROVE Exclusive'
  <2>1. f \in Runners /\ f # "final"
    BY <1>a
  <2>2. \A r \in Runners : ~pass[r].on
    BY <1>2 DEF Exclusive
  <2>3. \A r \in Runners : pass'[r].on <=> r = f
    BY <1>2, <2>1, <2>2 DEF Begin, TypeOK
  <2> QED
    BY <1>2, <2>1, <2>3 DEF Exclusive
<1>3. ASSUME NEW f \in Flushers, Wait(f), UNCHANGED <<phase, awaited>> PROVE Exclusive'
  BY <1>1, <1>3 DEF Wait
<1>4. ASSUME NEW f \in Flushers, OwnPass(f), ~running, UNCHANGED <<phase, awaited>>
      PROVE Exclusive'
  <2>1. CASE stopped
    BY <1>4, <2>1 DEF OwnPass, Exclusive, stopped
  <2>2. CASE ~stopped
    BY <1>4, <2>2, <1>2 DEF OwnPass, stopped
  <2> QED
    BY <2>1, <2>2
<1>5. ASSUME NEW l, Invalidate(l), UNCHANGED <<phase, awaited>> PROVE Exclusive'
  <2>1. CASE UNCHANGED <<running, promise, pass>>
    BY <1>1, <1>5, <2>1
  <2>2. CASE /\ ~stopped /\ ~running
             /\ running' = TRUE /\ promise' = "poll"
             /\ pass' = [pass EXCEPT !["poll"] = Begin(l)]
    BY <1>2, <1>5, <2>2 DEF stopped
  <2> QED
    BY <1>5, <2>1, <2>2 DEF Invalidate, sync
<1>6. ASSUME NEW s, NEW gone, Announce(s, gone), UNCHANGED <<phase, awaited>> PROVE Exclusive'
  BY <1>1, <1>5, <1>6 DEF Announce, Switch, sync
<1>7. ASSUME NEW s \in Sessions, HookAnnounces(s) \/ SeesFile(s) PROVE Exclusive'
  BY <1>6, <1>7 DEF HookAnnounces, SeesFile
<1>8. ASSUME NEW s \in Sessions, GiveUp(s) \/ \E e \in Entries : Write(s, e) PROVE Exclusive'
  BY <1>1, <1>8 DEF GiveUp, Write, sync
<1>9. ASSUME NEW r \in Runners,
             Process(r) \/ Throw(r) \/ \E s \in Sessions : Read(r, s) \/ ReadFails(r, s)
      PROVE  Exclusive'
  <2>1. \A q \in Runners : pass'[q].on <=> pass[q].on
    BY <1>9 DEF Read, ReadFails, Content, Process, Throw, Begin, Visit, TypeOK
  <2> QED
    BY <1>1, <1>9, <2>1 DEF Read, ReadFails, Content, Process, Throw
<1>10. ASSUME NEW r \in Runners, EndPass(r) PROVE Exclusive'
  <2>1. pass[r].on /\ r # "final" /\ UNCHANGED <<phase, awaited, promise>>
    BY <1>10 DEF EndPass, Read_Done
  <2>2. CASE /\ UNCHANGED running
             /\ \E l : pass' = [pass EXCEPT ![r] = Begin(l)]
    <3>1. \A q \in Runners : pass'[q].on <=> pass[q].on
      BY <2>1, <2>2 DEF Begin, TypeOK
    <3> QED
      BY <1>1, <2>1, <2>2, <3>1
  <2>3. CASE running' = FALSE /\ pass' = [pass EXCEPT ![r] = Idle]
    <3>1. \A q \in Runners : pass'[q].on <=> pass[q].on /\ q # r
      BY <2>3 DEF Idle, TypeOK
    <3> QED
      BY <2>1, <2>3, <3>1 DEF Exclusive, TypeOK
  <2> QED
    BY <1>10, <2>2, <2>3 DEF EndPass
<1>11. ASSUME NEW f \in Flushers, Flush(f) \/ Wake(f) PROVE Exclusive'
  BY <1>3, <1>4, <1>11 DEF Flush, Wake
<1>12. CASE Poll
  BY <1>5, <1>12 DEF Poll
<1>13. CASE Disarm
  BY <1>1, <1>13 DEF Disarm, sync
<1>14. CASE Stop
  BY <1>14 DEF Stop, Exclusive, stopped, sync
<1>15. CASE FinalPass
  <2>1. \A r \in Runners : ~pass[r].on
    BY <1>15 DEF FinalPass, Settled, Exclusive
  <2>2. \A r \in Runners : pass'[r].on => r = "final"
    BY <1>15, <2>1, <1>a DEF FinalPass, Begin, TypeOK
  <2> QED
    BY <1>15, <2>2 DEF FinalPass, Exclusive
<1>16. CASE Closed
  <2>1. \A r \in Runners : pass'[r].on => pass[r].on
    BY <1>16, <1>a DEF Closed, Idle, TypeOK
  <2> QED
    BY <1>16, <2>1 DEF Closed, Exclusive
<1>17. CASE UNCHANGED vars
  BY <1>1, <1>17 DEF vars, sync
<1>18. CASE Mark
  BY <1>5, <1>18 DEF Mark, Switch
<1> QED
  BY <1>7, <1>8, <1>9, <1>10, <1>11, <1>12, <1>13, <1>14, <1>15, <1>16, <1>17, <1>18 DEF Next

(* OnePass for any number of overlapping flushes: passes never overlap,    *)
(* and until cleanup() the flag is up exactly while there is one.          *)
THEOREM OnePassCorrect == Spec => []OnePass
<1>1. Init => Exclusive
  BY DEF Init, Exclusive, Idle
<1>2. TypeOK /\ Exclusive => OnePass
  <2> SUFFICES ASSUME TypeOK, Exclusive PROVE OnePass
    OBVIOUS
  <2>1. \E p : \A r \in Runners : pass[r].on => r = p
    <3>1. CASE phase = "run"
      BY <3>1 DEF Exclusive
    <3>2. CASE phase = "stopping"
      BY <3>2 DEF Exclusive
    <3>3. CASE phase \in {"final", "over"}
      BY <3>3 DEF Exclusive
    <3> QED
      BY <3>1, <3>2, <3>3 DEF TypeOK
  <2> QED
    BY <2>1 DEF OnePass, Exclusive, stopped
<1> QED
  BY <1>1, <1>2, Exclusion, TypeCorrect, PTL DEF Spec

------------------------------------------------------------------------------
(* What a flush() found on disk and has not missed has been processed, or  *)
(* is still ahead of it: in a followed file while it waits, in its own     *)
(* pass afterwards.  A read that fails takes its file's entries out of     *)
(* what is wanted, and with them those that were ahead in this file.       *)
Ahead(f, e) ==
    IF waits[f] # NoOne
      THEN \E s \in Followed : e \in file[s]
      ELSE pass[f].on /\ (e \in UNION pass[f].got \/ \E s \in pass[f].todo : e \in file[s])
Fresh ==
    phase = "run" => \A f \in Flushers : \A e \in want[f] : e \in processed \/ Ahead(f, e)

(* A session whose file holds something stays followed, and no file and no *)
(* knowledge of entries shrinks.                                           *)
LEMMA FollowedGrows ==
    ASSUME TypeOK, [Next]_vars, phase' # "over"
    PROVE  /\ \A s \in Followed : file[s] # {} => s \in Followed'
           /\ \A s \in Sessions : file[s] \subseteq file'[s]
           /\ processed \subseteq processed'
<1> DEFINE Goal == /\ \A s \in Followed : file[s] # {} => s \in Followed'
                   /\ \A s \in Sessions : file[s] \subseteq file'[s]
                   /\ processed \subseteq processed'
<1> SUFFICES Goal
  OBVIOUS
<1>1. ASSUME UNCHANGED <<sessions, file>>, processed \subseteq processed' PROVE Goal
  BY <1>1 DEF sessions, Followed
<1>2. ASSUME NEW s \in Sessions, NEW gone \in SUBSET dead, Announce(s, gone),
             UNCHANGED <<file, watchers, processed>>
      PROVE  Goal
  BY <1>2 DEF Announce, Switch, Followed, Collected
<1>3. ASSUME NEW s \in Sessions, HookAnnounces(s) \/ SeesFile(s) PROVE Goal
  BY <1>2, <1>3 DEF HookAnnounces, SeesFile
<1>4. ASSUME NEW s \in Sessions, GiveUp(s) PROVE Goal
  BY <1>4 DEF GiveUp, Followed, Collected
<1>5. ASSUME NEW s \in Sessions, NEW e \in Entries, Write(s, e) PROVE Goal
  BY <1>5 DEF Write, Followed, sessions, TypeOK
<1>6. ASSUME NEW r \in Runners,
             Process(r) \/ Throw(r) \/ \E s \in Sessions : Read(r, s) \/ ReadFails(r, s)
      PROVE  Goal
  BY <1>1, <1>6 DEF Read, ReadFails, Content, Process, Throw, HandOn
<1>7. ASSUME NEW r \in Runners, EndPass(r) PROVE Goal
  BY <1>7 DEF EndPass, Bookkeeping, Followed, Collected
<1>8. ASSUME NEW f \in Flushers, Flush(f) \/ Wake(f) PROVE Goal
  BY <1>1, <1>8 DEF Flush, Wake
<1>9. CASE Disarm
  BY <1>9 DEF Disarm, Followed
<1>10. CASE Poll \/ Stop \/ FinalPass
  BY <1>1, <1>10 DEF Poll, Stop, FinalPass
<1>11. CASE Closed
  BY <1>11 DEF Closed
<1>12. CASE UNCHANGED vars
  BY <1>1, <1>12 DEF vars
<1>13. CASE Mark
  BY <1>13 DEF Mark, Switch, Followed, Collected
<1> QED
  BY <1>3, <1>4, <1>5, <1>6, <1>7, <1>8, <1>9, <1>10, <1>11, <1>12, <1>13 DEF Next

LEMMA Freshness == TypeOK /\ Exclusive /\ Fresh /\ [Next]_vars => Fresh'
<1> SUFFICES ASSUME TypeOK, Exclusive, Fresh, [Next]_vars, phase' = "run",
                    NEW f \in Flushers, NEW e \in want'[f]
             PROVE  e \in processed' \/ Ahead(f, e)'
  BY DEF Fresh
<1> DEFINE Goal == e \in processed' \/ Ahead(f, e)'
<1> USE NamesDiffer
<1>a. f \in Runners /\ f # "poll"
  BY DEF Runners
<1>b. phase = "run"
  <2>1. phase' # phase => phase' # "run"
    BY DEF Next, vars, HookAnnounces, SeesFile, GiveUp, Write, Read, ReadFails, Content, Process,
           Throw, EndPass, Flush, Wake, Mark, Poll, Disarm, Stop, FinalPass, Closed
  <2> QED
    BY <2>1
<1>c. e \in want[f] => e \in processed \/ Ahead(f, e)
  BY <1>b DEF Fresh
<1>1. ASSUME want'[f] = want[f], waits'[f] = waits[f], pass'[f] = pass[f] PROVE Goal
  <2>1. e \in processed \/ Ahead(f, e)
    BY <1>1, <1>c
  <2>2. pass[f].todo \subseteq Sessions /\ Followed \subseteq Sessions
    BY <1>a DEF TypeOK, Passes, Followed, Collected
  <2> QED
    BY <1>1, <2>1, <2>2, FollowedGrows DEF Ahead
<1>2. ASSUME OwnPass(f), phase = "run", UNCHANGED <<file, sessions>>,
             e \in processed' \/ \E s \in Followed : e \in file[s]
      PROVE  Goal
  <2>1. pass'[f] = Begin(Followed) /\ waits'[f] = NoOne
    BY <1>2, <1>a DEF OwnPass, stopped, TypeOK
  <2> QED
    BY <1>2, <2>1 DEF Ahead, Begin
<1>3. ASSUME Wait(f), running, UNCHANGED <<file, sessions>>,
             e \in processed' \/ \E s \in Followed : e \in file[s]
      PROVE  Goal
  <2>1. promise # NoOne
    BY <1>3, <1>b DEF Exclusive
  <2>2. waits'[f] # NoOne
    BY <1>3, <2>1 DEF Wait, TypeOK
  <2> QED
    BY <1>3, <2>2 DEF Ahead, Followed, sessions
<1>4. ASSUME NEW g \in Flushers, g # f, OwnPass(g) \/ Wait(g), want'[f] = want[f] PROVE Goal
  <2>1. waits'[f] = waits[f] /\ pass'[f] = pass[f]
    BY <1>4, <1>a DEF OwnPass, Wait, TypeOK
  <2> QED
    BY <1>1, <1>4, <2>1
<1>5. ASSUME NEW l, Invalidate(l), want' = want PROVE Goal
  <2>1. waits' = waits /\ pass'[f] = pass[f]
    BY <1>5, <1>a DEF Invalidate, sync, TypeOK
  <2> QED
    BY <1>1, <1>5, <2>1
<1>6. ASSUME NEW s \in Sessions, HookAnnounces(s) \/ SeesFile(s) PROVE Goal
  <2>1. want' = want
    BY <1>6 DEF HookAnnounces, SeesFile, ghosts
  <2>2. PICK gone : Announce(s, gone)
    BY <1>6 DEF HookAnnounces, SeesFile
  <2>3. CASE UNCHANGED sync
    BY <1>1, <2>1, <2>3 DEF sync
  <2>4. CASE \E l : Invalidate(l)
    BY <1>5, <2>1, <2>4
  <2> QED
    BY <2>2, <2>3, <2>4 DEF Announce, Switch
<1>7. ASSUME NEW s \in Sessions, GiveUp(s) \/ \E d \in Entries : Write(s, d) PROVE Goal
  BY <1>1, <1>7 DEF GiveUp, Write, sync, ghosts
<1>m. ASSUME NEW r \in Runners, r # f, NEW d, Miss(r, d) PROVE want'[f] = want[f]
  BY <1>m DEF Miss, TypeOK
<1>8. ASSUME NEW r \in Runners, r # f,
             \/ Process(r) \/ Throw(r) \/ EndPass(r)
             \/ \E s \in Sessions : Read(r, s) \/ ReadFails(r, s)
      PROVE  Goal
  <2>1. pass'[f] = pass[f]
    BY <1>8, <1>a DEF Read, ReadFails, Content, Process, Throw, EndPass, Visit, TypeOK
  <2>2. waits' = waits
    BY <1>8 DEF Read, ReadFails, Content, Process, Throw, EndPass
  <2>3. want'[f] = want[f]
    BY <1>8, <1>m DEF Read, ReadFails, Process, Throw, EndPass, ghosts
  <2> QED
    BY <1>1, <2>1, <2>2, <2>3
<1>9. ASSUME waits[f] # NoOne, UNCHANGED <<want, waits>> PROVE Goal
  <2>1. Followed \subseteq Sessions
    BY DEF TypeOK, Followed, Collected
  <2> QED
    BY <1>9, <1>c, <2>1, FollowedGrows DEF Ahead
<1>n. ASSUME NEW s \in Sessions, NEW c, Content(f, s, c)
      PROVE  /\ pass'[f] = [on |-> TRUE, list |-> pass[f].list, todo |-> pass[f].todo \ {s},
                            got |-> {c}]
             /\ pass[f].got = {} /\ UNCHANGED <<file, processed, waits, sessions>>
  BY <1>n, <1>a DEF Content, Visit, TypeOK
<1>10. ASSUME NEW s \in Sessions, Read(f, s) PROVE Goal
  <2>1. Content(f, s, file[s]) /\ want' = want
    BY <1>10 DEF Read
  <2>2. /\ pass'[f] = [on |-> TRUE, list |-> pass[f].list, todo |-> pass[f].todo \ {s},
                       got |-> {file[s]}]
        /\ pass[f].got = {} /\ UNCHANGED <<file, processed, waits>>
    BY <1>n, <2>1
  <2> QED
    BY <1>c, <1>9, <2>1, <2>2 DEF Ahead
<1>22. ASSUME NEW s \in Sessions, ReadFails(f, s) PROVE Goal
  <2>1. Content(f, s, {}) /\ want'[f] = want[f] \ file[s]
    BY <1>22, <1>a DEF ReadFails, Miss, TypeOK
  <2>2. e \in want[f] /\ e \notin file[s]
    BY <2>1
  <2>3. e \in processed \/ Ahead(f, e)
    BY <1>c, <2>2
  <2>4. /\ pass'[f] = [on |-> TRUE, list |-> pass[f].list, todo |-> pass[f].todo \ {s},
                       got |-> {{}}]
        /\ pass[f].got = {} /\ UNCHANGED <<file, processed, waits, sessions>>
    BY <1>n, <2>1
  <2>5. CASE waits[f] # NoOne
    BY <2>3, <2>4, <2>5 DEF Ahead, Followed, sessions
  <2>6. CASE waits[f] = NoOne
    BY <2>2, <2>3, <2>4, <2>6 DEF Ahead
  <2> QED
    BY <2>5, <2>6
<1>23. CASE Throw(f)
  <2>1. want'[f] = want[f] \ Entries
    BY <1>23 DEF Throw, Miss, TypeOK
  <2> QED
    BY <2>1 DEF TypeOK
<1>11. CASE Process(f)
  <2>1. /\ pass'[f] = [on |-> TRUE, list |-> pass[f].list, todo |-> pass[f].todo, got |-> {}]
        /\ processed' = processed \cup UNION pass[f].got
    BY <1>11, <1>a DEF Process, HandOn, Unseen, Visit, TypeOK
  <2>2. UNCHANGED <<file, waits, want>>
    BY <1>11 DEF Process, ghosts
  <2> QED
    BY <1>c, <1>9, <2>1, <2>2 DEF Ahead
<1>12. CASE EndPass(f)
  <2>1. /\ pass[f].todo = {} /\ pass[f].got = {}
        /\ UNCHANGED <<file, processed, waits, want>>
    BY <1>12 DEF EndPass, Read_Done, ghosts
  <2> QED
    BY <1>c, <1>9, <2>1 DEF Ahead
<1>13. CASE Flush(f)
  <2>1. /\ UNCHANGED <<file, sessions>> /\ want'[f] = OnDisk
        /\ IF running THEN Wait(f) ELSE OwnPass(f)
    BY <1>13 DEF Flush, TypeOK
  <2>2. \E s \in Followed : e \in file[s]
    BY <2>1 DEF OnDisk
  <2> QED
    BY <1>2, <1>3, <1>b, <2>1, <2>2
<1>14. CASE Wake(f)
  <2>1. /\ UNCHANGED <<file, sessions, processed, want>> /\ waits[f] # NoOne
        /\ IF running THEN Wait(f) ELSE OwnPass(f)
    BY <1>14 DEF Wake, ghosts
  <2>2. e \in processed' \/ \E s \in Followed : e \in file[s]
    BY <1>c, <2>1 DEF Ahead
  <2> QED
    BY <1>2, <1>3, <1>b, <2>1, <2>2
<1>15. ASSUME NEW g \in Flushers, g # f, Flush(g) \/ Wake(g) PROVE Goal
  <2>1. want'[f] = want[f] /\ (OwnPass(g) \/ Wait(g))
    BY <1>15 DEF Flush, Wake, ghosts, TypeOK
  <2> QED
    BY <1>4, <1>15, <2>1
<1>16. CASE Poll
  BY <1>5, <1>16 DEF Poll, ghosts
<1>17. CASE Disarm
  BY <1>1, <1>17 DEF Disarm, sync, ghosts
<1>18. CASE Stop \/ FinalPass \/ Closed
  BY <1>18 DEF Stop, FinalPass, Closed
<1>19. CASE UNCHANGED vars
  BY <1>1, <1>19 DEF vars, sync, ghosts
<1>20. ASSUME NEW r \in Runners,
              \/ Process(r) \/ Throw(r) \/ EndPass(r)
              \/ \E s \in Sessions : Read(r, s) \/ ReadFails(r, s)
       PROVE  Goal
  BY <1>8, <1>10, <1>11, <1>12, <1>20, <1>22, <1>23
<1>21. ASSUME NEW g \in Flushers, Flush(g) \/ Wake(g) PROVE Goal
  BY <1>13, <1>14, <1>15, <1>21
<1>24. CASE Mark
  BY <1>5, <1>24 DEF Mark, Switch
<1> QED
  BY <1>6, <1>7, <1>16, <1>17, <1>18, <1>19, <1>20, <1>21, <1>24 DEF Next

(* FlushIsFresh for any number of overlapping flushes and any announcing   *)
(* and dropping of sessions meanwhile.                                     *)
THEOREM FlushIsFreshCorrect == Spec => []FlushIsFresh
<1>1. Init => Exclusive /\ Fresh
  BY DEF Init, Exclusive, Fresh, Idle
<1>2. TypeOK /\ Fresh => FlushIsFresh
  BY DEF Fresh, FlushIsFresh, Ahead, stopped, TypeOK
<1> QED
  BY <1>1, <1>2, Exclusion, Freshness, TypeCorrect, PTL DEF Spec

------------------------------------------------------------------------------
(* What cleanup() found on disk has been processed, or is ahead of its     *)
(* final pass: in a followed file until that pass starts, in a read of it  *)
(* afterwards.  What that pass misses is no longer in tail.                *)
AheadOfEnd(e) ==
    \/ phase = "stopping" /\ \E s \in Followed : e \in file[s]
    \/ /\ phase = "final" /\ pass["final"].on
       /\ e \in UNION pass["final"].got \/ \E s \in pass["final"].todo : e \in file[s]
Kept == \A e \in tail : e \in processed \/ AheadOfEnd(e)

LEMMA TailStep == TypeOK /\ Kept /\ (phase = "run" => tail = {}) /\ [Next]_vars => Kept'
<1> SUFFICES ASSUME TypeOK, Kept, phase = "run" => tail = {}, [Next]_vars, NEW e \in tail'
             PROVE  e \in processed' \/ AheadOfEnd(e)'
  BY DEF Kept
<1> DEFINE Goal == e \in processed' \/ AheadOfEnd(e)'
<1> USE NamesDiffer
<1>a. "final" \in Runners /\ "final" \notin Flushers /\ "poll" # "final"
  BY DEF Runners
<1>b. pass["final"].todo \subseteq Sessions /\ Followed \subseteq Sessions
  BY <1>a DEF TypeOK, Passes, Followed, Collected
<1>c. processed \subseteq processed'
  BY DEF Next, vars, HookAnnounces, SeesFile, GiveUp, Write, Read, ReadFails, Content, Process,
         Throw, HandOn, EndPass, Flush, Wake, Mark, Poll, Disarm, Stop, FinalPass, Closed
<1>1. ASSUME tail' = tail, phase' = phase, pass'["final"] = pass["final"] PROVE Goal
  <2>1. e \in processed \/ AheadOfEnd(e)
    BY <1>1 DEF Kept
  <2>2. CASE phase = "over"
    BY <2>1, <2>2, <1>c DEF AheadOfEnd
  <2>3. CASE phase # "over"
    BY <1>1, <1>b, <2>1, <2>3, FollowedGrows DEF AheadOfEnd
  <2> QED
    BY <2>2, <2>3
<1>2. ASSUME NEW l, Invalidate(l), UNCHANGED <<tail, phase>> PROVE Goal
  <2>1. pass'["final"] = pass["final"]
    BY <1>2, <1>a DEF Invalidate, sync, TypeOK
  <2> QED
    BY <1>1, <1>2, <2>1
<1>3. ASSUME NEW s \in Sessions, HookAnnounces(s) \/ SeesFile(s) PROVE Goal
  <2>1. UNCHANGED <<tail, phase>>
    BY <1>3 DEF HookAnnounces, SeesFile, ghosts
  <2>2. PICK gone : Announce(s, gone)
    BY <1>3 DEF HookAnnounces, SeesFile
  <2>3. CASE UNCHANGED sync
    BY <1>1, <2>1, <2>3 DEF sync
  <2>4. CASE \E l : Invalidate(l)
    BY <1>2, <2>1, <2>4
  <2> QED
    BY <2>2, <2>3, <2>4 DEF Announce, Switch
<1>4. ASSUME NEW s \in Sessions, GiveUp(s) \/ \E d \in Entries : Write(s, d) PROVE Goal
  BY <1>1, <1>4 DEF GiveUp, Write, sync, ghosts
<1>m. ASSUME NEW r, NEW d, r # "final", Miss(r, d) PROVE tail' = tail
  BY <1>m DEF Miss
<1>5. ASSUME NEW r \in Runners, r # "final",
             \/ Process(r) \/ Throw(r) \/ EndPass(r)
             \/ \E s \in Sessions : Read(r, s) \/ ReadFails(r, s)
      PROVE  Goal
  <2>1. pass'["final"] = pass["final"]
    BY <1>5, <1>a DEF Read, ReadFails, Content, Process, Throw, EndPass, Visit, TypeOK
  <2>2. phase' = phase
    BY <1>5 DEF Read, ReadFails, Content, Process, Throw, EndPass
  <2>3. tail' = tail
    BY <1>5, <1>m DEF Read, ReadFails, Process, Throw, EndPass, ghosts
  <2> QED
    BY <1>1, <2>1, <2>2, <2>3
<1>6. ASSUME phase # "final", phase' = phase, tail' \subseteq tail PROVE Goal
  <2>1. e \in processed \/ (phase = "stopping" /\ \E s \in Followed : e \in file[s])
    BY <1>6 DEF Kept, AheadOfEnd
  <2> QED
    BY <1>6, <1>b, <1>c, <2>1, FollowedGrows DEF AheadOfEnd
<1>n. ASSUME NEW s \in Sessions, NEW c, Content("final", s, c)
      PROVE  /\ pass'["final"] = [on |-> TRUE, list |-> pass["final"].list,
                                  todo |-> pass["final"].todo \ {s}, got |-> {c}]
             /\ pass["final"].got = {} /\ UNCHANGED <<file, processed, phase>>
  BY <1>n, <1>a DEF Content, Visit, TypeOK
<1>7. ASSUME NEW s \in Sessions, Read("final", s) PROVE Goal
  <2>1. Content("final", s, file[s]) /\ tail' = tail
    BY <1>7 DEF Read
  <2>2. /\ pass'["final"] = [on |-> TRUE, list |-> pass["final"].list,
                             todo |-> pass["final"].todo \ {s}, got |-> {file[s]}]
        /\ pass["final"].got = {} /\ UNCHANGED <<file, processed, phase>>
    BY <1>n, <2>1
  <2> QED
    BY <1>6, <2>1, <2>2 DEF Kept, AheadOfEnd
<1>17. ASSUME NEW s \in Sessions, ReadFails("final", s) PROVE Goal
  <2>1. Content("final", s, {}) /\ tail' = tail \ file[s]
    BY <1>17 DEF ReadFails, Miss
  <2>2. e \in tail /\ e \notin file[s] /\ tail' \subseteq tail
    BY <2>1
  <2>3. /\ pass'["final"] = [on |-> TRUE, list |-> pass["final"].list,
                             todo |-> pass["final"].todo \ {s}, got |-> {{}}]
        /\ pass["final"].got = {} /\ UNCHANGED <<file, processed, phase>>
    BY <1>n, <2>1
  <2> QED
    BY <1>6, <2>2, <2>3 DEF Kept, AheadOfEnd
<1>18. CASE Throw("final")
  <2>1. tail' = tail \ Entries
    BY <1>18 DEF Throw, Miss
  <2> QED
    BY <2>1 DEF TypeOK
<1>8. CASE Process("final")
  <2>1. /\ pass'["final"] = [on |-> TRUE, list |-> pass["final"].list,
                             todo |-> pass["final"].todo, got |-> {}]
        /\ processed' = processed \cup UNION pass["final"].got
    BY <1>8, <1>a DEF Process, HandOn, Unseen, Visit, TypeOK
  <2>2. UNCHANGED <<file, phase, tail>>
    BY <1>8 DEF Process, ghosts
  <2> QED
    BY <1>6, <2>1, <2>2 DEF Kept, AheadOfEnd
<1>9. ASSUME NEW f \in Flushers, Flush(f) \/ Wake(f) PROVE Goal
  <2>1. UNCHANGED <<tail, phase>> /\ (OwnPass(f) \/ Wait(f))
    BY <1>9 DEF Flush, Wake, ghosts
  <2>2. pass'["final"] = pass["final"]
    BY <2>1, <1>a DEF OwnPass, Wait, TypeOK
  <2> QED
    BY <1>1, <2>1, <2>2
<1>10. CASE Poll
  BY <1>2, <1>10 DEF Poll, ghosts
<1>11. CASE Disarm
  BY <1>1, <1>11 DEF Disarm, sync, ghosts
<1>12. CASE Stop
  <2>1. phase' = "stopping" /\ tail' = OnDisk /\ UNCHANGED <<file, sessions>>
    BY <1>12 DEF Stop
  <2> QED
    BY <2>1 DEF AheadOfEnd, OnDisk, Followed, sessions
<1>13. CASE FinalPass
  <2>1. /\ phase = "stopping" /\ phase' = "final"
        /\ pass'["final"] = Begin(Followed)
        /\ UNCHANGED <<file, processed, tail>>
    BY <1>13, <1>a DEF FinalPass, TypeOK, ghosts
  <2> QED
    BY <2>1 DEF Kept, AheadOfEnd, Begin
<1>14. CASE Closed
  <2>1. /\ phase = "final" /\ pass["final"].todo = {} /\ pass["final"].got = {}
        /\ UNCHANGED <<processed, tail>>
    BY <1>14 DEF Closed, Read_Done, ghosts
  <2> QED
    BY <2>1 DEF Kept, AheadOfEnd
<1>15. CASE UNCHANGED vars
  BY <1>1, <1>15 DEF vars, sync, ghosts
<1>16. ASSUME NEW r \in Runners,
              \/ Process(r) \/ Throw(r) \/ EndPass(r)
              \/ \E s \in Sessions : Read(r, s) \/ ReadFails(r, s)
       PROVE  Goal
  <2>1. ~EndPass("final")
    BY DEF EndPass
  <2> QED
    BY <1>5, <1>7, <1>8, <1>16, <1>17, <1>18, <2>1
<1>19. CASE Mark
  BY <1>2, <1>19 DEF Mark, Switch
<1> QED
  BY <1>3, <1>4, <1>9, <1>10, <1>11, <1>12, <1>13, <1>14, <1>15, <1>16, <1>19 DEF Next

(* TailMapped: whatever was announced, dropped or written while cleanup()  *)
(* waited for the pass in flight.                                          *)
THEOREM TailMappedCorrect == Spec => []TailMapped
<1>1. Init => Kept /\ (phase = "run" => tail = {})
  BY DEF Init, Kept
<1>2. (phase = "run" => tail = {}) /\ [Next]_vars => (phase = "run" => tail = {})'
  BY DEF Next, vars, ghosts, HookAnnounces, SeesFile, GiveUp, Write, Read, ReadFails, Content,
         Miss, Process, Throw, EndPass, Flush, Wake, Mark, Poll, Disarm, Stop, FinalPass, Closed
<1>3. Kept => TailMapped
  BY DEF Kept, AheadOfEnd, TailMapped
<1> QED
  BY <1>1, <1>2, <1>3, TailStep, TypeCorrect, PTL DEF Spec

------------------------------------------------------------------------------
(* DeadUnwatched in every pass, dropped in the middle or not.              *)
THEOREM DeadUnwatchedCorrect == Spec => []DeadUnwatched
<1>1. Init => DeadUnwatched
  BY DEF Init, DeadUnwatched
<1>2. DeadUnwatched /\ [Next]_vars => DeadUnwatched'
  <2> SUFFICES ASSUME DeadUnwatched, [Next]_vars PROVE DeadUnwatched'
    OBVIOUS
  <2>1. ASSUME UNCHANGED sessions PROVE DeadUnwatched'
    BY <2>1 DEF sessions, DeadUnwatched
  <2>2. ASSUME NEW s \in Sessions, HookAnnounces(s) \/ SeesFile(s) PROVE DeadUnwatched'
    BY <2>2 DEF HookAnnounces, SeesFile, Announce, Switch, DeadUnwatched
  <2>3. ASSUME NEW s \in Sessions, GiveUp(s) PROVE DeadUnwatched'
    BY <2>3 DEF GiveUp, DeadUnwatched
  <2>4. ASSUME NEW s \in Sessions, NEW e \in Entries, Write(s, e) PROVE DeadUnwatched'
    BY <2>1, <2>4 DEF Write
  <2>5. ASSUME NEW r \in Runners,
               Process(r) \/ Throw(r) \/ \E s \in Sessions : Read(r, s) \/ ReadFails(r, s)
        PROVE  DeadUnwatched'
    BY <2>1, <2>5 DEF Read, ReadFails, Content, Process, Throw
  <2>6. ASSUME NEW r \in Runners, EndPass(r) PROVE DeadUnwatched'
    BY <2>6 DEF EndPass, Bookkeeping, DeadUnwatched
  <2>7. ASSUME NEW f \in Flushers, Flush(f) \/ Wake(f) PROVE DeadUnwatched'
    BY <2>1, <2>7 DEF Flush, Wake
  <2>8. CASE Poll \/ Stop \/ FinalPass
    BY <2>1, <2>8 DEF Poll, Stop, FinalPass
  <2>9. CASE Disarm \/ Closed \/ Mark
    BY <2>9 DEF Disarm, Closed, Mark, DeadUnwatched
  <2>10. CASE UNCHANGED vars
    BY <2>1, <2>10 DEF vars
  <2> QED
    BY <2>2, <2>3, <2>4, <2>5, <2>6, <2>7, <2>8, <2>9, <2>10 DEF Next
<1> QED
  BY <1>1, <1>2, PTL DEF Spec
==============================================================================
