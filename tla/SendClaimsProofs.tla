-------------------------- MODULE SendClaimsProofs --------------------------
(***************************************************************************)
(* Proofs about the send-claims, for any number of envelopes, deliveries,  *)
(* restarts and faults.                                                    *)
(***************************************************************************)
EXTENDS SendClaims, TLAPS

\* The envelope of a call, and where a call can be.
LEMMA CallType ==
  ASSUME TypeOK, NEW c \in Calls
  PROVE  c.env \in Envelopes /\ call[c] \in Stages
  BY DEF TypeOK, Calls

\* A completion is not a call.
LEMMA Kinds == \A w \in Writes : w \notin Calls
<1> SUFFICES ASSUME NEW w \in Writes, w \in Calls PROVE FALSE
  OBVIOUS
<1>1. DOMAIN w = {"env", "by", "result"}
  BY DEF Writes
<1>2. DOMAIN w = {"env", "n"}
  BY DEF Calls
<1>3. QED
  BY <1>1, <1>2

\* An empty claim file, and an entry of one.
LEMMA EmptyFile == Empty \in Files /\ \A e \in Envelopes : Empty[e] = Unclaimed
  BY DEF Empty, Files, Unclaimed

\* A fresh claim file and an idle process satisfy the invariant.
LEMMA InitIInv == Init => IInv
<1> SUFFICES ASSUME Init PROVE IInv
  OBVIOUS
<1>1. TypeOK
  BY BoundsAssumption, EmptyFile DEF Init, TypeOK, Stages, Typed
<1>2. SectionsInv
  BY DEF Init, SectionsInv
<1>3. /\ LockInv /\ InsideInv /\ LiveInv /\ WritesInv /\ RanInv /\ RunIsClaimed
  BY DEF Init, LockInv, InsideInv, LiveInv, WritesInv, RanInv, RunIsClaimed
<1>4. StoreInv /\ Honest
  BY EmptyFile DEF Init, StoreInv, Honest, Unclaimed
<1>5. QED
  BY <1>1, <1>2, <1>3, <1>4 DEF IInv, ClaimsInv

\* What completeClaims does to the open claims and to the completions.
LEMMA CompleteClaimsType ==
  ASSUME TypeOK, NEW cs \in SUBSET Calls, NEW result \in Results, completeClaims(cs, result)
  PROVE  /\ openClaims' \in [Envelopes -> Calls \cup {None}]
         /\ writes \subseteq writes' /\ writes' \subseteq Writes
<1>1. openClaims' \in [Envelopes -> Calls \cup {None}]
  BY DEF TypeOK, completeClaims
<1>2. ASSUME NEW c \in cs, openClaims[c.env] # None
      PROVE  [env |-> c.env, by |-> openClaims[c.env], result |-> result] \in Writes
  <2>1. c.env \in Envelopes
    BY CallType
  <2>2. openClaims[c.env] \in Calls
    BY <1>2, <2>1 DEF TypeOK
  <2>3. QED
    BY <2>1, <2>2 DEF Writes
<1>3. QED
  BY <1>1, <1>2 DEF TypeOK, completeClaims

\* What a section computes is a claim file and an outcome.
LEMMA MutateType ==
  ASSUME NEW s \in Calls \cup Writes, NEW current \in Files
  PROVE  /\ mutate(s, current).next \in Files /\ mutate(s, current).outcome \in Outcomes
         /\ s \in Calls => mutate(s, current).outcome \in Stages
<1>1. CASE s \in Calls
  <2>1. [status |-> "claimed", by |-> s, result |-> "none"]
          \in [status : {"none", "claimed", "completed"}, by : Calls \cup {None},
               result : Results \cup {"none"}]
    BY <1>1
  <2>2. [current EXCEPT ![s.env] = [status |-> "claimed", by |-> s, result |-> "none"]] \in Files
    BY <2>1 DEF Files
  <2>3. QED
    BY <1>1, <2>2 DEF mutate, claimMessageSend, Outcomes, Stages
<1>2. CASE s \notin Calls
  <2>1. s \in Writes
    BY <1>2
  <2>2. [status |-> "completed", by |-> None, result |-> s.result]
          \in [status : {"none", "claimed", "completed"}, by : Calls \cup {None},
               result : Results \cup {"none"}]
    BY <2>1 DEF Writes
  <2>3. [current EXCEPT ![s.env] = [status |-> "completed", by |-> None, result |-> s.result]]
          \in Files
    BY <2>2 DEF Files
  <2>4. QED
    BY <1>2, <2>3 DEF mutate, completeMessageSend, Outcomes
<1>3. QED
  BY <1>1, <1>2

\* A section that ends leaves the others wanted.
LEMMA FinishType ==
  ASSUME TypeOK, NEW s \in Sections, NEW outcome \in Outcomes, Finish(s, outcome),
         s \in Calls => outcome \in Stages
  PROVE  /\ call' \in [Calls -> Stages] /\ writes' \subseteq writes
         /\ \A d \in Calls : d # s => call'[d] = call[d]
         /\ s \in Calls => call[s] = "claiming" /\ call'[s] = outcome
         /\ Sections \ {s} \subseteq Sections'
<1>1. CASE s \in Calls
  <2>1. call[s] = "claiming"
    BY <1>1, Kinds DEF Sections, TypeOK
  <2>2. QED
    BY <1>1, <2>1 DEF Finish, TypeOK, Sections
<1>2. CASE s \notin Calls
  BY <1>2 DEF Finish, TypeOK, Sections
<1>3. QED
  BY <1>1, <1>2

\* The types and the places of the sections.
Shape == TypeOK /\ SectionsInv

\* A step of the handlers and timers, which takes no message out of "claiming"
\* and no completion away, leaves the sections alone.
LEMMA OutsideShape ==
  ASSUME Shape, UNCHANGED <<file, restarts, faults>>, proc' \in {"up", "exited", "ended", "down"},
         call' \in [Calls -> Stages], openClaims' \in [Envelopes -> Calls \cup {None}],
         writes \subseteq writes', writes' \subseteq Writes, ran' \subseteq Calls,
         \A c \in Calls : call[c] = "claiming" => call'[c] = "claiming",
         \A c, d \in Typed' : c = d
  PROVE  Shape'
<1>1. Sections \subseteq Sections'
  BY DEF Sections
<1>2. QED
  BY <1>1 DEF Shape, TypeOK, SectionsInv, file

\* A section's step, or its end, keeps the shape.
LEMMA SectionShape ==
  ASSUME Shape, Section
  PROVE  Shape'
<1>0. /\ Sections \subseteq Calls \cup Writes
      /\ store \in Files /\ Empty \in Files
  BY EmptyFile DEF Shape, TypeOK, Sections
<1> USE BoundsAssumption DEF Shape
<1>1. ASSUME NEW s \in Sections, Open(s) PROVE Shape'
  <2> DEFINE x == [sec |-> s, at |-> "opened", next |-> Empty, outcome |-> "error"]
  <2>1. x \in [sec : Sections, at : {"opened", "read", "done"}, next : Files, outcome : Outcomes]
    BY <1>0 DEF Outcomes
  <2>2. /\ inside' = inside \cup {x} /\ s \notin stealing /\ \A y \in inside : y.sec # s
        /\ UNCHANGED <<proc, mem, store, stealing, sound, ran, restarts, faults>> /\ lock' = "held"
    BY <1>1 DEF Open, Waits, Inside
  <2>3. x.sec = s /\ x.outcome = "error"
    OBVIOUS
  <2> HIDE DEF x
  <2>4. SectionsInv'
    BY <2>2, <2>3 DEF SectionsInv, mem, Stages
  <2>5. TypeOK'
    BY <2>1, <2>2 DEF TypeOK, mem, Sections, Typed
  <2>6. QED
    BY <2>4, <2>5
<1>2. ASSUME NEW s \in Sections, FindStale(s) PROVE Shape'
  BY <1>2 DEF FindStale, Waits, Inside, TypeOK, SectionsInv, mem, Sections, Typed
<1>3. ASSUME NEW s \in Sections, Steal(s) PROVE Shape'
  <2>1. sound' \in BOOLEAN
    BY <1>3 DEF Steal
  <2>2. TypeOK'
    BY <1>3, <2>1 DEF Steal, TypeOK, mem, Sections, Typed
  <2>3. SectionsInv'
    BY <1>3 DEF Steal, SectionsInv, mem
  <2>4. QED
    BY <2>2, <2>3
<1>4. ASSUME NEW s \in Sections, GiveUp(s) PROVE Shape'
  <2>1. /\ UNCHANGED <<proc, openClaims, store, lock, inside, sound, ran, restarts>>
        /\ stealing' = stealing \ {s} /\ Finish(s, "error") /\ \A y \in inside : y.sec # s
        /\ faults' \in 0 .. MaxFaults
    BY <1>4 DEF GiveUp, Inside, TypeOK
  <2>2. /\ call' \in [Calls -> Stages] /\ writes' \subseteq writes
        /\ \A d \in Calls : d # s => call'[d] = call[d]
        /\ s \in Calls => call[s] = "claiming" /\ call'[s] = "error"
        /\ Sections \ {s} \subseteq Sections'
    BY <2>1, FinishType DEF Outcomes, Stages
  <2>3. \A c, d \in Typed' : c = d
    BY <2>2 DEF Typed, TypeOK
  <2>4. stealing' \subseteq Sections'
    BY <2>1, <2>2 DEF TypeOK
  <2>5. inside' \subseteq [sec : Sections', at : {"opened", "read", "done"},
                          next : Files, outcome : Outcomes]
    BY <2>1, <2>2 DEF TypeOK
  <2>6. TypeOK'
    BY <2>1, <2>2, <2>3, <2>4, <2>5 DEF TypeOK
  <2>7. SectionsInv'
    BY <2>1 DEF SectionsInv
  <2>8. QED
    BY <2>6, <2>7
<1>5. ASSUME NEW x \in inside, Read(x) PROVE Shape'
  <2>1. PICK current \in {store, Empty} :
          /\ IF current = store
               THEN UNCHANGED <<sound, faults>>
               ELSE faults < MaxFaults /\ faults' = faults + 1 /\ sound' = FALSE
          /\ inside' = (inside \ {x}) \cup {Computed(x, mutate(x.sec, current))}
    BY <1>5 DEF Read
  <2>0. faults' \in 0 .. MaxFaults
    BY <2>1 DEF TypeOK
  <2>10. sound' \in BOOLEAN
    BY <2>1, Zenon DEF TypeOK
  <2> DEFINE r == mutate(x.sec, current)
             y == Computed(x, r)
  <2>2. x.sec \in Sections
    BY DEF TypeOK
  <2>3. /\ r.next \in Files /\ r.outcome \in Outcomes
        /\ x.sec \in Calls => r.outcome \in Stages
    BY <1>0, <2>2, MutateType
  <2> HIDE DEF r
  <2>4. /\ y \in [sec : Sections, at : {"opened", "read", "done"}, next : Files, outcome : Outcomes]
        /\ y.sec = x.sec /\ y.outcome = r.outcome
    BY <2>3 DEF TypeOK, Computed
  <2>5. inside' = (inside \ {x}) \cup {y}
    BY <2>1 DEF r
  <2>6. UNCHANGED <<proc, mem, store, lock, stealing, ran, restarts>>
    BY <1>5 DEF Read
  <2> HIDE DEF y
  <2>7. SectionsInv'
    BY <2>3, <2>4, <2>5, <2>6 DEF SectionsInv, mem
  <2>8. TypeOK'
    BY <2>0, <2>10, <2>4, <2>5, <2>6 DEF TypeOK, mem, Sections, Typed
  <2>9. QED
    BY <2>7, <2>8
<1>6. ASSUME NEW x \in inside, Write(x) PROVE Shape'
  <2>1. PICK y \in {[x EXCEPT !.at = "done"], [x EXCEPT !.at = "done", !.outcome = "error"]} :
          inside' = (inside \ {x}) \cup {y}
    BY <1>6 DEF Write
  <2>2. /\ y \in [sec : Sections, at : {"opened", "read", "done"}, next : Files, outcome : Outcomes]
        /\ y.sec = x.sec /\ y.outcome \in {x.outcome, "error"}
    BY DEF TypeOK, Outcomes
  <2>3. /\ UNCHANGED <<proc, mem, lock, stealing, sound, ran, restarts>>
        /\ store' \in Files /\ faults' \in 0 .. MaxFaults
    BY <1>6 DEF Write, TypeOK
  <2>4. SectionsInv'
    BY <2>1, <2>2, <2>3 DEF SectionsInv, mem, Stages
  <2>5. TypeOK'
    BY <2>1, <2>2, <2>3 DEF TypeOK, mem, Sections, Typed
  <2>6. QED
    BY <2>4, <2>5
<1>7. ASSUME NEW x \in inside, Release(x) PROVE Shape'
  <2>1. /\ UNCHANGED <<proc, openClaims, store, stealing, sound, ran, restarts, faults>>
        /\ inside' = inside \ {x} /\ Finish(x.sec, x.outcome) /\ lock' = "free"
        /\ x.sec \in Sections /\ x.outcome \in Outcomes
        /\ x.sec \in Calls => x.outcome \in Stages
    BY <1>7 DEF Release, TypeOK, SectionsInv
  <2>2. /\ call' \in [Calls -> Stages] /\ writes' \subseteq writes
        /\ \A d \in Calls : d # x.sec => call'[d] = call[d]
        /\ x.sec \in Calls => call[x.sec] = "claiming" /\ call'[x.sec] = x.outcome
        /\ Sections \ {x.sec} \subseteq Sections'
    BY <2>1, FinishType
  <2>3. \A c, d \in Typed' : c = d
    BY <2>1, <2>2 DEF Typed, TypeOK, Outcomes
  <2>4. stealing' \subseteq Sections'
    BY <2>1, <2>2 DEF TypeOK, SectionsInv
  <2>5. inside' \subseteq [sec : Sections', at : {"opened", "read", "done"},
                          next : Files, outcome : Outcomes]
    BY <2>1, <2>2 DEF TypeOK, SectionsInv
  <2>6. TypeOK'
    BY <2>1, <2>2, <2>3, <2>4, <2>5 DEF TypeOK
  <2>7. SectionsInv'
    BY <2>1 DEF SectionsInv
  <2>8. QED
    BY <2>6, <2>7
<1>8. QED
  BY <1>1, <1>2, <1>3, <1>4, <1>5, <1>6, <1>7 DEF Section

\* Every step keeps the types and the places of the sections.
LEMMA NextShape == Shape /\ [Next]_vars => Shape'
<1> SUFFICES ASSUME Shape, [Next]_vars PROVE Shape'
  OBVIOUS
<1>0. TypeOK
  BY DEF Shape
<1> USE DEF Stages
<1>1. ASSUME NEW c \in Calls, Deliver(c) PROVE Shape'
  BY <1>0, <1>1, OutsideShape DEF Deliver, TypeOK, Typed
<1>2. ASSUME NEW c \in Calls, Begin(c) PROVE Shape'
  BY <1>0, <1>2, CallType, OutsideShape DEF Begin, TypeOK, Typed
<1>3. ASSUME NEW c \in Calls, Type(c) PROVE Shape'
  BY <1>0, <1>3, OutsideShape DEF Type, TypeOK, Typed
<1>4. ASSUME NEW c \in Calls, Submit(c) PROVE Shape'
  <2>1. \E result \in Results : completeClaims({c}, result)
    BY <1>4 DEF Submit, Results
  <2>2. /\ openClaims' \in [Envelopes -> Calls \cup {None}]
        /\ writes \subseteq writes' /\ writes' \subseteq Writes
    BY <1>0, <2>1, CompleteClaimsType
  <2>3. /\ call' \in [Calls -> Stages]
        /\ \A d \in Calls : call'[d] = "typed" => call[d] = "typed"
        /\ \A d \in Calls : call[d] = "claiming" => call'[d] = "claiming"
    BY <1>0, <1>4 DEF Submit, TypeOK
  <2>4. ran' \subseteq Calls /\ UNCHANGED <<proc, file, restarts, faults>>
    BY <1>0, <1>4 DEF Submit, TypeOK
  <2>5. QED
    BY <1>0, <2>2, <2>3, <2>4, OutsideShape DEF TypeOK, Typed
<1>5. CASE Section
  BY <1>5, SectionShape
<1>6. CASE ChildExits
  BY <1>0, <1>6, OutsideShape DEF ChildExits, TypeOK, Typed, mem
<1>7. CASE Dispose
  <2>1. \E cs \in SUBSET Calls : completeClaims(cs, "dropped-session-ended")
    BY <1>7 DEF Dispose
  <2>2. /\ openClaims' \in [Envelopes -> Calls \cup {None}]
        /\ writes \subseteq writes' /\ writes' \subseteq Writes
    BY <1>0, <2>1, CompleteClaimsType DEF Results
  <2>3. /\ call' \in [Calls -> Stages]
        /\ \A d \in Calls : call'[d] = "typed" => call[d] = "typed"
        /\ \A d \in Calls : call[d] = "claiming" => call'[d] = "claiming"
    BY <1>0, <1>7 DEF Dispose, TypeOK
  <2>4. UNCHANGED <<file, ran, restarts, faults>> /\ proc' = "ended"
    BY <1>7 DEF Dispose
  <2>5. QED
    BY <1>0, <2>2, <2>3, <2>4, OutsideShape DEF TypeOK, Typed
<1>8. CASE Stop
  BY <1>0, <1>8 DEF Stop, Shape, TypeOK, SectionsInv, Typed
<1>9. CASE Restart
  <2>1. UNCHANGED <<mem, file, ran, faults>> /\ proc' = "up" /\ restarts' \in 0 .. MaxRestarts
    BY <1>0, <1>9, BoundsAssumption DEF Restart, TypeOK
  <2>2. QED
    BY <1>0, <2>1 DEF Shape, TypeOK, SectionsInv, Typed, Sections, mem, file
<1>10. CASE UNCHANGED vars
  BY <1>0, <1>10, OutsideShape DEF vars, TypeOK, Typed, mem
<1>11. QED
  BY <1>1, <1>2, <1>3, <1>4, <1>5, <1>6, <1>7, <1>8, <1>9, <1>10 DEF Next, Resume

\* The parts of the invariant about the claims themselves.
Rest == LiveInv /\ WritesInv /\ RanInv /\ StoreInv /\ RunIsClaimed /\ Honest

\* The types of what the parts mention.
LEMMA Types ==
  ASSUME TypeOK
  PROVE  /\ \A c \in Calls : c.env \in Envelopes /\ call[c] \in Stages
         /\ \A w \in writes : w.env \in Envelopes /\ w.by \in Calls /\ w.result \in Results
         /\ \A c \in ran : c \in Calls
  BY DEF TypeOK, Calls, Writes

\* A step that leaves the file and the open claims alone, finishes completions
\* at most, and moves calls to stages that the file warrants, keeps the parts.
LEMMA QuietStep ==
  ASSUME TypeOK, Rest, UNCHANGED <<openClaims, store, ran>>, writes' \subseteq writes,
         \A c \in Calls : call'[c] = call[c] \/
           /\ call[c] \notin {"submitted", "dropped"}
           /\ call'[c] = "claimed" =>
                store[c.env].status = "claimed" /\ store[c.env].by = c
           /\ call'[c] \in {"waiting", "typed"} => call[c] \in {"waiting", "typed"}
           /\ call'[c] = "duplicate" => store[c.env].status = "completed"
  PROVE  Rest'
<1> USE Types DEF Rest
<1>1. LiveInv'
  BY DEF LiveInv
<1>2. WritesInv'
  BY DEF WritesInv, Results
<1>3. RanInv'
  BY DEF RanInv
<1>4. StoreInv' /\ RunIsClaimed'
  BY DEF StoreInv, RunIsClaimed
<1>5. Honest'
  BY DEF Honest
<1>6. QED
  BY <1>1, <1>2, <1>3, <1>4, <1>5

\* Claiming an envelope in the file: nobody else holds it, and nobody ran it.
LEMMA WriteClaim ==
  ASSUME TypeOK, Rest, NEW c \in Calls, call[c] = "claiming", store[c.env].status = "none",
         store' = [store EXCEPT ![c.env] = [status |-> "claimed", by |-> c, result |-> "none"]],
         UNCHANGED <<call, openClaims, writes, ran>>
  PROVE  Rest' /\ store'[c.env].status = "claimed" /\ store'[c.env].by = c
<1> USE DEF Rest
<1>1. /\ store'[c.env] = [status |-> "claimed", by |-> c, result |-> "none"]
      /\ \A e \in Envelopes : e # c.env => store'[e] = store[e]
      /\ c.env \in Envelopes
  BY Types DEF TypeOK, Files
<1>2. \A d \in ran : d.env # c.env
  BY DEF RunIsClaimed
<1>3. LiveInv'
  BY <1>1, Types DEF LiveInv
<1>4. WritesInv'
  BY DEF WritesInv
<1>5. RanInv' /\ RunIsClaimed'
  BY <1>1, <1>2, Types DEF RanInv, RunIsClaimed
<1>6. StoreInv'
  BY <1>1 DEF StoreInv
<1>7. Honest'
  BY <1>1, Types DEF Honest
<1>8. QED
  BY <1>1, <1>3, <1>4, <1>5, <1>6, <1>7

\* A completion reaches the file: it is the claimant's own, and says what happened.
LEMMA WriteCompletion ==
  ASSUME TypeOK, Rest, NEW w \in writes,
         store[w.env].status = "claimed", store[w.env].by = w.by,
         store' = [store EXCEPT ![w.env] =
                     [status |-> "completed", by |-> None, result |-> w.result]],
         UNCHANGED <<call, openClaims, writes, ran>>
  PROVE  Rest'
<1> USE DEF Rest
<1>0. w.env \in Envelopes /\ w.by \in Calls /\ w.result \in Results
  BY Types
<1>1. /\ store'[w.env] = [status |-> "completed", by |-> None, result |-> w.result]
      /\ \A e \in Envelopes : e # w.env => store'[e] = store[e]
  BY <1>0 DEF TypeOK, Files
<1>2. w.by.env = w.env /\ call[w.by] = IF w.result = "injected" THEN "submitted" ELSE "dropped"
  BY DEF WritesInv
<1>3. \A c \in Calls : c.env = w.env => call[c] \notin {"claimed", "waiting", "typed"}
  BY <1>0, <1>2 DEF LiveInv
<1>4. \A c \in ran : c.env = w.env => c = w.by /\ w.result = "injected"
  BY <1>2 DEF RanInv
<1>5. LiveInv'
  BY <1>1, <1>3, Types DEF LiveInv
<1>6. WritesInv'
  BY DEF WritesInv
<1>7. RanInv' /\ RunIsClaimed'
  BY <1>1, <1>4, Types DEF RanInv, RunIsClaimed
<1>8. StoreInv'
  BY <1>1 DEF StoreInv
<1>9. Honest'
  BY <1>1, <1>4, Types DEF Honest
<1>10. QED
  BY <1>5, <1>6, <1>7, <1>8, <1>9

\* The handler resumes: its claim is the open one of its envelope.
LEMMA BeginStep ==
  ASSUME TypeOK, Rest, NEW c \in Calls, Begin(c)
  PROVE  Rest'
<1> USE DEF Rest
<1>1. /\ UNCHANGED <<writes, store, ran>>
      /\ call[c] = "claimed" /\ call'[c] \in {"ignored", "waiting"}
      /\ \A d \in Calls : d # c => call'[d] = call[d]
      /\ openClaims'[c.env] = c
      /\ \A e \in Envelopes : e # c.env => openClaims'[e] = openClaims[e]
  BY Types DEF Begin, TypeOK, file
<1>2. \A d \in Calls : d.env = c.env /\ call[d] \in {"claimed", "waiting", "typed"} => d = c
  BY <1>1 DEF LiveInv
<1>3. LiveInv'
  BY <1>1, <1>2, Types DEF LiveInv
<1>4. WritesInv'
  BY <1>1, Types DEF WritesInv, Results
<1>5. RanInv' /\ RunIsClaimed' /\ StoreInv' /\ Honest'
  BY <1>1, Types DEF RanInv, RunIsClaimed, StoreInv, Honest
<1>6. QED
  BY <1>3, <1>4, <1>5 DEF Rest

\* Reporting the ends of messages that hold their claims: each completion is
\* written for the message's own claim.
LEMMA Reported ==
  ASSUME TypeOK, Rest, NEW cs \in SUBSET {c \in Calls : call[c] \in {"waiting", "typed"}},
         NEW result \in Results, completeClaims(cs, result)
  PROVE  /\ \A w \in writes' \ writes : w.by \in cs /\ w.env = w.by.env /\ w.result = result
         /\ \A c \in Calls : (\A d \in cs : d.env # c.env) => openClaims'[c.env] = openClaims[c.env]
<1>1. \A c \in cs : openClaims[c.env] = c
  BY DEF Rest, LiveInv
<1>2. \A w \in writes' \ writes : \E c \in cs :
         w = [env |-> c.env, by |-> openClaims[c.env], result |-> result]
  BY DEF completeClaims
<1>3. QED
  BY <1>1, <1>2, Types DEF completeClaims

\* A message leaves the controller, submitted or dropped.
LEMMA SubmitStep ==
  ASSUME TypeOK, Rest, NEW c \in Calls, Submit(c)
  PROVE  Rest'
<1> USE DEF Rest
<1>1. /\ UNCHANGED store /\ call[c] = "typed"
      /\ \A d \in Calls : d # c => call'[d] = call[d]
  BY DEF Submit, TypeOK, file
<1>2. PICK result \in Results :
         /\ completeClaims({c}, result)
         /\ call'[c] = IF result = "injected" THEN "submitted" ELSE "dropped"
         /\ ran' \subseteq ran \cup {c}
         /\ c \in ran' \ ran => result = "injected"
  BY DEF Submit, Results, TypeOK
<1>3. /\ \A w \in writes' \ writes : w.by = c /\ w.env = c.env /\ w.result = result
      /\ \A d \in Calls : d.env # c.env => openClaims'[d.env] = openClaims[d.env]
  <2> DEFINE cs == {c}
  <2>1. cs \in SUBSET {d \in Calls : call[d] \in {"waiting", "typed"}} /\ completeClaims(cs, result)
    BY <1>1, <1>2
  <2>2. \A d \in cs : d = c
    OBVIOUS
  <2> HIDE DEF cs
  <2>3. /\ \A w \in writes' \ writes : w.by \in cs /\ w.env = w.by.env /\ w.result = result
        /\ \A d \in Calls : (\A b \in cs : b.env # d.env) => openClaims'[d.env] = openClaims[d.env]
    BY <2>1, Reported
  <2>4. QED
    BY <2>2, <2>3
<1>4. store[c.env].status = "claimed" /\ store[c.env].by = c
  BY <1>1 DEF LiveInv
<1>5. \A d \in Calls : d.env = c.env /\ call[d] \in {"claimed", "waiting", "typed"} => d = c
  BY <1>4 DEF LiveInv
<1>6. c \notin ran
  BY <1>1 DEF RanInv
<1>7. LiveInv'
  BY <1>1, <1>2, <1>3, <1>5 DEF LiveInv, Results
<1>8. WritesInv'
  <2>1. ASSUME NEW w \in writes', w \in writes
        PROVE  w.by.env = w.env /\ call'[w.by] = IF w.result = "injected" THEN "submitted" ELSE "dropped"
    BY <1>1, <2>1, Types DEF WritesInv
  <2>2. ASSUME NEW w \in writes', w \notin writes
        PROVE  w.by.env = w.env /\ call'[w.by] = IF w.result = "injected" THEN "submitted" ELSE "dropped"
    BY <1>2, <1>3, <2>2
  <2>3. QED
    BY <2>1, <2>2 DEF WritesInv
<1>9. RanInv' /\ RunIsClaimed'
  BY <1>1, <1>2, <1>4, <1>6, Types DEF RanInv, RunIsClaimed
<1>10. StoreInv'
  BY <1>1 DEF StoreInv
<1>11. Honest'
  <2>1. store[c.env].result = "none"
    BY <1>4, Types DEF StoreInv
  <2>2. \A d \in Calls : call'[d] = "duplicate" => call[d] = "duplicate"
    BY <1>1, <1>2
  <2>3. QED
    BY <1>1, <1>2, <2>1, <2>2, Types DEF Honest
<1>12. QED
  BY <1>7, <1>8, <1>9, <1>10, <1>11 DEF Rest

\* The controller is disposed: its waiting messages are reported dropped.
LEMMA DisposeStep ==
  ASSUME TypeOK, Rest, Dispose
  PROVE  Rest'
<1> USE DEF Rest
<1> DEFINE queue == {c \in Calls : call[c] = "waiting"}
<1>1. /\ UNCHANGED <<store, ran>>
      /\ \A c \in Calls : call'[c] = IF c \in queue THEN "dropped" ELSE call[c]
      /\ completeClaims(queue, "dropped-session-ended")
  BY DEF Dispose, file
<1>2. /\ \A w \in writes' \ writes :
            w.by \in queue /\ w.env = w.by.env /\ w.result = "dropped-session-ended"
      /\ \A c \in Calls : (\A d \in queue : d.env # c.env) => openClaims'[c.env] = openClaims[c.env]
  <2>1. queue \in SUBSET {d \in Calls : call[d] \in {"waiting", "typed"}}
    OBVIOUS
  <2>2. "dropped-session-ended" \in Results
    BY DEF Results
  <2> HIDE DEF queue
  <2>3. QED
    BY <1>1, <2>1, <2>2, Reported
<1>3. \A c \in Calls, d \in queue : c.env = d.env /\ call[c] \in {"claimed", "waiting", "typed"}
         => c = d
  BY DEF LiveInv
<1>4. LiveInv'
  BY <1>1, <1>2, <1>3 DEF LiveInv
<1>5. WritesInv'
  <2>1. ASSUME NEW w \in writes', w \in writes
        PROVE  w.by.env = w.env /\ call'[w.by] = IF w.result = "injected" THEN "submitted" ELSE "dropped"
    BY <1>1, <2>1, Types DEF WritesInv
  <2>2. ASSUME NEW w \in writes', w \notin writes
        PROVE  w.by.env = w.env /\ call'[w.by] = IF w.result = "injected" THEN "submitted" ELSE "dropped"
    BY <1>1, <1>2, <2>2
  <2>3. QED
    BY <2>1, <2>2 DEF WritesInv
<1>6. RanInv' /\ RunIsClaimed' /\ StoreInv' /\ Honest'
  BY <1>1, Types DEF RanInv, RunIsClaimed, StoreInv, Honest
<1>7. QED
  BY <1>4, <1>5, <1>6 DEF Rest

\* The one section inside writes what the file becomes.
LEMMA WriteStep ==
  ASSUME Shape, ClaimsInv, NEW x \in inside, Write(x)
  PROVE  ClaimsInv'
<1> USE DEF ClaimsInv, Shape, Rest
<1>1. /\ UNCHANGED <<call, openClaims, writes, lock, ran>> /\ x.at = "read"
      /\ \A y \in inside : y = x
  BY DEF Write, mem, LockInv
<1>0. inside \ {x} = {}
  BY <1>1
<1>2. PICK y :
        /\ inside' = (inside \ {x}) \cup {y}
        /\ \/ y = [x EXCEPT !.at = "done"] /\ store' = x.next
           \/ y = [x EXCEPT !.at = "done", !.outcome = "error"] /\ UNCHANGED store
  <2>1. CASE store' = x.next /\ inside' = (inside \ {x}) \cup {[x EXCEPT !.at = "done"]}
    BY <2>1
  <2>2. CASE /\ UNCHANGED store
             /\ inside' = (inside \ {x}) \cup {[x EXCEPT !.at = "done", !.outcome = "error"]}
    BY <2>2
  <2>3. QED
    BY <2>1, <2>2 DEF Write
<1>9. inside' = {y}
  BY <1>0, <1>2
<1>3. y.sec = x.sec /\ y.at = "done"
  BY <1>2 DEF TypeOK
<1>4. LockInv'
  BY <1>1, <1>9 DEF LockInv
<1>5. x.sec \in Sections /\ x.sec \in Calls \cup writes
  BY DEF TypeOK, Sections
<1>6. CASE y = [x EXCEPT !.at = "done"] /\ store' = x.next
  <2>1. y.outcome = x.outcome
    BY <1>6 DEF TypeOK
  <2>2. /\ store' = mutate(x.sec, store).next
        /\ x.outcome = mutate(x.sec, store).outcome
    BY <1>1, <1>6 DEF InsideInv
  <2>3. CASE x.sec \in Calls
    <3> DEFINE c == x.sec
    <3>1. call[c] = "claiming" /\ c.env \in Envelopes
      BY <1>5, <2>3, Kinds, Types DEF Sections, TypeOK
    <3>2. CASE store[c.env].status = "none"
      <4>1. /\ store' = [store EXCEPT ![c.env] = [status |-> "claimed", by |-> c, result |-> "none"]]
            /\ x.outcome = "claimed"
        BY <2>2, <2>3, <3>2 DEF mutate, claimMessageSend
      <4>2. Rest' /\ store'[c.env].status = "claimed" /\ store'[c.env].by = c
        BY <1>1, <2>3, <3>1, <3>2, <4>1, WriteClaim
      <4>3. InsideInv'
        BY <1>9, <1>3, <2>1, <2>3, <4>1, <4>2 DEF InsideInv
      <4>4. QED
        BY <1>4, <4>2, <4>3
    <3>3. CASE store[c.env].status # "none"
      <4>1. /\ UNCHANGED store /\ x.outcome # "claimed"
            /\ x.outcome = "duplicate" => store[c.env].status = "completed"
        <5>1. store[c.env].status \in {"claimed", "completed"}
          BY <3>1, <3>3 DEF TypeOK, Files
        <5>2. QED
          BY <2>2, <2>3, <5>1 DEF mutate, claimMessageSend
      <4>2. Rest'
        BY <1>1, <4>1, QuietStep
      <4>3. InsideInv'
        BY <1>9, <1>3, <2>1, <2>3, <4>1 DEF InsideInv
      <4>4. QED
        BY <1>4, <4>2, <4>3
    <3>4. QED
      BY <3>2, <3>3
  <2>4. CASE x.sec \notin Calls
    <3> DEFINE w == x.sec
    <3>1. w \in writes
      BY <1>5, <2>4
    <3>2. x.outcome \notin {"claimed", "duplicate"}
      BY <2>2, <2>4 DEF mutate, completeMessageSend
    <3>3. InsideInv'
      BY <1>9, <1>3, <2>1, <3>2 DEF InsideInv
    <3>4. CASE store[w.env].status = "claimed" /\ store[w.env].by = w.by
      <4>1. store' = [store EXCEPT ![w.env] =
                        [status |-> "completed", by |-> None, result |-> w.result]]
        BY <2>2, <2>4, <3>4 DEF mutate, completeMessageSend
      <4>2. Rest'
        BY <1>1, <3>1, <3>4, <4>1, WriteCompletion
      <4>3. QED
        BY <1>4, <3>3, <4>2
    <3>5. CASE ~(store[w.env].status = "claimed" /\ store[w.env].by = w.by)
      <4>1. UNCHANGED store
        BY <2>2, <2>4, <3>5 DEF mutate, completeMessageSend
      <4>2. Rest'
        BY <1>1, <4>1, QuietStep
      <4>3. QED
        BY <1>4, <3>3, <4>2
    <3>6. QED
      BY <3>4, <3>5
  <2>5. QED
    BY <2>3, <2>4
<1>7. CASE y = [x EXCEPT !.at = "done", !.outcome = "error"] /\ UNCHANGED store
  <2>1. y.outcome = "error"
    BY <1>7 DEF TypeOK
  <2>2. InsideInv'
    BY <1>9, <1>3, <2>1 DEF InsideInv
  <2>3. Rest'
    BY <1>1, <1>7, QuietStep
  <2>4. QED
    BY <1>4, <2>2, <2>3
<1>8. QED
  BY <1>2, <1>6, <1>7

\* A section's step keeps the claims right, unless it breaks the lock or reads
\* no file.
LEMMA SectionStep ==
  ASSUME Shape, ClaimsInv, sound, Section, sound'
  PROVE  ClaimsInv'
<1> USE DEF ClaimsInv, Shape, Rest
<1>1. ASSUME NEW s \in Sections, Open(s) PROVE ClaimsInv'
  <2> DEFINE x == [sec |-> s, at |-> "opened", next |-> Empty, outcome |-> "error"]
  <2>1. /\ inside' = inside \cup {x} /\ lock = "free" /\ lock' = "held"
        /\ UNCHANGED <<call, openClaims, writes, store, ran>>
    BY <1>1 DEF Open, mem
  <2>2. x.at = "opened"
    OBVIOUS
  <2> HIDE DEF x
  <2>3. inside' = {x}
    BY <2>1 DEF LockInv
  <2>4. LockInv' /\ InsideInv'
    BY <2>1, <2>2, <2>3 DEF LockInv, InsideInv
  <2>5. Rest'
    BY <2>1, QuietStep
  <2>6. QED
    BY <2>4, <2>5
<1>2. ASSUME NEW s \in Sections, FindStale(s) PROVE ClaimsInv'
  <2>1. UNCHANGED <<call, openClaims, writes, store, lock, inside, ran>>
    BY <1>2 DEF FindStale, mem
  <2>2. Rest'
    BY <2>1, QuietStep
  <2>3. QED
    BY <2>1, <2>2 DEF LockInv, InsideInv
<1>3. ASSUME NEW s \in Sections, Steal(s) PROVE ClaimsInv'
  <2>1. /\ UNCHANGED <<call, openClaims, writes, store, inside, ran>>
        /\ lock # "held" /\ lock' = "free"
    BY <1>3 DEF Steal, mem
  <2>2. Rest'
    BY <2>1, QuietStep
  <2>3. QED
    BY <2>1, <2>2 DEF LockInv, InsideInv
<1>4. ASSUME NEW s \in Sections, GiveUp(s) PROVE ClaimsInv'
  <2>1. /\ UNCHANGED <<openClaims, store, lock, inside, ran>> /\ Finish(s, "error")
    BY <1>4 DEF GiveUp
  <2>2. /\ writes' \subseteq writes
        /\ \A d \in Calls : d # s => call'[d] = call[d]
        /\ s \in Calls => call[s] = "claiming" /\ call'[s] = "error"
    BY <2>1, FinishType DEF Outcomes, Stages
  <2>3. Rest'
    BY <2>1, <2>2, QuietStep
  <2>4. QED
    BY <2>1, <2>3 DEF LockInv, InsideInv
<1>5. ASSUME NEW x \in inside, Read(x) PROVE ClaimsInv'
  <2>1. /\ UNCHANGED <<call, openClaims, writes, store, lock, ran>>
        /\ inside' = (inside \ {x}) \cup {Computed(x, mutate(x.sec, store))}
    BY <1>5 DEF Read, mem
  <2> DEFINE r == mutate(x.sec, store)
             y == Computed(x, r)
  <2>2. inside' = {y}
    BY <2>1 DEF LockInv
  <2>3. x.sec \in Calls \cup Writes
    BY DEF TypeOK, Sections
  <2>4. r.outcome = "thrown" \/ y.at = "read"
    BY DEF TypeOK, Computed
  <2>5. y.sec = x.sec /\ y.next = r.next /\ y.outcome = r.outcome
    BY DEF TypeOK, Computed
  <2> HIDE DEF y
  <2>7. InsideInv'
    BY <2>1, <2>2, <2>4, <2>5 DEF InsideInv
  <2>8. LockInv'
    BY <2>1, <2>2 DEF LockInv
  <2>9. Rest'
    BY <2>1, QuietStep
  <2>10. QED
    BY <2>7, <2>8, <2>9
<1>6. ASSUME NEW x \in inside, Write(x) PROVE ClaimsInv'
  BY <1>6, WriteStep
<1>7. ASSUME NEW x \in inside, Release(x) PROVE ClaimsInv'
  <2>1. /\ UNCHANGED <<openClaims, store, ran>> /\ Finish(x.sec, x.outcome)
        /\ inside' = inside \ {x} /\ lock' = "free" /\ x.at = "done"
        /\ x.sec \in Sections /\ x.outcome \in Outcomes
        /\ x.sec \in Calls => x.outcome \in Stages
    BY <1>7 DEF Release, TypeOK, SectionsInv
  <2>2. /\ writes' \subseteq writes
        /\ \A d \in Calls : d # x.sec => call'[d] = call[d]
        /\ x.sec \in Calls => call[x.sec] = "claiming" /\ call'[x.sec] = x.outcome
    BY <2>1, FinishType
  <2>3. inside' = {}
    BY <2>1 DEF LockInv
  <2>4. /\ x.sec \in Calls /\ x.outcome = "claimed" =>
             store[x.sec.env].status = "claimed" /\ store[x.sec.env].by = x.sec
        /\ x.sec \in Calls /\ x.outcome = "duplicate" => store[x.sec.env].status = "completed"
    BY <2>1 DEF InsideInv
  <2>5. Rest'
    BY <2>1, <2>2, <2>4, QuietStep DEF Outcomes
  <2>6. QED
    BY <2>1, <2>3, <2>5 DEF LockInv, InsideInv
<1>8. QED
  BY <1>1, <1>2, <1>3, <1>4, <1>5, <1>6, <1>7 DEF Section

\* A step outside the sections leaves the lock and what is inside alone.
LEMMA OutsideStep ==
  ASSUME ClaimsInv, UNCHANGED file, Rest'
  PROVE  ClaimsInv'
  BY DEF ClaimsInv, Rest, LockInv, InsideInv, file

\* Every step keeps the invariant.
LEMMA NextIInv == IInv /\ [Next]_vars => IInv'
<1> SUFFICES ASSUME IInv, [Next]_vars PROVE IInv'
  OBVIOUS
<1>0. Shape /\ TypeOK
  BY DEF IInv, Shape
<1>1. Shape'
  BY <1>0, NextShape
<1>2. ASSUME sound' PROVE ClaimsInv'
  <2>0. sound
    BY <1>2 DEF Next, Resume, Section, vars, file, Deliver, Begin, Type, Submit, Open, FindStale,
           Steal, GiveUp, Read, Write, Release, ChildExits, Dispose, Stop, Restart
  <2>1. ClaimsInv /\ Rest
    BY <2>0 DEF IInv, ClaimsInv, Rest
  <2>2. ASSUME NEW c \in Calls, Deliver(c) \/ Type(c) PROVE ClaimsInv'
    BY <1>0, <2>1, <2>2, QuietStep, OutsideStep DEF Deliver, Type, TypeOK, file
  <2>3. ASSUME NEW c \in Calls, Begin(c) PROVE ClaimsInv'
    BY <1>0, <2>1, <2>3, BeginStep, OutsideStep DEF Begin
  <2>4. ASSUME NEW c \in Calls, Submit(c) PROVE ClaimsInv'
    BY <1>0, <2>1, <2>4, SubmitStep, OutsideStep DEF Submit
  <2>5. CASE Section
    BY <1>0, <1>2, <2>0, <2>1, <2>5, SectionStep
  <2>6. CASE ChildExits \/ Restart \/ UNCHANGED vars
    <3>1. UNCHANGED <<mem, file, ran>>
      BY <2>6 DEF ChildExits, Restart, vars
    <3>2. QED
      BY <1>0, <2>1, <3>1, QuietStep, OutsideStep DEF mem, file
  <2>7. CASE Dispose
    BY <1>0, <2>1, <2>7, DisposeStep, OutsideStep DEF Dispose
  <2>8. CASE Stop
    <3>1. /\ inside' = {} /\ lock' # "held" /\ UNCHANGED <<store, ran>> /\ writes' = {}
          /\ \A c \in Calls : call'[c] = IF call[c] \in {"claiming", "claimed", "waiting", "typed"}
                                       THEN "lost" ELSE call[c]
      BY <2>8 DEF Stop
    <3>2. LockInv' /\ InsideInv'
      BY <3>1 DEF LockInv, InsideInv
    <3>3. Rest'
      BY <1>0, <2>1, <3>1, Types DEF Rest, LiveInv, WritesInv, RanInv, StoreInv, RunIsClaimed, Honest
    <3>4. QED
      BY <3>2, <3>3 DEF ClaimsInv, Rest
  <2>9. QED
    BY <2>2, <2>3, <2>4, <2>5, <2>6, <2>7, <2>8 DEF Next, Resume
<1>3. QED
  BY <1>1, <1>2 DEF IInv, Shape

\* The invariant holds throughout.
THEOREM Invariance == Spec => []IInv
<1>1. Init => IInv
  BY InitIInv
<1>2. IInv /\ [Next]_vars => IInv'
  BY NextIInv
<1>3. QED
  BY <1>1, <1>2, PTL DEF Spec

\* The state stays well typed, and one message at most is being injected.
THEOREM TypeCorrect == Spec => []TypeOK
<1>1. IInv => TypeOK
  BY DEF IInv
<1>2. QED
  BY <1>1, Invariance, PTL

\* The agent is given the text of an envelope at most once, through any
\* duplication of the RPC, any crash and restart of the session process, any
\* refused lock and failing write, until a lock is stolen from a live section
\* or a claim file cannot be read.
THEOREM AtMostOnceCorrect == Spec => []AtMostOnce
<1>1. IInv /\ [Next]_vars /\ AtMostOnce => AtMostOnce'
  <2> SUFFICES ASSUME IInv, [Next]_vars, AtMostOnce, sound'
               PROVE \A c, d \in ran' : c.env = d.env => c = d
    BY DEF AtMostOnce
  <2>0. sound
    BY DEF Next, Resume, Section, vars, file, Deliver, Begin, Type, Submit, Open, FindStale,
           Steal, GiveUp, Read, Write, Release, ChildExits, Dispose, Stop, Restart
  <2>1. ASSUME NEW c \in Calls, Submit(c)
        PROVE  \A a, b \in ran' : a.env = b.env => a = b
    <3>1. call[c] = "typed" /\ ran' \subseteq ran \cup {c}
      BY <2>1 DEF Submit
    <3>2. \A d \in ran : d.env # c.env
      BY <2>0, <3>1 DEF IInv, ClaimsInv, LiveInv, RanInv
    <3>3. QED
      BY <2>0, <3>1, <3>2 DEF AtMostOnce
  <2>2. CASE ran' = ran
    BY <2>0, <2>2 DEF AtMostOnce
  <2>3. ran' = ran \/ \E c \in Calls : Submit(c)
    BY DEF Next, Resume, Section, vars, Deliver, Begin, Type, Open, FindStale, Steal, GiveUp,
           Read, Write, Release, ChildExits, Dispose, Stop, Restart
  <2>4. QED
    BY <2>1, <2>2, <2>3
<1>2. Init => AtMostOnce
  BY DEF Init, AtMostOnce
<1>3. QED
  BY <1>1, <1>2, Invariance, PTL DEF Spec

\* A message that was given to the agent keeps its claim in the file, until a
\* lock is stolen or the file cannot be read.
THEOREM RunIsClaimedCorrect == Spec => [](sound => RunIsClaimed)
<1>1. IInv => (sound => RunIsClaimed)
  BY DEF IInv, ClaimsInv
<1>2. QED
  BY <1>1, Invariance, PTL

\* "Duplicate" is answered only of a recorded end, and "dropped" recorded only
\* of a message that was not submitted.
THEOREM DuplicateIsHonestCorrect == Spec => []DuplicateIsHonest
<1>1. IInv => DuplicateIsHonest
  BY DEF IInv, ClaimsInv, DuplicateIsHonest
<1>2. QED
  BY <1>1, Invariance, PTL
==============================================================================
