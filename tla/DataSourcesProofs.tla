------------------------- MODULE DataSourcesProofs --------------------------
(***************************************************************************)
(* Proofs about DataSources, for any set of sources, any number of HTTP    *)
(* requests and any capacity of the channel.                               *)
(*                                                                         *)
(* The manager's lock is free between its critical sections only, and a    *)
(* Stop holds it while it waits: the inductive invariant therefore says    *)
(* what is true of the source in between (Holder, ClosingHolds).  That one *)
(* switch at a time leaves one source at most needs what a switch knows at *)
(* each of its stages (OneAtATime): nothing but the source it stops, then  *)
(* nothing at all, is active.                                              *)
(***************************************************************************)
EXTENDS DataSources, FiniteSetTheorems, TLAPS

Running == {n \in Types : started[n]}
Answers == {r \in Requests : req[r].pc = "done"}

\* What a request knows at each of its stages.
ReqFormed ==
    \A r \in Requests :
        /\ req[r].pc \notin {"new", "done"} => req[r].id \in Types
        /\ req[r].pc \in {"ensure", "register", "look", "start"} => req[r].op = "switch"
        /\ req[r].pc \in {"look", "start"} => req[r].id \in registered
        /\ req[r].pc \in {"stop", "wait"} => /\ req[r].prev \in Types
                                             /\ req[r].op = "switch" => req[r].id \in registered
        /\ req[r].pc = "wait" => mu = r

\* Before Core.Start is done nothing runs and no request has come.
Booting ==
    core = "boot" => /\ active = {} /\ activeName = Nobody /\ mu = Nobody
                     /\ Running = {} /\ starts = 0
                     /\ \A r \in Requests : req[r].pc = "new"

\* Every start is the one of the boot or the last step of a request.
StartsCounted == starts <= Cardinality(Answers) + IF core = "boot" THEN 0 ELSE 1

\* A request that holds the lock is stopping an active source.
Holder ==
    \A r \in Requests : mu = r => /\ req[r].pc = "wait" /\ req[r].prev \in active
                                  /\ Running = active \ {req[r].prev}

\* So does Close, which stops the source that activeName names.
ClosingHolds ==
    /\ mu = Closer <=> core = "closing"
    /\ mu = Closer => activeName \in active /\ Running = active \ {activeName}

\* As long as no two switches overlapped: there is one at a time, one source
\* is active at most, and none that the switch would not stop.
OneAtATime ==
    ~raced => /\ \A m, n \in active : m = n
              /\ \A r, s \in Requests : Switching(r) /\ Switching(s) => r = s
              /\ \A r \in Requests : Switching(r) =>
                    active \subseteq (IF req[r].pc = "start" THEN {} ELSE {req[r].prev})

\* A goroutine belongs to an active source, or to one whose Stop gave up.
LoopIsActive == \A k \in Starts : loops[k].pc # "gone" => loops[k].src \in active \cup late

\* A source has one goroutine at most, unless its Stop gave up.
OneLoop ==
    \A j, k \in Starts :
        /\ loops[j].pc # "gone" /\ loops[k].pc # "gone" /\ loops[j].src = loops[k].src
        /\ loops[j].src \notin late
        => j = k

NoStrays == strays \subseteq late \cup {"nri"}

CallIsNRI == call # 0 => "nri" \in Types

\* The inductive invariant.
SInv ==
    /\ TypeOK /\ ReqFormed /\ Booting /\ StartsCounted /\ ActiveIsStarted /\ Holder
    /\ ClosingHolds /\ OneAtATime /\ LoopIsActive /\ OneLoop /\ NoStrays /\ CallIsNRI

-----------------------------------------------------------------------------
(* Counting.                                                               *)

LEMMA AtMostOne ==
    ASSUME NEW S, \A x, y \in S : x = y
    PROVE  ~(Cardinality(S) > 1)
<1>1. CASE S = {}
  BY <1>1, FS_EmptySet
<1>2. CASE S # {}
  <2>1. PICK x \in S : TRUE
    BY <1>2
  <2>2. S = {x}
    BY <2>1
  <2> QED
    BY <2>2, FS_Singleton
<1> QED
  BY <1>1, <1>2

LEMMA AnswersFinite ==
    /\ IsFiniteSet(Answers) /\ Cardinality(Answers) \in Nat
    /\ Cardinality(Answers) <= Cardinality(Requests) /\ Cardinality(Requests) \in Nat
    /\ MaxStarts \in Nat
<1>1. Answers \subseteq Requests /\ IsFiniteSet(Requests)
  BY SourceAssumption DEF Answers
<1> QED
  BY <1>1, FS_Subset, FS_CardinalityType DEF MaxStarts

\* A request that is not answered is one more to come.
LEMMA OneMore ==
    ASSUME NEW r \in Requests, req[r].pc # "done"
    PROVE  Cardinality(Answers) + 1 <= Cardinality(Requests)
<1>1. r \notin Answers /\ Answers \cup {r} \subseteq Requests /\ IsFiniteSet(Requests)
  BY SourceAssumption DEF Answers
<1>2. Cardinality(Answers \cup {r}) = Cardinality(Answers) + 1
  BY <1>1, AnswersFinite, FS_AddElement
<1> QED
  BY <1>1, <1>2, FS_Subset

\* Who takes a step of a request is not answered, and may be afterwards.
LEMMA AnswersStep ==
    ASSUME NEW r \in Requests, req[r].pc # "done", \A s \in Requests \ {r} : req'[s] = req[s]
    PROVE  /\ Cardinality(Answers') \in Nat
           /\ Cardinality(Answers) <= Cardinality(Answers')
           /\ req'[r].pc = "done" => Cardinality(Answers') = Cardinality(Answers) + 1
<1>1. CASE req'[r].pc = "done"
  <2>1. Answers' = Answers \cup {r} /\ r \notin Answers
    BY <1>1 DEF Answers
  <2>2. Cardinality(Answers') = Cardinality(Answers) + 1
    BY <2>1, AnswersFinite, FS_AddElement
  <2> QED
    BY <2>2, AnswersFinite
<1>2. CASE req'[r].pc # "done"
  <2>1. Answers' = Answers
    BY <1>2 DEF Answers
  <2> QED
    BY <1>2, <2>1, AnswersFinite
<1> QED
  BY <1>1, <1>2

-----------------------------------------------------------------------------
(* The steps of a request that only read, or register a source.            *)

PCs == {"new", "ensure", "register", "look", "stop", "wait", "start", "done"}
Reqs == [pc : PCs, op : {"none", "disable", "switch"}, id : Types \cup {Nobody},
         prev : Types \cup {Nobody}]
LoopRecs == [src : Types \cup {Nobody}, sub : 0..MaxStarts, sel : 0..MaxStarts,
             pc : {"top", "stream", "backoff", "gone"}]

\* The next stage of a request, or its end.
LEMMA StepIs ==
    ASSUME TypeOK, NEW r \in Requests, NEW pc \in PCs, Step(r, pc)
    PROVE  /\ req' \in [Requests -> Reqs]
           /\ \A s \in Requests \ {r} : req'[s] = req[s]
           /\ req'[r].pc = pc
           /\ pc # "done" => /\ req'[r].op = req[r].op /\ req'[r].id = req[r].id
                             /\ req'[r].prev = req[r].prev
<1>0. req \in [Requests -> Reqs]
  BY DEF TypeOK, Reqs, PCs
<1>1. CASE pc = "done"
  <2>1. req' = [req EXCEPT ![r] = Answered]
    BY <1>1 DEF Step
  <2>2. Answered \in Reqs /\ Answered.pc = "done"
    BY DEF Answered, NewReq, Reqs, PCs
  <2> QED
    BY <1>0, <1>1, <2>1, <2>2
<1>2. CASE pc # "done"
  <2>1. req' = [req EXCEPT ![r].pc = pc]
    BY <1>2 DEF Step
  <2> QED
    BY <1>0, <1>2, <2>1 DEF Reqs
<1> QED
  BY <1>1, <1>2

Asks(r) == Arrive(r) \/ Ensure(r) \/ Register(r) \/ Look(r) \/ StopSkips(r)

\* What a request is once it has asked.
Asked(r) ==
    /\ req' \in [Requests -> Reqs]
    /\ \A s \in Requests \ {r} : req'[s] = req[s]
    /\ req[r].pc \notin {"done", "wait"} /\ req'[r].pc \notin {"new", "wait"}
    /\ req'[r].pc # "done" => req'[r].id \in Types
    /\ req'[r].pc \in {"ensure", "register", "look", "start"} => req'[r].op = "switch"
    /\ req'[r].pc \in {"look", "start"} => req'[r].id \in registered'
    /\ req'[r].pc = "stop" => /\ req'[r].prev \in Types
                              /\ req'[r].op = "switch" => req'[r].id \in registered'
    /\ registered \subseteq registered' /\ registered' \subseteq Types
    /\ raced' \in BOOLEAN /\ (raced => raced')

\* And a switch that is alone knows which source is active.
AskedAlone(r) ==
    ~raced' /\ req'[r].op = "switch" /\ req'[r].pc \in {"stop", "start"} =>
        /\ active \subseteq (IF req'[r].pc = "start" THEN {} ELSE {req'[r].prev})
        /\ \A s \in Requests \ {r} : ~Switching(s)

LEMMA ArriveIs ==
    ASSUME SInv, NEW r \in Requests, Arrive(r)
    PROVE  Asked(r) /\ AskedAlone(r)
<1> USE DEF SInv
<1>0. req \in [Requests -> Reqs]
  BY DEF TypeOK, Reqs, PCs
<1>1. PICK n \in Types : Disable(r, n) \/ Switch(r, n)
  BY DEF Arrive
<1>2. /\ req[r].pc = "new"
      /\ \/ req' = [req EXCEPT ![r] = [pc |-> "stop", op |-> "disable", id |-> n, prev |-> n]]
         \/ req' = [req EXCEPT ![r] = [pc |-> "ensure", op |-> "switch", id |-> n, prev |-> Nobody]]
      /\ UNCHANGED <<registered, raced>>
  BY <1>1 DEF Disable, Switch, At, managerVars
<1>3. /\ req' \in [Requests -> Reqs] /\ \A s \in Requests \ {r} : req'[s] = req[s]
      /\ \/ req'[r] = [pc |-> "stop", op |-> "disable", id |-> n, prev |-> n]
         \/ req'[r] = [pc |-> "ensure", op |-> "switch", id |-> n, prev |-> Nobody]
  BY <1>0, <1>2 DEF Reqs, PCs
<1> QED
  BY <1>2, <1>3 DEF Asked, AskedAlone, TypeOK

LEMMA EnsureIs ==
    ASSUME SInv, NEW r \in Requests, Ensure(r) \/ Register(r)
    PROVE  Asked(r) /\ AskedAlone(r)
<1> USE DEF SInv
<1>1. req[r].pc \in {"ensure", "register"} /\ req[r].id \in Types /\ req[r].op = "switch"
  BY DEF Ensure, Register, At, ReqFormed
<1>2. /\ registered \subseteq registered' /\ registered' \subseteq Types /\ UNCHANGED raced
      /\ \/ Step(r, "look") /\ req[r].id \in registered'
         \/ Step(r, "register") \/ Step(r, "done")
  <2>1. CASE Ensure(r)
    <3>1. CASE req[r].id \in registered
      BY <2>1, <3>1 DEF Ensure, managerVars, TypeOK
    <3>2. CASE req[r].id \notin registered
      BY <2>1, <3>2 DEF Ensure, managerVars, TypeOK
    <3> QED
      BY <3>1, <3>2
  <2>2. CASE Register(r)
    BY <1>1, <2>2 DEF Register, TypeOK
  <2> QED
    BY <2>1, <2>2
<1>3. /\ req' \in [Requests -> Reqs] /\ \A s \in Requests \ {r} : req'[s] = req[s]
      /\ \/ req'[r].pc = "look" /\ req[r].id \in registered'
         \/ req'[r].pc = "register" \/ req'[r].pc = "done"
      /\ req'[r].pc # "done" => req'[r].op = req[r].op /\ req'[r].id = req[r].id
  BY <1>2, StepIs DEF PCs
<1> QED
  BY <1>1, <1>2, <1>3 DEF Asked, AskedAlone, TypeOK

LEMMA LookIs ==
    ASSUME SInv, NEW r \in Requests, Look(r)
    PROVE  Asked(r) /\ AskedAlone(r)
<1> USE DEF SInv
<1>0. req \in [Requests -> Reqs] /\ req[r] \in Reqs
  BY DEF TypeOK, Reqs, PCs
<1>1. /\ req[r].pc = "look" /\ req[r].id \in registered /\ req[r].op = "switch" /\ req[r].id \in Types
      /\ mu = Nobody /\ UNCHANGED registered
  BY DEF Look, At, Free, ReqFormed, managerVars
<1>2. raced' \in BOOLEAN /\ (raced => raced') /\ (~raced' => ~raced /\ \A s \in Requests : ~Switching(s))
  BY DEF Look, TypeOK
<1>3. PICK p \in Previous :
         IF p = req[r].id THEN Step(r, "done")
         ELSE req' = [req EXCEPT ![r].prev = p, ![r].pc = IF p = Nobody THEN "start" ELSE "stop"]
  BY DEF Look
<1>4. /\ p \in Types \cup {Nobody}
      /\ p # Nobody => p \in active
      /\ p = Nobody => active = {}
  BY <1>1, SourceAssumption DEF Previous, ActiveIsStarted, Free, TypeOK
<1>5. CASE p = req[r].id
  <2>1. /\ req' \in [Requests -> Reqs] /\ \A s \in Requests \ {r} : req'[s] = req[s]
        /\ req'[r].pc = "done"
    BY <1>3, <1>5, StepIs DEF PCs
  <2> QED
    BY <1>1, <1>2, <2>1 DEF Asked, AskedAlone, TypeOK
<1>6. CASE p # req[r].id
  <2> DEFINE to == IF p = Nobody THEN "start" ELSE "stop"
  <2>1. req' = [req EXCEPT ![r].prev = p, ![r].pc = to]
    BY <1>3, <1>6
  <2>2. to \in {"start", "stop"} /\ (to = "start" <=> p = Nobody)
    OBVIOUS
  <2> HIDE DEF to
  <2>3. req' = [req EXCEPT ![r] = [req[r] EXCEPT !.prev = p, !.pc = to]]
    BY <1>0, <2>1 DEF Reqs
  <2>4. [req[r] EXCEPT !.prev = p, !.pc = to] \in Reqs
    BY <1>0, <1>4, <2>2 DEF Reqs, PCs
  <2>5. /\ req' \in [Requests -> Reqs] /\ \A s \in Requests \ {r} : req'[s] = req[s]
        /\ req'[r].pc = to /\ req'[r].prev = p /\ req'[r].id = req[r].id /\ req'[r].op = req[r].op
    BY <1>0, <2>3, <2>4 DEF Reqs
  <2>6. Asked(r)
    BY <1>1, <1>2, <1>4, <2>2, <2>5 DEF Asked, TypeOK
  <2>7. ~raced' => active \subseteq (IF to = "start" THEN {} ELSE {p})
    BY <1>2, <1>4, <2>2 DEF OneAtATime
  <2>8. AskedAlone(r)
    BY <1>2, <2>5, <2>7 DEF AskedAlone
  <2> QED
    BY <2>6, <2>8
<1> QED
  BY <1>5, <1>6

LEMMA StopSkipsIs ==
    ASSUME SInv, NEW r \in Requests, StopSkips(r)
    PROVE  Asked(r) /\ AskedAlone(r)
<1> USE DEF SInv
<1>1. /\ req[r].pc = "stop" /\ req[r].id \in Types /\ req[r].prev \notin active
      /\ req[r].op = "switch" => req[r].id \in registered
      /\ UNCHANGED <<registered, raced>>
  BY DEF StopSkips, At, ReqFormed, managerVars
<1>2. \/ Step(r, "start") /\ req[r].op = "switch"
      \/ Step(r, "done")
  BY DEF StopSkips, AfterStop
<1>3. /\ req' \in [Requests -> Reqs] /\ \A s \in Requests \ {r} : req'[s] = req[s]
      /\ \/ req'[r].pc = "start" /\ req[r].op = "switch" /\ req'[r].op = "switch" /\ req'[r].id = req[r].id
         \/ req'[r].pc = "done"
  BY <1>2, StepIs DEF PCs
<1>4. Asked(r)
  BY <1>1, <1>3 DEF Asked, TypeOK
<1>5. AskedAlone(r)
  <2>1. SUFFICES ASSUME ~raced', req'[r].op = "switch", req'[r].pc \in {"stop", "start"}
                 PROVE  active = {} /\ \A s \in Requests \ {r} : ~Switching(s)
    BY <1>3 DEF AskedAlone
  <2>2. Switching(r) /\ ~raced
    BY <1>1, <1>3, <2>1 DEF Switching
  <2> QED
    BY <1>1, <2>2 DEF OneAtATime
<1> QED
  BY <1>4, <1>5

LEMMA AsksIs ==
    ASSUME SInv, NEW r \in Requests, Asks(r)
    PROVE  /\ Asked(r) /\ AskedAlone(r) /\ core # "boot"
           /\ UNCHANGED <<active, activeName, mu, sourceVars, loopVars, core, late>>
<1>1. Asked(r) /\ AskedAlone(r)
  BY ArriveIs, EnsureIs, LookIs, StopSkipsIs DEF Asks
<1>2. UNCHANGED <<active, activeName, mu, sourceVars, loopVars, core, late>>
  BY DEF Asks, Arrive, Disable, Switch, Ensure, Register, Look, StopSkips, managerVars
<1>3. core # "boot"
  BY DEF Asks, Arrive, Disable, Switch, Ensure, Register, Look, StopSkips, At, SInv, Booting
<1> QED
  BY <1>1, <1>2, <1>3

LEMMA AsksStep ==
    ASSUME SInv, NEW r \in Requests, Asks(r)
    PROVE  SInv'
<1> USE DEF SInv
<1>0. /\ UNCHANGED <<active, activeName, mu, started, gen, client, starts, cancelled>>
      /\ UNCHANGED <<loops, call, ch, strays, core, late>>
      /\ core # "boot"
  BY AsksIs DEF sourceVars, loopVars
<1>1. Asked(r) /\ AskedAlone(r)
  BY AsksIs
<1>2. TypeOK'
  BY <1>0, <1>1 DEF TypeOK, Asked, Reqs, PCs
<1>3. ReqFormed'
  BY <1>0, <1>1 DEF ReqFormed, Asked
<1>4. Booting' /\ ActiveIsStarted'
  BY <1>0 DEF Booting, ActiveIsStarted, Free
<1>5. StartsCounted'
  <2>1. Cardinality(Answers) <= Cardinality(Answers') /\ Cardinality(Answers') \in Nat
    BY <1>1, AnswersStep DEF Asked
  <2> QED
    BY <1>0, <2>1, AnswersFinite DEF StartsCounted, TypeOK
<1>6. Holder' /\ ClosingHolds'
  BY <1>0, <1>1 DEF Holder, ClosingHolds, Running, Asked
<1>7. OneAtATime'
  <2>1. SUFFICES ASSUME ~raced' PROVE /\ \A m, n \in active : m = n
                                      /\ \A q, s \in Requests : Switching(q)' /\ Switching(s)' => q = s
                                      /\ \A q \in Requests : Switching(q)' =>
                                           active \subseteq (IF req'[q].pc = "start" THEN {} ELSE {req'[q].prev})
    BY <1>0 DEF OneAtATime
  <2>2. ~raced
    BY <1>1, <2>1 DEF Asked
  <2>3. \A q \in Requests \ {r} : req'[q] = req[q] /\ (Switching(q)' <=> Switching(q))
    BY <1>1 DEF Asked, Switching
  <2>4. Switching(r)' => /\ active \subseteq (IF req'[r].pc = "start" THEN {} ELSE {req'[r].prev})
                         /\ \A s \in Requests \ {r} : ~Switching(s)
    BY <1>1, <2>1 DEF Asked, AskedAlone, Switching
  <2> QED
    BY <2>2, <2>3, <2>4 DEF OneAtATime
<1>8. LoopIsActive' /\ OneLoop' /\ NoStrays' /\ CallIsNRI'
  BY <1>0 DEF LoopIsActive, OneLoop, NoStrays, CallIsNRI, Starts
<1> QED
  BY <1>2, <1>3, <1>4, <1>5, <1>6, <1>7, <1>8

-----------------------------------------------------------------------------
(* The steps that stop a source.                                           *)

LEMMA CancelTyped ==
    ASSUME TypeOK, NEW n \in Types
    PROVE  cancelled \cup {gen[n]} \subseteq 0..MaxStarts
<1> DEFINE UpTo == 0..MaxStarts
<1>1. cancelled \subseteq UpTo /\ gen \in [Types -> UpTo]
  BY DEF TypeOK
<1> HIDE DEF UpTo
<1>2. cancelled \cup {gen[n]} \subseteq UpTo
  BY <1>1
<1> QED
  BY <1>2 DEF UpTo

LEMMA StopBeginsStep ==
    ASSUME SInv, NEW r \in Requests, StopBegins(r)
    PROVE  SInv'
<1> USE DEF SInv
<1> DEFINE n == req[r].prev
<1>0. /\ req[r].pc = "stop" /\ mu = Nobody /\ n \in active /\ n \in Types /\ mu' = r
      /\ Step(r, "wait")
      /\ UNCHANGED <<registered, active, activeName, gen, client, starts, loops, call, ch, strays, core, raced, late>>
  BY DEF StopBegins, At, Free, BeginStop, loopVars, TypeOK
<1>1. /\ req' \in [Requests -> Reqs] /\ \A s \in Requests \ {r} : req'[s] = req[s]
      /\ req'[r].pc = "wait" /\ req'[r].op = req[r].op /\ req'[r].id = req[r].id /\ req'[r].prev = n
  BY <1>0, StepIs DEF PCs
<1>2. started' = [started EXCEPT ![n] = FALSE] /\ cancelled' = cancelled \cup {gen[n]}
  BY DEF StopBegins, BeginStop
<1> HIDE DEF n
<1>3. started' \in [Types -> BOOLEAN] /\ Running' = Running \ {n}
  BY <1>0, <1>2 DEF TypeOK, Running
<1>4. Running = active
  BY <1>0 DEF ActiveIsStarted, Free, Running
<1>5. core # "boot" /\ core # "closing" /\ r # Closer /\ r # Nobody
  BY <1>0, SourceAssumption DEF Booting, ClosingHolds
<1>6. TypeOK'
  <2>1. cancelled' \subseteq 0..MaxStarts
    BY <1>0, <1>2, CancelTyped
  <2> QED
    BY <1>0, <1>1, <1>3, <2>1 DEF TypeOK, Reqs, PCs
<1>7. ReqFormed'
  <2>1. \A s \in Requests \ {r} : req[s].pc # "wait"
    BY <1>0, SourceAssumption DEF ReqFormed
  <2> QED
    BY <1>0, <1>1, <2>1 DEF ReqFormed
<1>8. Booting' /\ ActiveIsStarted'
  BY <1>0, <1>5 DEF Booting, ActiveIsStarted, Free
<1>9. StartsCounted'
  <2>1. Cardinality(Answers) <= Cardinality(Answers') /\ Cardinality(Answers') \in Nat
    BY <1>0, <1>1, AnswersStep
  <2> QED
    BY <1>0, <2>1, AnswersFinite DEF StartsCounted, TypeOK
<1>10. Holder' /\ ClosingHolds'
  BY <1>0, <1>1, <1>3, <1>4, <1>5 DEF Holder, ClosingHolds
<1>11. OneAtATime'
  <2>1. \A q \in Requests : (Switching(q)' <=> Switching(q)) /\ req'[q].prev = req[q].prev
                            /\ (req'[q].pc = "start" <=> req[q].pc = "start")
    BY <1>0, <1>1 DEF Switching, n
  <2> QED
    BY <1>0, <2>1 DEF OneAtATime
<1>12. LoopIsActive' /\ OneLoop' /\ NoStrays' /\ CallIsNRI'
  BY <1>0 DEF LoopIsActive, OneLoop, NoStrays, CallIsNRI, Starts
<1> QED
  BY <1>6, <1>7, <1>8, <1>9, <1>10, <1>11, <1>12

\* The goroutines that a Stop leaves behind make the source late.
LEMMA EndStopIs ==
    ASSUME SInv, NEW n \in Types, EndStop(n)
    PROVE  /\ UNCHANGED <<started, gen, starts, cancelled>> /\ client' \in [Types -> BOOLEAN]
           /\ late \subseteq late' /\ late' \subseteq Types
           /\ \A k \in Starts : loops[k].pc # "gone" /\ loops[k].src = n => n \in late'
BY DEF EndStop, LateAfter, LoopsOf, SInv, TypeOK

LEMMA StopEndsStep ==
    ASSUME SInv, NEW r \in Requests, StopEnds(r)
    PROVE  SInv'
<1> USE DEF SInv
<1> DEFINE n == req[r].prev
<1>0. /\ req[r].pc = "wait" /\ mu = r /\ n \in Types /\ n \in active
      /\ active' = active \ {n} /\ activeName' = Nobody /\ mu' = Nobody
      /\ Running = active \ {n}
      /\ EndStop(n) /\ AfterStop(r)
      /\ UNCHANGED <<registered, loops, call, ch, strays, core, raced>>
  BY DEF StopEnds, At, loopVars, ReqFormed, Holder
<1>1. /\ req' \in [Requests -> Reqs] /\ \A s \in Requests \ {r} : req'[s] = req[s]
      /\ \/ req'[r].pc = "done"
         \/ /\ req'[r].pc = "start" /\ req[r].op = "switch"
            /\ req'[r].op = req[r].op /\ req'[r].id = req[r].id
  BY <1>0, StepIs DEF PCs, AfterStop
<1>2. /\ UNCHANGED <<started, gen, starts, cancelled>> /\ client' \in [Types -> BOOLEAN]
      /\ late \subseteq late' /\ late' \subseteq Types
      /\ \A k \in Starts : loops[k].pc # "gone" /\ loops[k].src = n => n \in late'
  BY <1>0, EndStopIs
<1> HIDE DEF n
<1>3. core # "boot" /\ core # "closing" /\ r # Closer /\ r # Nobody /\ Closer # Nobody
  BY <1>0, SourceAssumption DEF Booting, ClosingHolds
<1>4. TypeOK'
  BY <1>0, <1>1, <1>2 DEF TypeOK, Reqs, PCs
<1>5. ReqFormed'
  <2>1. \A s \in Requests \ {r} : req[s].pc # "wait"
    BY <1>0 DEF ReqFormed
  <2> QED
    BY <1>0, <1>1, <2>1 DEF ReqFormed
<1>6. Booting' /\ ActiveIsStarted'
  BY <1>0, <1>2, <1>3 DEF Booting, ActiveIsStarted, Running
<1>7. StartsCounted'
  <2>1. Cardinality(Answers) <= Cardinality(Answers') /\ Cardinality(Answers') \in Nat
    BY <1>0, <1>1, AnswersStep
  <2> QED
    BY <1>0, <1>2, <2>1, AnswersFinite DEF StartsCounted, TypeOK
<1>8. Holder' /\ ClosingHolds'
  BY <1>0, <1>3, SourceAssumption DEF Holder, ClosingHolds
<1>9. OneAtATime'
  <2>1. \A q \in Requests \ {r} : req'[q] = req[q] /\ (Switching(q)' <=> Switching(q))
    BY <1>1 DEF Switching
  <2>2. Switching(r)' => Switching(r) /\ req'[r].pc = "start" /\ req[r].prev = n /\ req[r].pc = "wait"
    BY <1>0, <1>1 DEF Switching, n
  <2> QED
    BY <1>0, <2>1, <2>2 DEF OneAtATime
<1>10. LoopIsActive' /\ OneLoop' /\ NoStrays' /\ CallIsNRI'
  BY <1>0, <1>2 DEF LoopIsActive, OneLoop, NoStrays, CallIsNRI, Starts
<1> QED
  BY <1>4, <1>5, <1>6, <1>7, <1>8, <1>9, <1>10

LEMMA CloseBeginsStep ==
    ASSUME SInv, CloseBegins
    PROVE  SInv'
<1> USE DEF SInv
<1> DEFINE n == activeName
<1>0. /\ core = "shut" /\ mu = Nobody
      /\ UNCHANGED <<registered, active, req, loops, call, ch, strays, raced, late>>
  BY DEF CloseBegins, Free, loopVars
<1>1. Closer # Nobody /\ Running = active /\ (n # Nobody => n \in active)
  BY <1>0, SourceAssumption DEF ActiveIsStarted, Running, Free
<1>2. Answers' = Answers
  BY <1>0 DEF Answers
<1>3. /\ UNCHANGED <<gen, client, starts>> /\ started' \in [Types -> BOOLEAN]
      /\ cancelled' \subseteq 0..MaxStarts /\ core' \in {"closing", "closed"}
      /\ \/ /\ core' = "closing" /\ mu' = Closer /\ n \in active /\ activeName' = n
            /\ Running' = active \ {n}
         \/ core' = "closed" /\ mu' = Nobody /\ activeName' = Nobody /\ Running' = active
  <2>1. CASE n \in registered
    <3>1. /\ core' = "closing" /\ mu' = Closer /\ activeName' = n
          /\ started' = [started EXCEPT ![n] = FALSE] /\ cancelled' = cancelled \cup {gen[n]}
          /\ UNCHANGED <<gen, client, starts>>
      BY <2>1 DEF CloseBegins, BeginStop
    <3>2. n \in Types /\ n \in active
      BY <1>1, <2>1, SourceAssumption DEF TypeOK
    <3>3. started' \in [Types -> BOOLEAN] /\ Running' = Running \ {n}
      BY <3>1, <3>2 DEF TypeOK, Running
    <3>4. cancelled' \subseteq 0..MaxStarts
      BY <3>1, <3>2, CancelTyped
    <3> QED
      BY <1>1, <3>1, <3>2, <3>3, <3>4
  <2>2. CASE n \notin registered
    <3>1. /\ core' = "closed" /\ activeName' = Nobody /\ mu' = mu
          /\ UNCHANGED <<started, gen, client, starts, cancelled>>
      BY <2>2 DEF CloseBegins, sourceVars
    <3>2. Running' = active
      BY <1>1, <3>1 DEF Running
    <3>3. started \in [Types -> BOOLEAN] /\ cancelled \subseteq 0..MaxStarts
      BY DEF TypeOK
    <3> QED
      BY <1>0, <3>1, <3>2, <3>3
  <2> QED
    BY <2>1, <2>2
<1> HIDE DEF n
<1>4. TypeOK'
  BY <1>0, <1>3 DEF TypeOK, n
<1>5. ReqFormed'
  BY <1>0, SourceAssumption DEF ReqFormed
<1>6. Booting' /\ ActiveIsStarted'
  BY <1>0, <1>1, <1>3 DEF Booting, ActiveIsStarted, Free, Running
<1>7. StartsCounted'
  BY <1>0, <1>2, <1>3 DEF StartsCounted
<1>8. Holder' /\ ClosingHolds'
  BY <1>0, <1>1, <1>3, SourceAssumption DEF Holder, ClosingHolds
<1>9. OneAtATime'
  BY <1>0 DEF OneAtATime, Switching
<1>10. LoopIsActive' /\ OneLoop' /\ NoStrays' /\ CallIsNRI'
  BY <1>0 DEF LoopIsActive, OneLoop, NoStrays, CallIsNRI, Starts
<1> QED
  BY <1>4, <1>5, <1>6, <1>7, <1>8, <1>9, <1>10

LEMMA CloseEndsStep ==
    ASSUME SInv, CloseEnds
    PROVE  SInv'
<1> USE DEF SInv
<1> DEFINE n == activeName
<1>0. /\ core = "closing" /\ core' = "closed" /\ mu = Closer /\ n \in active /\ n \in Types
      /\ active' = active \ {n} /\ activeName' = Nobody /\ mu' = Nobody
      /\ Running = active \ {n} /\ EndStop(n)
      /\ UNCHANGED <<registered, req, loops, call, ch, strays, raced>>
  BY DEF CloseEnds, loopVars, ClosingHolds, TypeOK
<1>1. Closer # Nobody /\ Closer \notin Requests /\ Nobody \notin Requests
  BY SourceAssumption
<1>2. /\ UNCHANGED <<started, gen, starts, cancelled>> /\ client' \in [Types -> BOOLEAN]
      /\ late \subseteq late' /\ late' \subseteq Types
      /\ \A k \in Starts : loops[k].pc # "gone" /\ loops[k].src = n => n \in late'
  BY <1>0, EndStopIs
<1> HIDE DEF n
<1>3. Answers' = Answers
  BY <1>0 DEF Answers
<1>4. TypeOK'
  BY <1>0, <1>2 DEF TypeOK
<1>5. ReqFormed'
  BY <1>0, <1>1 DEF ReqFormed
<1>6. Booting' /\ ActiveIsStarted'
  BY <1>0, <1>2 DEF Booting, ActiveIsStarted, Running
<1>7. StartsCounted'
  BY <1>0, <1>2, <1>3 DEF StartsCounted
<1>8. Holder' /\ ClosingHolds'
  BY <1>0, <1>1 DEF Holder, ClosingHolds
<1>9. OneAtATime'
  BY <1>0 DEF OneAtATime, Switching
<1>10. LoopIsActive' /\ OneLoop' /\ NoStrays' /\ CallIsNRI'
  BY <1>0, <1>2 DEF LoopIsActive, OneLoop, NoStrays, CallIsNRI, Starts
<1> QED
  BY <1>4, <1>5, <1>6, <1>7, <1>8, <1>9, <1>10

-----------------------------------------------------------------------------
(* The steps that start a source.                                          *)

\* A start that there is room for, and the goroutine it makes.
LEMMA StartSourceIs ==
    ASSUME SInv, NEW n \in Types, n \notin active, StartSource(n), starts + 1 <= MaxStarts
    PROVE  /\ starts' = starts + 1 /\ starts' \in 0..MaxStarts /\ gen' \in [Types -> 0..MaxStarts]
           /\ started' \in [Types -> BOOLEAN] /\ client' \in [Types -> BOOLEAN]
           /\ Running' = Running \cup {n} /\ UNCHANGED cancelled
           /\ loops' \in [Starts -> LoopRecs]
           /\ late' = late /\ n \in active' /\ active \subseteq active' => LoopIsActive' /\ OneLoop'
<1> USE DEF SInv
<1> DEFINE UpTo == 0..MaxStarts
<1>0. loops \in [Starts -> LoopRecs] /\ gen \in [Types -> UpTo] /\ starts \in Nat
  BY AnswersFinite DEF TypeOK, LoopRecs
<1>1. starts + 1 \in UpTo /\ 0 \in UpTo /\ starts + 1 \in Starts
  BY <1>0, AnswersFinite DEF Starts
<1>2. starts' = starts + 1 /\ gen' = [gen EXCEPT ![n] = starts + 1]
  BY DEF StartSource
<1>3. NewLoop(n) \in LoopRecs /\ NewLoop(n).src = n /\ NewLoop(n).pc = "top"
  BY <1>1 DEF NewLoop, LoopRecs
<1> HIDE DEF UpTo
<1>4. starts' \in UpTo /\ gen' \in [Types -> UpTo]
  BY <1>0, <1>1, <1>2
<1>5. /\ started' \in [Types -> BOOLEAN] /\ client' \in [Types -> BOOLEAN]
      /\ Running' = Running \cup {n} /\ UNCHANGED cancelled
  BY DEF StartSource, TypeOK, Running
<1>6. loops' = [loops EXCEPT ![starts + 1] = NewLoop(n)]
  BY DEF StartSource
<1>7. /\ loops' \in [Starts -> LoopRecs] /\ loops'[starts + 1] = NewLoop(n)
      /\ \A k \in Starts \ {starts + 1} : loops'[k] = loops[k]
  BY <1>0, <1>1, <1>3, <1>6
<1>8. ASSUME late' = late, n \in active', active \subseteq active' PROVE LoopIsActive' /\ OneLoop'
  <2>1. LoopIsActive'
    BY <1>3, <1>7, <1>8 DEF LoopIsActive, Starts
  <2>2. \A k \in Starts : loops[k].pc # "gone" /\ loops[k].src = n => n \in late
    BY DEF LoopIsActive
  <2>3. OneLoop'
    BY <1>3, <1>7, <1>8, <2>2 DEF OneLoop, Starts
  <2> QED
    BY <2>1, <2>3
<1> QED
  BY <1>2, <1>4, <1>5, <1>7, <1>8 DEF UpTo

\* A start that fails leaves a context that is done.
LEMMA StartSourceFailsIs ==
    ASSUME SInv, NEW n \in Types, StartSourceFails(n), starts + 1 <= MaxStarts
    PROVE  /\ starts' = starts + 1 /\ starts' \in 0..MaxStarts /\ gen' \in [Types -> 0..MaxStarts]
           /\ cancelled' \subseteq 0..MaxStarts /\ UNCHANGED <<started, client, loops>>
<1> USE DEF SInv
<1> DEFINE UpTo == 0..MaxStarts
<1>0. gen \in [Types -> UpTo] /\ starts \in Nat /\ cancelled \subseteq UpTo
  BY AnswersFinite DEF TypeOK
<1>1. starts + 1 \in UpTo
  BY <1>0, AnswersFinite
<1>2. /\ starts' = starts + 1 /\ gen' = [gen EXCEPT ![n] = starts + 1]
      /\ cancelled' = cancelled \cup {starts + 1} /\ UNCHANGED <<started, client, loops>>
  BY DEF StartSourceFails
<1> HIDE DEF UpTo
<1>3. gen' \in [Types -> UpTo] /\ cancelled' \subseteq UpTo
  BY <1>0, <1>1, <1>2
<1> QED
  BY <1>1, <1>2, <1>3 DEF UpTo

\* There is room for the start that a request makes.
LEMMA RoomForStart ==
    ASSUME SInv, NEW r \in Requests, req[r].pc # "done"
    PROVE  starts + 1 <= MaxStarts
BY OneMore, AnswersFinite DEF SInv, StartsCounted, TypeOK, MaxStarts

LEMMA StartSucceedsStep ==
    ASSUME SInv, NEW r \in Requests, StartSucceeds(r)
    PROVE  SInv'
<1> USE DEF SInv
<1> DEFINE n == req[r].id
<1>0. /\ req[r].pc = "start" /\ mu = Nobody /\ n \in registered /\ n \in Types /\ n \notin active
      /\ req[r].op = "switch"
      /\ active' = active \cup {n} /\ activeName' = n /\ StartSource(n) /\ Step(r, "done")
      /\ UNCHANGED <<registered, mu, call, ch, strays, core, raced, late>>
  BY DEF StartSucceeds, At, Free, ReqFormed
<1>1. /\ req' \in [Requests -> Reqs] /\ \A s \in Requests \ {r} : req'[s] = req[s]
      /\ req'[r].pc = "done"
  BY <1>0, StepIs DEF PCs
<1>2. starts + 1 <= MaxStarts
  BY <1>0, RoomForStart
<1>3. /\ starts' = starts + 1 /\ starts' \in 0..MaxStarts /\ gen' \in [Types -> 0..MaxStarts]
      /\ started' \in [Types -> BOOLEAN] /\ client' \in [Types -> BOOLEAN]
      /\ Running' = Running \cup {n} /\ UNCHANGED cancelled
      /\ loops' \in [Starts -> LoopRecs] /\ LoopIsActive' /\ OneLoop'
  BY <1>0, <1>2, StartSourceIs
<1>4. core # "boot" /\ core # "closing" /\ Closer # Nobody
  BY <1>0, SourceAssumption DEF Booting, ClosingHolds
<1> HIDE DEF n
<1>5. TypeOK'
  BY <1>0, <1>1, <1>3 DEF TypeOK, Reqs, PCs, LoopRecs, Starts
<1>6. ReqFormed'
  BY <1>0, <1>1 DEF ReqFormed
<1>7. Booting' /\ ActiveIsStarted'
  BY <1>0, <1>3, <1>4 DEF Booting, ActiveIsStarted, Running, Free
<1>8. StartsCounted'
  <2>1. Cardinality(Answers') = Cardinality(Answers) + 1 /\ Cardinality(Answers') \in Nat
    BY <1>0, <1>1, AnswersStep
  <2> QED
    BY <1>0, <1>3, <1>4, <2>1, AnswersFinite DEF StartsCounted, TypeOK
<1>9. Holder' /\ ClosingHolds'
  BY <1>0, <1>4, SourceAssumption DEF Holder, ClosingHolds
<1>10. OneAtATime'
  <2>1. SUFFICES ASSUME ~raced PROVE /\ \A l, m \in active' : l = m
                                     /\ \A q \in Requests : ~Switching(q)'
    BY <1>0 DEF OneAtATime
  <2>2. Switching(r)
    BY <1>0 DEF Switching
  <2>3. active = {} /\ \A q \in Requests \ {r} : ~Switching(q)
    BY <1>0, <2>1, <2>2 DEF OneAtATime
  <2> QED
    BY <1>0, <1>1, <2>3 DEF Switching
<1>11. NoStrays' /\ CallIsNRI'
  BY <1>0 DEF NoStrays, CallIsNRI
<1> QED
  BY <1>3, <1>5, <1>6, <1>7, <1>8, <1>9, <1>10, <1>11

LEMMA StartFailsStep ==
    ASSUME SInv, NEW r \in Requests, StartFails(r)
    PROVE  SInv'
<1> USE DEF SInv
<1> DEFINE n == req[r].id
<1>0. /\ req[r].pc = "start" /\ mu = Nobody /\ n \in Types /\ Step(r, "done")
      /\ UNCHANGED <<registered, active, activeName, mu, call, ch, strays, core, raced, late>>
  BY DEF StartFails, At, Free, ReqFormed, managerVars
<1>1. /\ req' \in [Requests -> Reqs] /\ \A s \in Requests \ {r} : req'[s] = req[s]
      /\ req'[r].pc = "done"
  BY <1>0, StepIs DEF PCs
<1>2. starts + 1 <= MaxStarts
  BY <1>0, RoomForStart
<1>3. /\ starts' \in {starts, starts + 1} /\ starts' \in 0..MaxStarts /\ gen' \in [Types -> 0..MaxStarts]
      /\ cancelled' \subseteq 0..MaxStarts /\ UNCHANGED <<started, client, loops>>
  <2>1. CASE n \in active
    BY <2>1 DEF StartFails, sourceVars, TypeOK
  <2>2. CASE n \notin active
    BY <1>0, <1>2, <2>2, StartSourceFailsIs DEF StartFails
  <2> QED
    BY <2>1, <2>2
<1>4. core # "boot"
  BY <1>0 DEF Booting
<1> HIDE DEF n
<1>5. TypeOK'
  BY <1>0, <1>1, <1>3 DEF TypeOK, Reqs, PCs, Starts
<1>6. ReqFormed'
  BY <1>0, <1>1 DEF ReqFormed
<1>7. Booting' /\ ActiveIsStarted'
  BY <1>0, <1>3, <1>4 DEF Booting, ActiveIsStarted, Running, Free
<1>8. StartsCounted'
  <2>1. Cardinality(Answers') = Cardinality(Answers) + 1 /\ Cardinality(Answers') \in Nat
    BY <1>0, <1>1, AnswersStep
  <2> QED
    BY <1>0, <1>3, <1>4, <2>1, AnswersFinite DEF StartsCounted, TypeOK
<1>9. Holder' /\ ClosingHolds'
  BY <1>0, <1>3, SourceAssumption DEF Holder, ClosingHolds, Running
<1>10. OneAtATime'
  <2>1. \A q \in Requests : Switching(q)' => Switching(q) /\ req'[q] = req[q]
    BY <1>1 DEF Switching
  <2> QED
    BY <1>0, <2>1 DEF OneAtATime
<1>11. LoopIsActive' /\ OneLoop' /\ NoStrays' /\ CallIsNRI'
  BY <1>0, <1>3 DEF LoopIsActive, OneLoop, NoStrays, CallIsNRI, Starts
<1> QED
  BY <1>5, <1>6, <1>7, <1>8, <1>9, <1>10, <1>11

LEMMA BootStep ==
    ASSUME SInv, Boot
    PROVE  SInv'
<1> USE DEF SInv
<1>0. /\ core = "boot" /\ core' = "running" /\ active = {} /\ activeName = Nobody /\ mu = Nobody
      /\ Running = {} /\ starts = 0 /\ \A r \in Requests : req[r].pc = "new"
      /\ UNCHANGED <<req, call, ch, strays, raced, late>>
  BY DEF Boot, Booting
<1>1. Answers' = Answers
  BY <1>0 DEF Answers
<1>2. ReqFormed' /\ Booting' /\ NoStrays' /\ CallIsNRI'
  BY <1>0 DEF ReqFormed, Booting, NoStrays, CallIsNRI
<1>3. Closer # Nobody /\ Nobody \notin Requests /\ \A r \in Requests : ~Switching(r)'
  BY <1>0, SourceAssumption DEF Switching
<1>4. CASE registered = {}
  <2>1. UNCHANGED <<registered, active, activeName, mu, started, gen, client, starts, cancelled, loops>>
    BY <1>4 DEF Boot, managerVars, sourceVars
  <2>2. TypeOK'
    BY <1>0, <2>1 DEF TypeOK
  <2>3. StartsCounted'
    BY <1>0, <1>1, <2>1, AnswersFinite DEF StartsCounted
  <2>4. ActiveIsStarted' /\ Holder' /\ ClosingHolds' /\ OneAtATime'
    BY <1>0, <1>3, <2>1 DEF ActiveIsStarted, Free, Running, Holder, ClosingHolds, OneAtATime
  <2>5. LoopIsActive' /\ OneLoop'
    BY <1>0, <2>1 DEF LoopIsActive, OneLoop, Starts
  <2> QED
    BY <1>2, <2>2, <2>3, <2>4, <2>5
<1>5. CASE registered # {}
  <2>1. PICK n \in registered : StartSource(n) /\ active' = {n} /\ activeName' = n /\ UNCHANGED <<registered, mu>>
    BY <1>5 DEF Boot
  <2>2. n \in Types /\ n \notin active /\ starts + 1 <= MaxStarts
    BY <1>0, AnswersFinite DEF TypeOK, MaxStarts
  <2>3. /\ starts' = starts + 1 /\ starts' \in 0..MaxStarts /\ gen' \in [Types -> 0..MaxStarts]
        /\ started' \in [Types -> BOOLEAN] /\ client' \in [Types -> BOOLEAN]
        /\ Running' = Running \cup {n} /\ UNCHANGED cancelled
        /\ loops' \in [Starts -> LoopRecs] /\ LoopIsActive' /\ OneLoop'
    BY <1>0, <2>1, <2>2, StartSourceIs
  <2>4. TypeOK'
    BY <1>0, <2>1, <2>2, <2>3 DEF TypeOK, LoopRecs, Starts
  <2>5. StartsCounted'
    BY <1>0, <1>1, <2>3, AnswersFinite DEF StartsCounted
  <2>6. ActiveIsStarted' /\ Holder' /\ ClosingHolds' /\ OneAtATime'
    BY <1>0, <1>3, <2>1, <2>3 DEF ActiveIsStarted, Free, Running, Holder, ClosingHolds, OneAtATime
  <2> QED
    BY <1>2, <2>3, <2>4, <2>5, <2>6
<1> QED
  BY <1>4, <1>5

LEMMA BootFailsStep ==
    ASSUME SInv, BootFails
    PROVE  SInv'
<1> USE DEF SInv
<1>0. /\ core = "boot" /\ core' = "failed" /\ mu = Nobody
      /\ UNCHANGED <<registered, active, activeName, mu, req, call, ch, strays, raced, late>>
  BY DEF BootFails, Booting, managerVars
<1>1. PICK n \in registered : StartSourceFails(n)
  BY DEF BootFails
<1>2. n \in Types /\ starts + 1 <= MaxStarts /\ starts = 0
  BY <1>0, AnswersFinite DEF TypeOK, MaxStarts, Booting
<1>3. /\ starts' = starts + 1 /\ starts' \in 0..MaxStarts /\ gen' \in [Types -> 0..MaxStarts]
      /\ cancelled' \subseteq 0..MaxStarts /\ UNCHANGED <<started, client, loops>>
  BY <1>1, <1>2, StartSourceFailsIs
<1>4. Answers' = Answers
  BY <1>0 DEF Answers
<1>5. TypeOK'
  BY <1>0, <1>3 DEF TypeOK, Starts
<1>6. StartsCounted'
  BY <1>0, <1>2, <1>3, <1>4, AnswersFinite DEF StartsCounted
<1>7. ReqFormed' /\ Booting' /\ NoStrays' /\ CallIsNRI'
  BY <1>0 DEF ReqFormed, Booting, NoStrays, CallIsNRI
<1>8. ActiveIsStarted' /\ Holder' /\ ClosingHolds' /\ OneAtATime'
  BY <1>0, <1>3, SourceAssumption DEF ActiveIsStarted, Free, Running, Holder, ClosingHolds, OneAtATime, Switching
<1>9. LoopIsActive' /\ OneLoop'
  BY <1>0, <1>3 DEF LoopIsActive, OneLoop, Starts
<1> QED
  BY <1>5, <1>6, <1>7, <1>8, <1>9

-----------------------------------------------------------------------------
(* The steps of the goroutines.                                            *)

\* A goroutine goes on for the same source, or ends.
Turned(k) ==
    /\ loops' \in [Starts -> LoopRecs]
    /\ \A j \in Starts \ {k} : loops'[j] = loops[j]
    /\ loops'[k].pc = "gone" \/ loops'[k].src = loops[k].src

LEMMA OwnTyped ==
    ASSUME SInv, NEW k \in Starts, loops[k].pc # "gone"
    PROVE  /\ loops \in [Starts -> LoopRecs] /\ loops[k] \in LoopRecs /\ loops[k].src \in Types
           /\ Own(k) \in 0..MaxStarts
<1> USE DEF SInv
<1> DEFINE UpTo == 0..MaxStarts
<1>1. loops \in [Starts -> LoopRecs] /\ gen \in [Types -> UpTo]
  BY DEF TypeOK, LoopRecs
<1>2. loops[k].src \in Types
  BY DEF LoopIsActive, TypeOK
<1> HIDE DEF UpTo
<1>3. Own(k) \in UpTo
  BY <1>1, <1>2 DEF Own
<1> QED
  BY <1>1, <1>2, <1>3 DEF UpTo

LEMMA GotoTurns ==
    ASSUME SInv, NEW k \in Starts, loops[k].pc # "gone", NEW pc \in {"top", "gone"}, Goto(k, pc)
    PROVE  Turned(k)
<1>0. loops \in [Starts -> LoopRecs] /\ loops[k] \in LoopRecs
  BY OwnTyped
<1>1. CASE pc = "gone"
  <2>1. NoLoop \in LoopRecs /\ NoLoop.pc = "gone"
    BY AnswersFinite DEF NoLoop, LoopRecs
  <2>2. loops' = [loops EXCEPT ![k] = NoLoop]
    BY <1>1 DEF Goto
  <2> QED
    BY <1>0, <2>1, <2>2 DEF Turned
<1>2. CASE pc = "top"
  <2>1. loops' = [loops EXCEPT ![k].pc = "top"]
    BY <1>2 DEF Goto
  <2> QED
    BY <1>0, <2>1 DEF Turned, LoopRecs
<1> QED
  BY <1>1, <1>2

\* It enters a select, with the context that ownCtx names now.
LEMMA SelectTurns ==
    ASSUME SInv, NEW k \in Starts, loops[k].pc # "gone", NEW pc \in {"stream", "backoff"},
           \/ loops' = [loops EXCEPT ![k].pc = pc, ![k].sel = Own(k)]
           \/ loops' = [loops EXCEPT ![k].pc = pc, ![k].sub = Own(k), ![k].sel = Own(k)]
    PROVE  Turned(k)
<1> DEFINE UpTo == 0..MaxStarts
<1> DEFINE o == Own(k)
<1>0. loops \in [Starts -> LoopRecs] /\ loops[k] \in LoopRecs /\ o \in UpTo
  BY OwnTyped
<1> HIDE DEF o, UpTo
<1>1. \A l \in LoopRecs : /\ [l EXCEPT !.pc = pc, !.sel = o] \in LoopRecs
                          /\ [l EXCEPT !.pc = pc, !.sub = o, !.sel = o] \in LoopRecs
                          /\ [l EXCEPT !.pc = pc, !.sel = o].src = l.src
                          /\ [l EXCEPT !.pc = pc, !.sub = o, !.sel = o].src = l.src
  BY <1>0 DEF LoopRecs, UpTo
<1>2. \/ loops' = [loops EXCEPT ![k] = [loops[k] EXCEPT !.pc = pc, !.sel = o]]
      \/ loops' = [loops EXCEPT ![k] = [loops[k] EXCEPT !.pc = pc, !.sub = o, !.sel = o]]
  <2>1. CASE loops' = [loops EXCEPT ![k].pc = pc, ![k].sel = o]
    BY <1>0, <2>1 DEF LoopRecs
  <2>2. CASE loops' = [loops EXCEPT ![k].pc = pc, ![k].sub = o, ![k].sel = o]
    BY <1>0, <2>2 DEF LoopRecs
  <2> QED
    BY <2>1, <2>2 DEF o
<1> QED
  BY <1>0, <1>1, <1>2, ZenonT(30) DEF Turned

LEMMA WaitTurns ==
    ASSUME SInv, NEW k \in Starts, loops[k].pc # "gone", Wait(k) \/ Leave(k)
    PROVE  Turned(k)
<1>1. \/ loops' = [loops EXCEPT ![k].pc = "stream", ![k].sel = Own(k)]
      \/ loops' = [loops EXCEPT ![k].pc = "backoff", ![k].sel = Own(k)]
      \/ Goto(k, "gone")
  BY DEF Wait, Leave
<1> QED
  BY <1>1, SelectTurns, GotoTurns

\* A step of the goroutines, the callbacks or the consumer.
Flows == \/ \E k \in Starts : Loop(k) \/ Disconnect(k) \/ Event(k)
         \/ CallBegins \/ CallEnds \/ Consume

\* What it does: a source that sends has a goroutine, or is NRI.
LEMMA FlowsIs ==
    ASSUME SInv, Flows
    PROVE  /\ UNCHANGED <<managerVars, req, sourceVars, core, raced, late>>
           /\ UNCHANGED loops \/ \E k \in Starts : loops[k].pc # "gone" /\ Turned(k)
           /\ call' \in 0..MaxStarts /\ ch' \in 0..ChanSize
           /\ strays' \subseteq Types /\ strays' \subseteq late \cup {"nri"}
           /\ call' # 0 => "nri" \in Types
<1> USE DEF SInv
<1>0. /\ call \in 0..MaxStarts /\ ch \in 0..ChanSize /\ strays \subseteq Types
      /\ strays \subseteq late \cup {"nri"} /\ (call # 0 => "nri" \in Types)
      /\ ChanSize \in Nat
  BY SourceAssumption DEF TypeOK, NoStrays, CallIsNRI
<1>1. ASSUME NEW n \in Types, Put(n), n \in active \cup late \cup {"nri"}
      PROVE  ch' \in 0..ChanSize /\ strays' \subseteq Types /\ strays' \subseteq late \cup {"nri"}
  <2>1. ch' \in 0..ChanSize
    BY <1>0, <1>1 DEF Put
  <2>2. strays' \subseteq Types /\ strays' \subseteq late \cup {"nri"}
    BY <1>0, <1>1 DEF Put
  <2> QED
    BY <2>1, <2>2
<1>2. ASSUME NEW k \in Starts, Subscribe(k) PROVE loops[k].pc # "gone" /\ Turned(k)
  <2>1. loops[k].pc = "top"
    BY <1>2 DEF Subscribe, In
  <2>2. \/ loops' = [loops EXCEPT ![k].pc = "stream", ![k].sub = Own(k), ![k].sel = Own(k)]
        \/ Goto(k, "gone")
    BY <1>2 DEF Subscribe
  <2> QED
    BY <2>1, <2>2, SelectTurns, GotoTurns
<1>3. ASSUME NEW k \in Starts, StreamDone(k) \/ Disconnect(k) PROVE loops[k].pc # "gone" /\ Turned(k)
  <2>1. loops[k].pc = "stream" /\ Leave(k)
    BY <1>3 DEF StreamDone, Disconnect, In
  <2> QED
    BY <2>1, WaitTurns
<1>4. ASSUME NEW k \in Starts, Backoff(k) PROVE loops[k].pc # "gone" /\ Turned(k)
  <2>1. loops[k].pc = "backoff" /\ (Goto(k, "gone") \/ Goto(k, "top"))
    BY <1>4 DEF Backoff, In
  <2> QED
    BY <2>1, GotoTurns
<1>5. ASSUME NEW k \in Starts, Event(k)
      PROVE  /\ loops[k].pc # "gone" /\ Turned(k)
             /\ ch' \in 0..ChanSize /\ strays' \subseteq Types /\ strays' \subseteq late \cup {"nri"}
  <2>1. loops[k].pc = "stream" /\ (Wait(k) \/ Leave(k))
    BY <1>5 DEF Event, Handled, Ignored, In
  <2>2. loops[k].src \in Types /\ loops[k].src \in active \cup late
    BY <2>1, OwnTyped DEF LoopIsActive
  <2>3. Put(loops[k].src) \/ UNCHANGED <<ch, strays>>
    BY <1>5 DEF Event, Handled, Ignored
  <2> QED
    BY <1>0, <1>1, <2>1, <2>2, <2>3, WaitTurns
<1>6. ASSUME NEW k \in Starts, Loop(k) \/ Disconnect(k) PROVE UNCHANGED <<call, ch, strays>>
  BY <1>6 DEF Loop, Subscribe, StreamDone, Backoff, Disconnect
<1>7. ASSUME NEW k \in Starts, Event(k) PROVE UNCHANGED call
  BY <1>7 DEF Event
<1>8. CASE CallBegins
  <2>1. PICK k \in Starts : loops[k].pc = "stream" /\ loops[k].src = "nri"
    BY <1>8 DEF CallBegins, In
  <2>2. "nri" \in Types /\ call' = Own(k) /\ UNCHANGED <<loops, ch, strays>>
    BY <1>8, <2>1, OwnTyped DEF CallBegins, Own
  <2>3. call' \in 0..MaxStarts
    BY <2>1, <2>2, OwnTyped
  <2> QED
    BY <1>0, <1>8, <2>2, <2>3 DEF CallBegins
<1>9. CASE CallEnds
  <2>1. "nri" \in Types /\ call' = 0 /\ UNCHANGED loops /\ (Put("nri") \/ UNCHANGED <<ch, strays>>)
    BY <1>0, <1>9 DEF CallEnds
  <2>2. 0 \in 0..MaxStarts
    BY AnswersFinite
  <2>3. ch' \in 0..ChanSize /\ strays' \subseteq Types /\ strays' \subseteq late \cup {"nri"}
    BY <1>0, <1>1, <2>1
  <2> QED
    BY <1>9, <2>1, <2>2, <2>3 DEF CallEnds
<1>10. CASE Consume
  <2>1. ch' = ch - 1 /\ ch > 0 /\ UNCHANGED <<loops, call, strays>>
    BY <1>10 DEF Consume
  <2>2. ch' \in 0..ChanSize
    BY <1>0, <2>1
  <2> QED
    BY <1>0, <1>10, <2>1, <2>2 DEF Consume
<1>11. ASSUME NEW k \in Starts, Loop(k) \/ Disconnect(k) \/ Event(k)
       PROVE  UNCHANGED <<managerVars, req, sourceVars, core, raced, late>>
  BY <1>11 DEF Loop, Subscribe, StreamDone, Backoff, Disconnect, Event
<1>12. CASE \E k \in Starts : Loop(k) \/ Disconnect(k)
  <2>1. PICK k \in Starts : Loop(k) \/ Disconnect(k)
    BY <1>12
  <2>2. loops[k].pc # "gone" /\ Turned(k)
    BY <1>2, <1>3, <1>4, <2>1 DEF Loop
  <2> QED
    BY <1>0, <1>6, <1>11, <2>1, <2>2
<1>13. CASE \E k \in Starts : Event(k)
  BY <1>0, <1>5, <1>7, <1>11, <1>13
<1> QED
  BY <1>8, <1>9, <1>10, <1>12, <1>13 DEF Flows

LEMMA FlowsStep ==
    ASSUME SInv, Flows
    PROVE  SInv'
<1> USE DEF SInv
<1>0. /\ UNCHANGED <<registered, active, activeName, mu, req, core, raced, late>>
      /\ UNCHANGED <<started, gen, client, starts, cancelled>>
  BY FlowsIs DEF managerVars, sourceVars
<1>1. /\ call' \in 0..MaxStarts /\ ch' \in 0..ChanSize /\ strays' \subseteq Types
      /\ strays' \subseteq late \cup {"nri"} /\ (call' # 0 => "nri" \in Types)
  BY FlowsIs
<1>2. loops \in [Starts -> LoopRecs]
  BY DEF TypeOK, LoopRecs
<1>3. UNCHANGED loops \/ \E k \in Starts : loops[k].pc # "gone" /\ Turned(k)
  BY FlowsIs
<1>4. loops' \in [Starts -> LoopRecs]
  BY <1>2, <1>3 DEF Turned
<1>5. \A k \in Starts : loops'[k].pc # "gone" => loops[k].pc # "gone" /\ loops'[k].src = loops[k].src
  BY <1>3 DEF Turned
<1>6. TypeOK'
  BY <1>0, <1>1, <1>4 DEF TypeOK, LoopRecs, Starts
<1>7. ReqFormed' /\ Booting' /\ ActiveIsStarted' /\ Holder' /\ ClosingHolds'
  BY <1>0 DEF ReqFormed, Booting, ActiveIsStarted, Free, Running, Holder, ClosingHolds
<1>8. StartsCounted' /\ OneAtATime'
  BY <1>0 DEF StartsCounted, Answers, OneAtATime, Switching
<1>9. LoopIsActive' /\ OneLoop'
  BY <1>0, <1>5 DEF LoopIsActive, OneLoop, Starts
<1>10. NoStrays' /\ CallIsNRI'
  BY <1>0, <1>1 DEF NoStrays, CallIsNRI
<1> QED
  BY <1>6, <1>7, <1>8, <1>9, <1>10

-----------------------------------------------------------------------------
(* The theorems.                                                           *)

LEMMA InitSInv == Init => SInv
<1> SUFFICES ASSUME Init PROVE SInv
  OBVIOUS
<1> USE DEF Init
<1>0. /\ registered \subseteq Types /\ MaxStarts \in Nat /\ ChanSize \in Nat
      /\ Nobody \notin Requests /\ Closer # Nobody
  BY AnswersFinite, SourceAssumption DEF Configured
<1>1. \A r \in Requests : req[r] = NewReq /\ req[r].pc = "new"
  BY DEF NewReq
<1>2. NewReq \in Reqs /\ NoLoop \in LoopRecs /\ 0 \in 0..MaxStarts /\ 0 \in 0..ChanSize
  BY <1>0 DEF NewReq, Reqs, PCs, NoLoop, LoopRecs
<1>3. TypeOK
  <2>1. req \in [Requests -> Reqs] /\ loops \in [Starts -> LoopRecs] /\ gen \in [Types -> 0..MaxStarts]
    BY <1>2
  <2> QED
    BY <1>0, <1>2, <2>1 DEF TypeOK, Reqs, PCs, LoopRecs
<1>4. ReqFormed /\ Booting
  BY <1>1 DEF ReqFormed, Booting, Running
<1>5. StartsCounted
  BY AnswersFinite DEF StartsCounted
<1>6. ActiveIsStarted /\ Holder /\ ClosingHolds
  BY <1>0 DEF ActiveIsStarted, Holder, ClosingHolds
<1>7. OneAtATime
  BY <1>1 DEF OneAtATime, Switching
<1>8. LoopIsActive /\ OneLoop /\ NoStrays /\ CallIsNRI
  BY DEF LoopIsActive, OneLoop, NoStrays, CallIsNRI, NoLoop
<1> QED
  BY <1>3, <1>4, <1>5, <1>6, <1>7, <1>8 DEF SInv

LEMMA SInvStep == SInv /\ [Next]_vars => SInv'
<1> SUFFICES ASSUME SInv, [Next]_vars PROVE SInv'
  OBVIOUS
<1>1. ASSUME UNCHANGED <<managerVars, req, sourceVars, loopVars, raced, late>>,
             \/ core' = core
             \/ core \in {"running", "cancelled"} /\ core' \in {"cancelled", "shut"}
      PROVE  SInv'
  <2> USE DEF SInv
  <2>0. /\ UNCHANGED <<registered, active, activeName, mu, req, raced, late>>
        /\ UNCHANGED <<started, gen, client, starts, cancelled, loops, call, ch, strays>>
    BY <1>1 DEF managerVars, sourceVars, loopVars
  <2>1. TypeOK'
    BY <1>1, <2>0 DEF TypeOK, Starts
  <2>2. ReqFormed' /\ Booting' /\ ActiveIsStarted' /\ Holder' /\ ClosingHolds'
    BY <1>1, <2>0 DEF ReqFormed, Booting, ActiveIsStarted, Free, Running, Holder, ClosingHolds
  <2>3. StartsCounted' /\ OneAtATime'
    BY <1>1, <2>0 DEF StartsCounted, Answers, OneAtATime, Switching
  <2>4. LoopIsActive' /\ OneLoop' /\ NoStrays' /\ CallIsNRI'
    BY <2>0 DEF LoopIsActive, OneLoop, NoStrays, CallIsNRI, Starts
  <2> QED
    BY <2>1, <2>2, <2>3, <2>4
<1>2. CASE UNCHANGED vars
  BY <1>1, <1>2 DEF vars
<1>3. CASE Cancel \/ Shutdown
  BY <1>1, <1>3 DEF Cancel, Shutdown
<1>4. CASE Boot \/ BootFails \/ CloseBegins \/ CloseEnds
  BY <1>4, BootStep, BootFailsStep, CloseBeginsStep, CloseEndsStep
<1>5. ASSUME NEW r \in Requests, Arrive(r) \/ Serve(r) PROVE SInv'
  BY <1>5, AsksStep, StopBeginsStep, StopEndsStep, StartSucceedsStep, StartFailsStep DEF Serve, Asks
<1>6. CASE Flows
  BY <1>6, FlowsStep
<1> QED
  BY <1>2, <1>3, <1>4, <1>5, <1>6 DEF Next, Closing, Runtime, Flows

\* The inductive invariant holds under any interleaving of requests, failing
\* starts, Close, goroutines and callbacks; the bound on the starts is never
\* what stops one.
THEOREM SInvHolds == Spec => []SInv
<1> QED
  BY InitSInv, SInvStep, PTL DEF Spec

\* Whenever the manager's lock is free, what is marked Active is what runs, and
\* activeName names one of it: Stop and StartByName keep map, name and source
\* together though each of them can fail half way.
THEOREM ActiveIsStartedHolds == Spec => []ActiveIsStarted
<1>1. SInv => ActiveIsStarted
  BY DEF SInv
<1> QED
  BY <1>1, SInvHolds, PTL

\* SwitchTo leaves two sources active only when another one overlapped it.
THEOREM SecondNeedsRaceHolds == Spec => []SecondNeedsRace
<1>1. SInv => SecondNeedsRace
  BY AtMostOne DEF SInv, OneAtATime, SecondNeedsRace
<1> QED
  BY <1>1, SInvHolds, PTL

\* Stop of a source leaves no goroutine that could send, and a source never has
\* two of them, unless one of its Stops gave up waiting; only a callback of NRI
\* is not waited for.
THEOREM StopIsThoroughHolds == Spec => []StopIsThorough
<1>1. SInv => StopIsThorough
  <2> SUFFICES ASSUME SInv PROVE StopIsThorough
    OBVIOUS
  <2>1. \A n \in Types : LoopsOf(n) # {} /\ n \notin active => n \in late
    BY DEF SInv, LoopIsActive, LoopsOf
  <2>2. ASSUME NEW n \in Types, n \notin late PROVE ~(Cardinality(LoopsOf(n)) > 1)
    <3>1. \A j, k \in LoopsOf(n) : j = k
      BY <2>2 DEF SInv, OneLoop, LoopsOf
    <3> QED
      BY <3>1, AtMostOne
  <2> QED
    BY <2>1, <2>2 DEF SInv, NoStrays, StopIsThorough
<1> QED
  BY <1>1, SInvHolds, PTL

=============================================================================
