---------------------------- MODULE DataSources -----------------------------
(***************************************************************************)
(* The data source manager of nuts (pkg/datasource) under concurrent HTTP  *)
(* requests, from Core.Start to Core.Stop, with the sources below it: the  *)
(* event loop of containerd with its reconnection, the plugin of NRI with  *)
(* its callbacks, and the generator of the mock.                           *)
(*                                                                         *)
(* Every start of a source takes the next number of a sequence; the number *)
(* stands for the context and for the goroutine that the start creates.    *)
(* A goroutine does not keep its context: it reads the field ownCtx, which *)
(* a later start of the same source overwrites, whenever it enters a       *)
(* select.  `sel' is the context of the select the goroutine is in, `sub'  *)
(* the one it subscribed with.                                             *)
(***************************************************************************)
EXTENDS Naturals, FiniteSets

CONSTANTS
    Types,      \* types of sources in the factory, which are also their names
    Sections,   \* types with a section of their own in the configuration
    Requests,   \* HTTP requests that reach the process
    Nobody,     \* the empty name; no holder of the lock
    Closer,     \* the goroutine that runs Core.Stop
    ChanSize    \* capacity of the event channel

ASSUME SourceAssumption ==
    /\ Types \subseteq {"containerd", "nri", "mock"} /\ Sections \subseteq Types
    /\ IsFiniteSet(Requests)
    /\ Nobody \notin Types \cup Requests \cup {Closer} /\ Closer \notin Requests
    /\ ChanSize \in Nat \ {0}

VARIABLES
    registered, active, activeName, mu, \* DataSourceManager
    req,        \* where every request is, and what it has read
    started, gen, client,               \* per source: started, ownCtx, client or stub
    starts,     \* number of starts so far
    cancelled,  \* starts whose context was cancelled by the source itself
    loops,      \* the goroutine of every start
    call,       \* context of the select that a callback of NRI is in, 0 if none
    ch,         \* number of events in the channel
    core,       \* how far the process is
    raced,      \* two switches went on at the same time
    late,       \* sources for which a Stop gave up waiting
    strays      \* sources that sent an event while they were not active

managerVars == <<registered, active, activeName, mu>>
sourceVars == <<started, gen, client, starts, cancelled>>
loopVars == <<loops, call, ch, strays>>
vars == <<managerVars, req, sourceVars, loopVars, core, raced, late>>

MaxStarts == Cardinality(Requests) + 1
Starts == 1..MaxStarts
CtxDone == core \notin {"boot", "running"}
\* Mutant of Done: a source starts on a context of the background.
DoneOwn(g) == g \in cancelled

\* The context of a start is done: it derives from the one of the core.
Done(g) == CtxDone \/ g \in cancelled

NewReq == [pc |-> "new", op |-> "none", id |-> Nobody, prev |-> Nobody]
Answered == [NewReq EXCEPT !.pc = "done"]
NoLoop == [src |-> Nobody, pc |-> "gone", sub |-> 0, sel |-> 0]
LoopsOf(n) == {k \in Starts : loops[k].src = n /\ loops[k].pc # "gone"}

\* The goroutine that a start creates.  The second one of the mock only waits
\* for the same context.
NewLoop(n) == [src |-> n, pc |-> "top", sub |-> 0, sel |-> 0]

\* What DataSourceManager.Init registers: the configured type, if there is one,
\* with or without a section of its own.  An error ends the process.
Configured == {{}} \cup {{n} : n \in Types}

\* What the factory may answer for a type that is created on demand: without a
\* section it is not even asked; a section may not be parsed or not be valid.
CreateWithMap(n) == {FALSE} \cup {n \in Sections}

\* initDataSources: the channel and the manager.
Init ==
    /\ registered \in Configured
    /\ active = {} /\ activeName = Nobody /\ mu = Nobody
    /\ req = [r \in Requests |-> NewReq]
    /\ started = [n \in Types |-> FALSE] /\ gen = [n \in Types |-> 0]
    /\ client = [n \in Types |-> FALSE]
    /\ starts = 0 /\ cancelled = {}
    /\ loops = [k \in Starts |-> NoLoop] /\ call = 0 /\ ch = 0
    /\ core = "boot" /\ raced = FALSE /\ late = {} /\ strays = {}

-----------------------------------------------------------------------------
(* Start and Stop of a source.                                             *)

\* Start of a source that is not running: a context of its own, its client,
\* and its goroutine.
StartSource(n) ==
    /\ ~started[n]
    /\ starts' = starts + 1
    /\ gen' = [gen EXCEPT ![n] = starts + 1]
    /\ started' = [started EXCEPT ![n] = TRUE]
    /\ client' = [client EXCEPT ![n] = TRUE]
    /\ loops' = [loops EXCEPT ![starts + 1] = NewLoop(n)]
    /\ UNCHANGED cancelled

\* The client, the event mask or the stub cannot be made; the mock has none.
StartSourceFails(n) ==
    /\ n # "mock" /\ ~started[n]
    /\ starts' = starts + 1
    /\ gen' = [gen EXCEPT ![n] = starts + 1]
    /\ cancelled' = cancelled \cup {starts + 1}
    /\ UNCHANGED <<started, client, loops>>

\* The first half of Stop, up to the wait for the goroutines.
BeginStop(n) ==
    /\ started' = [started EXCEPT ![n] = FALSE]
    /\ cancelled' = cancelled \cup {gen[n]}
    /\ UNCHANGED <<gen, client, starts>>

\* Sources for which a Stop gave up, once the one of n is over: its goroutines
\* have ended, or the stop timeout has passed.
LateAfter(n) == IF LoopsOf(n) = {} THEN late ELSE late \cup {n}

\* Mutant of EndStop: Stop does not wait for its goroutines.
EndStopEarly(n) ==
    /\ client' = [client EXCEPT ![n] = FALSE]
    /\ UNCHANGED <<started, gen, starts, cancelled, late>>

\* The second half: the client is closed after the wait.
EndStop(n) ==
    /\ late' = LateAfter(n)
    /\ client' = [client EXCEPT ![n] = FALSE]
    /\ UNCHANGED <<started, gen, starts, cancelled>>

-----------------------------------------------------------------------------
(* Core.Start: DataSourceManager.Start, before there is an HTTP server.    *)

Boot ==
    /\ core = "boot"
    /\ core' = "running"
    /\ IF registered = {} THEN UNCHANGED <<managerVars, sourceVars, loops>>
       ELSE \E n \in registered :
              /\ StartSource(n)
              /\ active' = {n} /\ activeName' = n /\ UNCHANGED <<registered, mu>>
    /\ UNCHANGED <<req, call, ch, raced, late, strays>>

\* The source cannot be started: Core.Start returns the error.
BootFails ==
    /\ core = "boot"
    /\ core' = "failed"
    /\ \E n \in registered : StartSourceFails(n)
    /\ UNCHANGED <<managerVars, req, call, ch, raced, late, strays>>

-----------------------------------------------------------------------------
(* The requests.  A request that waits for the lock takes no step.         *)

\* Of a request that is answered nothing is left.
Step(r, pc) == req' = IF pc = "done" THEN [req EXCEPT ![r] = Answered]
                      ELSE [req EXCEPT ![r].pc = pc]
At(r, pc) == req[r].pc = pc
Free == mu = Nobody

\* HandleDataSourceControl: disable and switch.  The server takes requests
\* until it is shut down.
Disable(r, n) ==
    /\ At(r, "new") /\ core \in {"running", "cancelled"}
    /\ req' = [req EXCEPT ![r] = [pc |-> "stop", op |-> "disable", id |-> n, prev |-> n]]
    /\ UNCHANGED <<managerVars, sourceVars, loopVars, core, raced, late>>

Switch(r, n) ==
    /\ At(r, "new") /\ core \in {"running", "cancelled"}
    /\ req' = [req EXCEPT ![r] = [pc |-> "ensure", op |-> "switch", id |-> n, prev |-> Nobody]]
    /\ UNCHANGED <<managerVars, sourceVars, loopVars, core, raced, late>>

\* ensureRegistered: the look at the map, and the creation from the section.
Ensure(r) ==
    /\ At(r, "ensure") /\ Free
    /\ IF req[r].id \in registered THEN Step(r, "look")
       ELSE \E ok \in CreateWithMap(req[r].id) : Step(r, IF ok THEN "register" ELSE "done")
    /\ UNCHANGED <<managerVars, sourceVars, loopVars, core, raced, late>>

\* Mutant of Register: a registration replaces the one that is there.
RegisterAgain(r) ==
    /\ At(r, "register") /\ Free
    /\ registered' = registered \cup {req[r].id} /\ active' = active \ {req[r].id}
    /\ Step(r, "look")
    /\ UNCHANGED <<activeName, mu, sourceVars, loopVars, core, raced, late>>

\* Register: in the meantime another request may have done the same.
Register(r) ==
    /\ At(r, "register") /\ Free
    /\ IF req[r].id \in registered
       THEN Step(r, "done") /\ UNCHANGED registered
       ELSE Step(r, "look") /\ registered' = registered \cup {req[r].id}
    /\ UNCHANGED <<active, activeName, mu, sourceVars, loopVars, core, raced, late>>

\* The source that SwitchTo takes for the active one.
Previous == IF activeName # Nobody THEN {activeName}
            ELSE IF active # {} THEN active ELSE {Nobody}

Switching(r) == req[r].op = "switch" /\ req[r].pc \in {"stop", "wait", "start"}

\* Mutant of Look: SwitchTo keeps its read lock until it returns.
LookLocked(r) ==
    /\ At(r, "look") /\ Free
    /\ \E p \in Previous :
         IF p = req[r].id THEN Step(r, "done") /\ UNCHANGED mu
         ELSE /\ req' = [req EXCEPT ![r].prev = p,
                                    ![r].pc = IF p = Nobody THEN "start" ELSE "stop"]
              /\ mu' = r
    /\ raced' = (raced \/ \E s \in Requests : Switching(s))
    /\ UNCHANGED <<registered, active, activeName, sourceVars, loopVars, core, late>>

\* SwitchTo: the active source, or the answer "already active".
Look(r) ==
    /\ At(r, "look") /\ Free
    /\ \E p \in Previous :
         IF p = req[r].id THEN Step(r, "done")
         ELSE req' = [req EXCEPT ![r].prev = p,
                                 ![r].pc = IF p = Nobody THEN "start" ELSE "stop"]
    /\ raced' = (raced \/ \E s \in Requests : Switching(s))
    /\ UNCHANGED <<managerVars, sourceVars, loopVars, core, late>>

\* What follows on a Stop without an error.
AfterStop(r) == Step(r, IF req[r].op = "switch" THEN "start" ELSE "done")

\* Stop: an unknown name is an error, an inactive source is left alone.
StopSkips(r) ==
    /\ At(r, "stop") /\ Free
    /\ req[r].prev \notin active
    /\ IF req[r].prev \in registered THEN AfterStop(r) ELSE Step(r, "done")
    /\ UNCHANGED <<managerVars, sourceVars, loopVars, core, raced, late>>

\* Stop holds the lock while it waits for the source.
StopBegins(r) ==
    /\ At(r, "stop") /\ Free
    /\ req[r].prev \in active
    /\ mu' = r /\ BeginStop(req[r].prev) /\ Step(r, "wait")
    /\ UNCHANGED <<registered, active, activeName, loopVars, core, raced, late>>

\* Mutant of StopEnds: the changed copy of the wrapper is not put back.
StopEndsCopy(r) ==
    /\ At(r, "wait") /\ mu = r
    /\ EndStop(req[r].prev)
    /\ activeName' = Nobody /\ mu' = Nobody
    /\ AfterStop(r)
    /\ UNCHANGED <<registered, active, loopVars, core, raced>>

\* The source has stopped: Stop marks it and returns.
StopEnds(r) ==
    /\ At(r, "wait") /\ mu = r
    /\ EndStop(req[r].prev)
    /\ active' = active \ {req[r].prev} /\ activeName' = Nobody /\ mu' = Nobody
    /\ AfterStop(r)
    /\ UNCHANGED <<registered, loopVars, core, raced>>

\* StartByName.
StartSucceeds(r) ==
    /\ At(r, "start") /\ Free
    /\ req[r].id \notin active
    /\ StartSource(req[r].id)
    /\ active' = active \cup {req[r].id} /\ activeName' = req[r].id
    /\ Step(r, "done")
    /\ UNCHANGED <<registered, mu, call, ch, strays, core, raced, late>>

\* It is active already, or cannot be started: no source takes over the place
\* of the one that was stopped.
StartFails(r) ==
    /\ At(r, "start") /\ Free
    /\ IF req[r].id \in active THEN UNCHANGED <<sourceVars, loops>>
       ELSE StartSourceFails(req[r].id)
    /\ Step(r, "done")
    /\ UNCHANGED <<managerVars, call, ch, strays, core, raced, late>>

-----------------------------------------------------------------------------
(* The event loops.                                                        *)

Goto(k, pc) == loops' = IF pc = "gone" THEN [loops EXCEPT ![k] = NoLoop]
                        ELSE [loops EXCEPT ![k].pc = pc]
In(k, pc) == loops[k].pc = pc
Own(k) == gen[loops[k].src]

\* The goroutine enters the select of its stream and reads ownCtx for it.
Wait(k) == loops' = [loops EXCEPT ![k].pc = "stream", ![k].sel = Own(k)]

\* A stream that ends: only containerd looks at ownCtx again and, if that is
\* not done, tries again after a while.
Leave(k) ==
    IF loops[k].src = "containerd" /\ ~Done(Own(k))
    THEN loops' = [loops EXCEPT ![k].pc = "backoff", ![k].sel = Own(k)]
    ELSE Goto(k, "gone")

\* client.Subscribe, stub.Run, or the ticker.  Without a client the goroutine
\* panics, which is recovered and ends it.
Subscribe(k) ==
    /\ In(k, "top")
    /\ LET n == loops[k].src
       IN  IF (n # "mock" => client[n]) /\ (n = "containerd" => ~Done(Own(k)))
           THEN loops' = [loops EXCEPT ![k].pc = "stream", ![k].sub = Own(k),
                                       ![k].sel = Own(k)]
           ELSE Goto(k, "gone")
    /\ UNCHANGED <<managerVars, req, sourceVars, call, ch, strays, core, raced, late>>

\* The context of the select is done, or the one that containerd's stream was
\* subscribed with.  Run of the NRI stub minds no context: it returns when the
\* connection is lost, or on a Stop of the stub that nobody calls.
StreamDone(k) ==
    /\ In(k, "stream") /\ loops[k].src # "nri"
    /\ Done(loops[k].sel) \/ (loops[k].src = "containerd" /\ Done(loops[k].sub))
    /\ Leave(k)
    /\ UNCHANGED <<managerVars, req, sourceVars, call, ch, strays, core, raced, late>>

\* The runtime ends the stream, or the connection.
Disconnect(k) ==
    /\ In(k, "stream") /\ loops[k].src # "mock"
    /\ Leave(k)
    /\ UNCHANGED <<managerVars, req, sourceVars, call, ch, strays, core, raced, late>>

\* A send on the event channel.
Put(n) ==
    /\ ch < ChanSize /\ ch' = ch + 1
    /\ strays' = IF n \in active THEN strays ELSE strays \cup {n}

\* An envelope of a known topic, or a tick, becomes an event: it is sent, given
\* up, or dropped.
Handled(k) ==
    \/ Put(loops[k].src) /\ Wait(k)
    \/ Done(Own(k)) /\ Leave(k) /\ UNCHANGED <<ch, strays>>
    \/ ch = ChanSize /\ ~Done(Own(k)) /\ Wait(k) /\ UNCHANGED <<ch, strays>>

\* handleEnvelope makes nothing of an envelope of another topic, or of one it
\* cannot decode.
Ignored(k) ==
    loops[k].src = "containerd" /\ Wait(k) /\ UNCHANGED <<ch, strays>>

\* Something comes out of the stream, or out of the ticker.
Event(k) ==
    /\ In(k, "stream") /\ loops[k].src # "nri"
    /\ Handled(k) \/ Ignored(k)
    /\ UNCHANGED <<managerVars, req, sourceVars, call, core, raced, late>>

Backoff(k) ==
    /\ In(k, "backoff")
    /\ \/ Done(loops[k].sel) /\ Goto(k, "gone")
       \/ Goto(k, "top")
    /\ UNCHANGED <<managerVars, req, sourceVars, call, ch, strays, core, raced, late>>

\* A callback of the runtime waits for room in the channel, or for its context.
CallBegins ==
    /\ call = 0
    /\ \E k \in Starts : In(k, "stream") /\ loops[k].src = "nri"
    /\ call' = gen["nri"]
    /\ UNCHANGED <<managerVars, req, sourceVars, loops, ch, strays, core, raced, late>>

CallEnds ==
    /\ call # 0
    /\ Put("nri") \/ (Done(call) /\ UNCHANGED <<ch, strays>>)
    /\ call' = 0
    /\ UNCHANGED <<managerVars, req, sourceVars, loops, core, raced, late>>

\* processEvents takes an event.
Consume ==
    /\ ch > 0 /\ ~CtxDone
    /\ ch' = ch - 1
    /\ UNCHANGED <<managerVars, req, sourceVars, loops, call, strays, core, raced, late>>

-----------------------------------------------------------------------------
(* Core.Stop.                                                              *)

Cancel ==
    /\ core = "running"
    /\ core' = "cancelled"
    /\ UNCHANGED <<managerVars, req, sourceVars, loopVars, raced, late>>

\* HTTPServer.Shutdown returns when all requests have, or after its timeout.
Shutdown ==
    /\ core = "cancelled"
    /\ core' = "shut"
    /\ UNCHANGED <<managerVars, req, sourceVars, loopVars, raced, late>>

\* DataSourceManager.Close: only the source called activeName is stopped.
CloseBegins ==
    /\ core = "shut" /\ Free
    /\ IF activeName \in registered
       THEN /\ core' = "closing" /\ mu' = Closer /\ BeginStop(activeName)
            /\ UNCHANGED activeName
       ELSE /\ core' = "closed" /\ activeName' = Nobody
            /\ UNCHANGED <<mu, sourceVars>>
    /\ UNCHANGED <<registered, active, req, loopVars, raced, late>>

CloseEnds ==
    /\ core = "closing"
    /\ core' = "closed"
    /\ EndStop(activeName)
    /\ active' = active \ {activeName} /\ activeName' = Nobody /\ mu' = Nobody
    /\ UNCHANGED <<registered, req, loopVars, raced>>

-----------------------------------------------------------------------------
Arrive(r) == \E n \in Types : Disable(r, n) \/ Switch(r, n)
Serve(r) == \/ Ensure(r) \/ Register(r) \/ Look(r) \/ StopSkips(r)
            \/ StopBegins(r) \/ StopEnds(r) \/ StartSucceeds(r) \/ StartFails(r)
Loop(k) == Subscribe(k) \/ StreamDone(k) \/ Backoff(k)
Runtime == CallBegins \/ \E k \in Starts : Disconnect(k) \/ Event(k)
Closing == Shutdown \/ CloseBegins \/ CloseEnds

Next == \/ Boot \/ BootFails \/ Cancel \/ Closing
        \/ \E r \in Requests : Arrive(r) \/ Serve(r)
        \/ Runtime \/ CallEnds \/ Consume
        \/ \E k \in Starts : Loop(k)

\* A request is carried on by its goroutine: Stop has a timeout, and a mutex
\* of Go is not kept from a goroutine for ever.  So are the event loops, by
\* timers at the latest, and Core.Stop.  A select chooses at random, so a loop
\* that finds its context done does not take an event each time.
Fairness ==
    /\ \A r \in Requests : WF_vars(Serve(r))
    /\ \A k \in Starts : WF_vars(Loop(k))
    /\ WF_vars(Closing)

Spec == Init /\ [][Next]_vars /\ Fairness

-----------------------------------------------------------------------------
TypeOK ==
    /\ registered \subseteq Types /\ active \subseteq registered
    /\ activeName \in Types \cup {Nobody} /\ mu \in Requests \cup {Nobody, Closer}
    /\ req \in [Requests ->
          [pc : {"new", "ensure", "register", "look", "stop", "wait", "start", "done"},
           op : {"none", "disable", "switch"}, id : Types \cup {Nobody},
           prev : Types \cup {Nobody}]]
    /\ started \in [Types -> BOOLEAN] /\ client \in [Types -> BOOLEAN]
    /\ starts \in 0..MaxStarts /\ gen \in [Types -> 0..MaxStarts]
    /\ cancelled \subseteq 0..MaxStarts
    /\ loops \in [Starts ->
          [src : Types \cup {Nobody}, sub : 0..MaxStarts, sel : 0..MaxStarts,
           pc : {"top", "stream", "backoff", "gone"}]]
    /\ call \in 0..MaxStarts /\ ch \in 0..ChanSize
    /\ core \in {"boot", "failed", "running", "cancelled", "shut", "closing", "closed"}
    /\ raced \in BOOLEAN /\ late \subseteq Types /\ strays \subseteq Types

\* Whenever the lock is free, the sources marked Active are the ones that run,
\* and activeName names one of them, whatever starts, failures and stops went
\* before: a failed start leaves a source that can be started again.
ActiveIsStarted ==
    Free => /\ active = {n \in Types : started[n]}
            /\ activeName # Nobody => activeName \in active

\* Two sources are active only if two switches overlapped: each of them then
\* had read the same previous source.
SecondNeedsRace == Cardinality(active) > 1 => raced

\* After Stop a source has no goroutine and sends nothing, and it never has two
\* event loops, unless a Stop of it gave up waiting; a callback of NRI is the
\* one thing that Stop does not wait for.
StopIsThorough ==
    /\ \A n \in Types : LoopsOf(n) # {} /\ n \notin active => n \in late
    /\ \A n \in Types : Cardinality(LoopsOf(n)) > 1 => n \in late
    /\ strays \subseteq late \cup {"nri"}

\* Every request is answered, though it waits for the lock, for another
\* request's Stop and for its own.
RequestEnds == \A r \in Requests : req[r].pc # "new" ~> req[r].pc = "done"

\* Core.Stop comes to its end, and from then on no goroutine of containerd or of
\* the mock is left, not even of a source that a request started during or after
\* Close.  The one of NRI stays as long as the runtime keeps the connection.
ClosedIsQuiet ==
    core = "cancelled" ~> [](/\ core = "closed"
                             /\ \A k \in Starts : loops[k].pc = "gone" \/ loops[k].src = "nri")

=============================================================================
