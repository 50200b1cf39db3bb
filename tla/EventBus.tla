------------------------------ MODULE EventBus ------------------------------
(***************************************************************************)
(* The gRPC event bus of nuts (pkg/eventbus/grpc.go), for one topic: the   *)
(* server inside the scheduler, the streams through which components       *)
(* subscribe, their reconnecting clients, and the publishers.              *)
(*                                                                         *)
(* The list of subscribers is a Go slice: a header (array, length) and a   *)
(* backing array that other headers may share.  publishLocal, called by    *)
(* the scheduler, copies the list under the lock; Publish, the handler of  *)
(* the gRPC call, keeps the header only and reads the array while streams  *)
(* that end shift it in place.  Both send outside the lock.                *)
(*                                                                         *)
(* An event is told apart from others only by the publication under way;   *)
(* a channel is the number of events in it.  On topics of task states a    *)
(* new stream replaces the subscribers there are.                          *)
(***************************************************************************)
EXTENDS Naturals, Sequences, FiniteSets

CONSTANTS
    Clients,           \* subscriptions made by components
    LocalPublishers,   \* goroutines of the scheduler that publish
    RemotePublishers,  \* gRPC calls that publish
    BufferSize,        \* subscriber_buffer_size
    MaxSubs,           \* bound: Subscriber objects made on a topic of task states
    MaxPlainSubs       \* bound: Subscriber objects made on another topic

ASSUME BusAssumption ==
    /\ LocalPublishers \cap RemotePublishers = {}
    /\ BufferSize \in Nat \ {0} /\ MaxSubs \in Nat /\ MaxPlainSubs \in Nat

VARIABLES
    stateTopic,   \* isStateSpecificTopic(topic)
    bus,          \* "up", "cancelled", "closed" or "stopped": how far Close is
    count,        \* Subscriber objects made so far: they are 1..count
    locals,       \* those of the scheduler's own subscriptions
    len, array,   \* subscribers[topic]: its length and its backing array
    closed,       \* subscribers whose channel is closed
    buf,          \* events in the channel of every subscriber
    done,         \* subscribers whose stream context is done
    spc,          \* where the stream handler of every subscriber is
    cpc, conn,    \* where a client is, and the subscriber of its stream
    ppc, view,    \* where a publisher is, and the slice it goes through
    pos,          \* the position it is at
    there,        \* subscribers listed all through its publication (history)
    served,       \* subscribers it has passed (history)
    twice         \* publishers that sent an event twice (history)

listVars == <<count, locals, len, array>>
historyVars == <<there, served, twice>>
pubVars == <<ppc, view, pos, historyVars>>
vars == <<stateTopic, bus, listVars, closed, buf, done, spc,
          cpc, conn, pubVars>>

Publishers == LocalPublishers \cup RemotePublishers
NoSub == 0
Subs == 1..count
NoView == [shared |-> FALSE, len |-> 0, own |-> <<>>]

Elements(n, a) == {a[k] : k \in 1..n}
Listed == Elements(len, array)

\* The bound leaves room for every client that is to connect.
WillConnect(c) == cpc[c] = "connect" \/ (cpc[c] = "recv" /\ conn[c] \in done)
Bound == IF stateTopic THEN MaxSubs ELSE MaxPlainSubs
Room == count + Cardinality({c \in Clients : WillConnect(c)}) < Bound

-----------------------------------------------------------------------------
Init ==
    /\ stateTopic \in BOOLEAN
    /\ bus = "up"
    /\ count = 0 /\ locals = {}
    /\ len = 0 /\ array = <<>>
    /\ closed = {} /\ buf = <<>> /\ done = {} /\ spc = <<>>
    /\ cpc = [c \in Clients |-> "connect"] /\ conn = [c \in Clients |-> NoSub]
    /\ ppc = [p \in Publishers |-> "idle"]
    /\ view = [p \in Publishers |-> NoView]
    /\ pos = [p \in Publishers |-> 1]
    /\ there = [p \in LocalPublishers |-> {}]
    /\ served = [p \in LocalPublishers |-> {}] /\ twice = {}

-----------------------------------------------------------------------------
(* The slice.  Its capacity is the length of its array.                    *)

\* The list gets another array, or none: nobody changes the old one any more,
\* and the publishers that were reading it go on with it.
NewArray(n, a) ==
    /\ len' = n /\ array' = a
    /\ view' = [p \in Publishers |->
                  IF view[p].shared THEN [view[p] EXCEPT !.shared = FALSE, !.own = array]
                  ELSE view[p]]

\* append: in place as long as the array has room, or into one twice as long.
AppendSub(x) ==
    IF len < Len(array)
    THEN len' = len + 1 /\ array' = [array EXCEPT ![len + 1] = x] /\ UNCHANGED view
    ELSE NewArray(len + 1, [k \in 1..(IF len = 0 THEN 1 ELSE 2 * len) |->
                              IF k <= len THEN array[k]
                              ELSE IF k = len + 1 THEN x ELSE NoSub])

\* append(subs[:i], subs[i+1:]...): what follows x moves down in the array,
\* and the last position keeps what it held.
Dropped(x) ==
    LET i == CHOOSE k \in 1..len : array[k] = x
    IN  [k \in DOMAIN array |-> IF k \in i..(len - 1) THEN array[k + 1] ELSE array[k]]

\* Whoever leaves the list has not been there all along.
KeepThere == there' = [p \in LocalPublishers |-> there[p] \cap Elements(len', array')]

-----------------------------------------------------------------------------
(* Subscriptions.                                                          *)

NewSub(label) ==
    /\ count' = count + 1
    /\ buf' = Append(buf, 0)
    /\ spc' = Append(spc, label)

\* subscribeLocal
SubscribeLocal ==
    /\ bus = "up" /\ ~stateTopic /\ Room
    /\ NewSub("local")
    /\ locals' = locals \cup {count + 1}
    /\ AppendSub(count + 1)
    /\ UNCHANGED <<stateTopic, bus, closed, done, cpc, conn, ppc, pos, historyVars>>

\* Mutants of Register: the others on a topic of task states are kept, or
\* closed and still listed.
RegisterBeside(s) == UNCHANGED closed /\ AppendSub(s)

RegisterUncleared(s) ==
    closed' = (IF stateTopic THEN closed \cup Listed ELSE closed) /\ AppendSub(s)

\* The handler lists the stream, on a topic of task states in place of all
\* others, whose channels it closes.
Register(s) ==
    IF stateTopic /\ len > 0
    THEN closed' = closed \cup Listed /\ NewArray(1, <<s>>)
    ELSE UNCHANGED closed /\ AppendSub(s)

\* A client's stream reaches the server.
Subscribe(c) ==
    /\ cpc[c] = "connect" /\ bus # "stopped"
    /\ NewSub("stream")
    /\ Register(count + 1)
    /\ KeepThere
    /\ cpc' = [cpc EXCEPT ![c] = "recv"]
    /\ conn' = [conn EXCEPT ![c] = count + 1]
    /\ UNCHANGED <<stateTopic, bus, locals, done, ppc, pos, served, twice>>

\* The client gives its subscription up and closes the component's channel.
Exit(c) ==
    /\ cpc' = [cpc EXCEPT ![c] = "exit"]
    /\ conn' = [conn EXCEPT ![c] = NoSub]

Goto(s, label) == spc' = [spc EXCEPT ![s] = label]

\* The handler sends an event on the stream, and on an error returns.
StreamSend(s) ==
    /\ spc[s] = "stream" /\ buf[s] > 0
    /\ buf' = [buf EXCEPT ![s] = @ - 1]
    /\ IF s \in done THEN Goto(s, "remove") ELSE UNCHANGED spc
    /\ UNCHANGED <<stateTopic, bus, listVars, closed, done, cpc, conn, pubVars>>

\* Mutant of HasEnded: the end of the stream itself is not watched.
HasEndedClosed(s) == s \in closed /\ buf[s] = 0

HasEnded(s) == (s \in closed /\ buf[s] = 0) \/ s \in done

\* It returns when the channel is closed and empty, or the stream is done.
StreamEnds(s) ==
    /\ spc[s] = "stream"
    /\ HasEnded(s)
    /\ Goto(s, "remove")
    /\ UNCHANGED <<stateTopic, bus, listVars, closed, buf, done,
                   cpc, conn, pubVars>>

\* Mutant of Unlist: the whole topic is removed.
UnlistAll(s) == len' = 0 /\ UNCHANGED array

\* The subscriber is removed, by its identity, if it is still listed.
Unlist(s) == IF s \in Listed THEN len' = len - 1 /\ array' = Dropped(s)
                            ELSE UNCHANGED <<len, array>>

\* Its deferred function removes the subscriber, ...
RemoveSub(s) ==
    /\ spc[s] = "remove"
    /\ Unlist(s)
    /\ KeepThere
    /\ Goto(s, "close")
    /\ UNCHANGED <<stateTopic, bus, count, locals, closed, buf, done,
                   cpc, conn, ppc, view, pos, served, twice>>

\* ... closes the channel, and the stream is over: the client reads its end,
\* unless it has lost the stream before.
CloseSub(s) ==
    /\ spc[s] = "close"
    /\ Goto(s, "gone")
    /\ closed' = closed \cup {s}
    /\ buf' = [buf EXCEPT ![s] = 0]
    /\ done' = done \cup {s}
    /\ IF s \in done THEN UNCHANGED <<cpc, conn>>
       ELSE \E c \in Clients : conn[c] = s /\ Exit(c)
    /\ UNCHANGED <<stateTopic, bus, listVars, pubVars>>

\* The scheduler takes an event from a channel of its own.
LocalReceive(s) ==
    /\ spc[s] = "local" /\ buf[s] > 0
    /\ buf' = [buf EXCEPT ![s] = @ - 1]
    /\ UNCHANGED <<stateTopic, bus, listVars, closed, done, spc,
                   cpc, conn, pubVars>>

\* The channels of all subscribers are closed and the list is deleted.
CloseListed ==
    /\ closed' = closed \cup Listed
    /\ NewArray(0, <<>>)
    /\ KeepThere
    /\ UNCHANGED <<stateTopic, count, locals, buf, done, spc, cpc, conn,
                   ppc, pos, served, twice>>

\* Unsubscribe at the server.
Unsubscribe ==
    /\ bus = "up" /\ len > 0
    /\ CloseListed
    /\ UNCHANGED bus

\* Close: the context, the channels, the server with its streams.
CancelBus ==
    /\ bus = "up"
    /\ bus' = "cancelled"
    /\ UNCHANGED <<stateTopic, listVars, closed, buf, done, spc,
                   cpc, conn, pubVars>>

CloseAll ==
    /\ bus = "cancelled"
    /\ bus' = "closed"
    /\ CloseListed

StopServer ==
    /\ bus = "closed"
    /\ bus' = "stopped"
    /\ done' = done \cup (Subs \ locals)
    /\ UNCHANGED <<stateTopic, listVars, closed, buf, spc,
                   cpc, conn, pubVars>>

-----------------------------------------------------------------------------
(* The clients: subscribeViaGRPC.                                          *)

\* The network breaks a stream.  The two ends learn of it separately.
BreakStream(c) ==
    /\ cpc[c] = "recv" /\ conn[c] \notin done /\ Room
    /\ done' = done \cup {conn[c]}
    /\ UNCHANGED <<stateTopic, bus, listVars, closed, buf, spc, cpc, conn, pubVars>>

\* Recv fails with an error that is not the end of the stream.
Reconnect(c) ==
    /\ cpc[c] = "recv" /\ conn[c] \in done
    /\ cpc' = [cpc EXCEPT ![c] = "connect"]
    /\ conn' = [conn EXCEPT ![c] = NoSub]
    /\ UNCHANGED <<stateTopic, bus, listVars, closed, buf, done, spc, pubVars>>

\* The component closes its end of the bus: the stream is cancelled.
CancelClient(c) ==
    /\ cpc[c] \in {"connect", "recv"}
    /\ Exit(c)
    /\ done' = done \cup ({conn[c]} \ {NoSub})
    /\ UNCHANGED <<stateTopic, bus, listVars, closed, buf, spc, pubVars>>

-----------------------------------------------------------------------------
(* Publishers.                                                             *)

Begin(p, v) ==
    /\ ppc[p] = "idle" /\ len > 0
    /\ ppc' = [ppc EXCEPT ![p] = "send"]
    /\ view' = [view EXCEPT ![p] = v]
    /\ UNCHANGED <<stateTopic, bus, listVars, closed, buf, done, spc, cpc, conn,
                   pos, served, twice>>

Shared == [shared |-> TRUE, len |-> len, own |-> <<>>]
Copied == [shared |-> FALSE, len |-> len, own |-> SubSeq(array, 1, len)]

\* Mutant of PublishLocal: the snapshot is the slice itself, not a copy of it.
PublishLocalShared(p) == Begin(p, Shared) /\ there' = [there EXCEPT ![p] = Listed]

PublishLocal(p) == Begin(p, Copied) /\ there' = [there EXCEPT ![p] = Listed]

\* Components publish commands only, whose topic is not one of task states.
Publish(p) == ~stateTopic /\ Begin(p, Shared) /\ UNCHANGED there

\* The subscriber the publisher is at.
Current(p) == IF view[p].shared THEN array[pos[p]] ELSE view[p].own[pos[p]]
Sending(p) == ppc[p] = "send" /\ pos[p] <= view[p].len

\* <-sub.Ctx.Done(): the stream's context, or that of the bus.
CtxDone(s) == IF s \in locals THEN bus # "up" ELSE s \in done

\* The publisher goes on to the next subscriber.
Pass(p) ==
    /\ pos' = [pos EXCEPT ![p] = @ + 1]
    /\ served' = [q \in LocalPublishers |->
                    IF q = p THEN served[q] \cup {Current(p)} ELSE served[q]]
    /\ UNCHANGED <<stateTopic, bus, listVars, closed, done, spc, cpc, conn,
                   ppc, view, there>>

\* sub.Ch <- event
Send(p) ==
    /\ Sending(p)
    /\ Current(p) \notin closed /\ buf[Current(p)] < BufferSize
    /\ buf' = [buf EXCEPT ![Current(p)] = @ + 1]
    /\ twice' = IF p \in LocalPublishers /\ Current(p) \in served[p]
                THEN twice \cup {p} ELSE twice
    /\ Pass(p)

\* The channel stays full for subscriberSendTimeout: the event is dropped.
\* The gRPC call has no such case and waits.
Drop(p) ==
    /\ Sending(p) /\ p \in LocalPublishers
    /\ Current(p) \notin closed /\ buf[Current(p)] = BufferSize
    /\ Pass(p)
    /\ UNCHANGED <<buf, twice>>

SkipDone(p) ==
    /\ Sending(p) /\ CtxDone(Current(p))
    /\ Pass(p)
    /\ UNCHANGED <<buf, twice>>

Leave(p, label) ==
    /\ ppc' = [ppc EXCEPT ![p] = label]
    /\ view' = [view EXCEPT ![p] = NoView]
    /\ pos' = [pos EXCEPT ![p] = 1]
    /\ there' = [q \in LocalPublishers |-> IF q = p THEN {} ELSE there[q]]
    /\ served' = [q \in LocalPublishers |-> IF q = p THEN {} ELSE served[q]]
    /\ UNCHANGED <<stateTopic, bus, listVars, closed, buf, done, spc, cpc, conn, twice>>

\* A send on a closed channel panics; the gRPC call recovers from it and
\* returns, the scheduler's goroutine ends.
SendPanics(p) ==
    /\ Sending(p) /\ Current(p) \in closed
    /\ Leave(p, IF p \in LocalPublishers THEN "panicked" ELSE "idle")

Finish(p) == ppc[p] = "send" /\ ~Sending(p) /\ Leave(p, "idle")

-----------------------------------------------------------------------------
StreamStep(s) == StreamSend(s) \/ StreamEnds(s) \/ RemoveSub(s) \/ CloseSub(s)

PublishStep(p) == Send(p) \/ Drop(p) \/ SkipDone(p) \/ SendPanics(p) \/ Finish(p)

Next ==
    \/ SubscribeLocal \/ Unsubscribe
    \/ CancelBus \/ CloseAll \/ StopServer
    \/ \E c \in Clients : Subscribe(c) \/ BreakStream(c)
                          \/ Reconnect(c) \/ CancelClient(c)
    \/ \E s \in Subs : StreamStep(s) \/ LocalReceive(s)
    \/ \E p \in LocalPublishers : PublishLocal(p)
    \/ \E p \in RemotePublishers : Publish(p)
    \/ \E p \in Publishers : PublishStep(p)

Spec == Init /\ [][Next]_vars

\* Goroutines keep running: a client that lost its stream notices, tries again
\* after at most a minute (subBackoff) and gets through in the end while the
\* server is there; a publication goes on while it can.  Streams may break as
\* long as the bound lets them, and nobody has to subscribe, publish or stop.
Fairness ==
    /\ \A s \in 1..(MaxSubs + MaxPlainSubs) : WF_vars(s \in Subs /\ StreamStep(s))
    /\ \A c \in Clients : WF_vars(Subscribe(c)) /\ WF_vars(Reconnect(c))
    /\ \A p \in Publishers : WF_vars(PublishStep(p))

FairSpec == Spec /\ Fairness

-----------------------------------------------------------------------------
(* Properties.                                                             *)

\* Every variable has its type.
TypeOK ==
    /\ stateTopic \in BOOLEAN
    /\ bus \in {"up", "cancelled", "closed", "stopped"}
    /\ count \in 0..Bound /\ locals \subseteq Subs
    /\ len \in 0..Len(array) /\ \A k \in DOMAIN array : array[k] \in 0..count
    /\ closed \subseteq Subs /\ done \subseteq Subs \ locals
    /\ buf \in [Subs -> 0..BufferSize]
    /\ spc \in [Subs -> {"local", "stream", "remove", "close", "gone"}]
    /\ cpc \in [Clients -> {"connect", "recv", "exit"}]
    /\ conn \in [Clients -> 0..count]
    /\ ppc \in [Publishers -> {"idle", "send", "panicked"}]
    /\ \A p \in Publishers : Sending(p) => Current(p) \in Subs

\* No channel in the list is closed and nobody is listed twice: Subscribe and
\* Unsubscribe clear the list in the critical section in which they close, the
\* deferred function of a stream removes before it closes.  A publication that
\* starts now cannot panic unless the list changes under it.
ListedIsOpen ==
    /\ Listed \cap closed = {}
    /\ \A j, k \in 1..len : array[j] = array[k] => j = k

\* A running stream whose channel is open is listed: the late clean-up of a
\* replaced or broken stream removes itself only, never its successor.
StreamIsListed ==
    \A s \in Subs : spc[s] \in {"stream", "local"} /\ s \notin closed => s \in Listed

\* A topic of task states has one subscriber at most, so one component works
\* on a task in a given state.
SingleSubscriber == stateTopic => len <= 1

\* A publication of the scheduler passes every subscriber that is listed all
\* along, and none twice, while others come and go.
EachServedOnce ==
    \A p \in LocalPublishers :
        /\ p \notin twice
        /\ ppc[p] = "send" /\ ~Sending(p) => there[p] \subseteq served[p]

\* While components that were not told to stop are left, the topic keeps
\* getting a subscriber back.
Served ==
    []<>(\/ bus # "up" \/ Listed # {}
         \/ \A c \in Clients : cpc[c] = "exit")

\* After Close, every stream handler and every publication comes to its end.
CloseDrains ==
    bus = "stopped" ~>
        /\ \A s \in Subs : spc[s] \in {"local", "gone"}
        /\ \A p \in Publishers : ppc[p] # "send"

=============================================================================
