----------------------------- MODULE Components -----------------------------
(***************************************************************************)
(* The component framework of nuts (pkg/component) as the example process  *)
(* uses it (cmd/component-example, pkg/component/examples): one component  *)
(* for each state of the pipeline, with its pool of workers, its stream of *)
(* events and its commands, between the scheduler and its timeouts.        *)
(*                                                                         *)
(* The scheduler is reduced to what a component can see of it: the state   *)
(* of every task, the verdict on a command, and the event that follows on  *)
(* a transition.  An event may get lost, a command may be delivered though *)
(* its sender was told of an error, and commands overtake each other.  One *)
(* goroutine of the scheduler handles commands, another one timeouts; each *)
(* checks a task in one step and moves it in a later one.                  *)
(***************************************************************************)
EXTENDS Naturals, Sequences

CONSTANTS
    Tasks,        \* task IDs
    NoTask,       \* not a task ID
    Transitions,  \* the allowed transitions, pairs <<from, to>>
    Wide,         \* workers of the components that may work in parallel
    MaxRetries,   \* RetryPolicy.MaxRetries of the failover component
    MaxRounds,    \* bound: how often a task is to go back after a timeout
    ChanSize      \* capacity of the channel of a subscription

ASSUME ComponentAssumption ==
    /\ NoTask \notin Tasks
    /\ {Wide, MaxRetries, ChanSize} \subseteq Nat \ {0} /\ MaxRounds \in Nat

\* The components, in the order in which main starts and stops them.
Order == <<"pending", "validating", "processing", "failover">>
Stages == {"pending", "validating", "processing", "failover"}
Terminal == {"completed", "failed", "abandoned"}

\* What each component is made of: the workers of its own configuration, and
\* the state its handler asks for.  Validating asks for the same whether the task
\* has passed its rules or not; the action of a processing task is the
\* scheduler's; failover decides by its count of retries.
PendingComponent == [workers |-> Wide, to |-> "validating"]
ValidatingComponent == [workers |-> Wide, to |-> "processing"]
ProcessingComponent == [workers |-> Wide, to |-> "failover"]
FailoverComponent == [workers |-> 1, to |-> "none"]

Component ==
    [pending |-> PendingComponent, validating |-> ValidatingComponent,
     processing |-> ProcessingComponent, failover |-> FailoverComponent]

VARIABLES
    main, at,        \* what main is doing, and the component it is at
    status,          \* ComponentState.Status
    open, ch,        \* the channel of the subscription, and what it holds
    work,            \* the workers
    retries,         \* retryCounts of the failover component
    timers,          \* its timers under way, by task
    task,            \* the state of every task in the scheduler
    cmds,            \* commands on their way to the scheduler
    moves,           \* what its two goroutines have checked and not yet written
    rounds           \* how often a task was to go back

procVars == <<main, at, status, open, ch, work, retries, timers>>
vars == <<procVars, task, cmds, moves, rounds>>

\* Mutant of PoolSize: the pool takes the size that main gives to Init.
PoolSizeInit(s) == Wide

\* The pool is made with the component, from the configuration the component
\* itself has; the one that main passes to Init comes too late for it.
PoolSize(s) == Component[s].workers
Workers(s) == 1..PoolSize(s)

Gone == [pc |-> "gone", task |-> NoTask, to |-> "none"]
Idle == [pc |-> "select", task |-> NoTask, to |-> "none"]
Commands == Tasks \X {<<s, Component[s].to>> : s \in Stages \ {"failover"}}
            \cup Tasks \X {<<"failover", "completed">>, <<"failover", "abandoned">>}

\* The goroutines of the scheduler.  A move is stale once the other goroutine has
\* moved the task that it is about.
Movers == {"cmd", "tmo"}
NoMove == [task |-> NoTask, to |-> "none", stale |-> FALSE]
Move(t, to) == [task |-> t, to |-> to, stale |-> FALSE]

\* The process before main starts its components.
NewProcess ==
    [main |-> "start", at |-> 1, status |-> [s \in Stages |-> "none"],
     open |-> [s \in Stages |-> FALSE], ch |-> [s \in Stages |-> <<>>],
     work |-> [s \in Stages |-> [w \in Workers(s) |-> Gone]],
     retries |-> [t \in Tasks |-> 0], timers |-> [t \in Tasks |-> 0]]

Init ==
    /\ main = NewProcess.main /\ at = NewProcess.at /\ status = NewProcess.status
    /\ open = NewProcess.open /\ ch = NewProcess.ch /\ work = NewProcess.work
    /\ retries = NewProcess.retries /\ timers = NewProcess.timers
    /\ task = [t \in Tasks |-> "none"]
    /\ cmds = [c \in Commands |-> 0]
    /\ moves = [g \in Movers |-> NoMove]
    /\ rounds = [t \in Tasks |-> 0]

-----------------------------------------------------------------------------
(* The process.                                                            *)

Advance(done) == IF at < Len(Order) THEN at' = at + 1 /\ UNCHANGED main
                 ELSE at' = 1 /\ main' = done

\* Subscribe of the client: a channel, and a stream that feeds it.
Subscribe(s) == open' = [open EXCEPT ![s] = TRUE]

\* BaseComponent.Start: a subscription, and a pool on its channel.
Start ==
    /\ main = "start"
    /\ LET s == Order[at]
       IN  /\ status' = [status EXCEPT ![s] = "running"]
           /\ Subscribe(s)
           /\ work' = [work EXCEPT ![s] = [w \in Workers(s) |-> Idle]]
    /\ Advance("run")
    /\ UNCHANGED <<ch, retries, timers, task, cmds, moves, rounds>>

\* A signal, or the end of the 300 seconds.
Signal ==
    /\ main = "run"
    /\ main' = "stop"
    /\ UNCHANGED <<at, status, open, ch, work, retries, timers, task, cmds, moves, rounds>>

\* BaseComponent.Stop cancels the context of the workers ...
StopBegins ==
    /\ main = "stop" /\ status[Order[at]] = "running"
    /\ status' = [status EXCEPT ![Order[at]] = "stopping"]
    /\ UNCHANGED <<main, at, open, ch, work, retries, timers, task, cmds, moves, rounds>>

\* ... and waits for them.  The subscription stays as it is.
StopEnds ==
    /\ main = "stop" /\ status[Order[at]] = "stopping"
    /\ \A w \in Workers(Order[at]) : work[Order[at]][w] = Gone
    /\ status' = [status EXCEPT ![Order[at]] = "stopped"]
    /\ Advance("exit")
    /\ UNCHANGED <<open, ch, work, retries, timers, task, cmds, moves, rounds>>

\* The process ends, or dies, and is started again: what it knew is gone.
Restart ==
    /\ main # "start"
    /\ main' = NewProcess.main /\ at' = NewProcess.at /\ status' = NewProcess.status
    /\ open' = NewProcess.open /\ ch' = NewProcess.ch /\ work' = NewProcess.work
    /\ retries' = NewProcess.retries /\ timers' = NewProcess.timers
    /\ UNCHANGED <<task, cmds, moves, rounds>>

\* The server ends the stream: the client does not come back from an EOF, and
\* closes the channel.  A component that reads nothing but nil still runs.
EndStream(s) ==
    /\ open[s]
    /\ open' = [open EXCEPT ![s] = FALSE]
    /\ UNCHANGED <<main, at, status, ch, work, retries, timers, task, cmds, moves, rounds>>

-----------------------------------------------------------------------------
(* The workers.                                                            *)

Set(s, w, r) == work' = [work EXCEPT ![s][w] = r]

\* A worker takes an event, even if its context is done by then.
Take(s, w) ==
    /\ work[s][w].pc = "select" /\ ch[s] # <<>>
    /\ ch' = [ch EXCEPT ![s] = Tail(ch[s])]
    /\ Set(s, w, IF s = "failover"
                 THEN [pc |-> "count", task |-> Head(ch[s]), to |-> "none"]
                 ELSE [pc |-> "publish", task |-> Head(ch[s]), to |-> Component[s].to])
    /\ UNCHANGED <<main, at, status, open, retries, timers, task, cmds, moves, rounds>>

\* Mutant of Quit: a worker looks for the end of its context only when there is
\* no event, and a closed channel has one at any time.
QuitLater(s, w) ==
    /\ work[s][w].pc = "select" /\ status[s] = "stopping"
    /\ open[s] /\ ch[s] = <<>>
    /\ Set(s, w, Gone)
    /\ UNCHANGED <<main, at, status, open, ch, retries, timers, task, cmds, moves, rounds>>

Quit(s, w) ==
    /\ work[s][w].pc = "select" /\ status[s] = "stopping"
    /\ Set(s, w, Gone)
    /\ UNCHANGED <<main, at, status, open, ch, retries, timers, task, cmds, moves, rounds>>

\* handleEvent of the failover component reads the count of the task ...
Count(w) ==
    /\ work["failover"][w].pc = "count"
    /\ Set("failover", w, [work["failover"][w] EXCEPT !.pc =
             IF retries[work["failover"][w].task] >= MaxRetries THEN "reset" ELSE "add"])
    /\ UNCHANGED <<main, at, status, open, ch, retries, timers, task, cmds, moves, rounds>>

\* ... and forgets it and gives the task up ...
Reset(w) ==
    /\ work["failover"][w].pc = "reset"
    /\ retries' = [retries EXCEPT ![work["failover"][w].task] = 0]
    /\ Set("failover", w, [work["failover"][w] EXCEPT !.pc = "publish", !.to = "abandoned"])
    /\ UNCHANGED <<main, at, status, open, ch, timers, task, cmds, moves, rounds>>

\* ... or raises it and lets a timer publish the command.
Add(w) ==
    /\ work["failover"][w].pc = "add"
    /\ retries' = [retries EXCEPT ![work["failover"][w].task] = @ + 1]
    /\ timers' = [timers EXCEPT ![work["failover"][w].task] = @ + 1]
    /\ Set("failover", w, Idle)
    /\ UNCHANGED <<main, at, status, open, ch, task, cmds, moves, rounds>>

\* publishViaGRPC: the command reaches the scheduler, or does not; an error,
\* which can come of a timeout in either case, is only counted.
PublishViaGRPC(cmd) ==
    \/ cmds' = [cmds EXCEPT ![cmd] = @ + 1]
    \/ UNCHANGED cmds

PublishStateTransition(t, from, to) == PublishViaGRPC(<<t, <<from, to>>>>)

Publish(s, w) ==
    /\ work[s][w].pc = "publish"
    /\ PublishStateTransition(work[s][w].task, s, work[s][w].to)
    /\ Set(s, w, Idle)
    /\ UNCHANGED <<main, at, status, open, ch, retries, timers, task, moves, rounds>>

\* A timer fires, also after Stop.
Fire(t) ==
    /\ timers[t] > 0
    /\ timers' = [timers EXCEPT ![t] = @ - 1]
    /\ PublishStateTransition(t, "failover", "completed")
    /\ UNCHANGED <<main, at, status, open, ch, work, retries, task, moves, rounds>>

-----------------------------------------------------------------------------
(* The scheduler.                                                          *)

\* The event of a task that has come to state s: on its topic there is at most
\* the component of that state, and it may miss the event.  One that its handler
\* refuses, for want of an ID, is as good as lost.
Announce(t, s) ==
    \/ UNCHANGED ch
    \/ /\ s \in Stages /\ open[s] /\ Len(ch[s]) < ChanSize
       /\ ch' = [ch EXCEPT ![s] = Append(@, t)]

Create(t) ==
    /\ task[t] = "none"
    /\ task' = [task EXCEPT ![t] = "pending"]
    /\ Announce(t, "pending")
    /\ UNCHANGED <<main, at, status, open, work, retries, timers, cmds, moves, rounds>>

\* Mutant of Accepted: the state that the command names is not compared.
AcceptedAnywhere(t, from, to) == task[t] # to /\ <<from, to>> \in Transitions

\* The checks of HandleTransitionCommand, on the task as it is read: a task that
\* is in the state already is left there.
Accepted(t, from, to) ==
    /\ task[t] # to
    /\ task[t] = from
    /\ <<from, to>> \in Transitions

\* A command arrives and is checked.
Command(t, from, to) ==
    /\ moves["cmd"] = NoMove
    /\ cmds[<<t, <<from, to>>>>] > 0
    /\ cmds' = [cmds EXCEPT ![<<t, <<from, to>>>>] = @ - 1]
    /\ moves' = IF Accepted(t, from, to) THEN [moves EXCEPT !["cmd"] = Move(t, to)] ELSE moves
    /\ UNCHANGED <<procVars, task, rounds>>

\* A timeout: the scheduler is to take the task back to its first state, or to
\* archive it; a task in a final state still has its deadline.
Timeout(t) ==
    /\ moves["tmo"] = NoMove
    /\ task[t] # "none"
    /\ \E to \in {"pending"} \cup Terminal :
         /\ Accepted(t, task[t], to)
         /\ to = "pending" => rounds[t] < MaxRounds
         /\ rounds' = IF to = "pending" THEN [rounds EXCEPT ![t] = @ + 1] ELSE rounds
         /\ moves' = [moves EXCEPT !["tmo"] = Move(t, to)]
    /\ UNCHANGED <<procVars, task, cmds>>

\* The moves that are left when goroutine g has moved task t.
Overtaken(g, t) ==
    [h \in Movers |-> IF h = g THEN NoMove
                      ELSE IF moves[h].task = t THEN [moves[h] EXCEPT !.stale = TRUE] ELSE moves[h]]

\* TransitionState, with the publication: the state that was checked is not
\* compared again.
Commit(g) ==
    /\ moves[g] # NoMove
    /\ task' = [task EXCEPT ![moves[g].task] = moves[g].to]
    /\ Announce(moves[g].task, moves[g].to)
    /\ moves' = Overtaken(g, moves[g].task)
    /\ UNCHANGED <<main, at, status, open, work, retries, timers, cmds, rounds>>

\* The write fails, and the move is given up.
CommitFails(g) ==
    /\ moves[g] # NoMove
    /\ moves' = [moves EXCEPT ![g] = NoMove]
    /\ UNCHANGED <<procVars, task, cmds, rounds>>

-----------------------------------------------------------------------------
Main == Start \/ StopBegins \/ StopEnds
Work(s, w) == Take(s, w) \/ Publish(s, w)
Failover(w) == Count(w) \/ Reset(w) \/ Add(w)

Next ==
    \/ Main \/ Signal \/ Restart
    \/ \E s \in Stages : EndStream(s) \/ \E w \in Workers(s) : Work(s, w) \/ Quit(s, w)
    \/ \E w \in Workers("failover") : Failover(w)
    \/ \E t \in Tasks : Fire(t) \/ Create(t) \/ Timeout(t)
    \/ \E c \in Commands : Command(c[1], c[2][1], c[2][2])
    \/ \E g \in Movers : Commit(g) \/ CommitFails(g)

\* main and the workers are goroutines, and Publish has a timeout: some worker
\* in the middle of an event goes on.  The select of a worker chooses at random,
\* so that workers that come back to it again and again see the end of their
\* context some time.
Fairness ==
    /\ WF_vars(Main)
    /\ WF_vars(\/ \E s \in Stages : \E w \in Workers(s) : Publish(s, w)
               \/ \E w \in Workers("failover") : Failover(w))
    /\ SF_vars(\E s \in Stages : \E w \in Workers(s) : Quit(s, w))

Spec == Init /\ [][Next]_vars /\ Fairness

-----------------------------------------------------------------------------
\* The failover component grants a task no more retries than its policy allows,
\* and gives it up only after all of them: the count it decided on is still the
\* count when it acts, though reading and writing take the lock separately.
RetriesBounded ==
    /\ \A t \in Tasks : retries[t] <= MaxRetries
    /\ \A w \in Workers("failover") :
         LET r == work["failover"][w]
         IN  /\ r.pc = "add" => retries[r.task] < MaxRetries
             /\ r.pc = "reset" => retries[r.task] = MaxRetries

Rank(s) == CASE s = "none" -> 0 [] s = "pending" -> 1 [] s = "validating" -> 2
             [] s = "processing" -> 3 [] s = "failover" -> 4 [] OTHER -> 5

Commits(g, t) == moves[g].task = t /\ moves'[g] = NoMove

\* Commands that are late, repeated, of an earlier round of the task, or of a
\* timer that outlived its component never take a task back, nor out of a
\* final state.  Only the scheduler's own timeout does, and a command that was
\* checked before a timeout moved its task and is written after it.
OnlyForward ==
    [][\A t \in Tasks :
         task'[t] # task[t] => \/ Rank(task[t]) < Rank(task'[t])
                               \/ Commits("tmo", t)
                               \/ Commits("cmd", t) /\ moves["cmd"].stale]_vars

\* main gets through its Stop calls: no worker is kept by a stream that has
\* ended, by a channel full of events, or by a scheduler that does not answer.
StopReturns == main = "stop" ~> main # "stop"

=============================================================================
