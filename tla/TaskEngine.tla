----------------------------- MODULE TaskEngine -----------------------------
(***************************************************************************)
(* The task scheduler of nuts: the three goroutines of pkg/core/core.go    *)
(* that create, move and time out tasks, the state machine engine they     *)
(* call (pkg/task/state_machine_engine.go) and the persistent task table   *)
(* they share.                                                             *)
(*                                                                         *)
(*   handler  the policy-matched handler: takes a slot of the concurrency  *)
(*            semaphore, creates the task, arms its deadline, publishes    *)
(*   "cmd"    the transition-command handler: runs the commands that the   *)
(*            external components send                                     *)
(*   "tmo"    the timeout checker with its callback: retries or archives   *)
(*            the tasks whose deadline has passed                          *)
(*                                                                         *)
(* "cmd" and "tmo" both enter HandleTransitionCommand, which validates a   *)
(* copy of the task (EngineGet) and only later takes the task's lock and   *)
(* writes (EngineCommit): the two steps of two goroutines interleave.      *)
(*                                                                         *)
(* Components are the environment: once a component was told of a task,    *)
(* any command for it may arrive, late, more than once, or never.          *)
(* A deadline is "none", "armed" (in the future) or "expired".             *)
(* The deletion of old archived tasks is left to module TaskStore.         *)
(***************************************************************************)
EXTENDS StateMachine, FiniteSets

CONSTANTS
    Tasks,           \* task identifiers (UUIDs)
    NoTask,          \* not a task identifier
    Pending,         \* the state Create gives a task (TaskStatePending)
    Transitions,     \* the allowed transitions, pairs <<from, to>>
    AutoRetry,       \* the states configured with auto_retry
    RetryTo,         \* retry_to_state of the states, defaulted to InitialState
    MaxRetries,      \* max_retries of the states
    MaxConcurrent,   \* capacity of taskSem
    ChanSize,        \* capacity of policyMatchedCh
    MaxRestarts,     \* bound: how often the process crashes and restarts
    Faulty,          \* TRUE: a call to the database may fail
    Panics           \* TRUE: publishing may panic (send on a closed channel)

ASSUME ConfigAssumption ==
    /\ InitialState \in States /\ Pending \in States
    /\ TerminalStates \in Seq(States)
    /\ Transitions \subseteq States \X States
    /\ AutoRetry \subseteq States
    /\ RetryTo \in [States -> States]
    /\ MaxRetries \in [States -> Nat]

\* Validate accepts configurations that break these three; no shipped one does.
ASSUME NonTerminalAssumption ==
    /\ InitialState \notin Terminal
    /\ Pending \notin Terminal
    /\ \A s \in AutoRetry : RetryTo[s] \notin Terminal

ASSUME BoundAssumption ==
    /\ IsFiniteSet(Tasks) /\ NoTask \notin Tasks
    /\ MaxConcurrent \in Nat /\ ChanSize \in Nat /\ MaxRestarts \in Nat
    /\ Faulty \in BOOLEAN /\ Panics \in BOOLEAN

VARIABLES
    tasks,     \* keys of the task table                          (persistent)
    rec,       \* the stored record of every task                 (persistent)
    told,      \* tasks that some component was told of           (environment)
    queue,     \* events waiting in policyMatchedCh
    sem,       \* slots taken in taskSem
    heap,      \* tasks with an entry in the timeout heap
    handler,   \* [pc, task] of the policy-matched handler
    pc,        \* where "cmd" and "tmo" are
    call,      \* their HandleTransitionCommand call
    restarts   \* crashes so far

vars == <<tasks, rec, told, queue, sem, heap, handler, pc, call, restarts>>

Goroutines == {"cmd", "tmo"}
Deadlines == {"none", "armed", "expired"}

Record == [state : States, archived : BOOLEAN, retry : Nat,
           timeout : Deadlines, result : BOOLEAN]

\* A TransitionCommand, the caller that built it, the position of a timeout
\* archive in TerminalStates, and what the engine's own Get told it: was the
\* task archived, has its deadline passed.
Call == [mode : {"command", "retry", "archive"}, task : Tasks \cup {NoTask},
         from : States, to : States, retry : Nat, alt : Nat,
         archived : BOOLEAN, late : BOOLEAN]

NoCall == [mode |-> "command", task |-> NoTask, from |-> InitialState,
           to |-> InitialState, retry |-> 0, alt |-> 0,
           archived |-> FALSE, late |-> FALSE]

NewRecord == [state |-> Pending, archived |-> FALSE, retry |-> 0,
              timeout |-> "none", result |-> FALSE]

\* Where the policy-matched handler is, and the task it is creating.
At(label, t) == [pc |-> label, task |-> t]

Active == {t \in tasks : ~rec[t].archived}

IsTerminalState(s) == s \in Terminal
IsTransitionAllowed(from, to) == <<from, to>> \in Transitions

-----------------------------------------------------------------------------
Init ==
    /\ tasks = {}
    /\ rec = [t \in Tasks |-> NewRecord]
    /\ told = {}
    /\ queue = 0
    /\ sem = 0
    /\ heap = {}
    /\ handler = At("idle", NoTask)
    /\ pc = [g \in Goroutines |-> "idle"]
    /\ call = [g \in Goroutines |-> NoCall]
    /\ restarts = 0

-----------------------------------------------------------------------------
(* Policy matches and the handler that turns them into tasks.              *)

\* processMatchedEvent: a full channel drops the event.
PolicyMatched ==
    /\ queue < ChanSize
    /\ queue' = queue + 1
    /\ UNCHANGED <<tasks, rec, told, sem, heap, handler, pc, call, restarts>>

TakeMatched ==
    /\ handler.pc = "idle" /\ queue > 0
    /\ queue' = queue - 1
    /\ handler' = At("acquire", handler.task)
    /\ UNCHANGED <<tasks, rec, told, sem, heap, pc, call, restarts>>

\* Blocks while every slot is taken.
AcquireSlot ==
    /\ handler.pc = "acquire" /\ sem < MaxConcurrent
    /\ sem' = sem + 1
    /\ handler' = At("create", handler.task)
    /\ UNCHANGED <<tasks, rec, told, queue, heap, pc, call, restarts>>

\* CreateTask, first write: store.Create under a fresh identifier.
StoreCreate ==
    /\ handler.pc = "create"
    /\ \/ \E t \in Tasks \ tasks :
            /\ tasks' = tasks \cup {t}
            /\ rec' = [rec EXCEPT ![t] = NewRecord]
            /\ handler' = At("initial", t)
       \/ /\ Faulty
          /\ handler' = At("release", NoTask)
          /\ UNCHANGED <<tasks, rec>>
    /\ UNCHANGED <<told, queue, sem, heap, pc, call, restarts>>

\* Mutant of SetInitialState: the deadline is never written.
SetInitialStateNoDeadline ==
    /\ handler.pc = "initial"
    /\ rec' = [rec EXCEPT ![handler.task].state = InitialState]
    /\ handler' = At("publish", handler.task)
    /\ UNCHANGED <<tasks, told, queue, sem, heap, pc, call, restarts>>

\* CreateTask, second write, UpdateStateWithRecord, and the read behind it.
\* When one of them fails the slot is given back and the record stays behind.
SetInitialState ==
    /\ handler.pc = "initial"
    /\ \/ /\ rec' = [rec EXCEPT ![handler.task].state = InitialState]
          /\ \/ handler' = At("deadline", handler.task)
             \/ Faulty /\ handler' = At("release", NoTask)
       \/ /\ Faulty
          /\ handler' = At("release", NoTask)
          /\ UNCHANGED rec
    /\ UNCHANGED <<tasks, told, queue, sem, heap, pc, call, restarts>>

\* taskStore.Update(t) with TimeoutAt set, then timeoutChecker.Push. The write
\* replaces the record by the copy CreateTask returned, so it goes through only
\* when the version, hence the record, is still that copy. A failure is logged.
SetDeadline ==
    /\ handler.pc = "deadline"
    /\ LET copy == [NewRecord EXCEPT !.state = InitialState]
       IN \/ /\ rec[handler.task] = copy
             /\ rec' = [rec EXCEPT ![handler.task].timeout = "armed"]
             /\ heap' = heap \cup {handler.task}
          \/ /\ Faulty \/ rec[handler.task] # copy
             /\ UNCHANGED <<rec, heap>>
    /\ handler' = At("publish", handler.task)
    /\ UNCHANGED <<tasks, told, queue, sem, pc, call, restarts>>

\* Publish is best effort: a component hears of the state, or none does.
PublishCreated ==
    /\ handler.pc = "publish"
    /\ told' \in {told, told \cup {handler.task}}
    /\ \/ handler' = At("idle", NoTask)
       \/ Panics /\ handler' = At("dead", NoTask)
    /\ UNCHANGED <<tasks, rec, queue, sem, heap, pc, call, restarts>>

\* The receive from taskSem after a failed CreateTask blocks while it is empty.
ReleaseAfterFailure ==
    /\ handler.pc = "release" /\ sem > 0
    /\ sem' = sem - 1
    /\ handler' = At("idle", NoTask)
    /\ UNCHANGED <<tasks, rec, told, queue, heap, pc, call, restarts>>

-----------------------------------------------------------------------------
(* HandleTransitionCommand, run by "cmd" or by "tmo".                      *)

\* Mutant of EngineVerdict: the current state is not compared.
EngineVerdictUnchecked(c, r) ==
    IF r.state = c.to THEN IF c.mode = "retry" THEN "count" ELSE "ok"
    ELSE IF IsTransitionAllowed(c.from, c.to) THEN "commit" ELSE "err"

\* Step 2: nothing left to do but the retry count. Steps 3 and 4: the checks.
EngineVerdict(c, r) ==
    IF r.state = c.to THEN IF c.mode = "retry" THEN "count" ELSE "ok"
    ELSE IF r.state = c.from /\ IsTransitionAllowed(c.from, c.to)
    THEN "commit" ELSE "err"

\* What the engine keeps of the copy of the task that Get returns.
Looked(c, r) ==
    [c EXCEPT !.archived = r.archived, !.late = (r.timeout = "expired")]

\* Steps 1-4, on that copy.
EngineGet(g) ==
    /\ pc[g] = "get"
    /\ LET t == call[g].task
       IN \/ /\ t \in tasks
             /\ call' = [call EXCEPT ![g] = Looked(@, rec[t])]
             /\ pc' = [pc EXCEPT ![g] = EngineVerdict(call[g], rec[t])]
          \/ /\ Faulty \/ t \notin tasks
             /\ pc' = [pc EXCEPT ![g] = "err"]
             /\ UNCHANGED call
    /\ UNCHANGED <<tasks, rec, told, queue, sem, heap, handler, restarts>>

\* Mutants of Transitioned: the archive mark is left to a later write; the
\* retry count is written whether or not the command carries one.
TransitionedUnmarked(r, c) ==
    [r EXCEPT !.state = c.to, !.retry = IF c.mode = "retry" THEN c.retry ELSE @]
TransitionedRecounted(r, c) ==
    [r EXCEPT !.state = c.to, !.archived = @ \/ IsTerminalState(c.to),
              !.retry = c.retry]

\* What TransitionState writes for a validated command: the deadline and the
\* archive mark are derived from the copy EngineGet read.
Transitioned(r, c) ==
    [r EXCEPT !.state = c.to,
              !.archived = IF IsTerminalState(c.to) THEN TRUE
                           ELSE IF c.archived THEN FALSE ELSE @,
              !.retry = IF c.mode = "retry" THEN c.retry ELSE @,
              !.timeout = IF c.mode = "retry" THEN "armed"
                          ELSE IF ~IsTerminalState(c.to) /\ c.late
                          THEN "none" ELSE @]

\* Steps 5-7: TransitionState under the task's lock, with the publication of
\* the new state as its postCommit. The stored state is not checked again.
EngineCommit(g) ==
    /\ pc[g] = "commit"
    /\ LET c == call[g]
       IN \/ /\ c.task \in tasks
             /\ rec' = [rec EXCEPT ![c.task] = Transitioned(rec[c.task], c)]
             /\ told' \in {told, told \cup {c.task}}
             /\ \/ pc' = [pc EXCEPT ![g] = "ok"]
                \/ Panics /\ pc' = [pc EXCEPT ![g] = "dead"]
          \/ /\ Faulty \/ c.task \notin tasks
             /\ pc' = [pc EXCEPT ![g] = "err"]
             /\ UNCHANGED <<rec, told>>
    /\ UNCHANGED <<tasks, queue, sem, heap, handler, call, restarts>>

\* Step 2 of a retry to the state the task is already in: TransitionState
\* writes back the state that was read, with the new retry count; the deadline
\* stays as it is and no event is published.
Counted(r, c) == [r EXCEPT !.state = c.to, !.retry = c.retry]

EngineCount(g) ==
    /\ pc[g] = "count"
    /\ LET c == call[g]
       IN \/ /\ c.task \in tasks
             /\ rec' = [rec EXCEPT ![c.task] = Counted(rec[c.task], c)]
             /\ pc' = [pc EXCEPT ![g] = "ok"]
          \/ /\ Faulty \/ c.task \notin tasks
             /\ pc' = [pc EXCEPT ![g] = "err"]
             /\ UNCHANGED rec
    /\ UNCHANGED <<tasks, told, queue, sem, heap, handler, call, restarts>>

\* The goroutine has handled its command or timeout.
Return(g) ==
    /\ pc' = [pc EXCEPT ![g] = "idle"]
    /\ call' = [call EXCEPT ![g] = NoCall]

-----------------------------------------------------------------------------
(* The transition-command handler.                                         *)

\* Mutant of Released: the receive has no default case for an empty channel.
ReleasedUnchecked == sem - 1

\* A non-blocking receive from taskSem.
Released == IF sem > 0 THEN sem - 1 ELSE 0

CommandCall(t, from, to) == [NoCall EXCEPT !.task = t, !.from = from, !.to = to]

ReceiveCommand ==
    /\ pc["cmd"] = "idle"
    /\ \E t \in told, from \in States, to \in States :
         call' = [call EXCEPT !["cmd"] = CommandCall(t, from, to)]
    /\ pc' = [pc EXCEPT !["cmd"] = "get"]
    /\ UNCHANGED <<tasks, rec, told, queue, sem, heap, handler, restarts>>

\* handleTransitionCommand after the engine returned: a terminal target gives
\* a slot back, also when the engine had nothing left to do.
FinishCommand ==
    /\ pc["cmd"] \in {"ok", "err"}
    /\ sem' = IF pc["cmd"] = "ok" /\ IsTerminalState(call["cmd"].to)
              THEN Released ELSE sem
    /\ Return("cmd")
    /\ UNCHANGED <<tasks, rec, told, queue, heap, handler, restarts>>

-----------------------------------------------------------------------------
(* The timeout checker and its callback.                                   *)

\* Time passes the stored deadline of t. An engine call that has copied the
\* task and not yet read the clock finds the deadline in its copy passed too.
DeadlinePasses(t) ==
    /\ t \in tasks /\ rec[t].timeout = "armed"
    /\ rec' = [rec EXCEPT ![t].timeout = "expired"]
    /\ \E G \in SUBSET {g \in Goroutines : pc[g] = "commit" /\ call[g].task = t} :
         call' = [g \in Goroutines |-> IF g \in G THEN [call[g] EXCEPT !.late = TRUE]
                                       ELSE call[g]]
    /\ UNCHANGED <<tasks, told, queue, sem, heap, handler, pc, restarts>>

\* Mutant of RebuildHeap: deadlines that have passed are left out.
RebuildHeapFutureOnly ==
    /\ pc["tmo"] = "idle"
    /\ heap' = {t \in Active : rec[t].timeout = "armed"}
    /\ UNCHANGED <<tasks, rec, told, queue, sem, handler, pc, call, restarts>>

\* rebuildHeap: the unarchived tasks with a deadline that List could read
\* replace the heap.
RebuildHeap ==
    /\ pc["tmo"] = "idle"
    /\ \E seen \in IF Faulty THEN SUBSET Active ELSE {Active} :
         heap' = {t \in seen : rec[t].timeout # "none"}
    /\ UNCHANGED <<tasks, rec, told, queue, sem, handler, pc, call, restarts>>

\* onTimeout(task.ID, task.State).
TimeoutCall(t, r) == [NoCall EXCEPT !.task = t, !.from = r.state]

\* checkTimeoutsAndGetNextWake pops an entry whose deadline has passed and
\* validates it against the store; archived tasks are not excluded.
PopExpired(t) ==
    /\ pc["tmo"] = "idle"
    /\ t \in heap /\ rec[t].timeout # "armed"
    /\ heap' = heap \ {t}
    /\ \/ /\ t \in tasks /\ rec[t].timeout = "expired"
          /\ pc' = [pc EXCEPT !["tmo"] = "handle"]
          /\ call' = [call EXCEPT !["tmo"] = TimeoutCall(t, rec[t])]
       \/ /\ Faulty \/ t \notin tasks \/ rec[t].timeout # "expired"
          /\ UNCHANGED <<pc, call>>
    /\ UNCHANGED <<tasks, rec, told, queue, sem, handler, restarts>>

\* handleTimeoutEvent reads the task again and stops unless it is still in the
\* state the checker saw.
TimeoutStillValid ==
    /\ call["tmo"].task \in tasks
    /\ rec[call["tmo"].task].state = call["tmo"].from

SkipTimeout ==
    /\ pc["tmo"] = "handle"
    /\ Faulty \/ ~TimeoutStillValid
    /\ Return("tmo")
    /\ UNCHANGED <<tasks, rec, told, queue, sem, heap, handler, restarts>>

\* Mutant of MayRetry: one retry too many.
MayRetryOnceMore(t) ==
    /\ rec[t].state \in AutoRetry
    /\ rec[t].retry <= MaxRetries[rec[t].state]

MayRetry(t) ==
    /\ rec[t].state \in AutoRetry
    /\ rec[t].retry < MaxRetries[rec[t].state]

\* handleTaskRetry before the backoff of the last state change is over.
BackoffNotElapsed ==
    /\ pc["tmo"] = "handle" /\ TimeoutStillValid
    /\ MayRetry(call["tmo"].task)
    /\ Return("tmo")
    /\ UNCHANGED <<tasks, rec, told, queue, sem, heap, handler, restarts>>

\* The command that handleTaskRetry builds from the task it was given.
RetryCall(c, r) ==
    [c EXCEPT !.mode = "retry", !.to = RetryTo[r.state], !.retry = r.retry + 1]

HandleTaskRetry ==
    /\ pc["tmo"] = "handle" /\ TimeoutStillValid
    /\ LET t == call["tmo"].task
       IN /\ MayRetry(t)
          /\ call' = [call EXCEPT !["tmo"] = RetryCall(@, rec[t])]
    /\ pc' = [pc EXCEPT !["tmo"] = "get"]
    /\ UNCHANGED <<tasks, rec, told, queue, sem, heap, handler, restarts>>

ArchiveCall(c, j) ==
    [c EXCEPT !.mode = "archive", !.alt = j, !.to = TerminalStates[j]]

\* handleTaskArchive tries the terminal states in their configured order,
\* from position i on, and skips those the configuration does not allow.
ArchiveFrom(i) ==
    \/ \E j \in i..Len(TerminalStates) :
         /\ IsTransitionAllowed(call["tmo"].from, TerminalStates[j])
         /\ \A k \in i..(j - 1) :
              ~IsTransitionAllowed(call["tmo"].from, TerminalStates[k])
         /\ call' = [call EXCEPT !["tmo"] = ArchiveCall(@, j)]
         /\ pc' = [pc EXCEPT !["tmo"] = "get"]
    \/ /\ \A j \in i..Len(TerminalStates) :
            ~IsTransitionAllowed(call["tmo"].from, TerminalStates[j])
       /\ Return("tmo")

HandleTaskArchive ==
    /\ pc["tmo"] = "handle" /\ TimeoutStillValid
    /\ ~MayRetry(call["tmo"].task)
    /\ ArchiveFrom(1)
    /\ UNCHANGED <<tasks, rec, told, queue, sem, heap, handler, restarts>>

ArchiveNextTerminal ==
    /\ pc["tmo"] = "err" /\ call["tmo"].mode = "archive"
    /\ ArchiveFrom(call["tmo"].alt + 1)
    /\ UNCHANGED <<tasks, rec, told, queue, sem, heap, handler, restarts>>

\* Mutant of FinishArchive: a failed UpdateResult returns before the release.
FinishArchiveEarlyReturn ==
    /\ pc["tmo"] = "ok" /\ call["tmo"].mode = "archive"
    /\ \/ rec' = [rec EXCEPT ![call["tmo"].task].result = TRUE] /\ sem' = Released
       \/ Faulty /\ UNCHANGED <<rec, sem>>
    /\ Return("tmo")
    /\ UNCHANGED <<tasks, told, queue, heap, handler, restarts>>

\* The end of handleTaskArchive: UpdateResult, then a slot is given back.
FinishArchive ==
    /\ pc["tmo"] = "ok" /\ call["tmo"].mode = "archive"
    /\ \/ rec' = [rec EXCEPT ![call["tmo"].task].result = TRUE]
       \/ Faulty /\ UNCHANGED rec
    /\ sem' = Released
    /\ Return("tmo")
    /\ UNCHANGED <<tasks, told, queue, heap, handler, restarts>>

\* The end of handleTaskRetry: the new deadline goes into the heap.
FinishRetry ==
    /\ pc["tmo"] \in {"ok", "err"} /\ call["tmo"].mode = "retry"
    /\ heap' = IF pc["tmo"] = "ok" THEN heap \cup {call["tmo"].task} ELSE heap
    /\ Return("tmo")
    /\ UNCHANGED <<tasks, rec, told, queue, sem, handler, restarts>>

-----------------------------------------------------------------------------
\* A crash loses everything but the task table. On the next start
\* recoverOrphanedTasks archives terminal tasks that are not archived, and
\* initTaskScheduler fills the semaphore with the unarchived tasks.
Recovered(r) ==
    IF IsTerminalState(r.state) THEN [r EXCEPT !.archived = TRUE] ELSE r

SmallerOf(a, b) == IF a < b THEN a ELSE b

\* Tasks that cannot be read then are neither recovered nor counted.
Restart ==
    /\ restarts < MaxRestarts
    /\ restarts' = restarts + 1
    /\ \E seen \in IF Faulty THEN SUBSET tasks ELSE {tasks} :
         /\ rec' = [t \in Tasks |-> IF t \in seen THEN Recovered(rec[t]) ELSE rec[t]]
         /\ sem' = SmallerOf(Cardinality({t \in seen : ~rec'[t].archived}),
                             MaxConcurrent)
    /\ queue' = 0
    /\ heap' = {}
    /\ handler' = At("idle", NoTask)
    /\ pc' = [g \in Goroutines |-> "idle"]
    /\ call' = [g \in Goroutines |-> NoCall]
    /\ UNCHANGED <<tasks, told>>

-----------------------------------------------------------------------------
HandlerStep ==
    \/ TakeMatched \/ AcquireSlot \/ StoreCreate \/ SetInitialState
    \/ SetDeadline \/ PublishCreated \/ ReleaseAfterFailure

EngineStep(g) == EngineGet(g) \/ EngineCommit(g) \/ EngineCount(g)

TimeoutStep ==
    \/ RebuildHeap \/ \E t \in Tasks : PopExpired(t)
    \/ SkipTimeout \/ BackoffNotElapsed \/ HandleTaskRetry
    \/ HandleTaskArchive \/ ArchiveNextTerminal \/ FinishArchive \/ FinishRetry

Next ==
    \/ PolicyMatched \/ HandlerStep
    \/ \E g \in Goroutines : EngineStep(g)
    \/ ReceiveCommand \/ FinishCommand
    \/ \E t \in Tasks : DeadlinePasses(t)
    \/ TimeoutStep
    \/ Restart

Spec == Init /\ [][Next]_vars

\* What the checker's goroutine does once it has popped an entry.
TimeoutWork ==
    \/ EngineStep("tmo") \/ SkipTimeout \/ BackoffNotElapsed \/ HandleTaskRetry
    \/ HandleTaskArchive \/ ArchiveNextTerminal \/ FinishArchive \/ FinishRetry

\* The checker's goroutine keeps running; every pass over the heap is finite
\* and drains the expired entries, every timeout_rebuild_interval-th pass
\* rebuilds it; the backoff of a task is at most max_backoff_seconds, so a
\* task that keeps timing out meets a pass on which it has elapsed. Nothing is
\* assumed of components, of their commands, or of the policy-matched handler.
Fairness ==
    /\ WF_vars(TimeoutWork)
    /\ SF_vars(RebuildHeap)
    /\ SF_vars(HandleTaskRetry)
    /\ \A t \in Tasks : SF_vars(PopExpired(t))

FairSpec == Spec /\ Fairness

-----------------------------------------------------------------------------
(* Properties.                                                             *)

\* Every variable stays in its type, and whoever refers to a task (components,
\* the heap, a goroutine at work) refers to one that is stored.
TypeOK ==
    /\ tasks \subseteq Tasks
    /\ rec \in [Tasks -> Record]
    /\ told \subseteq tasks
    /\ queue \in 0..ChanSize
    /\ sem \in 0..MaxConcurrent
    /\ heap \subseteq tasks
    /\ handler \in [pc : {"idle", "acquire", "create", "initial", "deadline",
                          "publish", "release", "dead"},
                    task : Tasks \cup {NoTask}]
    /\ pc \in [Goroutines -> {"idle", "handle", "get", "count", "commit",
                              "ok", "err", "dead"}]
    /\ call \in [Goroutines -> Call]
    /\ restarts \in 0..MaxRestarts
    /\ handler.pc \in {"initial", "deadline", "publish"} => handler.task \in tasks
    /\ \A g \in Goroutines : pc[g] \notin {"idle", "dead"} => call[g].task \in tasks

\* A stored task in a terminal state is archived, after every single write and
\* so at every crash point: TransitionState writes both in one record. It is
\* what recoverOrphanedTasks repairs at startup, and what lets Count take the
\* unarchived tasks for the active ones.
NoOrphan == \A t \in tasks : IsTerminalState(rec[t].state) => rec[t].archived

\* The goroutine has archived a task, or may have, and its slot is not back yet.
Owes(g) == pc[g] = "dead" \/ (pc[g] = "ok" /\ IsTerminalState(call[g].to))

SlotsInTransit ==
    (IF handler.pc \in {"create", "release"} THEN 1 ELSE 0)
      + (IF Owes("cmd") THEN 1 ELSE 0) + (IF Owes("tmo") THEN 1 ELSE 0)

\* Every slot of taskSem is held by an unarchived task or by a goroutine that
\* is about to give it away or back (one that a panic killed never will): the
\* scheduler does not lose capacity, however commands, timeouts, failed writes
\* and restarts interleave.
NoSlotLeak == sem <= Cardinality(Active) + SlotsInTransit

\* A task is never retried beyond the max_retries of some auto_retry state:
\* only the timeout goroutine counts, so its read in handleTimeoutEvent cannot
\* be overtaken before its write in TransitionState.
RetryBudget ==
    \A t \in tasks : \/ rec[t].retry = 0
                     \/ \E s \in AutoRetry : rec[t].retry <= MaxRetries[s]

\* The stored retry count of a task only ever grows, and by one: no count read
\* before a crash, a failed write or another goroutine's write is stored late.
RetryStepsByOne ==
    [][\A t \in tasks : rec'[t].retry \in {rec[t].retry, rec[t].retry + 1}]_vars

\* The strengthening that makes the invariants above inductive: what the call
\* of a goroutine holds still agrees with the stored record it was built from.
CallsAgree ==
    /\ call["cmd"].mode = "command"
    /\ \A g \in Goroutines : pc[g] = "count" => call[g].mode = "retry"
    /\ call["tmo"].mode = "archive" => IsTerminalState(call["tmo"].to)
    /\ call["tmo"].mode = "retry" => ~IsTerminalState(call["tmo"].to)
    /\ call["tmo"].mode = "retry" /\ pc["tmo"] \in {"get", "count", "commit"} =>
         /\ call["tmo"].retry = rec[call["tmo"].task].retry + 1
         /\ \E s \in AutoRetry : call["tmo"].retry <= MaxRetries[s]

\* The part of a record that TaskLife describes, and the move that a goroutine
\* has validated and not written.
LifeOf(r) == [state |-> r.state, archived |-> r.archived, retry |-> r.retry]

NoMove == [task |-> NoTask, to |-> Pending, mark |-> "keep", adds |-> 0]

MoveOf(g) ==
    IF pc[g] \in {"commit", "count"}
    THEN [task |-> call[g].task, to |-> call[g].to,
          mark |-> IF pc[g] = "count" THEN "keep"
                   ELSE IF IsTerminalState(call[g].to) THEN "set"
                   ELSE IF call[g].archived THEN "clear" ELSE "keep",
          adds |-> IF call[g].mode = "retry" THEN 1 ELSE 0]
    ELSE NoMove

Life == INSTANCE TaskLife WITH
            stored <- tasks,
            life <- [t \in Tasks |-> LifeOf(rec[t])],
            move <- [g \in Goroutines |-> MoveOf(g)],
            Callers <- Goroutines, Retrier <- "tmo"

\* The scheduler implements TaskLife: between the copy EngineGet validates and
\* the record EngineCommit writes, through failed writes, panics and crashes, a
\* task only makes moves that were allowed from a state it was in, each whole,
\* at most one of them stale for each goroutine; and recoverOrphanedTasks never
\* finds a record to repair.
LifeIsKept == Life!Spec

\* A component that was told of a task in its initial state deals with a task
\* whose deadline is stored: handlePolicyMatchedEvent writes TimeoutAt before
\* it publishes, so a crash after the announcement cannot leave an announced
\* task without a timeout. For databases that do not fail, and configurations
\* with no transition into the initial state and no retry that stays in it
\* (EngineCount would write that state back over a command's transition, which
\* has taken the passed deadline away).
AnnouncedHasDeadline ==
    \A t \in tasks : t \in told /\ rec[t].state = InitialState => rec[t].timeout # "none"

\* A task whose deadline has passed is dealt with: it is archived, given a new
\* deadline, or moved on by a component. Heap entries are lost on the way (a
\* backoff that has not elapsed, a skipped timeout, a crash); rebuildHeap is
\* what brings them back.
TimeoutHandled ==
    \A t \in Tasks :
      (t \in Active /\ rec[t].timeout = "expired")
        ~> (t \notin Active \/ rec[t].timeout # "expired")

\* "max_concurrent: the largest number of concurrent tasks; a new task blocks"
\* (docs/config-reference.md:207).
ConcurrencyLimit == Cardinality(Active) <= MaxConcurrent
=============================================================================
