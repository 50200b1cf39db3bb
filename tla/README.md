# A TLA+ verification project for nuts

nuts is an event-driven task scheduler: container events from data sources are
matched against policies, every match becomes a task with a configured state
machine, external components do the work of each state and ask for the next
one, and the scheduler stores, times out, retries and archives the tasks. This
directory models the parts of it that keep state, checks them with TLC on small
instances and proves the properties that matter most with TLAPS.

All paths below are relative to the repository (`src/` in the map of
`PROJECT.json`).

## 1. Inventory

| Part | State | Operations | Modelled by |
|---|---|---|---|
| Scheduler (`pkg/core/core.go`) | `policyMatchedCh`, the semaphore `taskSem`, three goroutines | create a task for a match, run a transition command, handle a timeout (retry or archive), recover at start-up | `TaskEngine`, implementing `TaskLife` |
| State machine engine (`pkg/task/state_machine_engine.go`) | none of its own | `CreateTask`, `HandleTransitionCommand` | `TaskEngine`, `TaskStore` |
| Task store (`pkg/task/engine_store.go`) | JSON records, one mutex per key, the state index | `Create`, `TransitionState`, `Update`, `UpdateResult`, `Delete`, index rebuild | `TaskStore` |
| Archive cleaner (`pkg/task/archive.go`) | a ticker | deletes tasks archived long ago | `TaskStore` |
| Timeout checker (`pkg/task/timeout_checker.go`) | heap of deadlines, scan counter, timer | scan, push, rebuild, sleep | `TimeoutChecker`, its callback in `TaskEngine` |
| State machine configuration (`pkg/task/sm_factory.go`, `sm_validator.go`) | a graph; queue, visited set and stack of the searches | `Validate` | `StateMachine`, `StateMachineConfig` |
| Event bus (`pkg/eventbus/grpc.go`) | subscribers per topic, their channels, client streams | publish (local, gRPC), subscribe, reconnect, unsubscribe, close | `EventBus` |
| Event log (`pkg/eventlog`) | a channel and its loop; ring buffer or table; index by trace and by task | append, query, clean up, close | `EventLog` over `RingLog`, both implementing `TraceLog` |
| Data sources (`pkg/datasource`) | registered and active sources, one context and goroutine per start, the event channel | register, start, stop, switch, disable, reconnect, close | `DataSources` |
| Policies (`pkg/policy`) | stored policies, compiled programs, the evaluations of an event | add, update, enable, disable, remove, match, publish | `Policies` |
| Component framework (`pkg/component`, its examples and `cmd/component-example`) | status, subscription, worker pool, retry counts and timers of failover | start, stop, take an event, answer with a command | `Components` |
| Metrics and alerts (`pkg/metrics`) | counters, sliding windows | record, rate, alert | `SlidingWindow`; the counters are a library's |
| Identifiers (`pkg/common`) | a sequence number | generate | not modelled, identifiers are taken to be unique |
| Database engines (`pkg/db`) | key-value tables | get, set, delete, list | as atomic single-key reads and writes inside the models |
| CLI, terminal UI, logging, tracing, configuration files, HTTP middleware | - | presentation and I/O | not modelled |
| `internal/` | - | refers to packages that no longer exist | not modelled |

How they interact. A match goes through `policyMatchedCh` to the policy-matched
handler, which takes a slot of `taskSem`, creates the task in the store in two
writes, stores its deadline, pushes it to the timeout checker and publishes the
initial state on the bus. A component that gets the event answers with a
transition command on `state.transition.command`. The command handler and the
timeout callback both call `HandleTransitionCommand`: an unlocked read, checks
on that copy, and later a locked read-modify-write in the store with the
publication of the new state as its `postCommit`. The cleaner deletes archived
tasks behind their back. A restart finds only the database.

What is hard to get right, and so what the properties are about (`hazards` in
`PROJECT.json` lists each at its line):

* the validated copy is stale when the write happens: two goroutines, one task;
* a crash between any two writes; a database call that fails half way;
* the semaphore counts slots in one place and is given back in three;
* heap entries of deadlines that get lost, and the rebuild that must find them;
* mutexes that are dropped from the map while others wait for them;
* an index in memory that follows writes made in another order than it sees;
* subscriber lists shared by several slices, channels closed during a send,
  clean-up of a stream after its successor has registered;
* entries of the log that are between queue, row and index when the cleaner, a
  query, `Close` or a crash comes; a slice that a query reads while the cleaner
  shifts it; a ring that wraps round under two indexes;
* a switch of sources that looks under one lock and acts under others; a stop
  that gives up waiting and leaves a goroutine which reads the context of its
  successor;
* a policy and its program that are written, and read, in two steps;
* timers, retries and commands that outlive the round, the component or the
  process they belong to.

## 2. Modules

**TaskEngine** composes the scheduler's three goroutines with the engine. One
action per step between which another goroutine can act: `PolicyMatched`,
`TakeMatched`, `AcquireSlot`, `StoreCreate`, `SetInitialState`, `SetDeadline`,
`PublishCreated`, `ReleaseAfterFailure` for `handlePolicyMatchedEvent`;
`EngineGet`, `EngineCommit`, `EngineCount` for `HandleTransitionCommand`, run by
either goroutine; `ReceiveCommand`/`FinishCommand` for the command handler;
`RebuildHeap`, `PopExpired`, `SkipTimeout`, `BackoffNotElapsed`,
`HandleTaskRetry`, `HandleTaskArchive`, `ArchiveNextTerminal`, `FinishArchive`,
`FinishRetry` for the timeout callback; `Restart` for a crash and the recovery.
The state machine is a parameter. A task record keeps state, archive mark, retry
count, deadline (none, armed, expired) and whether it has a result. Components
are the environment: a component that was told of a task may send any command
for it, at any time, any number of times. `Faulty` lets every database call
fail, `Panics` lets a publication panic (which `EventBus` shows to be possible).

**TaskLife** is what the scheduler promises to whoever reads the task table. A
task is created and initialised; after that it changes only by whole moves
(state, archive mark and retry count together). A caller validates a move against
the record as it is then (`Validate`, `ValidateRetry`), and writes it later
(`Write`) or never (`Abandon`). There is at most one validated move for each of
the two goroutines, so that the staleness the code allows is part of the promise
and is limited; and there is no action that repairs a record, so a crash must
not leave one half written. `Life` in `TaskEngine` maps the scheduler to it: the
pending move of a goroutine is what it carries from `EngineGet` to the write.

**StateMachine** has what the scheduler and the check of its configuration both
read of a configuration: the states, the initial and the terminal ones.

**TaskStore** is the store alone, with callers in the place of goroutines: each
operation is split at the unlocked read, the lookup of the mutex, the lock, the
read, the write and the update of the index. `getKeyLock` creates a mutex on
demand, `ForgetLock` is the removal of the mutex by `Delete`, which happens
while the mutex is still held. `PostCommitPanics` is a panic of the callback
after the write. The caller's unlocked copy is `mine`, the one read under the
lock is `copy`.

**TimeoutChecker** puts the checker against a discrete clock: the heap is a set
of (deadline, task) pairs; listing the table and installing the new heap are
two steps, so that pushes get lost between them; a listing may fail
(`ListFails`), leave out tasks it cannot read (`ListTasks`), and the task of a
popped entry may not be readable (`PopUnread`), each of which counts as a failure;
`NextWake` is the pause the code computes; `Slack` is how late a timer may fire.

**StateMachineConfig** is `Validate` as a process, one step for every edge that
one of its searches looks at: `Resolve` puts the edges together, `ReachState` and
`ReachEdge` are the breadth-first search with its queue, `BeginSearch`,
`SearchEdge`, `SearchReturn` the depth-first search that `canReachTerminal` runs
once for every state, in any order (it ranges over a Go map), `CycleEdge` and
`CycleReturn` that of `findCycles`; the `...Done` actions are what `Validate` does
with the results. Recursion is a stack of frames, each a state and the edges it
has left, in the order of the file. The initial states are the configurations.
The verdict is compared with definitions of reachability, dead ends and loops
that do not search.

**EventBus** is the bus for one topic, which is or is not a topic of task states
(chosen initially). The subscriber list is a Go slice: a length and a backing
array that a publisher's slice may share (`view`). `Subscribe` (with the
replacement on topics of task states), `StreamSend`, `StreamEnds`, `RemoveSub`,
`CloseSub` are the stream handler and its deferred function; `PublishLocal` and
`Publish` the two kinds of publication, whose sends are steps of their own;
`Reconnect`, `CancelClient`, `BreakStream` the client side; `CancelBus`,
`CloseAll`, `StopServer` the phases of `Close`. A channel is the number of
events in it.

**TraceLog** is what the event log promises its readers, whichever log it is:
entries, each recorded once; in memory a sequence in the order of recording, of
which the newest `Capacity` are kept, all of them gone with the process; on a
database a table, which has no order, and which an entry leaves only after it has
expired. **RingLog** is the ring buffer alone: array, head and count, with
`RingContents` its entries from the oldest on.

**EventLog** is the log with everyone around it. Entries are numbered as they
are made (`label` keeps trace and task of each). `AppendAsync` puts a number
into the channel of the wrapper, `AppendPanics` is the send on the closed one;
`TakeMemory` is the append of the ring under its lock, `TakeDB`, `IndexTrace`,
`IndexTask` the three writes of the log on a database, `TakeFails` the refused
one; `Clean`, `CleanDelete`, `CleanTrace`, `CleanTask`, `CleanDone` the cleaner,
which works in the same order on the same data; `BeginQuery`, `GetRow`,
`EndQuery` a query, whose slice shares its array with the index (`Unindex`
shifts it, or does not if `append` has moved the index to a new array; `Shifted`
is what that does to the query: an ID it has still to read is gone, and one it has
read takes the next one out of its reach, which marks the query `torn`);
`Cancel`, `Wait`, `CloseChannel`, `CloseInner` the phases of `Core.Stop` and
`Close`; `Crash` loses what is in memory and rebuilds the index, in the order in
which the database lists its keys (`ListRank`), which is not that of recording. The
kind of log is chosen initially, the type that does not exist included.

**DataSources** has the manager (`registered`, `active`, `activeName`, its lock
`mu`), HTTP requests that switch and disable sources, the process from
`Core.Start` to the end of `Core.Stop`, and the goroutines below. Every start
takes the next number, which names its context and its goroutine. A goroutine
does not keep its context but reads the field `ownCtx` of its source each time
it enters a select: `sub` and `sel` are what it read. `Subscribe`, `StreamDone`,
`Disconnect`, `Event`, `Backoff` are the loops of containerd, NRI and mock;
`CallBegins` and `CallEnds` the callbacks of NRI, which block on the channel. The
goroutine of NRI is in `stub.Run`, which does not return for a cancelled context,
and `Stop` never calls `stub.Stop`: it ends by `Disconnect` only.

**Policies** has the requests that write policies, split where the store, the
lock of the manager or the database lets another in; both stores; the programs;
and one event that is matched: listing (one step in memory, a `Fetch` for each
key on a database), `Spawn` under the semaphore, `Evaluate` with the program
that is cached then, `Publish` into the queue or past it. A start compiles the
policies it can read (`LeftOut`, `Reloaded`). `raced`, `unread` (stored policies
that the last start could not read), `since` (what happened to a policy after a
request has read it), `clobbered`, `quiet`, `hush` and `touched` are history
variables; `Write` sets `clobbered` for every write of either store that replaces
what the request does not know.

**Components** is the example process: `main` starts four components one after
the other, runs, and stops them; workers take events (`Take`), the failover
component counts, resets or adds (`Count`, `Reset`, `Add`), commands are sent
by workers (`Publish`) and by timers (`Fire`). The scheduler appears as the state
of each task and two goroutines, one for commands and one for timeouts. Each checks
a task in one step (`Command`, `Timeout`; `Accepted` has the three checks of
`HandleTransitionCommand`) and writes in a later one (`Commit`, `CommitFails`)
without another check; `moves` is what they have checked and not yet written, and a
move is `stale` once the other goroutine has moved its task. A deadline is not
cleared in a final state, so a timeout can still move a task from `failed` to
`abandoned`. Events and commands may be lost, commands are delivered in any order
and after any delay.

**SlidingWindow** is the window of buckets behind the alert rates, with callers
that add an event and then read the rate.

The `MC*` modules define the instances. Definitions called "Mutant of X" are
plausible wrong versions of X; no specification uses them. They exist so that
each checked property can be seen to fail on one of them.

## 3. Runs

| Run | Configuration | Shows |
|---|---|---|
| `scheduler_faults` | `SchedulerFaults.cfg` | `TypeOK`, `NoOrphan`, `NoSlotLeak`, `RetryBudget`, `RetryStepsByOne` with failing writes, panicking publications and one crash anywhere, and `LifeIsKept`: the scheduler implements `TaskLife` |
| `scheduler_live` | `SchedulerLive.cfg` | with the state machine of `configs/nuts.toml` and one crash: an announced task has a stored deadline, and a deadline that passes is dealt with |
| `store_races` | `StoreRaces.cfg` | no update is lost or reverted, the list and the count by index agree with the table, a deleted task stays deleted |
| `checker_scans` | `CheckerScans.cfg` | a late task is reported within a number of scans that the failed reads bound |
| `config_graphs` | `ConfigGraphs.cfg` | the validator's verdict agrees with the definitions of unreachable states, dead ends and loops, for every configuration of three states and every order of its map |
| `event_bus` | `EventBusRaces.cfg` | the subscriber list stays sound, publications serve each lasting subscriber once, a topic gets its subscriber back, `Close` drains |
| `event_log` | `EventLogRaces.cfg` | either log implements `TraceLog`; index and scan find the same entries, a query finds what lasts, `Close` flushes and returns, and every panic has the one cause it can have |
| `data_sources` | `SourceSwitches.cfg` | marks and sources agree whenever the lock is free, two sources run only after overlapping switches, `Stop` leaves nothing behind unless it gave up, every request is answered, `Core.Stop` ends with no goroutine of a containerd or mock source |
| `policies` | `PolicyRaces.cfg` | program and policy agree when nobody writes and the last start could read it, the store in memory refuses stale writes, a policy that was switched off stays quiet, an event is judged and served by one body |
| `components` | `ComponentRaces.cfg` | the retry limit of failover holds, a command takes a task back only if a timeout came between its check and its write, `Stop` returns |
| `concurrency_limit` | `SchedulerLimit.cfg` | **violated**: more active tasks than `max_concurrent` |
| `window_total` | `WindowTotal.cfg` | **violated**: `Rate` and `Total` forget all buckets but one |

### What the violated runs show

* `concurrency_limit`: a command for the first task is checked; the task's
  deadline passes, and the timeout archives it; the command is written after that
  (`state_machine_engine.go:285` does not check again), so that the task is in a
  working state with its archive mark; a second command reads the mark and clears
  it (250-252), and the task is active again. `handleTaskArchive`, which has still
  to finish, gives the slot of the task back, the second task takes it, and both
  are active with `max_concurrent` = 1. (A repeated terminal command, which the
  engine accepts without effect, gives a slot back as well, `core.go:996`; the
  model has it, and with three tasks it is a second way to the same end.)
* `window_total`: `evict` leaves its loop at the first valid bucket
  (`sliding_window.go:84`), and what it has summed up to there is the new total.
  As soon as events fall into two buckets, the rate that `AlertMetrics` compares
  with its threshold is the rate of the oldest one.

### What else the models show of the code

Met while modelling and checked at some point against the modules; no run of the
project is kept for them, because the properties of the passing runs say where
they stop.

* A command validated before, and committed after, a timeout archive moves the
  archived task to a working state and keeps `ArchivedAt` (`interface.go:63` ties
  the mark to terminal states); the task is then neither listed nor counted as
  active. `IndexAgrees` and, for the components, `OnlyForward` have the exception.
* The pause of the timeout checker lasts until the earliest deadline however far
  that is, and a push does not wake it; the limit of the pause in
  `docs/config-reference.md:244` does not exist. `LateIsReported` counts scans.
* `publishLocal` copies the list to avoid a race with `Unsubscribe`, but the
  channels in the copy are closed all the same, and the send panics
  (`grpc.go:413`). The panic ends the goroutine, because the recover is outside
  its loop. `TaskEngine` and `TaskStore` let it happen.
* Two overlapping switches leave two active sources, though `manager.go:15`
  speaks of one. `SecondNeedsRace` says that this takes an overlap.
* The policy store on a database compares the version and writes in two steps,
  and `Create` takes a failed read for a missing policy: updates get lost there.
  `ConflictIsRefused` holds for the store in memory. In both a policy that is
  removed and added again has version 1 again, so that a request which has read the
  old one can overwrite the new one.
* A start that cannot read a stored policy skips it and succeeds
  (`engine_store.go:47-54`); the policy is listed, but matches nothing until it is
  written again. `ProgramIsCurrent` says so.
* The goroutine of a stopped NRI source stays in `stub.Run` as long as the runtime
  keeps the connection: `Stop` always waits for its whole timeout, and the
  goroutine outlives `Close`. `ClosedIsQuiet` is about the other sources.
* Nothing in the log on a database keeps the order of recording: after a restart
  the index has the order of the keys.
* A policy can keep a program that is not its own after two overlapping updates,
  until the next one. `ProgramIsCurrent` excludes such policies.
* An eventlog type that does not exist leaves a nil log on which the cleaner is
  started; the process ends at its first round (`PanicsExplained`).
* A query by trace skips an entry when the cleaner takes one that the query has
  already read out of the same array (`LastingIsFound` excludes those).
* The configuration that `main` gives to `Init` of a component comes after its
  pool was made and has no effect on it. That is what keeps the failover
  component at one worker, and so what keeps `RetriesBounded` true.
* After an EOF the client does not reconnect: the component goes on running with
  a closed channel, whose workers spin until `Stop`.
* In a configuration whose initial state is retried in place, `EngineCount` of a
  retry writes the initial state back over the transition of a command that came
  between its read and its write, after that command has taken the passed
  deadline away: the task is in the initial state again, without a deadline.
  `AnnouncedHasDeadline` is proved for configurations without such a retry, as
  the shipped one.
* `configs/nuts.toml` has no transition from `failover` to `abandoned`, which the
  failover component asks for. The run adds it.

### Bounds, and why they are enough

* *One task* in `scheduler_faults` and `scheduler_live`: tasks share only the
  semaphore, the heap (a set here) and the queue; the races are between two
  goroutines on one task. `concurrency_limit` needs two. The proofs hold for any
  number.
* *A state machine of four states*, with one retry back to the initial state,
  two terminal states and a terminal state not reachable from everywhere: every
  branch of the callback happens. `scheduler_live` takes the shipped machine
  with `max_retries` cut to 1, so that retries run out.
* *One crash*: the only state that survives one is the task table, which every
  reachable state of a second life starts from; the proofs cover any number.
* *One identifier* in `store_races`: nothing is shared by two keys but the maps
  they are entries of. Two callers, three mutex objects (one in the map, one
  that each caller still holds). `MaxVersion` stops new operations on a task,
  not those under way.
* *Clock*: `MaxTime` 8 with timeouts up to 3 and a rebuild every 3 scans leaves
  room for deadlines pushed before, during and after a rebuild and for one failed
  read of any kind.
* *Configurations*: all lists of transitions, in every order, and all retries over
  three states, one of them terminal: enough for a cycle that a search enters in
  the middle, for one behind a finished state and for a dead end of two states.
* *Event bus*: two clients and up to three streams on a topic of task states
  (a stream, its replacement and the reconnection of the first), two subscribers
  on another topic, a buffer of one event, one publisher of each kind.

* *Event log*: three entries through a ring of two and a channel of one, so that
  the ring wraps round, the channel overflows and an entry is written while
  another is deleted; one trace and one task; the second entry with or
  without a task, the others with one (`TasksNamed` in `MCEventLog`; without that
  bound the run has three times the states and the same result); the database
  lists them in another order than they were written. One writer: what matters about writers is the order of the channel and
  that some are left when `Stop` gives up. The proofs are for any number of each.
* *Data sources*: the three types, two requests (the races are between two
  switches, or a switch and `Close`) and so at most three starts, which is
  enough for a source to be started again beside its own left-over loop.
* *Policies*: one policy (nothing is shared by two but the semaphore and the
  queue), two bodies, two requests at a time and any number one after the
  other, versions up to 3, one event at a time as in `processEvents`.
* *Components*: one task that goes through the pipeline twice, two workers where
  the code has several, one retry; one move of each goroutine of the scheduler is
  all there can be at a time. Tasks share the workers and the channels
  only.
* *Sliding window*: three buckets' length and two callers; the violation needs
  two valid buckets.

`CHECK_DEADLOCK FALSE` stands where the system may stop: a goroutine that a
panic killed (`scheduler_faults`), a process that has ended (`event_log`,
`data_sources`, `components`), and bounds on versions, time and streams. In
`scheduler_live` and `config_graphs` deadlock is checked: there is always a way to
go on until `Validate` has returned.

### Fairness

* `TaskEngine`: the checker's goroutine keeps running and finishes what it has
  popped (weak fairness of `TimeoutWork`); passes over the heap recur, each
  drains the expired entries, and every `timeout_rebuild_interval`-th one
  rebuilds (strong fairness of `PopExpired` and `RebuildHeap`, which other steps
  of the same goroutine disable in between); a backoff is at most
  `max_backoff_seconds`, so a task that keeps timing out meets a pass after it
  (strong fairness of `HandleTaskRetry`). Nothing is assumed of components or of
  the policy-matched handler.
* `EventBus`: stream handlers and publications keep running; a client whose
  stream has broken notices and reconnects (its loop has no limit, its pause at
  most 60 s) and gets through while the server is there. Nobody has to
  subscribe, publish, unsubscribe or close.
* `EventLog`: `processLoop` runs while it has work, and `Core.Stop` goes on, by
  its timer if not by the writers (weak fairness of each). Nothing is assumed of
  writers, cleaner and queries.
* `DataSources`: a request goes on (Go's mutexes do not starve a goroutine, and
  `Stop` has a timeout), and so do the loops, the callback whose context is done,
  and `Core.Stop`: weak fairness of each. Nothing is assumed of the runtime, and so
  nothing of the end of NRI's goroutine. That a loop sees the end of its context
  between two events is Go's random choice among the ready cases of a select.
* `Components`: `main` goes on, and so does a worker in the middle of an event
  (publications have a timeout). A select chooses at random among its ready
  cases, so a worker that comes back to it again and again, as it does on a
  closed channel, sees its context some time: strong fairness of `Quit`; `main`
  stops one component at a time, so that one condition for all is enough. Nothing is assumed of the scheduler, the streams or the timers.

## 4. Proofs

**TaskEngineProofs**, for every set of tasks, every state machine, capacity and
number of crashes, with and without faults and panics. Assumptions: the
configuration is well formed (`ConfigAssumption`); initial, pending and retry
states are not terminal (`NonTerminalAssumption`, which the validator does not
enforce and all shipped configurations satisfy); `Tasks` is finite and the
bounds are numbers (`BoundAssumption`).
Theorems: `TypeCorrect`, `NoOrphanHolds`, `NoSlotLeakHolds`, `RetryBudgetHolds`,
`RetryStepsByOneHolds`. The inductive invariant is `TypeOK /\ CallsAgree /\
NoOrphan /\ RetryBudget /\ NoSlotLeak`. `CallsAgree` is the part none of the
runs names: what a goroutine carries from its read to its write still fits the
record. The retry count in a call is one more than the stored one until the
call writes, because only the timeout goroutine writes counts; an archive
command aims at a terminal state and a retry at none, so what a write does to
the archive mark is known although the stored state may have changed since.
`NoSlotLeak` then follows by counting: every write that archives a task leaves
its goroutine owing a slot. Lemmas about each record operator and the effect of
each action come first, so that the invariant's proof has one step per action.

`AnnouncedHasDeadlineHolds`, in the same module, needs two hypotheses more: the
database does not fail (`Faulty = FALSE`; a failed write of the deadline is
logged and the task announced all the same), and `NeverBack`: no transition leads
into the initial state and a retry does not stay in it, as in
`configs/nuts.toml`. Its inductive invariant `DInv` says that the other
goroutines work on tasks that were announced or have a deadline (`CallsKnown`),
that none of them is about to write the initial state (`NoneGoesBack`), and that
until the handler publishes a task, it is as the handler has written it
(`NewIsBare`). Whoever leaves the initial state then does so for good, and only
a write that leaves it takes a deadline away (`AnnouncedIsArmed`).

`LifeIsKeptHolds` is the refinement: the scheduler implements `TaskLife`, under the
assumptions of the first theorems and nothing more, faults, panics and crashes
included. It needs `Inv` and two invariants. `NewIsAlone`: between the two writes
of a creation nobody but the handler knows the task, so the second one is
`Initialise` and overwrites no move. `RetryMeant`: a retry that is on its way to
the engine leads where its state is retried, and that state has a retry left; so
the read of the engine is `ValidateRetry`. The write of a move is `Write` because
of `CallsAgree`: the count in the call is the stored one plus one, and what the
code does to the archive mark (`Archived` from the state it has read, the terminal
states from the configuration) is what was settled when it was validated. The
recovery is `Abandon`, or a stutter, only because of `NoOrphan`: `recoverOrphanedTasks`
archives terminal tasks that are not archived, and finds none. Each action then has
a lemma that it is one step of `TaskLife` or none.

The last part of the module is about `Validate`, for every set of states and
every configuration over it whose lists of transitions name no state twice:
`SearchesAreRightHolds` and `LoopsAreFoundHolds`, from the inductive invariant
`ConfigInv`. What each search keeps is said without induction over paths. *Reach* (`ReachInv`): what is found
lies in every closed set with the initial state, and every state found is in the
queue or has its successors found or still to look at; when both are used up, what
is found is closed, hence the smallest closed set. *Ends* (`EndsInv`): the states
visited have no terminal one among them, lie in every closed set with the first,
and those not on the stack have all their successors visited; when the stack is
used up they are a closed set without terminal states, a dead end, and a terminal
state met before that shows that no such set has the first state. *Loops*
(`LoopsInv`): every state of a recorded cycle has a successor in it, since the
stack is a path; and as long as no cycle was recorded, the finished states are
closed and every set of them has a state that leads nowhere in it, because a state
is finished only after all it leads to. So if nothing leads out of a terminal
state, an infinite loop would leave a cycle without terminal states recorded.

**TaskStoreProofs**, for every number of tasks, callers and mutexes, under
`ReadFaults = FALSE`: a stored task can be read. (Without it `Delete` takes a
failed read for a missing task, drops the mutex and deletes the key unguarded;
`ReadStaysFresh` then fails.) Theorems: `TypeCorrect`, `ReadStaysFreshHolds`,
`UpdateNeverRevertsHolds`, `DeletedStaysDeletedHolds`. The argument: as long as
a task is stored, whoever has looked its mutex up, or holds it, has the mutex
that is in the map (`SameMutex`), and a mutex has one holder (`OneHolder`); a
mutex leaves the map only after its key is gone (`KeyIsGone`), and identifiers
are not used twice. So whoever is about to write a stored task is alone with it
and its read is fresh; whoever holds an old mutex finds no task to write.
`CopyIsOlder` says an unlocked copy with the stored version is the stored
record, which is what `Update` relies on.

`IndexAgreesHolds` (same hypothesis) goes on from there with `XInv`. Every write
is followed by the update of the index under the same mutex; in between, the
entries of the task suit what the operation has read (`IndexBehind`), otherwise
what is stored (`IndexSuits`), where "suit" (`Suits`) leaves room for the one
exception, a task that a stale command has moved after it was archived. That
exception needs `MovedIsListed`: such a task is unlisted only as long as whoever
is about to move it has seen it in its present state, so that the code's
`oldState != newState` comes out right. `CreatorAlone` and `OneEraser` keep
creation and deletion apart from the others.

**TimeoutCheckerProofs**, for every set of tasks, all intervals, timeouts and
delays of the timer, and wherever the bounds on the clock and on failed listings
lie (`CheckerAssumption`: intervals and timeouts are positive):
`LateIsReportedHolds`. A scan that lists the table reports every task that is
late when it ends, because a deadline stored during the scan lies ahead and every
entry that has come is popped. So a late task is missed only by scans without a
listing, of which there are fewer than `RebuildInterval` in a row, and by scans in
which a read failed (the listing, some of its rows, or the task of a popped entry),
each of which costs one such turn. The inductive invariant
`TInv` says for every place of the checker how many scans may have missed a task,
and that a late task that was not yet reported has an entry that this scan will
pop, or was counted (`Bounded`).

**EventLogProofs**, for every number of writers, entries, traces and tasks, every
size of ring and channel, all kinds of log: `LogIsKeptHolds`, `CloseFlushesHolds`
and `PanicsExplainedHolds`. The inductive invariant `LInv` (`LInvHolds`) has the
types, `InOrder` and `Shutdown`. The rows of a database are a set in the model, so
`LogIsKept` says nothing about their order. `InOrder` is what the refinement rests on:
numbers are given out in the order of the channel, the channel is first in first
out, so its contents increase and are larger than all that was ever recorded;
what `processLoop` takes is therefore a new entry of `TraceLog`, and never one
that is already there. `Shutdown` orders the phases: the channel is closed only
after the wait, the loop ends only with the channel closed and empty, and the
log below it is closed only after that; a writer that is not gone after the wait
is what `late` records. Each action then maps to `Record`, `Expire`, `Reset` or a
stutter. Assumptions: `RingAssumption` and `LogAssumption` (sizes are positive,
entries are positive numbers). The module begins with the ring alone, for every
set of entries and every size: its types (`RingTypeCorrect`), and that it
implements `TraceLog` (`RingImplementsLog`). The arithmetic is in a few lemmas: an
index goes round at most once, so the remainder is a case distinction (`ModOnce`,
`SlotPosition`), and with it an append is an append to the contents, followed by
the loss of the first entry if the ring was full (`AppendIsRecorded`).

The same module proves `IndexFindsAllHolds` and `LastingIsFoundHolds`. Neither
property is inductive: that the entry at hand is indexed once needs that it was
not indexed before, and that a row's index is complete after the second of its
two steps needs to know what the first one did. `IInv` (`IInvHolds`) adds both.
`KnownIsOlder` says that what an index, the cleaner or a query knows is older
than everything in the channel, so that an entry which the loop takes up is new
to all of them. `HalfDone` says that the row the loop is at is stored and not
aged, and that the row the cleaner is at is deleted already, so the two are never
the same. `RowsIndexed` then says for every key what the index holds of each of
them: nothing of the first before its trace is indexed, its trace alone after
that; nothing of the second under its trace once that is undone. When a second
step is done, nothing is pending and index and rows agree. In memory `RingIndexed`
does without such cases, as append and removal are one step. `Queries` says that
what an untorn query has found and what it has still to read cover what was
indexed when it began and is still stored; a deletion of an ID that the query has
read is what tears it. Lemmas say what `Append`, `Tail` and
`Removed` do to the elements of a list without repetition. `LogAssumption` also
says that traces and tasks are apart: in the code they are keys of two maps, in
the model of one function.

**EventBusProofs**, for any number of clients, streams and publishers of either
kind: `ListedIsOpenHolds`, `StreamIsListedHolds`, `SingleSubscriberHolds` and
`EachServedOnceHolds`. The bounds on the subscribers are not used; the only
assumption is that local and remote publishers are different (`BusAssumption`).
First come lemmas about the slice: `append` adds one subscriber, removal by
identity takes one out and keeps the order of the others, whatever is left in the
array behind its end, and a replacement makes a new array. The inductive
invariant `BInv` (`BInvHolds`) adds to the properties that a handler whose
clean-up has passed the removal is not listed (`GoneIsUnlisted`), which is why
closing its channel leaves no closed one in the list, and that a local publisher
is at a position of a copy of its own that nobody is in twice (`Walks`). Remote
publications walk along the shared array and can serve somebody twice or not at
all; the property is about the scheduler's.

**DataSourcesProofs**, for any of the three types of sources, any finite set of
requests and any capacity of the channel (`SourceAssumption`):
`ActiveIsStartedHolds`, `SecondNeedsRaceHolds`, `StopIsThoroughHolds`, from the
inductive invariant `SInv` (`SInvHolds`). The lock is held across steps only by a
`Stop` that waits, so the invariant says what is true then: the source is marked
active and does not run any more (`Holder`, `ClosingHolds`). One switch at a time
leaves one source at most because at each of its stages nothing but the source it
has read as active, and after the stop nothing, is active (`OneAtATime`). A
goroutine belongs to an active source or to one whose `Stop` gave up
(`LoopIsActive`, `OneLoop`). `StartsCounted` shows that the bound on starts is
never what stops one: every request starts one source at most.

**PoliciesProofs**, for any number of policies, bodies, requests and parallel
evaluations, both stores, with failing reads and writes, cancellations and
restarts: `ProgramIsCurrentHolds`, `ConflictIsRefusedHolds`,
`SilencedStaysQuietHolds`, `MatchIsOneBodyHolds`, from `PInv` (`PInvHolds`).
`PolicyAssumption` only tells the values apart and makes the limits positive. Of
the two steps of a write the invariant says: unless another request came between,
what is stored when a request compiles is what it has written (`WrittenIsStored`),
and when nobody is between the two steps the cache has the programs that a reload
of the store would give, but for rows that the last start could not read
(`CachedIsStored`). Of the versions it says: what a switch of the flag carries is
no newer than what is stored unless the policy was removed meanwhile, and older if
it was written since (`ReadIsDated`), which is why the comparison of versions refuses it
(`ConflictIsRefused`). For `Match`: what it has listed is
stored as long as no request has touched the policy (`ListedIsStored`), and a
policy that was switched off is off until a request comes for it (`QuietIsOff`),
so that no later listing has it (`HushIsUnlisted`).

**ComponentsProofs**, for any number of tasks and workers, any limit of retries,
rounds and buffers (`ComponentAssumption`): `RetriesBoundedHolds` and
`OnlyForwardHolds`. The retry limit rests on the pool of one worker: nobody
changes the count between the worker's read and its write, so `Types /\
RetriesBounded` is inductive as it stands. `OnlyForward` rests on the commands
there can be, each component asking for states after its own, and on `Ahead`: a
command that was checked and that no timeout has overtaken still leads forward,
because `Accepted` compared the state it names with the task's and nobody has moved
the task since. A late or repeated command is refused, or repeats a step forward.

Every inductive invariant was checked with TLC on the instance of its run before
it was proved (`ConfigInv` with at most two transitions listed for a state instead
of three).

Only model-checked: liveness (`TimeoutHandled`, `Served`, `CloseDrains`,
`StopReturns`, `RequestEnds`, `ClosedIsQuiet`), whose fairness arguments are
beyond the prover. That `Validate` ends at all is not stated: the proofs are about
what it returns. Every other property of a passing run is stated by a theorem. Of the bus, the bounds of the buffers are not proved. The two violated properties
are refuted by their runs.

## 5. Not modelled

* Handlers that only read (HTTP lists, status, statistics, the terminal UI), the
  serializers, the payload builders, paging, sorting and the transition history:
  no property tells their data apart.
* The construction of the parts from the configuration files, the command line,
  logging, tracing and middleware: presentation and I/O. `Core.Start` and
  `Core.Stop` appear in the modules whose parts they start and stop.
* The engines below `pkg/db` (libraries), CEL, containerd, NRI and Prometheus:
  external; they appear as what the code in the repository sees of them. A key is
  read or written in one step. In `TaskEngine`, `Policies` and in the writes of
  `EventLog` such a step may fail; reads of the event log are taken to succeed.
* `pkg/datasource/buffered.go`, `Unregister`, `StopAll`, `StartActive` and
  `Switch` of the manager and `CachedPolicyStore` have no caller outside tests.
* `pkg/common` (identifiers): the identifiers are taken to be unique, as the
  default generator, random UUIDs, makes them for all practical purposes. The
  Snowflake generator is not modelled.
* `internal/`: refers to packages the repository no longer has.
* The clients' map of cancel functions in the bus: it matters only to a client
  that subscribes twice to a topic, and none does.

A data loss that the code accepts by design (a full `policyMatchedCh`, event-log
channel or subscriber channel drops what comes) is modelled as a drop.

## 6. Plan

1. *Proofs*: the bounds of the buffers of the bus.
2. *Composition* of store, cleaner and engine: a task revived between the
   cleaner's listing and its delete. `TaskLife` is the side of the engine in it.
