--------------------------- MODULE TimeoutChecker ---------------------------
(***************************************************************************)
(* The timeout checker of nuts (pkg/task/timeout_checker.go) against the   *)
(* clock: a goroutine that scans a heap of deadlines, sleeps until the     *)
(* earliest one, and rebuilds the heap from the task table every so often. *)
(*                                                                         *)
(* The rest of the program acts beside it: the policy-matched handler      *)
(* stores a deadline and then pushes it, without waking the checker;       *)
(* components move tasks; the callback retries or archives what is late.   *)
(* A scan takes no time on the scale of the clock (whose unit is the 100ms *)
(* that the checker sleeps at least), but other goroutines act during it.  *)
(***************************************************************************)
EXTENDS Integers

CONSTANTS
    Tasks, NoTask,
    CheckInterval,     \* timeout_check_interval
    RebuildInterval,   \* timeout_rebuild_interval, in scans
    MaxTimeout,        \* the longest effective timeout of a task
    Slack,             \* how much later than asked a timer may fire
    MaxTime,           \* bound: where the clock stops
    MaxFailures        \* bound: how many reads of the table may fail

ASSUME CheckerAssumption ==
    /\ NoTask \notin Tasks
    /\ CheckInterval \in Nat \ {0} /\ RebuildInterval \in Nat \ {0}
    /\ MaxTimeout \in Nat \ {0} /\ Slack \in Nat
    /\ MaxTime \in Nat /\ MaxFailures \in Nat

Never == -1   \* TimeoutAt is nil

VARIABLES
    now,        \* the clock
    status,     \* "new", "active" or "archived", for every task
    timeoutAt,  \* the stored deadline of every task
    pushing,    \* the task whose deadline is stored but not yet pushed
    heap,       \* the entries <<deadline, task>>
    heapStale, ticksSinceRebuild,
    pc,         \* where the checker is
    newHeap,    \* the heap that rebuildHeap is about to install
    again,      \* the task that the callback has retried and will push
    wakeAt,     \* when the timer fires
    failures,   \* listings and reads that failed so far
    reported,   \* tasks that the current scan has reported (history variable)
    missed      \* scans in a row that did not report a late task (history)

vars == <<now, status, timeoutAt, pushing, heap, heapStale, ticksSinceRebuild,
          pc, newHeap, again, wakeAt, failures, reported, missed>>

tableVars == <<status, timeoutAt>>
historyVars == <<reported, missed>>

Times == 0..(MaxTime + MaxTimeout)

\* isTaskTimeout: the deadline is strictly in the past.
isTaskTimeout(t) == timeoutAt[t] # Never /\ now > timeoutAt[t]

Overdue == {t \in Tasks : status[t] = "active" /\ isTaskTimeout(t)}

Earliest(h) == CHOOSE d \in {e[1] : e \in h} : \A e \in h : d <= e[1]

Init ==
    /\ now = 0
    /\ status = [t \in Tasks |-> "new"]
    /\ timeoutAt = [t \in Tasks |-> Never]
    /\ pushing = NoTask
    /\ heap = {} /\ newHeap = {}
    /\ heapStale = TRUE /\ ticksSinceRebuild = 0
    /\ pc = "scan" /\ again = NoTask
    /\ wakeAt = 0 /\ failures = 0
    /\ reported = {} /\ missed = [t \in Tasks |-> 0]

-----------------------------------------------------------------------------
(* The clock and the other goroutines.                                     *)

Tick ==
    /\ pc = "sleep" /\ now < wakeAt + Slack /\ now < MaxTime
    /\ now' = now + 1
    /\ UNCHANGED <<tableVars, pushing, heap, heapStale, ticksSinceRebuild, pc,
                   newHeap, again, wakeAt, failures, historyVars>>

\* handlePolicyMatchedEvent: Update stores the deadline, Push follows.
StoreDeadline(t, d) ==
    /\ pushing = NoTask /\ status[t] = "new"
    /\ status' = [status EXCEPT ![t] = "active"]
    /\ timeoutAt' = [timeoutAt EXCEPT ![t] = now + d]
    /\ pushing' = t
    /\ UNCHANGED <<now, heap, heapStale, ticksSinceRebuild, pc, newHeap, again,
                   wakeAt, failures, historyVars>>

Push ==
    /\ pushing # NoTask
    /\ heap' = heap \cup {<<timeoutAt[pushing], pushing>>}
    /\ pushing' = NoTask
    /\ UNCHANGED <<now, tableVars, heapStale, ticksSinceRebuild, pc, newHeap,
                   again, wakeAt, failures, historyVars>>

\* A component's command archives the task, or moves it on, which clears a
\* deadline that has passed.
Finish(t) ==
    /\ status[t] = "active" /\ pushing # t
    /\ status' = [status EXCEPT ![t] = "archived"]
    /\ UNCHANGED <<now, timeoutAt, pushing, heap, heapStale, ticksSinceRebuild,
                   pc, newHeap, again, wakeAt, failures, historyVars>>

MoveOn(t) ==
    /\ t \in Overdue /\ pushing # t
    /\ timeoutAt' = [timeoutAt EXCEPT ![t] = Never]
    /\ UNCHANGED <<now, status, pushing, heap, heapStale, ticksSinceRebuild,
                   pc, newHeap, again, wakeAt, failures, historyVars>>

-----------------------------------------------------------------------------
(* checkTimeoutsAndGetNextWake                                             *)

\* Mutant of RebuildDue: a rebuild only when the heap has run dry.
RebuildDueOnlyWhenEmpty == heapStale \/ heap = {}

\* The heap is rebuilt at the first scan, when it is empty, and every
\* RebuildInterval scans.
RebuildDue == heapStale \/ heap = {} \/ ticksSinceRebuild + 1 >= RebuildInterval

StartScan ==
    /\ pc = "scan"
    /\ pc' = IF RebuildDue THEN "list" ELSE "pop"
    /\ ticksSinceRebuild' = IF RebuildDue THEN 0 ELSE ticksSinceRebuild + 1
    /\ UNCHANGED <<now, tableVars, pushing, heap, heapStale, newHeap, again,
                   wakeAt, failures, historyVars>>

Listable == {t \in Tasks : status[t] = "active" /\ timeoutAt[t] # Never}

\* rebuildHeap lists the unarchived tasks with a deadline; List skips the ones it
\* cannot read and reports no error ...
ListTasks ==
    /\ pc = "list"
    /\ \E unread \in SUBSET Listable :
         /\ newHeap' = {<<IF timeoutAt[t] < now THEN now ELSE timeoutAt[t], t>> :
                          t \in Listable \ unread}
         /\ failures' = IF unread = {} THEN failures ELSE failures + 1
         /\ failures' <= MaxFailures
    /\ pc' = "install"
    /\ UNCHANGED <<now, tableVars, pushing, heap, heapStale, ticksSinceRebuild,
                   again, wakeAt, historyVars>>

ListFails ==
    /\ pc = "list" /\ failures < MaxFailures
    /\ failures' = failures + 1
    /\ pc' = "pop"
    /\ UNCHANGED <<now, tableVars, pushing, heap, heapStale, ticksSinceRebuild,
                   newHeap, again, wakeAt, historyVars>>

\* ... and replaces the heap, with what was pushed since it listed them.
InstallHeap ==
    /\ pc = "install"
    /\ heap' = newHeap
    /\ heapStale' = FALSE
    /\ newHeap' = {}
    /\ pc' = "pop"
    /\ UNCHANGED <<now, tableVars, pushing, ticksSinceRebuild, again, wakeAt,
                   failures, historyVars>>

\* An entry whose deadline has come leaves the heap; unless its task's stored
\* deadline is strictly past, that is all.
Popped(e) ==
    /\ pc = "pop" /\ e \in heap
    /\ e[1] = Earliest(heap) /\ e[1] <= now
    /\ heap' = heap \ {e}

PopIgnored ==
    /\ \E e \in heap : Popped(e) /\ ~isTaskTimeout(e[2])
    /\ UNCHANGED <<now, tableVars, pushing, heapStale, ticksSinceRebuild, pc,
                   newHeap, again, wakeAt, failures, historyVars>>

\* The task of the entry cannot be read, and is taken for a deleted one.
PopUnread ==
    /\ failures < MaxFailures /\ failures' = failures + 1
    /\ \E e \in heap : Popped(e)
    /\ UNCHANGED <<now, tableVars, pushing, heapStale, ticksSinceRebuild, pc,
                   newHeap, again, wakeAt, historyVars>>

\* onTimeout retries the task with a new deadline (and pushes it), ...
PopRetry ==
    /\ \E e \in heap, d \in 1..MaxTimeout :
         /\ Popped(e) /\ isTaskTimeout(e[2])
         /\ status' = [status EXCEPT ![e[2]] = "active"]
         /\ timeoutAt' = [timeoutAt EXCEPT ![e[2]] = now + d]
         /\ again' = e[2]
         /\ reported' = reported \cup {e[2]}
    /\ pc' = "push"
    /\ UNCHANGED <<now, pushing, heapStale, ticksSinceRebuild, newHeap, wakeAt,
                   failures, missed>>

PushAgain ==
    /\ pc = "push"
    /\ heap' = heap \cup {<<timeoutAt[again], again>>}
    /\ again' = NoTask
    /\ pc' = "pop"
    /\ UNCHANGED <<now, tableVars, pushing, heapStale, ticksSinceRebuild,
                   newHeap, wakeAt, failures, historyVars>>

\* ... or archives it, or gives up (backoff not over, an error, no terminal
\* transition) and leaves it as it is.
PopArchive ==
    /\ \E e \in heap :
         /\ Popped(e) /\ isTaskTimeout(e[2])
         /\ \/ status' = [status EXCEPT ![e[2]] = "archived"]
            \/ UNCHANGED status
         /\ reported' = reported \cup {e[2]}
    /\ UNCHANGED <<now, timeoutAt, pushing, heapStale, ticksSinceRebuild, pc,
                   newHeap, again, wakeAt, failures, missed>>

ScanDone ==
    /\ pc = "pop" /\ \A e \in heap : e[1] > now
    /\ pc' = "wake"
    /\ UNCHANGED <<now, tableVars, pushing, heap, heapStale, ticksSinceRebuild,
                   newHeap, again, wakeAt, failures, historyVars>>

\* The pause before the next scan: until the earliest deadline, however far.
NextWake ==
    IF heap = {} THEN CheckInterval
    ELSE IF Earliest(heap) > now THEN Earliest(heap) - now ELSE 1

Sleep ==
    /\ pc = "wake"
    /\ wakeAt' = now + NextWake
    /\ pc' = "sleep"
    /\ reported' = {}
    /\ missed' = [t \in Tasks |-> IF t \in Overdue \ reported THEN missed[t] + 1 ELSE 0]
    /\ UNCHANGED <<now, tableVars, pushing, heap, heapStale, ticksSinceRebuild,
                   newHeap, again, failures>>

Wake ==
    /\ pc = "sleep" /\ now >= wakeAt
    /\ pc' = "scan"
    /\ UNCHANGED <<now, tableVars, pushing, heap, heapStale, ticksSinceRebuild,
                   newHeap, again, wakeAt, failures, historyVars>>

Next ==
    \/ Tick \/ Push
    \/ \E t \in Tasks :
         \/ \E d \in 1..MaxTimeout : StoreDeadline(t, d)
         \/ Finish(t) \/ MoveOn(t)
    \/ StartScan \/ ListTasks \/ ListFails \/ InstallHeap
    \/ PopIgnored \/ PopUnread \/ PopRetry \/ PushAgain \/ PopArchive
    \/ ScanDone \/ Sleep \/ Wake

Spec == Init /\ [][Next]_vars

-----------------------------------------------------------------------------
Entry == Times \X Tasks

\* Every variable has its type.
TypeOK ==
    /\ now \in 0..MaxTime
    /\ status \in [Tasks -> {"new", "active", "archived"}]
    /\ timeoutAt \in [Tasks -> Times \cup {Never}]
    /\ pushing \in Tasks \cup {NoTask} /\ again \in Tasks \cup {NoTask}
    /\ heap \subseteq Entry /\ newHeap \subseteq Entry
    /\ heapStale \in BOOLEAN /\ ticksSinceRebuild \in 0..RebuildInterval
    /\ pc \in {"scan", "list", "install", "pop", "push", "wake", "sleep"}
    /\ wakeAt \in Nat /\ failures \in 0..MaxFailures
    /\ reported \subseteq Tasks /\ missed \in [Tasks -> Nat]

\* However pushes, rebuilds, moves and failed reads interleave, a task whose
\* stored deadline has passed is reported to the callback after at most
\* RebuildInterval scans for every listing that failed or left tasks out, for
\* every popped entry whose task could not be read, and once more: an entry
\* that a rebuild overwrites, or that is popped in the very instant of the
\* deadline, comes back with the next rebuild.
LateIsReported == \A t \in Tasks : missed[t] < RebuildInterval * (failures + 1)

=============================================================================
