------------------------ MODULE TimeoutCheckerProofs ------------------------
(***************************************************************************)
(* The bound on late reports, for every set of tasks, all intervals and    *)
(* timeouts, and wherever the bounds on the clock and on failed reads lie. *)
(*                                                                         *)
(* A scan that rebuilds the heap reports every task that is late when it   *)
(* ends: deadlines that are stored during the scan lie ahead, so whoever   *)
(* is late was late when the tasks were listed, and the entries that have  *)
(* come are all popped.  Between two rebuilds the number of scans is what  *)
(* ticksSinceRebuild counts, or what a failed read costs (a listing that   *)
(* fails or leaves tasks out, a popped entry whose task is not read): one  *)
(* turn of RebuildInterval scans.                                          *)
(***************************************************************************)
EXTENDS TimeoutChecker, TLAPS

\* The types the proofs need.
Places == {"scan", "list", "install", "pop", "push", "wake", "sleep"}

Numbers ==
    /\ now \in Nat /\ failures \in Nat /\ ticksSinceRebuild \in Nat
    /\ timeoutAt \in [Tasks -> Int] /\ missed \in [Tasks -> Nat]
    /\ status \in [Tasks -> {"new", "active", "archived"}]
    /\ pc \in Places

Entries ==
    /\ pushing \in Tasks \cup {NoTask} /\ again \in Tasks \cup {NoTask}
    /\ pc = "push" => again # NoTask
    /\ heap \subseteq Int \X Tasks /\ newHeap \subseteq Int \X Tasks

\* What the failed reads have cost.
Lost == RebuildInterval * failures

\* Fewer than RebuildInterval scans pass between two attempts to rebuild.
TicksBounded == ticksSinceRebuild < RebuildInterval

\* A late task has been missed by no more scans than were made since the last
\* rebuild; the scan at work may still miss it.
Counted(t) == missed[t] <= ticksSinceRebuild + Lost
CountedNext(t) == missed[t] + 1 <= ticksSinceRebuild + Lost
BelowTurn(t) == missed[t] < RebuildInterval + Lost

\* An entry of t that a scan with heap h will pop.
Due(h, t) == \E d \in Int : <<d, t>> \in h /\ d <= now

Waiting(t) == t \in Overdue /\ t \notin reported

\* Where the checker is, and what that says of a task.
Bounded(t) ==
    /\ pc \in {"scan", "sleep"} => Counted(t)
    /\ BelowTurn(t)
    /\ pc = "install" /\ t \in Overdue => CountedNext(t) \/ Due(newHeap, t)
    /\ pc \in {"pop", "push"} /\ Waiting(t) => CountedNext(t) \/ Due(heap, t)
    /\ pc = "wake" /\ Waiting(t) => CountedNext(t)

TInv ==
    /\ Numbers /\ Entries /\ TicksBounded
    /\ \A t \in Tasks : Bounded(t)

-----------------------------------------------------------------------------
(* Lemmas                                                                  *)

LEMMA OneTurnMore ==
    ASSUME NEW a \in Nat, NEW b \in Nat
    PROVE  /\ a * b \in Nat
           /\ a * (b + 1) = a * b + a
  BY SMT

LEMMA LostIsNat ==
    ASSUME Numbers
    PROVE  Lost \in Nat
  BY OneTurnMore, CheckerAssumption DEF Numbers, Lost

LEMMA TInvInit ==
    ASSUME Init
    PROVE  TInv
<1>1. Numbers /\ Entries /\ TicksBounded
  BY CheckerAssumption DEF Init, Numbers, Entries, TicksBounded, Places, Never
<1>2. Lost \in Nat
  BY <1>1, LostIsNat
<1>3. ASSUME NEW t \in Tasks PROVE Bounded(t)
  <2>1. missed[t] = 0 /\ pc = "scan" /\ ticksSinceRebuild = 0
    BY DEF Init
  <2> QED
    BY <2>1, <1>2, CheckerAssumption DEF Bounded, Counted, BelowTurn
<1> QED
  BY <1>1, <1>3 DEF TInv

\* What every step does to the types.
LEMMA NumbersStep ==
    ASSUME Numbers, Entries, Next
    PROVE  Numbers'
<1> USE DEF Numbers, Entries, Places
<1>1. CASE Tick
  BY <1>1 DEF Tick, tableVars, historyVars
<1>2. ASSUME NEW t \in Tasks, NEW d \in 1..MaxTimeout, StoreDeadline(t, d) PROVE Numbers'
  BY <1>2, CheckerAssumption DEF StoreDeadline, historyVars
<1>3. ASSUME NEW t \in Tasks, Finish(t) \/ MoveOn(t) PROVE Numbers'
  BY <1>3 DEF Finish, MoveOn, historyVars, Never
<1>4. CASE Push \/ StartScan \/ ListTasks \/ ListFails \/ InstallHeap \/ PopIgnored \/ PopUnread
  BY <1>4 DEF Push, StartScan, ListTasks, ListFails, InstallHeap, PopIgnored, PopUnread, tableVars,
     historyVars
<1>5. CASE PopRetry
  <2>1. PICK e \in heap, d \in 1..MaxTimeout :
          /\ status' = [status EXCEPT ![e[2]] = "active"]
          /\ timeoutAt' = [timeoutAt EXCEPT ![e[2]] = now + d]
    BY <1>5 DEF PopRetry
  <2>2. e[2] \in Tasks /\ now + d \in Int
    BY CheckerAssumption
  <2> QED
    BY <1>5, <2>1, <2>2 DEF PopRetry
<1>6. CASE PopArchive
  BY <1>6 DEF PopArchive
<1>7. CASE PushAgain \/ ScanDone \/ Wake
  BY <1>7 DEF PushAgain, ScanDone, Wake, tableVars, historyVars
<1>8. CASE Sleep
  BY <1>8 DEF Sleep, tableVars
<1> QED
  BY <1>1, <1>2, <1>3, <1>4, <1>5, <1>6, <1>7, <1>8 DEF Next

LEMMA EntriesStep ==
    ASSUME Numbers, Entries, Next
    PROVE  Entries'
<1> USE DEF Numbers, Entries, Places
<1>1. CASE Tick \/ StartScan \/ ListFails \/ InstallHeap \/ ScanDone \/ Wake \/ Sleep
  BY <1>1 DEF Tick, StartScan, ListFails, InstallHeap, ScanDone, Wake, Sleep
<1>2. ASSUME NEW t \in Tasks, NEW d \in 1..MaxTimeout, StoreDeadline(t, d) PROVE Entries'
  BY <1>2 DEF StoreDeadline
<1>3. ASSUME NEW t \in Tasks, Finish(t) \/ MoveOn(t) PROVE Entries'
  BY <1>3 DEF Finish, MoveOn
<1>4. CASE Push
  BY <1>4 DEF Push
<1>5. CASE PushAgain
  BY <1>5 DEF PushAgain
<1>6. CASE ListTasks
  <2>1. newHeap' \subseteq Int \X Tasks
    BY <1>6 DEF ListTasks, Listable
  <2> QED
    BY <1>6, <2>1 DEF ListTasks
<1>7. CASE PopIgnored \/ PopUnread \/ PopArchive
  BY <1>7 DEF PopIgnored, PopUnread, PopArchive, Popped
<1>8. CASE PopRetry
  <2>1. PICK e \in heap : again' = e[2] /\ heap' = heap \ {e}
    BY <1>8 DEF PopRetry, Popped
  <2>2. e[2] \in Tasks
    OBVIOUS
  <2> QED
    BY <1>8, <2>1, <2>2, CheckerAssumption DEF PopRetry
<1> QED
  BY <1>1, <1>2, <1>3, <1>4, <1>5, <1>6, <1>7, <1>8 DEF Next

LEMMA TicksStep ==
    ASSUME Numbers, TicksBounded, Next
    PROVE  TicksBounded'
<1>1. CASE StartScan
  BY <1>1, CheckerAssumption DEF StartScan, RebuildDue, TicksBounded, Numbers
<1>2. ticksSinceRebuild' = ticksSinceRebuild \/ StartScan
  BY DEF Next, Tick, Push, StoreDeadline, Finish, MoveOn, ListTasks, ListFails, InstallHeap,
         PopIgnored, PopUnread, PopRetry, PushAgain, PopArchive, ScanDone, Sleep, Wake
<1> QED
  BY <1>1, <1>2 DEF TicksBounded

-----------------------------------------------------------------------------
(* The steps                                                               *)

\* What a step that counts nothing needs to keep the bound of a task.
LEMMA StillBounded ==
    ASSUME TInv, NEW t \in Tasks,
           UNCHANGED <<now, ticksSinceRebuild, newHeap, failures, missed>>,
           pc' = pc,
           t \in Overdue' => t \in Overdue,
           Waiting(t)' => Waiting(t),
           Waiting(t)' /\ Due(heap, t) => Due(heap, t)'
    PROVE  Bounded(t)'
<1>1. Bounded(t)
  BY DEF TInv
<1>2. /\ Counted(t)' = Counted(t) /\ BelowTurn(t)' = BelowTurn(t)
      /\ CountedNext(t)' = CountedNext(t) /\ Due(newHeap, t)' = Due(newHeap, t)
  BY DEF Counted, BelowTurn, CountedNext, Due, Lost
<1> QED
  BY <1>1, <1>2 DEF Bounded

\* The other goroutines: a deadline they set lies ahead, so they make no task
\* late, and they take nothing out of the heap.
LEMMA OthersStep ==
    ASSUME TInv, NEW t \in Tasks,
           \/ Push
           \/ \E u \in Tasks : \/ \E d \in 1..MaxTimeout : StoreDeadline(u, d)
                               \/ Finish(u) \/ MoveOn(u)
    PROVE  Bounded(t)'
<1> USE DEF TInv, Numbers
<1>1. CASE Push
  BY <1>1, StillBounded DEF Push, tableVars, historyVars, Waiting, Overdue, isTaskTimeout, Due
<1>2. ASSUME NEW u \in Tasks, NEW d \in 1..MaxTimeout, StoreDeadline(u, d) PROVE Bounded(t)'
  <2>1. t \in Overdue' => t \in Overdue
    <3>1. CASE t = u
      <4>1. timeoutAt'[t] = now + d /\ now' = now /\ now + d > now
        BY <1>2, <3>1, CheckerAssumption DEF StoreDeadline
      <4> QED
        BY <4>1 DEF Overdue, isTaskTimeout
    <3>2. CASE t # u
      BY <1>2, <3>2 DEF StoreDeadline, Overdue, isTaskTimeout
    <3> QED
      BY <3>1, <3>2
  <2> QED
    BY <1>2, <2>1, StillBounded DEF StoreDeadline, historyVars, Waiting, Due
<1>3. ASSUME NEW u \in Tasks, Finish(u) PROVE Bounded(t)'
  <2>1. t \in Overdue' => t \in Overdue
    BY <1>3 DEF Finish, Overdue, isTaskTimeout
  <2> QED
    BY <1>3, <2>1, StillBounded DEF Finish, historyVars, Waiting, Due
<1>4. ASSUME NEW u \in Tasks, MoveOn(u) PROVE Bounded(t)'
  <2>1. t \in Overdue' => t \in Overdue
    BY <1>4 DEF MoveOn, Overdue, isTaskTimeout
  <2> QED
    BY <1>4, <2>1, StillBounded DEF MoveOn, historyVars, Waiting, Due
<1> QED
  BY <1>1, <1>2, <1>3, <1>4

\* Between scans only the clock moves, and the bound does not look at it.
LEMMA BetweenScansStep ==
    ASSUME TInv, NEW t \in Tasks, Tick \/ Wake
    PROVE  Bounded(t)'
<1>1. Counted(t) /\ BelowTurn(t)
  BY DEF TInv, Bounded, Tick, Wake
<1>2. pc' \in {"scan", "sleep"} /\ Counted(t)' = Counted(t) /\ BelowTurn(t)' = BelowTurn(t)
  BY DEF Tick, Wake, historyVars, Counted, BelowTurn, Lost
<1> QED
  BY <1>1, <1>2 DEF Bounded

\* A scan without a rebuild counts itself; one with a rebuild starts afresh.
LEMMA StartScanStep ==
    ASSUME TInv, NEW t \in Tasks, StartScan
    PROVE  Bounded(t)'
<1>1. Counted(t) /\ BelowTurn(t) /\ Lost \in Nat
  BY LostIsNat DEF TInv, Bounded, StartScan
<1>2. missed' = missed /\ Lost' = Lost /\ BelowTurn(t)' = BelowTurn(t)
  BY DEF StartScan, historyVars, BelowTurn, Lost
<1>3. CASE RebuildDue
  BY <1>1, <1>2, <1>3 DEF StartScan, Bounded
<1>4. CASE ~RebuildDue
  <2>1. pc' = "pop" /\ ticksSinceRebuild' = ticksSinceRebuild + 1
    BY <1>4 DEF StartScan
  <2>2. CountedNext(t)'
    BY <1>1, <1>2, <2>1 DEF Counted, CountedNext, TInv, Numbers
  <2> QED
    BY <1>1, <1>2, <2>1, <2>2 DEF Bounded
<1> QED
  BY <1>3, <1>4

\* A read that fails costs a turn, and pays for the scan at work.
LEMMA FailurePays ==
    ASSUME TInv, NEW t \in Tasks, failures' = failures + 1,
           UNCHANGED <<ticksSinceRebuild, missed>>
    PROVE  BelowTurn(t)' /\ CountedNext(t)'
<1>1. BelowTurn(t) /\ Lost \in Nat /\ missed[t] \in Nat
  BY LostIsNat DEF TInv, Bounded, Numbers
<1>2. Lost' = Lost + RebuildInterval
  BY OneTurnMore, CheckerAssumption DEF Lost, TInv, Numbers
<1> QED
  BY <1>1, <1>2, CheckerAssumption DEF BelowTurn, CountedNext, TInv, Numbers

\* A listing that leaves no task out holds an entry that has come for every
\* late task ...
LEMMA ListTasksStep ==
    ASSUME TInv, NEW t \in Tasks, ListTasks
    PROVE  Bounded(t)'
<1>1. PICK unread \in SUBSET Listable :
        /\ newHeap' = {<<IF timeoutAt[u] < now THEN now ELSE timeoutAt[u], u>> :
                         u \in Listable \ unread}
        /\ failures' = IF unread = {} THEN failures ELSE failures + 1
  BY DEF ListTasks
<1>2. pc' = "install" /\ UNCHANGED <<now, status, timeoutAt, ticksSinceRebuild, missed>>
  BY DEF ListTasks, tableVars, historyVars
<1>3. CASE unread = {}
  <2>1. BelowTurn(t)'
    BY <1>1, <1>2, <1>3 DEF TInv, Bounded, BelowTurn, Lost
  <2>2. ASSUME t \in Overdue' PROVE Due(newHeap, t)'
    <3>1. t \in Listable /\ timeoutAt[t] < now
      BY <1>2, <2>2 DEF Overdue, isTaskTimeout, Listable, TInv, Numbers
    <3>2. <<now, t>> \in newHeap'
      BY <1>1, <1>3, <3>1
    <3> QED
      BY <1>2, <3>2 DEF Due, TInv, Numbers
  <2> QED
    BY <1>2, <2>1, <2>2 DEF Bounded
<1>4. CASE unread # {}
  <2>1. BelowTurn(t)' /\ CountedNext(t)'
    BY <1>1, <1>2, <1>4, FailurePays
  <2> QED
    BY <1>2, <2>1 DEF Bounded
<1> QED
  BY <1>3, <1>4

\* ... and is the heap of the scan.
LEMMA InstallStep ==
    ASSUME TInv, NEW t \in Tasks, InstallHeap
    PROVE  Bounded(t)'
<1>1. BelowTurn(t)' /\ pc' = "pop" /\ CountedNext(t)' = CountedNext(t)
  BY DEF TInv, Bounded, InstallHeap, historyVars, BelowTurn, CountedNext, Lost
<1>2. Waiting(t)' => t \in Overdue
  BY DEF Waiting, Overdue, isTaskTimeout, InstallHeap, tableVars
<1>3. Due(newHeap, t) => Due(heap, t)'
  BY DEF Due, InstallHeap
<1>4. t \in Overdue => CountedNext(t) \/ Due(newHeap, t)
  BY DEF TInv, Bounded, InstallHeap
<1> QED
  BY <1>1, <1>2, <1>3, <1>4 DEF Bounded

LEMMA ListFailsStep ==
    ASSUME TInv, NEW t \in Tasks, ListFails
    PROVE  Bounded(t)'
<1>1. pc' = "pop"
  BY DEF ListFails
<1>2. BelowTurn(t)' /\ CountedNext(t)'
  BY FailurePays DEF ListFails, historyVars
<1> QED
  BY <1>1, <1>2 DEF Bounded

LEMMA PopUnreadStep ==
    ASSUME TInv, NEW t \in Tasks, PopUnread
    PROVE  Bounded(t)'
<1>1. pc' = "pop"
  BY DEF PopUnread, Popped
<1>2. BelowTurn(t)' /\ CountedNext(t)'
  BY FailurePays DEF PopUnread, historyVars
<1> QED
  BY <1>1, <1>2 DEF Bounded

\* An entry that leaves the heap leaves a task that is not late, or reports it.
LEMMA PopKeepsOthers ==
    ASSUME TInv, NEW t \in Tasks, NEW e \in heap, heap' = heap \ {e}, now' = now,
           e[2] # t, Due(heap, t)
    PROVE  Due(heap, t)'
  BY DEF Due

LEMMA PopStep ==
    ASSUME TInv, NEW t \in Tasks, PopIgnored \/ PopArchive
    PROVE  Bounded(t)'
<1>1. PICK e \in heap :
        /\ heap' = heap \ {e}
        /\ \/ ~isTaskTimeout(e[2]) /\ reported' = reported /\ status' = status
           \/ /\ reported' = reported \cup {e[2]}
              /\ \/ status' = [status EXCEPT ![e[2]] = "archived"]
                 \/ status' = status
  BY DEF PopIgnored, PopArchive, Popped, tableVars, historyVars
<1>2. /\ UNCHANGED <<now, ticksSinceRebuild, newHeap, failures, missed, timeoutAt>>
      /\ pc' = pc
  BY DEF PopIgnored, PopArchive, tableVars, historyVars
<1>3. t \in Overdue' => t \in Overdue
  BY <1>1, <1>2 DEF Overdue, isTaskTimeout, TInv, Numbers
<1>4. Waiting(t)' => Waiting(t)
  BY <1>1, <1>3 DEF Waiting
<1>5. Waiting(t)' => e[2] # t
  BY <1>1, <1>3 DEF Waiting, Overdue, isTaskTimeout
<1>6. Waiting(t)' /\ Due(heap, t) => Due(heap, t)'
  BY <1>1, <1>2, <1>5, PopKeepsOthers
<1> QED
  BY <1>2, <1>3, <1>4, <1>6, StillBounded

LEMMA PopRetryStep ==
    ASSUME TInv, NEW t \in Tasks, PopRetry
    PROVE  Bounded(t)'
<1>1. PICK e \in heap, d \in 1..MaxTimeout :
        /\ heap' = heap \ {e}
        /\ status' = [status EXCEPT ![e[2]] = "active"]
        /\ timeoutAt' = [timeoutAt EXCEPT ![e[2]] = now + d]
        /\ reported' = reported \cup {e[2]}
  BY DEF PopRetry, Popped
<1>2. /\ UNCHANGED <<now, ticksSinceRebuild, failures, missed>>
      /\ pc = "pop" /\ pc' = "push"
  BY DEF PopRetry, Popped
<1>3. Waiting(t)' => e[2] # t
  BY <1>1 DEF Waiting
<1>4. Waiting(t)' => Waiting(t)
  BY <1>1, <1>2, <1>3 DEF Waiting, Overdue, isTaskTimeout, TInv, Numbers
<1>5. Waiting(t)' /\ Due(heap, t) => Due(heap, t)'
  BY <1>1, <1>2, <1>3, PopKeepsOthers
<1>6. CountedNext(t)' = CountedNext(t) /\ BelowTurn(t)' = BelowTurn(t)
  BY <1>2 DEF CountedNext, BelowTurn, Lost
<1>7. BelowTurn(t) /\ (Waiting(t) => CountedNext(t) \/ Due(heap, t))
  BY <1>2 DEF TInv, Bounded
<1> QED
  BY <1>2, <1>4, <1>5, <1>6, <1>7 DEF Bounded

LEMMA PushAgainStep ==
    ASSUME TInv, NEW t \in Tasks, PushAgain
    PROVE  Bounded(t)'
<1>1. CountedNext(t)' = CountedNext(t) /\ BelowTurn(t)' = BelowTurn(t)
  BY DEF PushAgain, historyVars, CountedNext, BelowTurn, Lost
<1>2. (Waiting(t)' => Waiting(t)) /\ (Due(heap, t) => Due(heap, t)')
  BY DEF PushAgain, tableVars, historyVars, Waiting, Overdue, isTaskTimeout, Due
<1>3. BelowTurn(t) /\ (Waiting(t) => CountedNext(t) \/ Due(heap, t)) /\ pc' = "pop"
  BY DEF PushAgain, TInv, Bounded
<1> QED
  BY <1>1, <1>2, <1>3 DEF Bounded

\* A scan ends when no entry has come: who is late and not reported was
\* counted by the scan.
LEMMA ScanDoneStep ==
    ASSUME TInv, NEW t \in Tasks, ScanDone
    PROVE  Bounded(t)'
<1>1. CountedNext(t)' = CountedNext(t) /\ BelowTurn(t)' = BelowTurn(t)
  BY DEF ScanDone, historyVars, CountedNext, BelowTurn, Lost
<1>2. Waiting(t)' => Waiting(t)
  BY DEF ScanDone, tableVars, historyVars, Waiting, Overdue, isTaskTimeout
<1>3. ~Due(heap, t)
  <2>1. SUFFICES ASSUME NEW d \in Int, <<d, t>> \in heap, d <= now PROVE FALSE
    BY DEF Due
  <2>2. <<d, t>>[1] > now
    BY <2>1 DEF ScanDone
  <2> QED
    BY <2>1, <2>2 DEF TInv, Numbers
<1>4. BelowTurn(t) /\ (Waiting(t) => CountedNext(t) \/ Due(heap, t)) /\ pc' = "wake"
  BY DEF ScanDone, TInv, Bounded
<1> QED
  BY <1>1, <1>2, <1>3, <1>4 DEF Bounded

LEMMA SleepStep ==
    ASSUME TInv, NEW t \in Tasks, Sleep
    PROVE  Bounded(t)'
<1>1. Lost \in Nat /\ Lost' = Lost /\ ticksSinceRebuild' = ticksSinceRebuild
  BY LostIsNat DEF TInv, Sleep, Lost
<1>2. missed'[t] = IF t \in Overdue \ reported THEN missed[t] + 1 ELSE 0
  BY DEF Sleep
<1>3. Waiting(t) => CountedNext(t)
  BY DEF TInv, Bounded, Sleep
<1>4. missed'[t] <= ticksSinceRebuild + Lost
  BY <1>1, <1>2, <1>3 DEF Waiting, CountedNext, TInv, Numbers
<1>5. Counted(t)' /\ BelowTurn(t)'
  <2>1. missed'[t] \in Nat
    BY <1>2 DEF TInv, Numbers
  <2> QED
    BY <1>1, <1>4, <2>1, CheckerAssumption DEF Counted, BelowTurn, TInv, TicksBounded, Numbers
<1> QED
  BY <1>5 DEF Bounded, Sleep

LEMMA TInvStep ==
    ASSUME TInv, [Next]_vars
    PROVE  TInv'
<1>1. CASE Next
  <2>1. Numbers' /\ Entries' /\ TicksBounded'
    BY <1>1, NumbersStep, EntriesStep, TicksStep DEF TInv
  <2>2. ASSUME NEW t \in Tasks PROVE Bounded(t)'
    BY <1>1, <2>1, OthersStep, BetweenScansStep, StartScanStep, ListTasksStep, InstallStep,
       ListFailsStep, PopStep, PopUnreadStep, PopRetryStep, PushAgainStep, ScanDoneStep, SleepStep DEF Next
  <2> QED
    BY <2>1, <2>2 DEF TInv
<1>2. CASE UNCHANGED vars
  BY <1>2 DEF vars, TInv, Numbers, Entries, TicksBounded, Bounded, Counted, BelowTurn, CountedNext,
     Due, Waiting, Overdue, isTaskTimeout, Lost
<1> QED
  BY <1>1, <1>2

-----------------------------------------------------------------------------
(* The theorem                                                             *)

\* In every reachable state of the checker a task whose stored deadline has
\* passed has been missed by fewer scans than RebuildInterval for every
\* read that failed (a listing, a task that a listing skipped, a popped entry)
\* and one more (checkTimeoutsAndGetNextWake, rebuildHeap, List).
THEOREM LateIsReportedHolds == Spec => []LateIsReported
<1>1. Init => TInv
  BY TInvInit
<1>2. TInv /\ [Next]_vars => TInv'
  BY TInvStep
<1>3. TInv => LateIsReported
  <2>1. SUFFICES ASSUME TInv, NEW t \in Tasks
                 PROVE  missed[t] < RebuildInterval * (failures + 1)
    BY DEF LateIsReported
  <2>2. missed[t] < RebuildInterval + Lost
    BY <2>1 DEF TInv, Bounded, BelowTurn
  <2>3. RebuildInterval * (failures + 1) = RebuildInterval + Lost
    BY <2>1, OneTurnMore, LostIsNat, CheckerAssumption DEF TInv, Numbers, Lost
  <2> QED
    BY <2>2, <2>3
<1> QED
  BY <1>1, <1>2, <1>3, PTL DEF Spec
=============================================================================
