-------------------------- MODULE ComponentsProofs --------------------------
(***************************************************************************)
(* Proofs about Components, for every number of tasks and workers, every   *)
(* set of transitions, and every limit of retries, rounds and buffers.     *)
(*                                                                         *)
(* The retry limit of the failover component rests on its pool of one      *)
(* worker: whatever it read is still true when it writes.  That a command  *)
(* takes a task forward, unless a timeout came between its check and its   *)
(* write, rests on the check of the state a command names, since each      *)
(* component asks for a state after its own, and on the scheduler's having *)
(* one goroutine for commands.                                             *)
(***************************************************************************)
EXTENDS Components, TLAPS

Pcs == {"gone", "select", "count", "reset", "add", "publish"}
Worker == [pc : Pcs, task : Tasks \cup {NoTask}, to : {"none"} \cup Stages \cup Terminal]

\* A worker in the middle of an event has a task, and only the failover
\* component counts.
Formed(s, r) ==
    /\ r \in Worker
    /\ r.pc \in {"count", "reset", "add"} => r.task \in Tasks
    /\ r.pc \in {"count", "reset", "add"} => s = "failover"

Types ==
    /\ status \in [Stages -> {"none", "running", "stopping", "stopped"}] /\ open \in [Stages -> BOOLEAN]
    /\ ch \in [Stages -> Seq(Tasks)]
    /\ DOMAIN work = Stages /\ \A s \in Stages : DOMAIN work[s] = Workers(s)
    /\ \A s \in Stages : \A w \in Workers(s) : Formed(s, work[s][w])
    /\ retries \in [Tasks -> Nat] /\ timers \in [Tasks -> Nat]
    /\ task \in [Tasks -> {"none"} \cup Stages \cup Terminal]
    /\ rounds \in [Tasks -> Nat]
    /\ cmds \in [Commands -> Nat]
    /\ moves \in [Movers -> {NoMove} \cup
                    [task : Tasks, to : Stages \cup Terminal, stale : BOOLEAN]]
    /\ at \in 1..4

\* A command that is checked and not yet written takes its task forward, as long
\* as no timeout has moved the task.
Ahead ==
    moves["cmd"] # NoMove /\ ~moves["cmd"].stale =>
        /\ task[moves["cmd"].task] # "none"
        /\ Rank(task[moves["cmd"].task]) < Rank(moves["cmd"].to)

\* The inductive invariant.
CInv == Types /\ RetriesBounded

-----------------------------------------------------------------------------
(* The operators.                                                          *)

LEMMA StageOrder == Len(Order) = 4 /\ \A i \in 1..4 : Order[i] \in Stages
BY DEF Order, Stages

\* The failover component has one worker.
LEMMA OneWorker == Workers("failover") = {1}
BY DEF Workers, PoolSize, Component, FailoverComponent

\* Each component asks for a state after its own.
LEMMA CommandsGoForward ==
    ASSUME NEW c \in Commands
    PROVE  /\ c = <<c[1], <<c[2][1], c[2][2]>>>>
           /\ c[1] \in Tasks
           /\ c[2][2] \in Stages \cup Terminal
           /\ Rank(c[2][1]) < Rank(c[2][2])
<1>1. CASE c \in Tasks \X {<<"failover", "completed">>, <<"failover", "abandoned">>}
  BY <1>1 DEF Rank, Terminal
<1>2. CASE c \in Tasks \X {<<s, Component[s].to>> : s \in Stages \ {"failover"}}
  <2>1. PICK t \in Tasks, s \in Stages \ {"failover"} : c = <<t, <<s, Component[s].to>>>>
    BY <1>2
  <2>2. CASE s = "pending"
    BY <2>1, <2>2 DEF Component, PendingComponent, Rank, Stages
  <2>3. CASE s = "validating"
    BY <2>1, <2>3 DEF Component, ValidatingComponent, Rank, Stages
  <2>4. CASE s = "processing"
    BY <2>1, <2>4 DEF Component, ProcessingComponent, Rank, Stages
  <2> QED
    BY <2>1, <2>2, <2>3, <2>4 DEF Stages
<1> QED
  BY <1>1, <1>2 DEF Commands

\* No component speaks for a task that does not exist.
LEMMA CommandsStart == \A c \in Commands : c[2][1] # "none"
BY DEF Commands, Stages

LEMMA GoesTo ==
    ASSUME NEW s \in Stages \ {"failover"}
    PROVE  Component[s].to \in Stages
<1>1. CASE s = "pending"
  BY <1>1 DEF Component, PendingComponent, Stages
<1>2. CASE s = "validating"
  BY <1>2 DEF Component, ValidatingComponent, Stages
<1>3. CASE s = "processing"
  BY <1>3 DEF Component, ProcessingComponent, Stages
<1> QED
  BY <1>1, <1>2, <1>3 DEF Stages

\* A count that goes up or down.
LEMMA Counting ==
    ASSUME NEW S, NEW f \in [S -> Nat], NEW x
    PROVE  /\ [f EXCEPT ![x] = @ + 1] \in [S -> Nat]
           /\ f[x] > 0 => [f EXCEPT ![x] = @ - 1] \in [S -> Nat]
<1>1. CASE x \in S
  BY <1>1
<1>2. CASE x \notin S
  BY <1>2
<1> QED
  BY <1>1, <1>2

LEMMA Published ==
    ASSUME NEW cmd, cmds \in [Commands -> Nat], PublishViaGRPC(cmd)
    PROVE  cmds' \in [Commands -> Nat]
BY Counting DEF PublishViaGRPC

\* A worker that has no event.
LEMMA Resting == \A s \in Stages : Formed(s, Gone) /\ Formed(s, Idle)
BY DEF Formed, Gone, Idle, Worker, Pcs

\* One worker is given a new record.
LEMMA SetWorker ==
    ASSUME Types, NEW s \in Stages, NEW w \in Workers(s), NEW r, Formed(s, r), Set(s, w, r)
    PROVE  /\ DOMAIN work' = Stages /\ \A z \in Stages : DOMAIN work'[z] = Workers(z)
           /\ \A z \in Stages : \A v \in Workers(z) :
                /\ work'[z][v] = IF z = s /\ v = w THEN r ELSE work[z][v]
                /\ Formed(z, work'[z][v])
BY DEF Types, Set

-----------------------------------------------------------------------------
LEMMA InitCInv == Init => CInv
<1> SUFFICES ASSUME Init PROVE CInv
  OBVIOUS
<1>1. work = [s \in Stages |-> [w \in Workers(s) |-> Gone]]
  BY DEF Init, NewProcess
<1>3. Types
  BY <1>1, Resting DEF Init, NewProcess, Types
<1>4. RetriesBounded
  BY <1>1, OneWorker, ComponentAssumption DEF Init, NewProcess, RetriesBounded, Gone, Stages
<1> QED
  BY <1>3, <1>4 DEF CInv

-----------------------------------------------------------------------------
(* Types.  The actions that leave the workers alone come first.            *)

LEMMA TypesStep == Types /\ [Next]_vars => Types'
<1> SUFFICES ASSUME Types, [Next]_vars PROVE Types'
  OBVIOUS
<1> USE DEF Types
<1>1. CASE UNCHANGED vars
  BY <1>1 DEF vars, procVars
<1>2. CASE Start
  <2>2. Order[at] \in Stages
    BY StageOrder
  <2>3. at' \in 1..4
    BY <1>2, StageOrder DEF Start, Advance
  <2> QED
    BY <1>2, <2>2, <2>3, Resting DEF Start, Subscribe
<1>3. CASE Signal
  BY <1>3 DEF Signal
<1>4. CASE StopBegins
  BY <1>4 DEF StopBegins
<1>5. CASE StopEnds
  BY <1>5, StageOrder DEF StopEnds, Advance
<1>6. CASE Restart
  BY <1>6, Resting DEF Restart, NewProcess
<1>7. ASSUME NEW s \in Stages, EndStream(s) PROVE Types'
  BY <1>7 DEF EndStream
<1>8. ASSUME NEW s \in Stages, NEW w \in Workers(s), Take(s, w) PROVE Types'
  <2> DEFINE r == IF s = "failover"
                  THEN [pc |-> "count", task |-> Head(ch[s]), to |-> "none"]
                  ELSE [pc |-> "publish", task |-> Head(ch[s]), to |-> Component[s].to]
  <2>1. Head(ch[s]) \in Tasks /\ Tail(ch[s]) \in Seq(Tasks)
    BY <1>8 DEF Take
  <2>2. Formed(s, r)
    BY <2>1, GoesTo DEF Formed, Worker, Pcs
  <2>3. Set(s, w, r)
    BY <1>8 DEF Take
  <2> QED
    BY <1>8, <2>1, <2>2, <2>3, SetWorker, SMTT(30) DEF Take
<1>9. ASSUME NEW s \in Stages, NEW w \in Workers(s), Quit(s, w) PROVE Types'
  BY <1>9, Resting, SetWorker DEF Quit
<1>10. ASSUME NEW s \in Stages, NEW w \in Workers(s), Publish(s, w) PROVE Types'
  <2>2. cmds' \in [Commands -> Nat]
    BY <1>10, Published DEF Publish, PublishStateTransition
  <2> QED
    BY <1>10, <2>2, Resting, SetWorker DEF Publish
<1>11. ASSUME NEW w \in Workers("failover"), Failover(w) PROVE Types'
  <2> DEFINE o == work["failover"][w]
  <2>1. "failover" \in Stages /\ Formed("failover", o)
    BY DEF Stages
  <2>2. CASE Count(w)
    <3> DEFINE r == [o EXCEPT !.pc = IF retries[o.task] >= MaxRetries THEN "reset" ELSE "add"]
    <3>1. Formed("failover", r)
      BY <2>1, <2>2 DEF Count, Formed, Worker, Pcs
    <3> QED
      BY <2>1, <2>2, <3>1, SetWorker DEF Count
  <2>3. CASE Reset(w)
    <3> DEFINE r == [o EXCEPT !.pc = "publish", !.to = "abandoned"]
    <3>1. Formed("failover", r)
      BY <2>1, <2>3 DEF Reset, Formed, Worker, Pcs, Terminal
    <3>2. retries' \in [Tasks -> Nat]
      BY <2>3 DEF Reset
    <3> QED
      BY <2>1, <2>3, <3>1, <3>2, SetWorker DEF Reset
  <2>4. CASE Add(w)
    <3>2. o.task \in Tasks
      BY <2>1, <2>4 DEF Add, Formed
    <3> QED
      BY <2>1, <2>4, <3>2, Resting, SetWorker, SMTT(30) DEF Add
  <2> QED
    BY <1>11, <2>2, <2>3, <2>4 DEF Failover
<1>12. ASSUME NEW t \in Tasks, Fire(t) PROVE Types'
  <2>1. cmds' \in [Commands -> Nat]
    BY <1>12, Published DEF Fire, PublishStateTransition
  <2> QED
    BY <1>12, <2>1 DEF Fire
<1>13. ASSUME NEW t \in Tasks, NEW s, Announce(t, s) PROVE ch' \in [Stages -> Seq(Tasks)]
  <2>1. CASE UNCHANGED ch
    BY <2>1
  <2>2. CASE s \in Stages /\ ch' = [ch EXCEPT ![s] = Append(@, t)]
    <3>1. Append(ch[s], t) \in Seq(Tasks)
      BY <2>2
    <3> QED
      BY <2>2, <3>1
  <2> QED
    BY <1>13, <2>1, <2>2 DEF Announce
<1>14. ASSUME NEW t \in Tasks, Create(t) PROVE Types'
  BY <1>13, <1>14 DEF Create, Stages
<1>15. ASSUME NEW t \in Tasks, Timeout(t) PROVE Types'
  <2>1. PICK to \in {"pending"} \cup Terminal :
          /\ rounds' = IF to = "pending" THEN [rounds EXCEPT ![t] = @ + 1] ELSE rounds
          /\ moves' = [moves EXCEPT !["tmo"] = Move(t, to)]
    BY <1>15 DEF Timeout
  <2>2. rounds' \in [Tasks -> Nat]
    BY <2>1
  <2>3. Move(t, to) \in [task : Tasks, to : Stages \cup Terminal, stale : BOOLEAN]
    BY DEF Move, Stages
  <2> QED
    BY <1>15, <2>1, <2>2, <2>3 DEF Timeout, procVars
<1>16. ASSUME NEW c \in Commands, Command(c[1], c[2][1], c[2][2]) PROVE Types'
  <2>1. cmds' \in [Commands -> Nat]
    BY <1>16, Counting DEF Command
  <2>2. Move(c[1], c[2][2]) \in [task : Tasks, to : Stages \cup Terminal, stale : BOOLEAN]
    BY CommandsGoForward DEF Move
  <2> QED
    BY <1>16, <2>1, <2>2 DEF Command, procVars
<1>17. ASSUME NEW g \in Movers, Commit(g) PROVE Types'
  <2>1. moves[g] \in [task : Tasks, to : Stages \cup Terminal, stale : BOOLEAN]
    BY <1>17 DEF Commit
  <2>2. ch' \in [Stages -> Seq(Tasks)]
    BY <1>13, <1>17, <2>1 DEF Commit
  <2>3. task' \in [Tasks -> {"none"} \cup Stages \cup Terminal]
    BY <1>17, <2>1 DEF Commit
  <2>4. moves' \in [Movers -> {NoMove} \cup
                      [task : Tasks, to : Stages \cup Terminal, stale : BOOLEAN]]
    <3>1. \A h \in Movers :
            \/ moves'[h] \in {NoMove, moves[h]}
            \/ moves[h].task \in Tasks /\ moves'[h] = [moves[h] EXCEPT !.stale = TRUE]
      BY <1>17, <2>1 DEF Commit, Overtaken
    <3>2. \A h \in Movers : moves[h].task \in Tasks =>
            moves[h] \in [task : Tasks, to : Stages \cup Terminal, stale : BOOLEAN]
      BY ComponentAssumption DEF NoMove
    <3>3. \A r \in [task : Tasks, to : Stages \cup Terminal, stale : BOOLEAN] :
            [r EXCEPT !.stale = TRUE] \in [task : Tasks, to : Stages \cup Terminal, stale : BOOLEAN]
      OBVIOUS
    <3>4. moves' = [h \in Movers |-> moves'[h]]
      BY <1>17 DEF Commit, Overtaken
    <3> QED
      BY <3>1, <3>2, <3>3, <3>4
  <2> QED
    BY <1>17, <2>2, <2>3, <2>4 DEF Commit
<1>18. ASSUME NEW g \in Movers, CommitFails(g) PROVE Types'
  BY <1>18 DEF CommitFails, procVars
<1> QED
  BY <1>1, <1>2, <1>3, <1>4, <1>5, <1>6, <1>7, <1>8, <1>9, <1>10, <1>11, <1>12,
     <1>14, <1>15, <1>16, <1>17, <1>18 DEF Next, Main, Work

-----------------------------------------------------------------------------
\* The worker decides on a count that only it changes.
LEMMA BoundStep == Types /\ RetriesBounded /\ [Next]_vars => RetriesBounded'
<1> SUFFICES ASSUME Types, RetriesBounded, [Next]_vars PROVE RetriesBounded'
  OBVIOUS
<1> DEFINE o == work["failover"][1]
<1>1. /\ "failover" \in Stages /\ 1 \in Workers("failover")
      /\ retries \in [Tasks -> Nat] /\ \A t \in Tasks : retries[t] <= MaxRetries
      /\ o.pc = "add" => retries[o.task] < MaxRetries
      /\ o.pc = "reset" => retries[o.task] = MaxRetries
      /\ o.pc \in {"count", "add", "reset"} => o.task \in Tasks
      /\ o \in Worker
      /\ MaxRetries \in Nat
  BY OneWorker, ComponentAssumption DEF Types, Formed, RetriesBounded, Stages
<1>2. ASSUME /\ \A t \in Tasks : retries'[t] <= MaxRetries
             /\ work'["failover"][1].pc = "add" =>
                    retries'[work'["failover"][1].task] < MaxRetries
             /\ work'["failover"][1].pc = "reset" =>
                    retries'[work'["failover"][1].task] = MaxRetries
      PROVE  RetriesBounded'
  BY <1>2, OneWorker DEF RetriesBounded
<1>3. CASE retries' = retries /\ work'["failover"][1] = o
  BY <1>1, <1>2, <1>3
<1>4. CASE retries' = retries /\ work'["failover"][1].pc \notin {"add", "reset"}
  BY <1>1, <1>2, <1>4
<1>5. ASSUME NEW s \in Stages, NEW w \in Workers(s), NEW r, Formed(s, r), Set(s, w, r),
             retries' = retries, r.pc \notin {"add", "reset"}
      PROVE  RetriesBounded'
  <2>1. work'["failover"][1] = o \/ work'["failover"][1] = r
    BY <1>1, <1>5, SetWorker
  <2> QED
    BY <1>3, <1>4, <1>5, <2>1
<1>6. CASE Start
  <2>1. Order[at] \in Stages
    BY StageOrder DEF Types
  <2>2. work'["failover"][1] = o \/ work'["failover"][1] = Idle
    BY <1>1, <1>6, <2>1 DEF Start, Types
  <2> QED
    BY <1>3, <1>4, <1>6, <2>2 DEF Start, Idle
<1>7. CASE Restart
  <2>1. work'["failover"][1] = Gone /\ \A t \in Tasks : retries'[t] = 0
    BY <1>1, <1>7 DEF Restart, NewProcess
  <2> QED
    BY <1>1, <1>2, <2>1 DEF Gone
<1>8. ASSUME NEW s \in Stages, NEW w \in Workers(s), Take(s, w) PROVE RetriesBounded'
  <2> DEFINE r == IF s = "failover"
                  THEN [pc |-> "count", task |-> Head(ch[s]), to |-> "none"]
                  ELSE [pc |-> "publish", task |-> Head(ch[s]), to |-> Component[s].to]
  <2>1. Head(ch[s]) \in Tasks
    BY <1>8 DEF Take, Types
  <2>2. Formed(s, r)
    BY <2>1, GoesTo DEF Formed, Worker, Pcs
  <2>3. Set(s, w, r) /\ retries' = retries /\ r.pc \notin {"add", "reset"}
    BY <1>8 DEF Take
  <2> HIDE DEF r
  <2> QED
    BY <1>5, <2>2, <2>3
<1>9. ASSUME NEW s \in Stages, NEW w \in Workers(s), Quit(s, w) \/ Publish(s, w)
      PROVE  RetriesBounded'
  <2>1. /\ Set(s, w, Gone) \/ Set(s, w, Idle)
        /\ retries' = retries
    BY <1>9 DEF Quit, Publish
  <2>2. Gone.pc \notin {"add", "reset"} /\ Idle.pc \notin {"add", "reset"}
    BY DEF Gone, Idle
  <2> QED
    BY <1>5, <2>1, <2>2, Resting
<1>10. ASSUME NEW w \in Workers("failover"), Failover(w) PROVE RetriesBounded'
  <2>1. w = 1
    BY <1>10, OneWorker
  <2>2. ASSUME NEW r, Set("failover", 1, r), o.pc # "gone"
        PROVE  work'["failover"][1] = r
    BY <1>1, <2>2 DEF Set, Types
  <2>3. CASE Count(1)
    <3> DEFINE r == [o EXCEPT !.pc = IF retries[o.task] >= MaxRetries THEN "reset" ELSE "add"]
    <3>1. work'["failover"][1] = r /\ retries' = retries /\ o.task \in Tasks
      BY <1>1, <2>2, <2>3 DEF Count
    <3>2. r.task = o.task /\ r.pc = IF retries[o.task] >= MaxRetries THEN "reset" ELSE "add"
      BY <1>1 DEF Worker
    <3> HIDE DEF r
    <3> QED
      BY <1>1, <1>2, <3>1, <3>2
  <2>4. CASE Reset(1)
    <3>1. work'["failover"][1].pc = "publish"
      BY <1>1, <2>2, <2>4 DEF Reset, Worker
    <3>2. \A t \in Tasks : retries'[t] <= MaxRetries
      BY <1>1, <2>4 DEF Reset
    <3> QED
      BY <1>2, <3>1, <3>2
  <2>5. CASE Add(1)
    <3>1. work'["failover"][1].pc = "select"
      BY <1>1, <2>2, <2>5 DEF Add, Idle
    <3>2. o.task \in Tasks /\ retries[o.task] < MaxRetries
      BY <1>1, <2>5 DEF Add
    <3>3. \A t \in Tasks : retries'[t] <= MaxRetries
      BY <1>1, <2>5, <3>2 DEF Add
    <3> QED
      BY <1>2, <3>1, <3>3
  <2> QED
    BY <1>10, <2>1, <2>3, <2>4, <2>5 DEF Failover
<1> QED
  BY <1>3, <1>6, <1>7, <1>8, <1>9, <1>10
     DEF Next, Main, Work, vars, procVars, Signal, StopBegins, StopEnds, EndStream, Fire,
         Create, Timeout, Command, Commit, CommitFails

\* The failover component keeps its limit of retries, and gives a task up only
\* after all of them, through timers, restarts and events that come twice:
\* getRetryCount and incrementRetryCount take the lock separately, but the pool
\* has one worker.
THEOREM RetriesBoundedHolds == Spec => []RetriesBounded
<1>1. CInv /\ [Next]_vars => CInv'
  BY TypesStep, BoundStep DEF CInv
<1>2. CInv => RetriesBounded
  BY DEF CInv
<1> QED
  BY <1>1, <1>2, InitCInv, PTL DEF Spec

-----------------------------------------------------------------------------
\* A move of a task.
LEMMA Moved ==
    ASSUME Types, NEW g \in Movers, Commit(g)
    PROVE  /\ moves[g].task \in Tasks
           /\ \A t \in Tasks :
                task'[t] = IF t = moves[g].task THEN moves[g].to ELSE task[t]
           /\ moves'[g] = NoMove
           /\ \A h \in Movers \ {g} :
                /\ moves[h].task # moves[g].task => moves'[h] = moves[h]
                /\ moves[h].task = moves[g].task => moves'[h] = [moves[h] EXCEPT !.stale = TRUE]
BY DEF Types, Commit, Overtaken

\* A timeout that moves the task of a command makes the command stale, a task is
\* created once, and while one command is to be written no other is checked.
LEMMA AheadStep == Types /\ Ahead /\ [Next]_vars => Ahead'
<1> SUFFICES ASSUME Types, Ahead, [Next]_vars PROVE Ahead'
  OBVIOUS
<1>1. CASE task' = task /\ moves'["cmd"] \in {moves["cmd"], NoMove}
  BY <1>1 DEF Ahead
<1>2. ASSUME NEW t \in Tasks, Create(t) PROVE Ahead'
  <2>1. \A u \in Tasks : task[u] # "none" => task'[u] = task[u]
    BY <1>2 DEF Create, Types
  <2>2. moves["cmd"] # NoMove => moves["cmd"].task \in Tasks
    BY DEF Types, Movers
  <2> QED
    BY <1>2, <2>1, <2>2 DEF Create, Ahead
<1>3. ASSUME NEW t \in Tasks, Timeout(t) PROVE Ahead'
  BY <1>1, <1>3 DEF Timeout, Types, Movers
<1>4. ASSUME NEW c \in Commands, Command(c[1], c[2][1], c[2][2]) PROVE Ahead'
  <2>1. CASE Accepted(c[1], c[2][1], c[2][2])
    <3>1. moves'["cmd"] = Move(c[1], c[2][2]) /\ task[c[1]] = c[2][1] /\ task' = task
      BY <1>4, <2>1 DEF Command, Accepted, Types, Movers
    <3>2. task[c[1]] # "none"
      BY <3>1, CommandsStart
    <3> QED
      BY <3>1, <3>2, CommandsGoForward DEF Ahead, Move
  <2>2. CASE ~Accepted(c[1], c[2][1], c[2][2])
    BY <1>1, <1>4, <2>2 DEF Command
  <2> QED
    BY <2>1, <2>2
<1>5. CASE Commit("cmd")
  BY <1>5, Moved DEF Ahead, Movers
<1>6. CASE Commit("tmo")
  <2>1. "tmo" \in Movers /\ "cmd" \in Movers \ {"tmo"}
    BY DEF Movers
  <2>2. CASE moves["cmd"].task # moves["tmo"].task
    <3>1. moves'["cmd"] = moves["cmd"]
      BY <1>6, <2>1, <2>2, Moved
    <3>2. moves["cmd"] # NoMove => moves["cmd"].task \in Tasks
      BY <2>1 DEF Types
    <3> QED
      BY <1>6, <2>1, <2>2, <3>1, <3>2, Moved DEF Ahead
  <2>3. CASE moves["cmd"].task = moves["tmo"].task
    <3>1. moves["cmd"].task \in Tasks /\ moves'["cmd"] = [moves["cmd"] EXCEPT !.stale = TRUE]
      BY <1>6, <2>1, <2>3, Moved
    <3>2. moves["cmd"] \in [task : Tasks, to : Stages \cup Terminal, stale : BOOLEAN]
      BY <2>1, <3>1, ComponentAssumption DEF Types, NoMove
    <3>3. moves'["cmd"].stale
      BY <3>1, <3>2
    <3> QED
      BY <3>3 DEF Ahead
  <2> QED
    BY <2>2, <2>3
<1>7. ASSUME NEW g \in Movers, CommitFails(g) PROVE Ahead'
  BY <1>1, <1>7 DEF CommitFails, Types, Movers
<1>8. CASE UNCHANGED <<task, moves>>
  BY <1>1, <1>8
<1>9. CASE \/ Main \/ Signal \/ Restart
           \/ \E s \in Stages : EndStream(s) \/ \E w \in Workers(s) : Work(s, w) \/ Quit(s, w)
           \/ \E w \in Workers("failover") : Failover(w)
           \/ \E t \in Tasks : Fire(t)
  BY <1>8, <1>9 DEF Main, Start, StopBegins, StopEnds, Signal, Restart, EndStream, Work,
     Take, Publish, Quit, Failover, Count, Reset, Add, Fire
<1> QED
  BY <1>2, <1>3, <1>4, <1>5, <1>6, <1>7, <1>8, <1>9 DEF Next, Movers, vars

\* Types and Ahead hold in every reachable state.
LEMMA AheadHolds == Spec => [](Types /\ Ahead)
<1>1. Init => Types /\ Ahead
  BY InitCInv DEF CInv, Init, Ahead, Movers
<1>2. Types /\ Ahead /\ [Next]_vars => (Types /\ Ahead)'
  BY TypesStep, AheadStep
<1> QED
  BY <1>1, <1>2, PTL DEF Spec

\* No command, however late, repeated or out of order, takes a task back or out
\* of a final state, unless a timeout moved the task between the unlocked read of
\* HandleTransitionCommand and the write of TransitionState: the state that the
\* command names is compared with the one that is read, and not again.
THEOREM OnlyForwardHolds == Spec => OnlyForward
<1> DEFINE Forward == \A t \in Tasks :
             task'[t] # task[t] => \/ Rank(task[t]) < Rank(task'[t])
                                   \/ Commits("tmo", t)
                                   \/ Commits("cmd", t) /\ moves["cmd"].stale
<1>1. Types /\ Ahead /\ [Next]_vars => [Forward]_vars
  <2> SUFFICES ASSUME Types, Ahead, Next PROVE Forward
    OBVIOUS
  <2>1. CASE task' = task
    BY <2>1
  <2>2. ASSUME NEW t \in Tasks, Create(t) PROVE Forward
    <3>1. \A u \in Tasks : task'[u] = IF u = t THEN "pending" ELSE task[u]
      BY <2>2 DEF Create, Types
    <3> QED
      BY <2>2, <3>1 DEF Create, Rank
  <2>3. CASE Commit("tmo")
    <3>1. "tmo" \in Movers
      BY DEF Movers
    <3> QED
      BY <2>3, <3>1, Moved DEF Commits
  <2>4. CASE Commit("cmd")
    <3>1. moves["cmd"] # NoMove /\ "cmd" \in Movers
      BY <2>4 DEF Commit, Movers
    <3>2. /\ moves'["cmd"] = NoMove
          /\ \A t \in Tasks :
               task'[t] = IF t = moves["cmd"].task THEN moves["cmd"].to ELSE task[t]
      BY <2>4, <3>1, Moved
    <3>3. moves["cmd"].stale \/ Rank(task[moves["cmd"].task]) < Rank(moves["cmd"].to)
      BY <3>1 DEF Ahead
    <3> QED
      BY <3>2, <3>3 DEF Commits
  <2>5. CASE \/ Main \/ Signal \/ Restart
             \/ \E s \in Stages : EndStream(s) \/ \E w \in Workers(s) : Work(s, w) \/ Quit(s, w)
             \/ \E w \in Workers("failover") : Failover(w)
             \/ \E t \in Tasks : Fire(t) \/ Timeout(t)
             \/ \E c \in Commands : Command(c[1], c[2][1], c[2][2])
             \/ \E g \in Movers : CommitFails(g)
    BY <2>1, <2>5 DEF Main, Start, StopBegins, StopEnds, Signal, Restart, EndStream, Work,
       Take, Publish, Quit, Failover, Count, Reset, Add, Fire, Timeout, Command, CommitFails
  <2> QED
    BY <2>2, <2>3, <2>4, <2>5 DEF Next, Movers
<1> QED
  BY <1>1, AheadHolds, PTL DEF Spec, OnlyForward

=============================================================================
