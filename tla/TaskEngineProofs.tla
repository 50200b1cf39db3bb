-------------------------- MODULE TaskEngineProofs --------------------------
(***************************************************************************)
(* Proofs about TaskEngine, for every set of tasks, every configuration    *)
(* the assumptions allow, and any number of restarts, database failures    *)
(* and panics, and about the check a configuration has to pass first       *)
(* (StateMachineConfig), for every configuration.                          *)
(*                                                                         *)
(* First what each write does to a stored record, then types, then the     *)
(* inductive invariant Inv, one lemma per property and one step per        *)
(* action, then the theorems.  Then that the scheduler implements          *)
(* TaskLife: two more invariants, and the step of TaskLife, or the         *)
(* stutter, that each action is.  The check of the configuration comes     *)
(* last: one invariant for each of its searches, one lemma for each        *)
(* action.                                                                 *)
(***************************************************************************)
EXTENDS TaskEngine, StateMachineConfig, FiniteSetTheorems, TLAPS

-----------------------------------------------------------------------------
(* What the writes of the model do to one record.                          *)

LEMMA NewRecordFacts ==
  /\ NewRecord \in Record
  /\ NewRecord.state = Pending /\ ~NewRecord.archived /\ NewRecord.retry = 0
  BY ConfigAssumption DEF NewRecord, Record, Deadlines

LEMMA StateWritten ==
  ASSUME NEW r \in Record, NEW s \in States
  PROVE  LET n == [r EXCEPT !.state = s]
         IN  /\ n \in Record /\ n.state = s
             /\ n.archived = r.archived /\ n.retry = r.retry
  BY DEF Record

LEMMA TimeoutWritten ==
  ASSUME NEW r \in Record, NEW d \in Deadlines
  PROVE  LET n == [r EXCEPT !.timeout = d]
         IN  /\ n \in Record /\ n.state = r.state
             /\ n.archived = r.archived /\ n.retry = r.retry
  BY DEF Record

LEMMA ResultWritten ==
  ASSUME NEW r \in Record
  PROVE  LET n == [r EXCEPT !.result = TRUE]
         IN  /\ n \in Record /\ n.state = r.state
             /\ n.archived = r.archived /\ n.retry = r.retry
  BY DEF Record

LEMMA CountedFacts ==
  ASSUME NEW r \in Record, NEW c \in Call
  PROVE  LET n == Counted(r, c)
         IN  /\ n \in Record /\ n.state = c.to
             /\ n.archived = r.archived /\ n.retry = c.retry
  BY DEF Record, Call, Counted

LEMMA RecoveredFacts ==
  ASSUME NEW r \in Record
  PROVE  LET n == Recovered(r)
         IN  /\ n \in Record /\ n.state = r.state /\ n.retry = r.retry
             /\ n.archived = (r.archived \/ IsTerminalState(r.state))
  BY DEF Record, Recovered

LEMMA TransitionedFacts ==
  ASSUME NEW r \in Record, NEW c \in Call
  PROVE  LET n == Transitioned(r, c)
         IN  /\ n \in Record /\ n.state = c.to
             /\ IsTerminalState(c.to) => n.archived
             /\ ~IsTerminalState(c.to) /\ ~r.archived => ~n.archived
             /\ n.retry = IF c.mode = "retry" THEN c.retry ELSE r.retry
  BY DEF Record, Call, Transitioned, Deadlines

-----------------------------------------------------------------------------
(* What the calls of the goroutines look like.                             *)

LEMMA NoCallFacts ==
  NoCall \in Call /\ NoCall.mode = "command" /\ NoCall.task = NoTask
  BY ConfigAssumption DEF NoCall, Call

LEMMA CommandCallFacts ==
  ASSUME NEW t \in Tasks, NEW from \in States, NEW to \in States
  PROVE  LET c == CommandCall(t, from, to)
         IN  c \in Call /\ c.mode = "command" /\ c.task = t
  BY DEF CommandCall, NoCall, Call

LEMMA TimeoutCallFacts ==
  ASSUME NEW t \in Tasks, NEW r \in Record
  PROVE  LET c == TimeoutCall(t, r)
         IN  c \in Call /\ c.mode = "command" /\ c.task = t
  BY ConfigAssumption DEF TimeoutCall, NoCall, Call, Record

LEMMA LookedFacts ==
  ASSUME NEW c \in Call, NEW r \in Record
  PROVE  LET d == Looked(c, r)
         IN  /\ d \in Call /\ d.mode = c.mode /\ d.task = c.task
             /\ d.to = c.to /\ d.retry = c.retry
  BY DEF Looked, Call, Record

LEMMA RetryCallFacts ==
  ASSUME NEW c \in Call, NEW r \in Record
  PROVE  LET d == RetryCall(c, r)
         IN  /\ d \in Call /\ d.mode = "retry" /\ d.task = c.task
             /\ d.to = RetryTo[r.state] /\ d.retry = r.retry + 1
<1>1. RetryTo[r.state] \in States /\ r.retry + 1 \in Nat
  BY ConfigAssumption DEF Record
<1>. QED
  BY <1>1 DEF RetryCall, Call

LEMMA ArchiveCallFacts ==
  ASSUME NEW c \in Call, NEW j \in 1..Len(TerminalStates)
  PROVE  LET d == ArchiveCall(c, j)
         IN  /\ d \in Call /\ d.mode = "archive" /\ d.task = c.task
             /\ IsTerminalState(d.to)
<1>1. TerminalStates[j] \in States /\ j \in Nat
  BY ConfigAssumption
<1>2. TerminalStates[j] \in Terminal
  BY DEF Terminal
<1>. QED
  BY <1>1, <1>2 DEF ArchiveCall, Call, IsTerminalState

LEMMA LateFacts ==
  ASSUME NEW c \in Call
  PROVE  LET d == [c EXCEPT !.late = TRUE]
         IN  /\ d \in Call /\ d.mode = c.mode /\ d.task = c.task
             /\ d.to = c.to /\ d.retry = c.retry
  BY DEF Call

-----------------------------------------------------------------------------
(* What the actions that write the table do to it.                         *)

\* The part of a record that the invariants speak of is as it was.
Kept(t) ==
    /\ rec'[t].state = rec[t].state
    /\ rec'[t].archived = rec[t].archived
    /\ rec'[t].retry = rec[t].retry

LEMMA StoreCreateEffect ==
  ASSUME TypeOK, StoreCreate, rec' # rec \/ tasks' # tasks
  PROVE  \E t \in Tasks \ tasks :
           /\ tasks' = tasks \cup {t}
           /\ rec' = [rec EXCEPT ![t] = NewRecord]
           /\ handler' = At("initial", t)
  BY DEF StoreCreate

LEMMA SetInitialStateEffect ==
  ASSUME TypeOK, SetInitialState
  PROVE  /\ rec' \in [Tasks -> Record]
         /\ \A t \in Tasks : \/ Kept(t)
                             \/ /\ rec'[t].state = InitialState
                                /\ rec'[t].archived = rec[t].archived
                                /\ rec'[t].retry = rec[t].retry
<1>1. CASE rec' = rec
  BY <1>1 DEF Kept, TypeOK
<1>2. CASE rec' = [rec EXCEPT ![handler.task].state = InitialState]
  <2> DEFINE r == [rec[handler.task] EXCEPT !.state = InitialState]
  <2>1. rec[handler.task] \in Record
    BY DEF SetInitialState, TypeOK
  <2>2. /\ r \in Record /\ r.state = InitialState
        /\ r.archived = rec[handler.task].archived
        /\ r.retry = rec[handler.task].retry
    BY <2>1, ConfigAssumption, StateWritten
  <2>3. rec' = [rec EXCEPT ![handler.task] = r]
    BY <1>2
  <2>. HIDE DEF r
  <2>. QED
    BY <2>2, <2>3 DEF TypeOK, Kept
<1>. QED
  BY <1>1, <1>2 DEF SetInitialState

LEMMA SetDeadlineEffect ==
  ASSUME TypeOK, SetDeadline
  PROVE  rec' \in [Tasks -> Record] /\ \A t \in Tasks : Kept(t)
<1>1. CASE rec' = rec
  BY <1>1 DEF Kept, TypeOK
<1>2. CASE rec' = [rec EXCEPT ![handler.task].timeout = "armed"]
  <2> DEFINE r == [rec[handler.task] EXCEPT !.timeout = "armed"]
  <2>1. rec[handler.task] \in Record
    BY DEF SetDeadline, TypeOK
  <2>2. /\ r \in Record /\ r.state = rec[handler.task].state
        /\ r.archived = rec[handler.task].archived
        /\ r.retry = rec[handler.task].retry
    BY <2>1, TimeoutWritten DEF Deadlines
  <2>3. rec' = [rec EXCEPT ![handler.task] = r]
    BY <1>2
  <2>. HIDE DEF r
  <2>. QED
    BY <2>2, <2>3 DEF TypeOK, Kept
<1>. QED
  BY <1>1, <1>2 DEF SetDeadline

LEMMA DeadlinePassesEffect ==
  ASSUME TypeOK, NEW t \in Tasks, DeadlinePasses(t)
  PROVE  rec' \in [Tasks -> Record] /\ \A u \in Tasks : Kept(u)
<1> DEFINE r == [rec[t] EXCEPT !.timeout = "expired"]
<1>1. /\ r \in Record /\ r.state = rec[t].state
      /\ r.archived = rec[t].archived /\ r.retry = rec[t].retry
  BY TimeoutWritten DEF TypeOK, Deadlines
<1>2. rec' = [rec EXCEPT ![t] = r]
  BY DEF DeadlinePasses
<1>. HIDE DEF r
<1>. QED
  BY <1>1, <1>2 DEF TypeOK, Kept

LEMMA FinishArchiveEffect ==
  ASSUME TypeOK, FinishArchive
  PROVE  rec' \in [Tasks -> Record] /\ \A t \in Tasks : Kept(t)
<1>1. CASE rec' = rec
  BY <1>1 DEF Kept, TypeOK
<1>2. CASE rec' = [rec EXCEPT ![call["tmo"].task].result = TRUE]
  <2> DEFINE t == call["tmo"].task
             r == [rec[t] EXCEPT !.result = TRUE]
  <2>1. rec[t] \in Record
    BY DEF FinishArchive, TypeOK, Goroutines
  <2>2. /\ r \in Record /\ r.state = rec[t].state
        /\ r.archived = rec[t].archived /\ r.retry = rec[t].retry
    BY <2>1, ResultWritten
  <2>3. rec' = [rec EXCEPT ![t] = r]
    BY <1>2
  <2>. HIDE DEF r
  <2>. QED
    BY <2>2, <2>3 DEF TypeOK, Kept
<1>. QED
  BY <1>1, <1>2 DEF FinishArchive

LEMMA EngineCommitEffect ==
  ASSUME TypeOK, NEW g \in Goroutines, EngineCommit(g), rec' # rec
  PROVE  /\ call[g].task \in tasks
         /\ rec' \in [Tasks -> Record]
         /\ \A t \in Tasks \ {call[g].task} : Kept(t)
         /\ LET c == call[g]
                n == rec'[c.task]
            IN  /\ n.state = c.to
                /\ IsTerminalState(c.to) => n.archived
                /\ ~IsTerminalState(c.to) /\ ~rec[c.task].archived => ~n.archived
                /\ n.retry = IF c.mode = "retry" THEN c.retry ELSE rec[c.task].retry
         /\ pc' = [pc EXCEPT ![g] = "ok"] \/ pc' = [pc EXCEPT ![g] = "dead"]
<1> DEFINE c == call[g]
           r == Transitioned(rec[c.task], c)
<1>1. c \in Call
  BY DEF TypeOK
<1>2. c.task \in tasks /\ rec' = [rec EXCEPT ![c.task] = r]
  BY DEF EngineCommit
<1>3. rec[c.task] \in Record
  BY <1>2 DEF TypeOK
<1>4. /\ r \in Record /\ r.state = c.to
      /\ IsTerminalState(c.to) => r.archived
      /\ ~IsTerminalState(c.to) /\ ~rec[c.task].archived => ~r.archived
      /\ r.retry = IF c.mode = "retry" THEN c.retry ELSE rec[c.task].retry
  BY <1>1, <1>3, TransitionedFacts
<1>5. pc' = [pc EXCEPT ![g] = "ok"] \/ pc' = [pc EXCEPT ![g] = "dead"]
  BY DEF EngineCommit
<1>. HIDE DEF r
<1>. QED
  BY <1>2, <1>4, <1>5 DEF TypeOK, Kept

LEMMA EngineCountEffect ==
  ASSUME TypeOK, NEW g \in Goroutines, EngineCount(g), rec' # rec
  PROVE  /\ call[g].task \in tasks
         /\ rec' \in [Tasks -> Record]
         /\ \A t \in Tasks \ {call[g].task} : Kept(t)
         /\ LET c == call[g]
                n == rec'[c.task]
            IN  n.state = c.to /\ n.archived = rec[c.task].archived /\ n.retry = c.retry
         /\ pc' = [pc EXCEPT ![g] = "ok"]
<1> DEFINE c == call[g]
           r == Counted(rec[c.task], c)
<1>1. c \in Call
  BY DEF TypeOK
<1>2. c.task \in tasks /\ rec' = [rec EXCEPT ![c.task] = r]
  BY DEF EngineCount
<1>3. rec[c.task] \in Record
  BY <1>2 DEF TypeOK
<1>4. /\ r \in Record /\ r.state = c.to /\ r.retry = c.retry
      /\ r.archived = rec[c.task].archived
  BY <1>1, <1>3, CountedFacts
<1>5. pc' = [pc EXCEPT ![g] = "ok"]
  BY DEF EngineCount
<1>. HIDE DEF r
<1>. QED
  BY <1>2, <1>4, <1>5 DEF TypeOK, Kept

LEMMA RestartEffect ==
  ASSUME TypeOK, Restart
  PROVE  /\ rec' \in [Tasks -> Record]
         /\ \A t \in Tasks :
              /\ rec'[t].state = rec[t].state /\ rec'[t].retry = rec[t].retry
              /\ rec[t].archived => rec'[t].archived
<1>1. PICK seen \in SUBSET tasks :
        rec' = [t \in Tasks |-> IF t \in seen THEN Recovered(rec[t]) ELSE rec[t]]
  BY DEF Restart
<1>2. \A t \in Tasks : /\ Recovered(rec[t]) \in Record
                       /\ Recovered(rec[t]).state = rec[t].state
                       /\ Recovered(rec[t]).retry = rec[t].retry
                       /\ rec[t].archived => Recovered(rec[t]).archived
  BY RecoveredFacts DEF TypeOK
<1>. QED
  BY <1>1, <1>2 DEF TypeOK

-----------------------------------------------------------------------------
(* Types.                                                                  *)

LEMMA TypeInit == Init => TypeOK
  BY NewRecordFacts, NoCallFacts, BoundAssumption
  DEF Init, At, TypeOK, Goroutines

LEMMA TypeHandler ==
  ASSUME TypeOK, PolicyMatched \/ HandlerStep
  PROVE  TypeOK'
<1> USE BoundAssumption DEF At
<1>1. CASE PolicyMatched
  BY <1>1 DEF PolicyMatched, TypeOK
<1>2. CASE TakeMatched
  BY <1>2 DEF TakeMatched, TypeOK
<1>3. CASE AcquireSlot
  BY <1>3 DEF AcquireSlot, TypeOK
<1>4. CASE StoreCreate
  BY <1>4, NewRecordFacts DEF StoreCreate, TypeOK
<1>5. CASE SetInitialState
  <2>1. rec' \in [Tasks -> Record]
    BY <1>5, SetInitialStateEffect
  <2>. QED
    BY <1>5, <2>1 DEF SetInitialState, TypeOK
<1>6. CASE SetDeadline
  <2>1. rec' \in [Tasks -> Record]
    BY <1>6, SetDeadlineEffect
  <2>2. heap' \subseteq tasks
    BY <1>6 DEF SetDeadline, TypeOK
  <2>. QED
    BY <1>6, <2>1, <2>2 DEF SetDeadline, TypeOK
<1>7. CASE PublishCreated
  BY <1>7 DEF PublishCreated, TypeOK
<1>8. CASE ReleaseAfterFailure
  BY <1>8 DEF ReleaseAfterFailure, TypeOK
<1>. QED
  BY <1>1, <1>2, <1>3, <1>4, <1>5, <1>6, <1>7, <1>8 DEF HandlerStep

LEMMA TypeEngine ==
  ASSUME TypeOK, NEW g \in Goroutines, EngineStep(g)
  PROVE  TypeOK'
<1>1. CASE EngineGet(g)
  <2>1. call' \in [Goroutines -> Call]
        /\ \A h \in Goroutines : call'[h].task = call[h].task
    <3>1. CASE call' = call
      BY <3>1 DEF TypeOK
    <3>2. CASE call[g].task \in tasks
               /\ call' = [call EXCEPT ![g] = Looked(call[g], rec[call[g].task])]
      <4>1. call[g] \in Call /\ rec[call[g].task] \in Record
        BY <3>2 DEF TypeOK
      <4>2. /\ Looked(call[g], rec[call[g].task]) \in Call
            /\ Looked(call[g], rec[call[g].task]).task = call[g].task
        BY <4>1, LookedFacts
      <4>. QED
        BY <3>2, <4>2 DEF TypeOK
    <3>. QED
      BY <1>1, <3>1, <3>2 DEF EngineGet
  <2>2. pc' \in [Goroutines -> {"idle", "handle", "get", "count", "commit",
                                "ok", "err", "dead"}]
        /\ \A h \in Goroutines : pc'[h] \notin {"idle", "dead"}
                                  => pc[h] \notin {"idle", "dead"}
    BY <1>1 DEF EngineGet, EngineVerdict, TypeOK
  <2>. QED
    BY <1>1, <2>1, <2>2 DEF EngineGet, TypeOK
<1>2. CASE EngineCommit(g)
  <2>1. rec' \in [Tasks -> Record]
    BY <1>2, EngineCommitEffect DEF TypeOK
  <2>2. told' \subseteq tasks
    BY <1>2 DEF EngineCommit, TypeOK
  <2>3. pc' \in [Goroutines -> {"idle", "handle", "get", "count", "commit",
                                "ok", "err", "dead"}]
        /\ \A h \in Goroutines : pc'[h] \notin {"idle", "dead"}
                                  => pc[h] \notin {"idle", "dead"}
    BY <1>2 DEF EngineCommit, TypeOK
  <2>. QED
    BY <1>2, <2>1, <2>2, <2>3 DEF EngineCommit, TypeOK
<1>3. CASE EngineCount(g)
  <2>1. rec' \in [Tasks -> Record]
    BY <1>3, EngineCountEffect DEF TypeOK
  <2>. QED
    BY <1>3, <2>1 DEF EngineCount, TypeOK
<1>. QED
  BY <1>1, <1>2, <1>3 DEF EngineStep

LEMMA TypeReturn ==
  ASSUME TypeOK, NEW g \in Goroutines, Return(g)
  PROVE  /\ pc' \in [Goroutines -> {"idle", "handle", "get", "count", "commit",
                                    "ok", "err", "dead"}]
         /\ call' \in [Goroutines -> Call]
         /\ \A h \in Goroutines : pc'[h] \notin {"idle", "dead"}
                                   => call'[h].task \in tasks
  BY NoCallFacts DEF Return, TypeOK

LEMMA TypeCommand ==
  ASSUME TypeOK, ReceiveCommand \/ FinishCommand
  PROVE  TypeOK'
<1>1. CASE ReceiveCommand
  <2>1. PICK t \in told, from \in States, to \in States :
          call' = [call EXCEPT !["cmd"] = CommandCall(t, from, to)]
    BY <1>1 DEF ReceiveCommand
  <2>2. CommandCall(t, from, to) \in Call /\ CommandCall(t, from, to).task \in tasks
    BY CommandCallFacts DEF TypeOK
  <2>. QED
    BY <1>1, <2>1, <2>2 DEF ReceiveCommand, TypeOK, Goroutines
<1>2. CASE FinishCommand
  <2>1. sem' \in 0..MaxConcurrent
    BY <1>2, BoundAssumption DEF FinishCommand, Released, TypeOK
  <2>. QED
    BY <1>2, <2>1, TypeReturn DEF FinishCommand, TypeOK, Goroutines
<1>. QED
  BY <1>1, <1>2

\* The calls that handleTaskArchive makes.
LEMMA ArchiveFromEffect ==
  ASSUME TypeOK, NEW i \in Nat \ {0}, ArchiveFrom(i)
  PROVE  \/ Return("tmo")
         \/ \E d \in Call :
              /\ d.mode = "archive" /\ d.task = call["tmo"].task
              /\ IsTerminalState(d.to)
              /\ call' = [call EXCEPT !["tmo"] = d]
              /\ pc' = [pc EXCEPT !["tmo"] = "get"]
<1>1. CASE Return("tmo")
  BY <1>1
<1>2. CASE \E j \in i..Len(TerminalStates) :
             /\ call' = [call EXCEPT !["tmo"] = ArchiveCall(call["tmo"], j)]
             /\ pc' = [pc EXCEPT !["tmo"] = "get"]
  <2>1. PICK j \in i..Len(TerminalStates) :
             /\ call' = [call EXCEPT !["tmo"] = ArchiveCall(call["tmo"], j)]
             /\ pc' = [pc EXCEPT !["tmo"] = "get"]
    BY <1>2
  <2>2. j \in 1..Len(TerminalStates) /\ call["tmo"] \in Call
    BY ConfigAssumption DEF TypeOK, Goroutines
  <2>. QED
    BY <2>1, <2>2, ArchiveCallFacts
<1>. QED
  BY <1>1, <1>2 DEF ArchiveFrom

LEMMA TypeArchiveFrom ==
  ASSUME TypeOK, NEW i \in Nat \ {0}, ArchiveFrom(i),
         pc["tmo"] \notin {"idle", "dead"},
         UNCHANGED <<tasks, rec, told, queue, sem, heap, handler, restarts>>
  PROVE  TypeOK'
<1>1. CASE Return("tmo")
  BY <1>1, TypeReturn DEF TypeOK, Goroutines
<1>2. CASE \E d \in Call : /\ d.task = call["tmo"].task
                           /\ call' = [call EXCEPT !["tmo"] = d]
                           /\ pc' = [pc EXCEPT !["tmo"] = "get"]
  BY <1>2 DEF TypeOK, Goroutines
<1>. QED
  BY <1>1, <1>2, ArchiveFromEffect

LEMMA TypeTimeout ==
  ASSUME TypeOK, TimeoutStep \/ \E t \in Tasks : DeadlinePasses(t)
  PROVE  TypeOK'
<1> USE DEF Goroutines
<1>1. ASSUME NEW t \in Tasks, DeadlinePasses(t)
      PROVE  TypeOK'
  <2>1. rec' \in [Tasks -> Record]
    BY <1>1, DeadlinePassesEffect
  <2>2. PICK G \in SUBSET Goroutines :
          call' = [g \in Goroutines |-> IF g \in G THEN [call[g] EXCEPT !.late = TRUE]
                                        ELSE call[g]]
    BY <1>1 DEF DeadlinePasses
  <2>3. \A g \in Goroutines : /\ [call[g] EXCEPT !.late = TRUE] \in Call
                              /\ [call[g] EXCEPT !.late = TRUE].task = call[g].task
    BY LateFacts DEF TypeOK
  <2>4. call' \in [Goroutines -> Call] /\ \A g \in Goroutines : call'[g].task = call[g].task
    BY <2>2, <2>3 DEF TypeOK
  <2>. QED
    BY <1>1, <2>1, <2>4 DEF DeadlinePasses, TypeOK
<1>2. CASE RebuildHeap
  BY <1>2 DEF RebuildHeap, TypeOK, Active
<1>3. ASSUME NEW t \in Tasks, PopExpired(t)
      PROVE  TypeOK'
  <2>1. TimeoutCall(t, rec[t]) \in Call /\ TimeoutCall(t, rec[t]).task = t
    BY TimeoutCallFacts DEF TypeOK
  <2>. QED
    BY <1>3, <2>1 DEF PopExpired, TypeOK
<1>4. CASE SkipTimeout \/ BackoffNotElapsed
  BY <1>4, TypeReturn DEF SkipTimeout, BackoffNotElapsed, TypeOK
<1>5. CASE HandleTaskRetry
  <2> DEFINE d == RetryCall(call["tmo"], rec[call["tmo"].task])
  <2>1. call' = [call EXCEPT !["tmo"] = d]
    BY <1>5 DEF HandleTaskRetry
  <2>2. call["tmo"] \in Call /\ rec[call["tmo"].task] \in Record
    BY <1>5 DEF HandleTaskRetry, TypeOK
  <2>3. d \in Call /\ d.task = call["tmo"].task
    BY <2>2, RetryCallFacts
  <2>. HIDE DEF d
  <2>. QED
    BY <1>5, <2>1, <2>3 DEF HandleTaskRetry, TypeOK
<1>6. CASE HandleTaskArchive
  BY <1>6, TypeArchiveFrom DEF HandleTaskArchive
<1>7. CASE ArchiveNextTerminal
  <2>1. call["tmo"].alt + 1 \in Nat \ {0}
    BY DEF TypeOK, Call
  <2>. QED
    BY <1>7, <2>1, TypeArchiveFrom DEF ArchiveNextTerminal
<1>8. CASE FinishArchive
  <2>1. rec' \in [Tasks -> Record]
    BY <1>8, FinishArchiveEffect
  <2>2. sem' \in 0..MaxConcurrent
    BY <1>8, BoundAssumption DEF FinishArchive, Released, TypeOK
  <2>. QED
    BY <1>8, <2>1, <2>2, TypeReturn DEF FinishArchive, TypeOK
<1>9. CASE FinishRetry
  <2>1. heap' \subseteq tasks
    BY <1>9 DEF FinishRetry, TypeOK
  <2>. QED
    BY <1>9, <2>1, TypeReturn DEF FinishRetry, TypeOK
<1>. QED
  BY <1>1, <1>2, <1>3, <1>4, <1>5, <1>6, <1>7, <1>8, <1>9 DEF TimeoutStep

LEMMA TypeRestart ==
  ASSUME TypeOK, Restart
  PROVE  TypeOK'
<1>1. rec' \in [Tasks -> Record]
  BY RestartEffect
<1>2. PICK seen \in SUBSET tasks :
        sem' = SmallerOf(Cardinality({t \in seen : ~rec'[t].archived}), MaxConcurrent)
  BY DEF Restart
<1>3. Cardinality({t \in seen : ~rec'[t].archived}) \in Nat
  <2>1. IsFiniteSet({t \in seen : ~rec'[t].archived})
    BY FS_Subset, BoundAssumption DEF TypeOK
  <2>. QED
    BY <2>1, FS_CardinalityType
<1>4. sem' \in 0..MaxConcurrent
  BY <1>2, <1>3, BoundAssumption DEF SmallerOf
<1>. QED
  BY <1>1, <1>4, NoCallFacts, BoundAssumption DEF Restart, TypeOK, At, Goroutines

LEMMA TypeNext == TypeOK /\ [Next]_vars => TypeOK'
<1> SUFFICES ASSUME TypeOK, [Next]_vars PROVE TypeOK'
  OBVIOUS
<1>1. CASE UNCHANGED vars
  BY <1>1 DEF vars, TypeOK
<1>. QED
  BY <1>1, TypeHandler, TypeEngine, TypeCommand, TypeTimeout, TypeRestart DEF Next

\* Every variable keeps its type, and goroutines, components and the heap only
\* refer to stored tasks.
THEOREM TypeCorrect == Spec => []TypeOK
  BY TypeInit, TypeNext, PTL DEF Spec

-----------------------------------------------------------------------------
(* The inductive invariant.                                                *)

\* The actions that leave the table, the archive marks and the counts alone.
QuietStep ==
    \/ PolicyMatched \/ TakeMatched \/ AcquireSlot \/ SetDeadline
    \/ PublishCreated \/ ReleaseAfterFailure
    \/ \E g \in Goroutines : EngineGet(g)
    \/ ReceiveCommand \/ FinishCommand
    \/ \E t \in Tasks : DeadlinePasses(t)
    \/ TimeoutStep
    \/ UNCHANGED vars

LEMMA QuietEffect ==
  ASSUME TypeOK, QuietStep
  PROVE  tasks' = tasks /\ \A t \in Tasks : Kept(t)
<1>1. CASE SetDeadline
  BY <1>1, SetDeadlineEffect DEF SetDeadline
<1>2. ASSUME NEW t \in Tasks, DeadlinePasses(t)
      PROVE  tasks' = tasks /\ \A u \in Tasks : Kept(u)
  BY <1>2, DeadlinePassesEffect DEF DeadlinePasses
<1>3. CASE FinishArchive
  BY <1>3, FinishArchiveEffect DEF FinishArchive
<1>4. CASE tasks' = tasks /\ rec' = rec
  BY <1>4 DEF Kept
<1>. QED
  BY <1>1, <1>2, <1>3, <1>4
  DEF QuietStep, PolicyMatched, TakeMatched, AcquireSlot, PublishCreated,
      ReleaseAfterFailure, EngineGet, ReceiveCommand, FinishCommand, TimeoutStep,
      RebuildHeap, PopExpired, SkipTimeout, BackoffNotElapsed, HandleTaskRetry,
      HandleTaskArchive, ArchiveNextTerminal, FinishRetry, vars

LEMMA StepKinds ==
  ASSUME [Next]_vars
  PROVE  \/ QuietStep \/ StoreCreate \/ SetInitialState \/ Restart
         \/ \E g \in Goroutines : EngineCommit(g) \/ EngineCount(g)
  BY DEF Next, QuietStep, HandlerStep, EngineStep

\* Every step leaves the retry count of every stored task alone, but for the
\* write of a retry by the timeout goroutine.
LEMMA RetryEffect ==
  ASSUME TypeOK, CallsAgree, [Next]_vars
  PROVE  \/ \A t \in tasks : rec'[t].retry = rec[t].retry
         \/ /\ call["tmo"].mode = "retry" /\ pc["tmo"] \in {"count", "commit"}
            /\ pc'["tmo"] \in {"ok", "dead"}
            /\ \A t \in tasks : \/ rec'[t].retry = rec[t].retry
                                \/ /\ t = call["tmo"].task
                                   /\ rec'[t].retry = call["tmo"].retry
<1>1. CASE QuietStep
  BY <1>1, QuietEffect DEF Kept, TypeOK
<1>2. CASE StoreCreate
  <2>1. CASE rec' # rec
    BY <1>2, <2>1, StoreCreateEffect DEF TypeOK
  <2>. QED
    BY <2>1
<1>3. CASE SetInitialState
  BY <1>3, SetInitialStateEffect DEF Kept, TypeOK
<1>4. CASE Restart
  BY <1>4, RestartEffect DEF TypeOK
<1>5. ASSUME NEW g \in Goroutines, EngineCommit(g), rec' # rec,
             call[g].mode = "retry"
      PROVE  /\ g = "tmo" /\ pc[g] = "commit" /\ pc'[g] \in {"ok", "dead"}
             /\ \A t \in tasks : \/ rec'[t].retry = rec[t].retry
                                 \/ t = call[g].task /\ rec'[t].retry = call[g].retry
  <2>1. g = "tmo"
    BY <1>5 DEF CallsAgree, Goroutines
  <2>2. pc[g] = "commit"
    BY <1>5 DEF EngineCommit
  <2>. QED
    BY <1>5, <2>1, <2>2, EngineCommitEffect DEF Kept, TypeOK
<1>6. ASSUME NEW g \in Goroutines, EngineCommit(g), rec' # rec,
             call[g].mode # "retry"
      PROVE  \A t \in tasks : rec'[t].retry = rec[t].retry
  BY <1>6, EngineCommitEffect DEF Kept, TypeOK
<1>7. ASSUME NEW g \in Goroutines, EngineCount(g), rec' # rec
      PROVE  /\ g = "tmo" /\ pc[g] = "count" /\ pc'[g] = "ok"
             /\ call[g].mode = "retry"
             /\ \A t \in tasks : \/ rec'[t].retry = rec[t].retry
                                 \/ t = call[g].task /\ rec'[t].retry = call[g].retry
  <2>1. pc[g] = "count"
    BY <1>7 DEF EngineCount
  <2>2. g = "tmo" /\ call[g].mode = "retry"
    BY <2>1 DEF CallsAgree, Goroutines
  <2>. QED
    BY <1>7, <2>1, <2>2, EngineCountEffect DEF Kept, TypeOK
<1>8. CASE rec' = rec
  BY <1>8
<1>. QED
  BY <1>1, <1>2, <1>3, <1>4, <1>5, <1>6, <1>7, <1>8, StepKinds

\* CallsAgree without the record, and where a retry in flight comes from.
CallsFormed ==
    /\ call'["cmd"].mode = "command"
    /\ \A g \in Goroutines : pc'[g] = "count" => call'[g].mode = "retry"
    /\ call'["tmo"].mode = "archive" => IsTerminalState(call'["tmo"].to)
    /\ call'["tmo"].mode = "retry" => ~IsTerminalState(call'["tmo"].to)
    /\ call'["tmo"].mode = "retry" /\ pc'["tmo"] \in {"get", "count", "commit"} =>
         \/ HandleTaskRetry
         \/ /\ call["tmo"].mode = "retry" /\ pc["tmo"] \in {"get", "count", "commit"}
            /\ call'["tmo"].task = call["tmo"].task
            /\ call'["tmo"].retry = call["tmo"].retry

LEMMA ReturnFormed ==
  ASSUME TypeOK, CallsAgree, NEW g \in Goroutines, Return(g)
  PROVE  CallsFormed
  BY NoCallFacts DEF Return, CallsFormed, CallsAgree, TypeOK, Goroutines

LEMMA EngineFormed ==
  ASSUME TypeOK, CallsAgree, NEW g \in Goroutines, EngineStep(g)
  PROVE  CallsFormed
<1>1. CASE EngineGet(g)
  <2>1. CASE call' = call /\ pc' = [pc EXCEPT ![g] = "err"]
    BY <1>1, <2>1 DEF CallsFormed, CallsAgree, TypeOK, Goroutines
  <2>2. CASE /\ call[g].task \in tasks
             /\ call' = [call EXCEPT ![g] = Looked(call[g], rec[call[g].task])]
             /\ pc' = [pc EXCEPT ![g] = EngineVerdict(call[g], rec[call[g].task])]
    <3> DEFINE d == Looked(call[g], rec[call[g].task])
               v == EngineVerdict(call[g], rec[call[g].task])
    <3>1. call[g] \in Call /\ rec[call[g].task] \in Record
      BY <2>2 DEF TypeOK
    <3>2. /\ d.mode = call[g].mode /\ d.task = call[g].task
          /\ d.to = call[g].to /\ d.retry = call[g].retry
      BY <3>1, LookedFacts
    <3>3. v = "count" => call[g].mode = "retry"
      BY DEF EngineVerdict
    <3>4. pc[g] = "get"
      BY <1>1 DEF EngineGet
    <3>5. call' = [call EXCEPT ![g] = d] /\ pc' = [pc EXCEPT ![g] = v]
      BY <2>2
    <3>. HIDE DEF d, v
    <3>. QED
      BY <3>2, <3>3, <3>4, <3>5 DEF CallsFormed, CallsAgree, TypeOK, Goroutines
  <2>. QED
    BY <1>1, <2>1, <2>2 DEF EngineGet
<1>2. CASE EngineCommit(g) \/ EngineCount(g)
  <2>1. /\ call' = call
        /\ \/ pc' = [pc EXCEPT ![g] = "ok"] \/ pc' = [pc EXCEPT ![g] = "err"]
           \/ pc' = [pc EXCEPT ![g] = "dead"]
    BY <1>2 DEF EngineCommit, EngineCount
  <2>. QED
    BY <2>1 DEF CallsFormed, CallsAgree, TypeOK, Goroutines
<1>. QED
  BY <1>1, <1>2 DEF EngineStep

LEMMA TimeoutFormed ==
  ASSUME TypeOK, CallsAgree, TimeoutStep \/ \E t \in Tasks : DeadlinePasses(t)
  PROVE  CallsFormed
<1> USE DEF Goroutines
<1>1. ASSUME NEW t \in Tasks, DeadlinePasses(t)
      PROVE  CallsFormed
  <2>1. PICK G \in SUBSET Goroutines :
          call' = [g \in Goroutines |-> IF g \in G THEN [call[g] EXCEPT !.late = TRUE]
                                        ELSE call[g]]
    BY <1>1 DEF DeadlinePasses
  <2>2. \A g \in Goroutines : LET d == [call[g] EXCEPT !.late = TRUE]
                              IN  /\ d.mode = call[g].mode /\ d.task = call[g].task
                                  /\ d.to = call[g].to /\ d.retry = call[g].retry
    BY LateFacts DEF TypeOK
  <2>3. \A g \in Goroutines :
          /\ call'[g].mode = call[g].mode /\ call'[g].task = call[g].task
          /\ call'[g].to = call[g].to /\ call'[g].retry = call[g].retry
    BY <2>1, <2>2
  <2>. QED
    BY <1>1, <2>3 DEF DeadlinePasses, CallsFormed, CallsAgree
<1>2. CASE RebuildHeap
  BY <1>2 DEF RebuildHeap, CallsFormed, CallsAgree
<1>3. ASSUME NEW t \in Tasks, PopExpired(t)
      PROVE  CallsFormed
  <2>1. TimeoutCall(t, rec[t]).mode = "command"
    BY TimeoutCallFacts DEF TypeOK
  <2>. QED
    BY <1>3, <2>1 DEF PopExpired, CallsFormed, CallsAgree, TypeOK
<1>4. CASE SkipTimeout \/ BackoffNotElapsed \/ FinishArchive \/ FinishRetry
  BY <1>4, ReturnFormed DEF SkipTimeout, BackoffNotElapsed, FinishArchive, FinishRetry
<1>5. CASE HandleTaskRetry
  <2> DEFINE t == call["tmo"].task
             d == RetryCall(call["tmo"], rec[t])
  <2>1. call' = [call EXCEPT !["tmo"] = d] /\ pc' = [pc EXCEPT !["tmo"] = "get"]
    BY <1>5 DEF HandleTaskRetry
  <2>2. call["tmo"] \in Call /\ rec[t] \in Record /\ rec[t].state \in AutoRetry
    BY <1>5 DEF HandleTaskRetry, MayRetry, TypeOK
  <2>3. d.mode = "retry" /\ ~IsTerminalState(d.to)
    BY <2>2, RetryCallFacts, NonTerminalAssumption DEF IsTerminalState
  <2>. HIDE DEF d
  <2>. QED
    BY <1>5, <2>1, <2>3 DEF CallsFormed, CallsAgree, TypeOK
<1>6. ASSUME NEW i \in Nat \ {0}, ArchiveFrom(i)
      PROVE  CallsFormed
  <2>1. CASE Return("tmo")
    BY <2>1, ReturnFormed
  <2>2. CASE \E d \in Call : /\ d.mode = "archive" /\ IsTerminalState(d.to)
                             /\ call' = [call EXCEPT !["tmo"] = d]
                             /\ pc' = [pc EXCEPT !["tmo"] = "get"]
    BY <2>2 DEF CallsFormed, CallsAgree, TypeOK
  <2>. QED
    BY <1>6, <2>1, <2>2, ArchiveFromEffect
<1>7. call["tmo"].alt + 1 \in Nat \ {0}
  BY DEF TypeOK, Call
<1>. QED
  BY <1>1, <1>2, <1>3, <1>4, <1>5, <1>6, <1>7
  DEF TimeoutStep, HandleTaskArchive, ArchiveNextTerminal

LEMMA NextFormed ==
  ASSUME TypeOK, CallsAgree, [Next]_vars
  PROVE  CallsFormed
<1>1. CASE call' = call /\ pc' = pc
  BY <1>1 DEF CallsFormed, CallsAgree
<1>2. CASE ReceiveCommand
  <2>1. PICK t \in told, from \in States, to \in States :
          call' = [call EXCEPT !["cmd"] = CommandCall(t, from, to)]
    BY <1>2 DEF ReceiveCommand
  <2>2. CommandCall(t, from, to).mode = "command"
    BY CommandCallFacts DEF TypeOK
  <2>. QED
    BY <1>2, <2>1, <2>2 DEF ReceiveCommand, CallsFormed, CallsAgree, TypeOK, Goroutines
<1>3. CASE FinishCommand
  BY <1>3, ReturnFormed DEF FinishCommand, Goroutines
<1>4. CASE Restart
  BY <1>4, NoCallFacts DEF Restart, CallsFormed, Goroutines
<1>5. PolicyMatched \/ HandlerStep \/ UNCHANGED vars => call' = call /\ pc' = pc
  BY DEF PolicyMatched, HandlerStep, TakeMatched, AcquireSlot, StoreCreate,
         SetInitialState, SetDeadline, PublishCreated, ReleaseAfterFailure, vars
<1>. QED
  BY <1>1, <1>2, <1>3, <1>4, <1>5, EngineFormed, TimeoutFormed DEF Next

LEMMA AgreeNext ==
  ASSUME TypeOK, CallsAgree, [Next]_vars
  PROVE  CallsAgree'
<1> SUFFICES ASSUME call'["tmo"].mode = "retry",
                    pc'["tmo"] \in {"get", "count", "commit"}
             PROVE  /\ call'["tmo"].retry = rec'[call'["tmo"].task].retry + 1
                    /\ \E s \in AutoRetry : call'["tmo"].retry <= MaxRetries[s]
  BY NextFormed DEF CallsAgree, CallsFormed
<1>1. CASE HandleTaskRetry
  <2> DEFINE t == call["tmo"].task
             d == RetryCall(call["tmo"], rec[t])
  <2>1. call' = [call EXCEPT !["tmo"] = d] /\ rec' = rec
    BY <1>1 DEF HandleTaskRetry
  <2>2. /\ call["tmo"] \in Call /\ rec[t] \in Record
        /\ rec[t].state \in AutoRetry /\ rec[t].retry < MaxRetries[rec[t].state]
    BY <1>1 DEF HandleTaskRetry, MayRetry, TypeOK, Goroutines
  <2>3. d.task = t /\ d.retry = rec[t].retry + 1
    BY <2>2, RetryCallFacts
  <2>4. rec[t].retry \in Nat /\ MaxRetries[rec[t].state] \in Nat
    BY <2>2, ConfigAssumption DEF Record
  <2>5. d.retry <= MaxRetries[rec[t].state]
    BY <2>2, <2>3, <2>4
  <2>6. call'["tmo"] = d
    BY <2>1 DEF TypeOK, Goroutines
  <2>. HIDE DEF d
  <2>. QED
    BY <2>1, <2>2, <2>3, <2>5, <2>6
<1>2. CASE /\ call["tmo"].mode = "retry" /\ pc["tmo"] \in {"get", "count", "commit"}
           /\ call'["tmo"].task = call["tmo"].task
           /\ call'["tmo"].retry = call["tmo"].retry
  <2>1. call["tmo"].task \in tasks
    BY <1>2 DEF TypeOK, Goroutines
  <2>2. rec'[call["tmo"].task].retry = rec[call["tmo"].task].retry
    BY <2>1, RetryEffect
  <2>. QED
    BY <1>2, <2>2 DEF CallsAgree
<1>. QED
  BY <1>1, <1>2, NextFormed DEF CallsFormed

LEMMA NoOrphanNext ==
  ASSUME TypeOK, CallsAgree, NoOrphan, [Next]_vars
  PROVE  NoOrphan'
<1>1. CASE QuietStep
  BY <1>1, QuietEffect DEF Kept, NoOrphan, TypeOK
<1>2. CASE StoreCreate
  <2>1. CASE rec' # rec \/ tasks' # tasks
    BY <1>2, <2>1, StoreCreateEffect, NewRecordFacts, NonTerminalAssumption
    DEF NoOrphan, IsTerminalState, TypeOK
  <2>. QED
    BY <2>1 DEF NoOrphan
<1>3. CASE SetInitialState
  <2>1. tasks' = tasks
    BY <1>3 DEF SetInitialState
  <2>. QED
    BY <1>3, <2>1, SetInitialStateEffect, NonTerminalAssumption
    DEF Kept, NoOrphan, IsTerminalState, TypeOK
<1>4. CASE Restart
  <2>1. tasks' = tasks
    BY <1>4 DEF Restart
  <2>. QED
    BY <1>4, <2>1, RestartEffect DEF NoOrphan, TypeOK
<1>5. ASSUME NEW g \in Goroutines, EngineCommit(g)
      PROVE  NoOrphan'
  <2>1. tasks' = tasks
    BY <1>5 DEF EngineCommit
  <2>2. CASE rec' # rec
    BY <1>5, <2>1, <2>2, EngineCommitEffect DEF Kept, NoOrphan, TypeOK
  <2>. QED
    BY <2>1, <2>2 DEF NoOrphan
<1>6. ASSUME NEW g \in Goroutines, EngineCount(g)
      PROVE  NoOrphan'
  <2>1. tasks' = tasks /\ pc[g] = "count"
    BY <1>6 DEF EngineCount
  <2>2. ~IsTerminalState(call[g].to)
    BY <2>1 DEF CallsAgree, Goroutines
  <2>3. CASE rec' # rec
    BY <1>6, <2>1, <2>2, <2>3, EngineCountEffect DEF Kept, NoOrphan, TypeOK
  <2>. QED
    BY <2>1, <2>3 DEF NoOrphan
<1>. QED
  BY <1>1, <1>2, <1>3, <1>4, <1>5, <1>6, StepKinds

LEMMA RetryBudgetNext ==
  ASSUME TypeOK, CallsAgree, RetryBudget, [Next]_vars
  PROVE  RetryBudget'
<1>1. \A t \in tasks' \ tasks : rec'[t].retry = 0
  <2>1. CASE StoreCreate /\ tasks' # tasks
    BY <2>1, StoreCreateEffect, NewRecordFacts DEF TypeOK
  <2>2. CASE tasks' = tasks
    BY <2>2
  <2>3. SetInitialState \/ Restart => tasks' = tasks
    BY DEF SetInitialState, Restart
  <2>4. \A g \in Goroutines : EngineCommit(g) \/ EngineCount(g) => tasks' = tasks
    BY DEF EngineCommit, EngineCount
  <2>. QED
    BY <2>1, <2>2, <2>3, <2>4, StepKinds, QuietEffect
<1>2. \A t \in tasks : \/ rec'[t].retry = 0
                       \/ \E s \in AutoRetry : rec'[t].retry <= MaxRetries[s]
  BY RetryEffect DEF RetryBudget, CallsAgree
<1>. QED
  BY <1>1, <1>2 DEF RetryBudget

\* Active loses at most the task that a step archives.
LEMMA ActiveFinite ==
  ASSUME TypeOK
  PROVE  IsFiniteSet(Active) /\ Cardinality(Active) \in Nat
<1>1. Active \subseteq Tasks
  BY DEF Active, TypeOK
<1>. QED
  BY <1>1, BoundAssumption, FS_Subset, FS_CardinalityType

LEMMA ActiveKept ==
  ASSUME tasks' = tasks, \A t \in tasks : rec'[t].archived = rec[t].archived
  PROVE  Active' = Active
  BY DEF Active

\* The steps that leave Active alone.
LEMMA SlotsQuiet ==
  ASSUME TypeOK, CallsAgree, NoSlotLeak, QuietStep
  PROVE  NoSlotLeak'
<1>1. Active' = Active
  BY QuietEffect, ActiveKept DEF Kept, TypeOK
<1>2. Cardinality(Active) \in Nat /\ sem \in Nat
  BY ActiveFinite, BoundAssumption DEF TypeOK
<1>3. Cardinality(Active') = Cardinality(Active)
  BY <1>1
<1> DEFINE A == Cardinality(Active)
<1>4. sem <= A + SlotsInTransit
  BY DEF NoSlotLeak
<1>5. SUFFICES sem' <= A + SlotsInTransit'
  BY <1>3 DEF NoSlotLeak
<1>. USE <1>2, <1>4 DEF SlotsInTransit, Goroutines
<1>6. CASE PolicyMatched \/ TakeMatched \/ AcquireSlot \/ SetDeadline
           \/ PublishCreated \/ ReleaseAfterFailure
  BY <1>6 DEF PolicyMatched, TakeMatched, AcquireSlot, SetDeadline,
              PublishCreated, ReleaseAfterFailure, At, Owes
<1>7. ASSUME NEW g \in Goroutines, EngineGet(g)
      PROVE  sem' <= A + SlotsInTransit'
  <2>1. ~Owes(g)
    BY <1>7 DEF EngineGet, Owes
  <2>2. \A h \in Goroutines \ {g} : Owes(h)' = Owes(h)
    BY <1>7 DEF EngineGet, Owes, TypeOK
  <2>3. sem' = sem /\ handler' = handler
    BY <1>7 DEF EngineGet
  <2>. QED
    BY <2>1, <2>2, <2>3
<1>8. CASE ReceiveCommand
  <2>1. ~Owes("cmd") /\ Owes("tmo")' = Owes("tmo") /\ sem' = sem /\ handler' = handler
    BY <1>8 DEF ReceiveCommand, Owes, TypeOK
  <2>. QED
    BY <2>1
<1>9. CASE FinishCommand
  <2>1. Owes("tmo")' = Owes("tmo") /\ handler' = handler /\ ~Owes("cmd")'
    BY <1>9 DEF FinishCommand, Return, Owes, TypeOK
  <2>2. sem' = IF Owes("cmd") THEN Released ELSE sem
    BY <1>9 DEF FinishCommand, Owes
  <2>. QED
    BY <2>1, <2>2 DEF Released
<1>10. ASSUME NEW t \in Tasks, DeadlinePasses(t)
       PROVE  sem' <= A + SlotsInTransit'
  <2>1. \A g \in Goroutines : pc[g] = "ok" => call'[g] = call[g]
    BY <1>10 DEF DeadlinePasses, TypeOK
  <2>2. \A g \in Goroutines : Owes(g)' = Owes(g)
    BY <1>10, <2>1 DEF DeadlinePasses, Owes
  <2>3. sem' = sem /\ handler' = handler
    BY <1>10 DEF DeadlinePasses
  <2>. QED
    BY <2>2, <2>3
<1>11. CASE TimeoutStep /\ ~FinishArchive
  <2>1. ~Owes("tmo") \/ UNCHANGED <<pc, call>>
    BY <1>11 DEF TimeoutStep, RebuildHeap, PopExpired, SkipTimeout, BackoffNotElapsed,
         HandleTaskRetry, HandleTaskArchive, ArchiveNextTerminal, FinishRetry, Owes,
         CallsAgree
  <2>2. sem' = sem /\ handler' = handler
    BY <1>11 DEF TimeoutStep, RebuildHeap, PopExpired, SkipTimeout, BackoffNotElapsed,
         HandleTaskRetry, HandleTaskArchive, ArchiveNextTerminal, FinishRetry
  <2>3. pc'["cmd"] = pc["cmd"] /\ call'["cmd"] = call["cmd"]
    BY <1>11 DEF TimeoutStep, RebuildHeap, PopExpired, SkipTimeout, BackoffNotElapsed,
         HandleTaskRetry, HandleTaskArchive, ArchiveNextTerminal, FinishRetry, Return,
         ArchiveFrom, TypeOK
  <2>4. Owes("cmd")' = Owes("cmd")
    BY <2>3 DEF Owes
  <2>5. CASE UNCHANGED <<pc, call>>
    BY <2>2, <2>5 DEF Owes
  <2>. QED
    BY <2>1, <2>2, <2>4, <2>5
<1>12. CASE FinishArchive
  <2>1. Owes("cmd")' = Owes("cmd") /\ handler' = handler /\ ~Owes("tmo")'
    BY <1>12 DEF FinishArchive, Return, Owes, TypeOK
  <2>2. Owes("tmo") /\ sem' = Released
    BY <1>12 DEF FinishArchive, Owes, CallsAgree
  <2>. QED
    BY <2>1, <2>2 DEF Released
<1>13. CASE UNCHANGED vars
  BY <1>13 DEF vars, Owes
<1>. QED
  BY <1>6, <1>7, <1>8, <1>9, <1>10, <1>11, <1>12, <1>13 DEF QuietStep

\* The steps that change Active, or count it again.
LEMMA SlotsNext ==
  ASSUME TypeOK, TypeOK', CallsAgree, NoSlotLeak, [Next]_vars
  PROVE  NoSlotLeak'
<1>1. IsFiniteSet(Active) /\ Cardinality(Active) \in Nat
  BY ActiveFinite
<1>2. IsFiniteSet(Active') /\ Cardinality(Active') \in Nat
  <2>1. Active' \subseteq Tasks
    BY DEF Active, TypeOK
  <2>. QED
    BY <2>1, BoundAssumption, FS_Subset, FS_CardinalityType
<1>3. sem \in Nat /\ sem' \in Nat /\ sem <= Cardinality(Active) + SlotsInTransit
  BY BoundAssumption DEF TypeOK, NoSlotLeak
<1>4. CASE StoreCreate
  <2>1. CASE rec' # rec \/ tasks' # tasks
    <3>1. PICK t \in Tasks \ tasks : /\ tasks' = tasks \cup {t}
                                     /\ rec' = [rec EXCEPT ![t] = NewRecord]
                                     /\ handler' = At("initial", t)
      BY <1>4, <2>1, StoreCreateEffect
    <3>2. Active' = Active \cup {t} /\ t \notin Active
      BY <3>1, NewRecordFacts DEF Active, TypeOK
    <3>3. Cardinality(Active') = Cardinality(Active) + 1
      BY <1>1, <3>2, FS_AddElement
    <3>. QED
      BY <1>1, <1>3, <1>4, <3>1, <3>3 DEF StoreCreate, NoSlotLeak, SlotsInTransit, Owes, At
  <2>2. CASE rec' = rec /\ tasks' = tasks
    <3>1. Active' = Active
      BY <2>2 DEF Active
    <3>2. handler' = At("release", NoTask)
      BY <1>4, <2>2 DEF StoreCreate
    <3>. QED
      BY <1>1, <1>3, <1>4, <3>1, <3>2
      DEF StoreCreate, NoSlotLeak, SlotsInTransit, Owes, At
  <2>. QED
    BY <2>1, <2>2
<1>5. CASE SetInitialState
  <2>1. Active' = Active
    BY <1>5, SetInitialStateEffect, ActiveKept DEF SetInitialState, Kept, TypeOK
  <2>. QED
    BY <1>1, <1>3, <1>5, <2>1 DEF SetInitialState, NoSlotLeak, SlotsInTransit, Owes, At
<1>6. CASE Restart
  <2>1. PICK seen \in SUBSET tasks :
          sem' = SmallerOf(Cardinality({t \in seen : ~rec'[t].archived}), MaxConcurrent)
    BY <1>6 DEF Restart
  <2>2. {t \in seen : ~rec'[t].archived} \subseteq Active'
    BY <1>6 DEF Restart, Active
  <2>3. Cardinality({t \in seen : ~rec'[t].archived}) <= Cardinality(Active')
    BY <1>2, <2>2, FS_Subset
  <2>4. Cardinality({t \in seen : ~rec'[t].archived}) \in Nat
    BY <1>2, <2>2, FS_Subset, FS_CardinalityType
  <2>5. sem' <= Cardinality(Active')
    BY <1>2, <2>1, <2>3, <2>4, BoundAssumption DEF SmallerOf
  <2>. QED
    BY <1>2, <1>3, <2>5 DEF NoSlotLeak, SlotsInTransit
<1>7. ASSUME NEW g \in Goroutines, EngineCommit(g)
      PROVE  NoSlotLeak'
  <2>1. /\ sem' = sem /\ handler' = handler /\ tasks' = tasks
        /\ call' = call /\ pc[g] = "commit"
    BY <1>7 DEF EngineCommit
  <2>2. \A h \in Goroutines \ {g} : Owes(h)' = Owes(h)
    BY <1>7, <2>1 DEF EngineCommit, Owes, TypeOK
  <2>3. ~Owes(g)
    BY <2>1 DEF Owes
  <2>4. CASE rec' = rec
    <3>1. Active' = Active
      BY <2>1, <2>4 DEF Active
    <3>. QED
      BY <1>1, <1>3, <2>1, <2>2, <2>3, <3>1 DEF NoSlotLeak, SlotsInTransit, Goroutines
  <2>5. CASE rec' # rec /\ IsTerminalState(call[g].to)
    <3> DEFINE t == call[g].task
    <3>1. Owes(g)'
      BY <1>7, <2>1, <2>5, EngineCommitEffect DEF Owes, TypeOK
    <3>2. /\ t \in tasks /\ rec'[t].archived
          /\ \A u \in Tasks \ {t} : rec'[u].archived = rec[u].archived
      BY <1>7, <2>5, EngineCommitEffect DEF Kept
    <3>3. Active' = Active \ {t}
      BY <2>1, <3>2 DEF Active, TypeOK
    <3>4. Cardinality(Active) <= Cardinality(Active') + 1
      <4>1. Cardinality(Active \ {t})
              = IF t \in Active THEN Cardinality(Active) - 1 ELSE Cardinality(Active)
        BY <1>1, FS_RemoveElement
      <4>. QED
        BY <1>1, <3>3, <4>1
    <3>. QED
      BY <1>1, <1>2, <1>3, <2>1, <2>2, <2>3, <3>1, <3>4
      DEF NoSlotLeak, SlotsInTransit, Goroutines
  <2>6. CASE rec' # rec /\ ~IsTerminalState(call[g].to)
    <3> DEFINE t == call[g].task
    <3>1. /\ t \in tasks /\ (~rec[t].archived => ~rec'[t].archived)
          /\ \A u \in Tasks \ {t} : rec'[u].archived = rec[u].archived
      BY <1>7, <2>6, EngineCommitEffect DEF Kept
    <3>2. Active \subseteq Active'
      BY <2>1, <3>1 DEF Active, TypeOK
    <3>3. Cardinality(Active) <= Cardinality(Active')
      BY <1>2, <3>2, FS_Subset
    <3>. QED
      BY <1>1, <1>2, <1>3, <2>1, <2>2, <2>3, <3>3
      DEF NoSlotLeak, SlotsInTransit, Goroutines
  <2>. QED
    BY <2>4, <2>5, <2>6
<1>8. ASSUME NEW g \in Goroutines, EngineCount(g)
      PROVE  NoSlotLeak'
  <2>1. /\ sem' = sem /\ handler' = handler /\ tasks' = tasks /\ pc[g] = "count"
    BY <1>8 DEF EngineCount
  <2>2. Active' = Active
    <3>1. CASE rec' = rec
      BY <2>1, <3>1 DEF Active
    <3>2. CASE rec' # rec
      BY <1>8, <2>1, <3>2, EngineCountEffect, ActiveKept DEF Kept, TypeOK
    <3>. QED
      BY <3>1, <3>2
  <2>3. \A h \in Goroutines \ {g} : Owes(h)' = Owes(h)
    BY <1>8 DEF EngineCount, Owes, TypeOK
  <2>4. ~Owes(g)
    BY <2>1 DEF Owes
  <2>. QED
    BY <1>1, <1>3, <2>1, <2>2, <2>3, <2>4 DEF NoSlotLeak, SlotsInTransit, Goroutines
<1>. QED
  BY <1>4, <1>5, <1>6, <1>7, <1>8, SlotsQuiet, StepKinds

-----------------------------------------------------------------------------
(* The theorems.                                                           *)

Inv == TypeOK /\ CallsAgree /\ NoOrphan /\ RetryBudget /\ NoSlotLeak

LEMMA InvInit == Init => Inv
<1> SUFFICES ASSUME Init PROVE Inv
  OBVIOUS
<1>1. TypeOK
  BY TypeInit
<1>2. CallsAgree
  BY NoCallFacts DEF Init, CallsAgree, Goroutines
<1>3. Active = {}
  BY DEF Init, Active
<1>4. NoSlotLeak
  BY <1>3, FS_EmptySet DEF Init, At, NoSlotLeak, SlotsInTransit, Owes, Goroutines
<1>. QED
  BY <1>1, <1>2, <1>4 DEF Init, Inv, NoOrphan, RetryBudget

LEMMA InvNext == Inv /\ [Next]_vars => Inv'
  BY TypeNext, AgreeNext, NoOrphanNext, RetryBudgetNext, SlotsNext DEF Inv

\* The inductive invariant holds: the scheduler keeps its types, the calls in
\* progress agree with the stored tasks, and the four properties follow.
THEOREM InvHolds == Spec => []Inv
  BY InvInit, InvNext, PTL DEF Spec

\* No write of the scheduler, and no crash between two of them, leaves a task
\* in a terminal state without its archive mark.
THEOREM NoOrphanHolds == Spec => []NoOrphan
<1>1. Inv => NoOrphan
  BY DEF Inv
<1>. QED
  BY <1>1, InvHolds, PTL

\* The scheduler never loses a slot of the concurrency semaphore, for any
\* interleaving of commands, timeouts, failed writes and restarts; a panic in
\* a publication costs at most one slot per goroutine.
THEOREM NoSlotLeakHolds == Spec => []NoSlotLeak
<1>1. Inv => NoSlotLeak
  BY DEF Inv
<1>. QED
  BY <1>1, InvHolds, PTL

\* No task is retried more often than the configuration allows.
THEOREM RetryBudgetHolds == Spec => []RetryBudget
<1>1. Inv => RetryBudget
  BY DEF Inv
<1>. QED
  BY <1>1, InvHolds, PTL

\* A retry count only moves up by one, whatever was read before.
THEOREM RetryStepsByOneHolds == Spec => RetryStepsByOne
<1>1. Inv /\ [Next]_vars
      => [\A t \in tasks : rec'[t].retry \in {rec[t].retry, rec[t].retry + 1}]_vars
  BY RetryEffect DEF Inv, CallsAgree
<1>. QED
  BY <1>1, InvHolds, PTL DEF Spec, RetryStepsByOne

-----------------------------------------------------------------------------
(* Announced tasks have a deadline, for databases that do not fail and     *)
(* state machines that never come back to their initial state.             *)

\* No transition leads into the initial state, and a retry does not stay in it.
NeverBack ==
    /\ \A s \in States : ~IsTransitionAllowed(s, InitialState)
    /\ InitialState \in AutoRetry => RetryTo[InitialState] # InitialState

\* The record CreateTask returns.
Fresh == [NewRecord EXCEPT !.state = InitialState]

Working(g) == pc[g] \notin {"idle", "dead"}

\* A component may send commands for t, or its deadline may pass: others than
\* its creator may write it.
Known(t) == t \in told \/ rec[t].timeout # "none"

\* Whoever has a call for a task was told of it, or met its deadline.
CallsKnown ==
    /\ Working("cmd") => call["cmd"].task \in told
    /\ Working("tmo") => Known(call["tmo"].task)
    /\ pc["tmo"] \in {"get", "count", "commit"} => call["tmo"].mode # "command"

\* No call that will write aims at the initial state: a retry that does finds
\* the task elsewhere, and no transition leads back.
NoneGoesBack ==
    /\ \A g \in Goroutines : pc[g] \in {"count", "commit"} => call[g].to # InitialState
    /\ pc["tmo"] = "get" /\ call["tmo"].mode = "retry"
         => call["tmo"].to # InitialState \/ rec[call["tmo"].task].state # InitialState

\* Nobody but the handler knows the task it is creating.
NewIsBare ==
    /\ handler.pc = "initial" =>
         handler.task \notin told /\ rec[handler.task] = NewRecord
    /\ handler.pc = "deadline" =>
         handler.task \notin told /\ rec[handler.task] = Fresh

\* The announced tasks, and the one the handler is about to announce.
Announced(t) == t \in told \/ (handler.pc = "publish" /\ handler.task = t)

AnnouncedIsArmed ==
    \A t \in tasks :
      Announced(t) /\ rec[t].state = InitialState => rec[t].timeout # "none"

DInv == CallsKnown /\ NoneGoesBack /\ NewIsBare /\ AnnouncedIsArmed

LEMMA FreshFacts ==
  /\ NewRecord.timeout = "none"
  /\ Fresh \in Record /\ Fresh.state = InitialState /\ Fresh.timeout = "none"
  /\ [Fresh EXCEPT !.timeout = "armed"].timeout = "armed"
  /\ [NewRecord EXCEPT !.state = InitialState] = Fresh
  BY ConfigAssumption, NewRecordFacts DEF Fresh, NewRecord, Record, Deadlines

\* The write of the engine never takes the deadline of a task by retry or
\* archive, and sets none that was not passed.
LEMMA TransitionedDeadline ==
  ASSUME NEW r \in Record, NEW c \in Call, r.timeout # "none",
         \/ c.mode = "retry"
         \/ c.mode = "archive" /\ IsTerminalState(c.to)
  PROVE  Transitioned(r, c).timeout # "none"
  BY DEF Record, Call, Transitioned, Deadlines

LEMMA CountedDeadline ==
  ASSUME NEW r \in Record, NEW c \in Call
  PROVE  Counted(r, c).timeout = r.timeout
  BY DEF Record, Call, Counted

LEMMA RecoveredDeadline ==
  ASSUME NEW r \in Record
  PROVE  Recovered(r).timeout = r.timeout
  BY DEF Record, Recovered

\* What a step does to a stored task: nothing, or it is the creation of the
\* task, or a write of someone who may know it. That one never takes the
\* deadline of a task in its initial state, and never puts a task there.
CreatorWrites(t) ==
    /\ handler.task = t
    /\ \/ handler.pc = "initial" /\ handler' = At("deadline", t) /\ rec'[t] = Fresh
       \/ /\ handler.pc = "deadline" /\ handler' = At("publish", t)
          /\ rec'[t].timeout = "armed"

KnownWrites(t) ==
    /\ Known(t)
    /\ t \in told \/ rec'[t].timeout # "none"
    /\ \/ rec'[t].state # InitialState
       \/ /\ rec'[t].state = rec[t].state
          /\ rec[t].timeout # "none" => rec'[t].timeout # "none"

RestartKeeps(t) ==
    Restart /\ rec'[t].state = rec[t].state /\ rec'[t].timeout = rec[t].timeout

Touched(t) ==
    \/ rec'[t] = rec[t] \/ CreatorWrites(t) \/ KnownWrites(t) \/ RestartKeeps(t)

LEMMA CommitTouches ==
  ASSUME TypeOK, CallsAgree, DInv, NEW g \in Goroutines, EngineCommit(g)
  PROVE  /\ \A t \in tasks : Touched(t)
         /\ \A t \in told' \ told : t = call[g].task /\ Known(t)
                                     /\ rec'[t].state # InitialState
<1> DEFINE c == call[g]
           r == Transitioned(rec[c.task], c)
<1>1. CASE rec' = rec /\ told' = told
  BY <1>1 DEF Touched
<1>2. CASE /\ c.task \in tasks /\ rec' = [rec EXCEPT ![c.task] = r]
           /\ told' \in {told, told \cup {c.task}}
  <2>1. c \in Call /\ rec[c.task] \in Record /\ pc[g] = "commit"
    BY <1>2 DEF TypeOK, EngineCommit
  <2>2. r.state = c.to /\ c.to # InitialState
    BY <2>1, TransitionedFacts DEF DInv, NoneGoesBack
  <2>3. Known(c.task)
    BY <2>1 DEF DInv, CallsKnown, Working, Known, Goroutines
  <2>4. c.task \in told \/ r.timeout # "none"
    <3>1. CASE g = "cmd"
      BY <2>1, <3>1 DEF DInv, CallsKnown, Working
    <3>2. CASE g = "tmo" /\ c.task \notin told
      <4>1. rec[c.task].timeout # "none"
        BY <2>3, <3>2 DEF Known
      <4>2. \/ c.mode = "retry"
            \/ c.mode = "archive" /\ IsTerminalState(c.to)
        BY <2>1, <3>2 DEF DInv, CallsKnown, CallsAgree, Call
      <4>. QED
        BY <2>1, <4>1, <4>2, TransitionedDeadline
    <3>. QED
      BY <3>1, <3>2 DEF Goroutines
  <2>. HIDE DEF r
  <2>5. rec'[c.task] = r /\ \A t \in tasks \ {c.task} : rec'[t] = rec[t]
    BY <1>2 DEF TypeOK
  <2>6. KnownWrites(c.task)
    BY <2>2, <2>3, <2>4, <2>5 DEF KnownWrites
  <2>. QED
    BY <1>2, <2>2, <2>3, <2>5, <2>6 DEF Touched
<1>. QED
  BY <1>1, <1>2 DEF EngineCommit

LEMMA CountTouches ==
  ASSUME TypeOK, CallsAgree, DInv, NEW g \in Goroutines, EngineCount(g)
  PROVE  \A t \in tasks : Touched(t)
<1> DEFINE c == call[g]
           r == Counted(rec[c.task], c)
<1>1. CASE rec' = rec
  BY <1>1 DEF Touched
<1>2. CASE c.task \in tasks /\ rec' = [rec EXCEPT ![c.task] = r]
  <2>1. c \in Call /\ rec[c.task] \in Record /\ pc[g] = "count"
    BY <1>2 DEF TypeOK, EngineCount
  <2>2. r.state = c.to /\ c.to # InitialState /\ r.timeout = rec[c.task].timeout
    BY <2>1, CountedFacts, CountedDeadline DEF DInv, NoneGoesBack
  <2>3. Known(c.task)
    BY <2>1 DEF DInv, CallsKnown, Working, Known, Goroutines
  <2>. HIDE DEF r
  <2>4. rec'[c.task] = r /\ \A t \in tasks \ {c.task} : rec'[t] = rec[t]
    BY <1>2 DEF TypeOK
  <2>5. KnownWrites(c.task)
    BY <2>2, <2>3, <2>4 DEF KnownWrites, Known
  <2>. QED
    BY <2>4, <2>5 DEF Touched
<1>. QED
  BY <1>1, <1>2 DEF EngineCount

LEMMA HandlerTouches ==
  ASSUME Faulty = FALSE, TypeOK, DInv, PolicyMatched \/ HandlerStep
  PROVE  \A t \in tasks : Touched(t)
<1>1. CASE StoreCreate
  <2>1. CASE rec' # rec
    BY <1>1, <2>1, StoreCreateEffect DEF Touched, TypeOK
  <2>. QED
    BY <2>1 DEF Touched
<1>2. CASE SetInitialState
  <2> DEFINE u == handler.task
  <2>1. /\ handler.pc = "initial" /\ u \in tasks
        /\ rec' = [rec EXCEPT ![u] = [rec[u] EXCEPT !.state = InitialState]]
        /\ handler' = At("deadline", u)
    BY <1>2 DEF SetInitialState, TypeOK
  <2>2. rec' = [rec EXCEPT ![u] = Fresh]
    BY <2>1, FreshFacts DEF DInv, NewIsBare
  <2>. QED
    BY <2>1, <2>2 DEF Touched, CreatorWrites, TypeOK
<1>3. CASE SetDeadline
  <2> DEFINE u == handler.task
  <2>1. /\ handler.pc = "deadline" /\ u \in tasks /\ rec[u] = Fresh
        /\ handler' = At("publish", u)
    BY <1>3 DEF SetDeadline, TypeOK, DInv, NewIsBare
  <2>2. rec' = [rec EXCEPT ![u] = [Fresh EXCEPT !.timeout = "armed"]]
    BY <1>3, <2>1 DEF SetDeadline, Fresh
  <2>. QED
    BY <2>1, <2>2, FreshFacts DEF Touched, CreatorWrites, TypeOK
<1>4. CASE rec' = rec
  BY <1>4 DEF Touched
<1>. QED
  BY <1>1, <1>2, <1>3, <1>4
  DEF HandlerStep, PolicyMatched, TakeMatched, AcquireSlot, PublishCreated,
      ReleaseAfterFailure

LEMMA TimeoutTouches ==
  ASSUME TypeOK, DInv, TimeoutStep \/ \E t \in Tasks : DeadlinePasses(t)
  PROVE  \A t \in tasks : Touched(t)
<1>1. ASSUME NEW t \in Tasks, DeadlinePasses(t)
      PROVE  \A u \in tasks : Touched(u)
  <2> DEFINE r == [rec[t] EXCEPT !.timeout = "expired"]
  <2>1. r.state = rec[t].state /\ r.timeout = "expired" /\ rec[t].timeout = "armed"
    BY <1>1 DEF DeadlinePasses, TypeOK, Record
  <2>2. rec' = [rec EXCEPT ![t] = r]
    BY <1>1 DEF DeadlinePasses
  <2>. HIDE DEF r
  <2>3. rec'[t] = r /\ \A u \in tasks \ {t} : rec'[u] = rec[u]
    BY <2>2 DEF TypeOK
  <2>4. KnownWrites(t)
    BY <2>1, <2>3 DEF KnownWrites, Known
  <2>. QED
    BY <2>3, <2>4 DEF Touched
<1>2. CASE FinishArchive /\ rec' # rec
  <2> DEFINE t == call["tmo"].task
             r == [rec[t] EXCEPT !.result = TRUE]
  <2>1. t \in tasks /\ Known(t)
    BY <1>2 DEF FinishArchive, TypeOK, Goroutines, DInv, CallsKnown, Working, Known
  <2>2. rec' = [rec EXCEPT ![t] = r]
    BY <1>2 DEF FinishArchive
  <2>3. r.state = rec[t].state /\ r.timeout = rec[t].timeout
    BY <2>1 DEF TypeOK, Record
  <2>. HIDE DEF r
  <2>4. rec'[t] = r /\ \A u \in tasks \ {t} : rec'[u] = rec[u]
    BY <2>1, <2>2 DEF TypeOK
  <2>5. KnownWrites(t)
    BY <2>1, <2>3, <2>4 DEF KnownWrites, Known
  <2>. QED
    BY <2>4, <2>5 DEF Touched
<1>3. CASE rec' = rec
  BY <1>3 DEF Touched
<1>. QED
  BY <1>1, <1>2, <1>3
  DEF TimeoutStep, RebuildHeap, PopExpired, SkipTimeout, BackoffNotElapsed,
      HandleTaskRetry, HandleTaskArchive, ArchiveNextTerminal, FinishRetry

LEMMA RestartTouches ==
  ASSUME TypeOK, Restart
  PROVE  \A t \in tasks : Touched(t)
<1>1. PICK seen \in SUBSET tasks :
        rec' = [t \in Tasks |-> IF t \in seen THEN Recovered(rec[t]) ELSE rec[t]]
  BY DEF Restart
<1>2. \A t \in Tasks : /\ Recovered(rec[t]).state = rec[t].state
                       /\ Recovered(rec[t]).timeout = rec[t].timeout
  BY RecoveredFacts, RecoveredDeadline DEF TypeOK
<1>. QED
  BY <1>1, <1>2 DEF Touched, RestartKeeps, TypeOK

\* Every step, and whom it announces.
LEMMA NextTouches ==
  ASSUME Faulty = FALSE, TypeOK, CallsAgree, DInv, [Next]_vars
  PROVE  /\ \A t \in tasks : Touched(t)
         /\ told \subseteq told' /\ tasks \subseteq tasks'
         /\ \A t \in told' \ told :
              \/ handler.pc = "publish" /\ handler.task = t
              \/ Known(t) /\ rec'[t].state # InitialState
<1>1. \A t \in tasks : Touched(t)
  <2>1. CASE ReceiveCommand \/ FinishCommand \/ UNCHANGED vars
    BY <2>1 DEF ReceiveCommand, FinishCommand, vars, Touched
  <2>2. ASSUME NEW g \in Goroutines, EngineGet(g) PROVE \A t \in tasks : Touched(t)
    BY <2>2 DEF EngineGet, Touched
  <2>. QED
    BY <2>1, <2>2, CommitTouches, CountTouches, HandlerTouches, TimeoutTouches,
       RestartTouches DEF Next, EngineStep
<1>2. CASE PublishCreated
  BY <1>1, <1>2 DEF PublishCreated
<1>3. ASSUME NEW g \in Goroutines, EngineCommit(g)
      PROVE  /\ told \subseteq told' /\ tasks \subseteq tasks'
             /\ \A t \in told' \ told : Known(t) /\ rec'[t].state # InitialState
  BY <1>3, CommitTouches DEF EngineCommit
<1>4. CASE told' = told /\ tasks \subseteq tasks'
  BY <1>1, <1>4
<1>. QED
  BY <1>1, <1>2, <1>3, <1>4
  DEF Next, HandlerStep, EngineStep, PolicyMatched, TakeMatched, AcquireSlot,
      StoreCreate, SetInitialState, SetDeadline, ReleaseAfterFailure, EngineGet,
      EngineCount, ReceiveCommand, FinishCommand, DeadlinePasses, TimeoutStep,
      RebuildHeap, PopExpired, SkipTimeout, BackoffNotElapsed, HandleTaskRetry,
      HandleTaskArchive, ArchiveNextTerminal, FinishArchive, FinishRetry, Restart, vars

\* Nobody but the handler writes or announces the task it creates.
LEMMA BareIsUnknown ==
  ASSUME DInv, handler.pc \in {"initial", "deadline"}
  PROVE  ~Known(handler.task)
  BY FreshFacts DEF DInv, NewIsBare, Known

\* A task that may be known stays so, and one that has left its initial state
\* does not come back.
LEMMA KnownStays ==
  ASSUME Faulty = FALSE, TypeOK, CallsAgree, DInv, [Next]_vars, NEW t \in tasks, Known(t)
  PROVE  /\ Known(t)'
         /\ rec[t].state # InitialState => rec'[t].state # InitialState
<1>1. Touched(t) /\ told \subseteq told'
  BY NextTouches
<1>2. ~CreatorWrites(t)
  BY BareIsUnknown DEF CreatorWrites
<1>3. CASE rec'[t] = rec[t]
  BY <1>1, <1>3 DEF Known
<1>4. CASE KnownWrites(t)
  BY <1>1, <1>4 DEF KnownWrites, Known
<1>5. CASE RestartKeeps(t)
  BY <1>1, <1>5 DEF RestartKeeps, Known
<1>. QED
  BY <1>1, <1>2, <1>3, <1>4, <1>5 DEF Touched

\* Where the calls of a state come from.
CmdComes ==
    Working("cmd")' => \/ call'["cmd"].task \in told
                       \/ Working("cmd") /\ call'["cmd"].task = call["cmd"].task

TmoComes ==
    Working("tmo")' => \/ call'["tmo"].task \in tasks /\ Known(call'["tmo"].task)
                       \/ Working("tmo") /\ call'["tmo"].task = call["tmo"].task

TmoAims == pc'["tmo"] \in {"get", "count", "commit"} => call'["tmo"].mode # "command"

GoesOn ==
    /\ \A g \in Goroutines : pc'[g] \in {"count", "commit"} => call'[g].to # InitialState
    /\ pc'["tmo"] = "get" /\ call'["tmo"].mode = "retry" =>
         \/ call'["tmo"].to # InitialState
         \/ Working("tmo") /\ call'["tmo"].task = call["tmo"].task
            /\ rec[call["tmo"].task].state # InitialState

CallsCome == CmdComes /\ TmoComes /\ TmoAims /\ GoesOn

LEMMA SameCallsCome ==
  ASSUME DInv,
         \A g \in Goroutines : /\ pc'[g] = pc[g] /\ call'[g].task = call[g].task
                               /\ call'[g].mode = call[g].mode /\ call'[g].to = call[g].to
  PROVE  CallsCome
  BY DEF CallsCome, CmdComes, TmoComes, TmoAims, GoesOn, DInv, CallsKnown,
         NoneGoesBack, Working, Goroutines

LEMMA ReturnComes ==
  ASSUME TypeOK, DInv, NEW g \in Goroutines, Return(g)
  PROVE  CallsCome
  BY DEF Return, TypeOK, CallsCome, CmdComes, TmoComes, TmoAims, GoesOn, DInv,
         CallsKnown, NoneGoesBack, Working, Goroutines

LEMMA EngineComes ==
  ASSUME NeverBack, TypeOK, CallsAgree, DInv, NEW g \in Goroutines, EngineStep(g)
  PROVE  CallsCome
<1>1. CASE EngineGet(g)
  <2>1. CASE call' = call /\ pc' = [pc EXCEPT ![g] = "err"]
    BY <1>1, <2>1 DEF EngineGet, TypeOK, CallsCome, CmdComes, TmoComes, TmoAims, GoesOn,
       DInv, CallsKnown, NoneGoesBack, Working, Goroutines
  <2>2. CASE /\ call[g].task \in tasks
             /\ call' = [call EXCEPT ![g] = Looked(call[g], rec[call[g].task])]
             /\ pc' = [pc EXCEPT ![g] = EngineVerdict(call[g], rec[call[g].task])]
    <3> DEFINE r == rec[call[g].task]
               d == Looked(call[g], r)
               v == EngineVerdict(call[g], r)
    <3>1. call[g] \in Call /\ r \in Record /\ pc[g] = "get"
      BY <1>1, <2>2 DEF EngineGet, TypeOK
    <3>2. d.mode = call[g].mode /\ d.task = call[g].task /\ d.to = call[g].to
      BY <3>1, LookedFacts
    <3>3. v = "commit" => call[g].to # InitialState
      BY <3>1 DEF EngineVerdict, NeverBack, Call
    <3>4. v = "count" => call[g].mode = "retry" /\ r.state = call[g].to
      BY DEF EngineVerdict
    <3>5. v = "count" /\ g = "tmo" => call[g].to # InitialState
      BY <3>1, <3>4 DEF DInv, NoneGoesBack
    <3>6. v \in {"count", "commit", "ok", "err"}
      BY DEF EngineVerdict
    <3>7. call' = [call EXCEPT ![g] = d] /\ pc' = [pc EXCEPT ![g] = v]
      BY <2>2
    <3>. HIDE DEF d, v, r
    <3>8. CASE g = "tmo"
      BY <3>1, <3>2, <3>3, <3>5, <3>6, <3>7, <3>8
      DEF TypeOK, CallsCome, CmdComes, TmoComes, TmoAims, GoesOn, DInv, CallsKnown,
          NoneGoesBack, Working, Goroutines
    <3>9. CASE g = "cmd"
      <4>1. v # "count"
        BY <3>4, <3>9 DEF DInv, CallsAgree
      <4>. QED
        BY <3>1, <3>2, <3>3, <3>6, <3>7, <3>9, <4>1
        DEF TypeOK, CallsCome, CmdComes, TmoComes, TmoAims, GoesOn, DInv, CallsKnown,
            NoneGoesBack, Working, Goroutines
    <3>. QED
      BY <3>8, <3>9 DEF Goroutines
  <2>. QED
    BY <1>1, <2>1, <2>2 DEF EngineGet
<1>2. CASE EngineCommit(g) \/ EngineCount(g)
  <2>1. /\ call' = call /\ pc[g] \in {"commit", "count"}
        /\ \/ pc' = [pc EXCEPT ![g] = "ok"] \/ pc' = [pc EXCEPT ![g] = "err"]
           \/ pc' = [pc EXCEPT ![g] = "dead"]
    BY <1>2 DEF EngineCommit, EngineCount
  <2>. QED
    BY <2>1 DEF TypeOK, CallsCome, CmdComes, TmoComes, TmoAims, GoesOn, DInv,
       CallsKnown, NoneGoesBack, Working, Goroutines
<1>. QED
  BY <1>1, <1>2 DEF EngineStep

LEMMA TimeoutComes ==
  ASSUME NeverBack, TypeOK, CallsAgree, DInv,
         TimeoutStep \/ \E t \in Tasks : DeadlinePasses(t)
  PROVE  CallsCome
<1> USE DEF Goroutines
<1>1. ASSUME NEW t \in Tasks, DeadlinePasses(t)
      PROVE  CallsCome
  <2>1. PICK G \in SUBSET Goroutines :
          call' = [g \in Goroutines |-> IF g \in G THEN [call[g] EXCEPT !.late = TRUE]
                                        ELSE call[g]]
    BY <1>1 DEF DeadlinePasses
  <2>2. \A g \in Goroutines : LET d == [call[g] EXCEPT !.late = TRUE]
                              IN  /\ d.mode = call[g].mode /\ d.task = call[g].task
                                  /\ d.to = call[g].to
    BY LateFacts DEF TypeOK
  <2>3. \A g \in Goroutines : /\ pc'[g] = pc[g] /\ call'[g].task = call[g].task
                              /\ call'[g].mode = call[g].mode /\ call'[g].to = call[g].to
    BY <1>1, <2>1, <2>2 DEF DeadlinePasses
  <2>. QED
    BY <2>3, SameCallsCome
<1>2. CASE RebuildHeap
  BY <1>2, SameCallsCome DEF RebuildHeap
<1>3. ASSUME NEW t \in Tasks, PopExpired(t)
      PROVE  CallsCome
  <2>1. CASE pc' = pc /\ call' = call
    BY <2>1, SameCallsCome
  <2>2. CASE /\ t \in tasks /\ rec[t].timeout = "expired"
             /\ pc' = [pc EXCEPT !["tmo"] = "handle"]
             /\ call' = [call EXCEPT !["tmo"] = TimeoutCall(t, rec[t])]
    <3>1. TimeoutCall(t, rec[t]).task = t
      BY TimeoutCallFacts DEF TypeOK
    <3>. QED
      BY <2>2, <3>1 DEF TypeOK, CallsCome, CmdComes, TmoComes, TmoAims, GoesOn, DInv,
         CallsKnown, NoneGoesBack, Working, Known
  <2>. QED
    BY <1>3, <2>1, <2>2 DEF PopExpired
<1>4. CASE SkipTimeout \/ BackoffNotElapsed \/ FinishArchive \/ FinishRetry
  BY <1>4, ReturnComes DEF SkipTimeout, BackoffNotElapsed, FinishArchive, FinishRetry
<1>5. CASE HandleTaskRetry
  <2> DEFINE t == call["tmo"].task
             d == RetryCall(call["tmo"], rec[t])
  <2>1. call' = [call EXCEPT !["tmo"] = d] /\ pc' = [pc EXCEPT !["tmo"] = "get"]
        /\ Working("tmo")
    BY <1>5 DEF HandleTaskRetry, Working
  <2>2. call["tmo"] \in Call /\ rec[t] \in Record /\ rec[t].state \in AutoRetry
    BY <1>5 DEF HandleTaskRetry, MayRetry, TypeOK
  <2>3. d.mode = "retry" /\ d.task = t /\ d.to = RetryTo[rec[t].state]
    BY <2>2, RetryCallFacts
  <2>4. d.to # InitialState \/ rec[t].state # InitialState
    BY <2>2, <2>3 DEF NeverBack
  <2>. HIDE DEF d
  <2>. QED
    BY <2>1, <2>3, <2>4 DEF TypeOK, CallsCome, CmdComes, TmoComes, TmoAims, GoesOn, DInv,
       CallsKnown, NoneGoesBack, Working
<1>6. ASSUME NEW i \in Nat \ {0}, ArchiveFrom(i), Working("tmo")
      PROVE  CallsCome
  <2>1. CASE Return("tmo")
    BY <2>1, ReturnComes
  <2>2. CASE \E d \in Call : /\ d.mode = "archive" /\ d.task = call["tmo"].task
                             /\ call' = [call EXCEPT !["tmo"] = d]
                             /\ pc' = [pc EXCEPT !["tmo"] = "get"]
    BY <1>6, <2>2 DEF TypeOK, CallsCome, CmdComes, TmoComes, TmoAims, GoesOn, DInv,
       CallsKnown, NoneGoesBack, Working
  <2>. QED
    BY <1>6, <2>1, <2>2, ArchiveFromEffect
<1>7. call["tmo"].alt + 1 \in Nat \ {0}
  BY DEF TypeOK, Call
<1>8. HandleTaskArchive \/ ArchiveNextTerminal => Working("tmo")
  BY DEF HandleTaskArchive, ArchiveNextTerminal, Working
<1>. QED
  BY <1>1, <1>2, <1>3, <1>4, <1>5, <1>6, <1>7, <1>8
  DEF TimeoutStep, HandleTaskArchive, ArchiveNextTerminal

LEMMA NextComes ==
  ASSUME NeverBack, TypeOK, CallsAgree, DInv, [Next]_vars
  PROVE  CallsCome
<1>1. CASE call' = call /\ pc' = pc
  BY <1>1, SameCallsCome
<1>2. CASE ReceiveCommand
  <2>1. PICK t \in told, from \in States, to \in States :
          call' = [call EXCEPT !["cmd"] = CommandCall(t, from, to)]
    BY <1>2 DEF ReceiveCommand
  <2>2. CommandCall(t, from, to).task = t
    BY CommandCallFacts DEF TypeOK
  <2>. QED
    BY <1>2, <2>1, <2>2 DEF ReceiveCommand, TypeOK, CallsCome, CmdComes, TmoComes,
       TmoAims, GoesOn, DInv, CallsKnown, NoneGoesBack, Working, Goroutines
<1>3. CASE FinishCommand
  BY <1>3, ReturnComes DEF FinishCommand, Goroutines
<1>4. CASE Restart
  BY <1>4 DEF Restart, CallsCome, CmdComes, TmoComes, TmoAims, GoesOn, Working, Goroutines
<1>5. PolicyMatched \/ HandlerStep \/ UNCHANGED vars => call' = call /\ pc' = pc
  BY DEF PolicyMatched, HandlerStep, TakeMatched, AcquireSlot, StoreCreate,
         SetInitialState, SetDeadline, PublishCreated, ReleaseAfterFailure, vars
<1>. QED
  BY <1>1, <1>2, <1>3, <1>4, <1>5, EngineComes, TimeoutComes DEF Next

LEMMA CallsKnownNext ==
  ASSUME Faulty = FALSE, NeverBack, TypeOK, CallsAgree, DInv, [Next]_vars
  PROVE  CallsKnown' /\ NoneGoesBack'
<1>1. CallsCome /\ told \subseteq told'
  BY NextComes, NextTouches
<1>2. Working("cmd")' => call'["cmd"].task \in told'
  BY <1>1 DEF CallsCome, CmdComes, DInv, CallsKnown
<1>3. Working("tmo") => call["tmo"].task \in tasks /\ Known(call["tmo"].task)
  BY DEF DInv, CallsKnown, TypeOK, Working, Goroutines
<1>4. Working("tmo")' => Known(call["tmo"].task)'
  BY <1>1, <1>3, KnownStays DEF CallsCome, TmoComes, Known
<1>5. Working("tmo") /\ rec[call["tmo"].task].state # InitialState
        => rec'[call["tmo"].task].state # InitialState
  BY <1>3, KnownStays
<1>. QED
  BY <1>1, <1>2, <1>4, <1>5 DEF CallsCome, TmoAims, GoesOn, CallsKnown, NoneGoesBack

LEMMA NewIsBareNext ==
  ASSUME Faulty = FALSE, TypeOK, CallsAgree, DInv, [Next]_vars
  PROVE  NewIsBare'
<1>1. /\ \A t \in tasks : Touched(t)
      /\ \A t \in told' \ told : (handler.pc = "publish" /\ handler.task = t) \/ Known(t)
  BY NextTouches
<1>2. CASE handler'.pc \notin {"initial", "deadline"}
  BY <1>2 DEF NewIsBare
<1>3. CASE StoreCreate
  BY <1>3 DEF StoreCreate, NewIsBare, TypeOK, At
<1>4. CASE SetInitialState
  <2> DEFINE u == handler.task
  <2>1. /\ handler.pc = "initial" /\ u \in tasks /\ told' = told
        /\ rec' = [rec EXCEPT ![u] = [rec[u] EXCEPT !.state = InitialState]]
        /\ handler' = At("deadline", u)
    BY <1>4 DEF SetInitialState, TypeOK
  <2>2. rec' = [rec EXCEPT ![u] = Fresh] /\ u \notin told
    BY <2>1, FreshFacts DEF DInv, NewIsBare
  <2>. QED
    BY <2>1, <2>2 DEF NewIsBare, At, TypeOK
<1>5. CASE handler' = handler /\ handler.pc \in {"initial", "deadline"}
  <2> DEFINE u == handler.task
  <2>1. ~Known(u) /\ u \in tasks /\ u \notin told
    BY <1>5, BareIsUnknown DEF Known, TypeOK
  <2>2. u \notin told'
    BY <1>1, <1>5, <2>1
  <2>3. CASE rec'[u] = rec[u]
    BY <1>5, <2>2, <2>3 DEF DInv, NewIsBare
  <2>4. ~KnownWrites(u)
    BY <2>1 DEF KnownWrites
  <2>5. CASE RestartKeeps(u)
    BY <1>5, <2>5 DEF RestartKeeps, Restart, At
  <2>6. ~CreatorWrites(u)
    BY <1>5 DEF CreatorWrites, At
  <2>. QED
    BY <1>1, <2>1, <2>3, <2>4, <2>5, <2>6 DEF Touched
<1>. QED
  BY <1>2, <1>3, <1>4, <1>5
  DEF Next, HandlerStep, EngineStep, PolicyMatched, TakeMatched, AcquireSlot,
      SetDeadline, PublishCreated, ReleaseAfterFailure, EngineGet, EngineCommit,
      EngineCount, ReceiveCommand, FinishCommand, DeadlinePasses, TimeoutStep,
      RebuildHeap, PopExpired, SkipTimeout, BackoffNotElapsed, HandleTaskRetry,
      HandleTaskArchive, ArchiveNextTerminal, FinishArchive, FinishRetry, Restart, vars,
      At

LEMMA AnnouncedIsArmedNext ==
  ASSUME Faulty = FALSE, TypeOK, CallsAgree, DInv, [Next]_vars
  PROVE  AnnouncedIsArmed'
<1> SUFFICES ASSUME NEW t \in tasks', Announced(t)', rec'[t].state = InitialState
             PROVE  rec'[t].timeout # "none"
  BY DEF AnnouncedIsArmed
<1>1. /\ \A u \in tasks : Touched(u)
      /\ \A u \in told' \ told : \/ handler.pc = "publish" /\ handler.task = u
                                 \/ rec'[u].state # InitialState
  BY NextTouches
<1>2. CASE Announced(t)
  <2>1. t \in tasks /\ (rec[t].state = InitialState => rec[t].timeout # "none")
    BY <1>2 DEF Announced, TypeOK, DInv, AnnouncedIsArmed
  <2>2. CASE CreatorWrites(t)
    BY <1>2, <2>2 DEF CreatorWrites, Announced, DInv, NewIsBare
  <2>. QED
    BY <1>1, <2>1, <2>2 DEF Touched, KnownWrites, RestartKeeps
<1>3. CASE ~Announced(t)
  <2>1. handler'.pc = "publish" /\ handler'.task = t /\ handler' # handler
    BY <1>1, <1>3 DEF Announced
  <2>2. SetDeadline
    BY <2>1
    DEF Next, HandlerStep, EngineStep, PolicyMatched, TakeMatched, AcquireSlot,
        StoreCreate, SetInitialState, PublishCreated, ReleaseAfterFailure, EngineGet,
        EngineCommit, EngineCount, ReceiveCommand, FinishCommand, DeadlinePasses,
        TimeoutStep, RebuildHeap, PopExpired, SkipTimeout, BackoffNotElapsed,
        HandleTaskRetry, HandleTaskArchive, ArchiveNextTerminal, FinishArchive,
        FinishRetry, Restart, vars, At
  <2>3. handler.pc = "deadline" /\ handler.task = t /\ t \in tasks /\ rec[t] = Fresh
    BY <2>1, <2>2 DEF SetDeadline, At, TypeOK, DInv, NewIsBare
  <2>4. rec' = [rec EXCEPT ![t] = [Fresh EXCEPT !.timeout = "armed"]]
    BY <2>2, <2>3 DEF SetDeadline, Fresh
  <2>. QED
    BY <2>3, <2>4, FreshFacts DEF TypeOK
<1>. QED
  BY <1>2, <1>3

\* A component that was told of a task deals with a task that has a deadline,
\* for every state machine that never comes back to its initial state, through
\* all interleavings, crashes and panics, if the database does not fail.
THEOREM AnnouncedHasDeadlineHolds ==
  ASSUME Faulty = FALSE, NeverBack
  PROVE  Spec => []AnnouncedHasDeadline
<1>1. Init => DInv
  BY DEF Init, At, DInv, CallsKnown, NoneGoesBack, NewIsBare, AnnouncedIsArmed,
         Working, Goroutines
<1>2. Inv /\ DInv /\ [Next]_vars => DInv'
  <2> SUFFICES ASSUME Inv, DInv, [Next]_vars PROVE DInv'
    OBVIOUS
  <2>1. TypeOK /\ CallsAgree
    BY DEF Inv
  <2>2. CallsKnown' /\ NoneGoesBack'
    BY <2>1, CallsKnownNext
  <2>3. NewIsBare'
    BY <2>1, NewIsBareNext
  <2>4. AnnouncedIsArmed'
    BY <2>1, AnnouncedIsArmedNext
  <2>. QED
    BY <2>2, <2>3, <2>4 DEF DInv
<1>3. DInv => AnnouncedHasDeadline
  BY DEF DInv, AnnouncedIsArmed, Announced, AnnouncedHasDeadline
<1>. QED
  BY <1>1, <1>2, <1>3, InvHolds, PTL DEF Spec

-----------------------------------------------------------------------------
(* The scheduler implements TaskLife.                                      *)

\* The task that the handler has stored and not initialised is as it was
\* stored, and nobody else knows of it.
NewIsAlone ==
    handler.pc = "initial" =>
      /\ handler.task \notin told /\ handler.task \notin heap
      /\ rec[handler.task] = NewRecord
      /\ \A g \in Goroutines : Working(g) => call[g].task # handler.task

\* A retry that was not validated yet leads where its state is retried, and
\* that state has a retry left.
RetryMeant ==
    call["tmo"].mode = "retry" /\ pc["tmo"] = "get" =>
      /\ call["tmo"].from \in AutoRetry
      /\ call["tmo"].to = RetryTo[call["tmo"].from]
      /\ call["tmo"].retry <= MaxRetries[call["tmo"].from]

LEMMA NewIsAloneKept ==
  ASSUME TypeOK, NewIsAlone, NEW u, u = handler.task, handler.pc = "initial",
         told' \subseteq told \cup {call[g].task : g \in {h \in Goroutines : Working(h)}},
         \A t \in heap' : \/ t \in heap \/ rec[t].timeout # "none"
                          \/ \E g \in Goroutines : Working(g) /\ t = call[g].task,
         rec'[u] = rec[u],
         \A g \in Goroutines : Working(g)' =>
           \/ Working(g) /\ call'[g].task = call[g].task
           \/ call'[g].task \in told \cup heap
  PROVE  /\ u \notin told' /\ u \notin heap' /\ rec'[u] = NewRecord
         /\ \A g \in Goroutines : Working(g)' => call'[g].task # u
<1>1. /\ u \notin told /\ u \notin heap /\ rec[u] = NewRecord
      /\ \A g \in Goroutines : Working(g) => call[g].task # u
  BY DEF NewIsAlone
<1>2. NewRecord.timeout = "none"
  BY DEF NewRecord
<1>. QED
  BY <1>1, <1>2

\* No other step than StoreCreate leads to where SetInitialState starts.
LEMMA InitialComes ==
  ASSUME [Next]_vars, handler'.pc = "initial"
  PROVE  StoreCreate \/ handler' = handler
  BY DEF Next, HandlerStep, EngineStep, PolicyMatched, TakeMatched, AcquireSlot,
      SetInitialState, SetDeadline, PublishCreated, ReleaseAfterFailure, EngineGet,
      EngineCommit, EngineCount, ReceiveCommand, FinishCommand, DeadlinePasses, TimeoutStep,
      RebuildHeap, PopExpired, SkipTimeout, BackoffNotElapsed, HandleTaskRetry,
      HandleTaskArchive, ArchiveNextTerminal, FinishArchive, FinishRetry, Restart, vars, At

\* What the steps of the timeout goroutine that leave the table alone do.
LEMMA TmoReturns ==
  ASSUME TypeOK, NEW g \in Goroutines, Return(g)
  PROVE  /\ pc'[g] = "idle" /\ call'[g] = NoCall
         /\ \A h \in Goroutines \ {g} : pc'[h] = pc[h] /\ call'[h] = call[h]
  BY DEF Return, TypeOK

LEMMA ArchiveFromGoes ==
  ASSUME TypeOK, Working("tmo"), NEW i \in Nat \ {0}, ArchiveFrom(i)
  PROVE  /\ pc'["tmo"] \in {"idle", "get"}
         /\ pc'["tmo"] = "get" => /\ call'["tmo"].task = call["tmo"].task
                                  /\ call'["tmo"].mode = "archive"
         /\ pc'["cmd"] = pc["cmd"] /\ call'["cmd"] = call["cmd"]
<1>1. CASE Return("tmo")
  BY <1>1, TmoReturns DEF Goroutines
<1>2. CASE ~Return("tmo")
  <2>1. PICK j \in i..Len(TerminalStates) :
          /\ call' = [call EXCEPT !["tmo"] = ArchiveCall(@, j)]
          /\ pc' = [pc EXCEPT !["tmo"] = "get"]
    BY <1>2 DEF ArchiveFrom
  <2>2. j \in 1..Len(TerminalStates)
    BY <2>1, ConfigAssumption
  <2>3. call["tmo"] \in Call
    BY DEF TypeOK, Goroutines
  <2>4. /\ ArchiveCall(call["tmo"], j).task = call["tmo"].task
        /\ ArchiveCall(call["tmo"], j).mode = "archive"
    BY <2>2, <2>3, ArchiveCallFacts
  <2>. QED
    BY <2>1, <2>4 DEF TypeOK, Goroutines
<1>. QED
  BY <1>1, <1>2

\* What every step but a restart does to the calls, the heap and who was told.
StaysAlone(u) ==
    /\ told' \subseteq told \cup {call[g].task : g \in {h \in Goroutines : Working(h)}}
    /\ \A t \in heap' : \/ t \in heap \/ rec[t].timeout # "none"
                        \/ \E g \in Goroutines : Working(g) /\ t = call[g].task
    /\ u \notin {call[g].task : g \in {h \in Goroutines : Working(h)}} /\
       rec[u].timeout = "none" => rec'[u] = rec[u]
    /\ \A g \in Goroutines : Working(g)' =>
         \/ Working(g) /\ call'[g].task = call[g].task
         \/ call'[g].task \in told \cup heap

LEMMA EngineAlone ==
  ASSUME TypeOK, NEW u \in Tasks, NEW g \in Goroutines, EngineStep(g)
  PROVE  StaysAlone(u)
<1>1. Working(g) /\ heap' = heap /\ \A h \in Goroutines \ {g} : pc'[h] = pc[h]
  BY DEF EngineStep, EngineGet, EngineCommit, EngineCount, Working, TypeOK
<1>2. \A h \in Goroutines : call'[h].task = call[h].task
  <2>1. CASE EngineGet(g)
    <3>1. \A r \in Record : Looked(call[g], r).task = call[g].task
      BY LookedFacts DEF TypeOK
    <3>. QED
      BY <2>1, <3>1 DEF EngineGet, TypeOK
  <2>2. CASE EngineCommit(g) \/ EngineCount(g)
    BY <2>2 DEF EngineCommit, EngineCount
  <2>. QED
    BY <2>1, <2>2 DEF EngineStep
<1>3. told' \subseteq told \cup {call[g].task}
  BY DEF EngineStep, EngineGet, EngineCommit, EngineCount
<1>4. u # call[g].task => rec'[u] = rec[u]
  BY DEF EngineStep, EngineGet, EngineCommit, EngineCount, TypeOK
<1>5. \A h \in Goroutines : Working(h)' => Working(h)
  BY <1>1 DEF Working
<1>. QED
  BY <1>1, <1>2, <1>3, <1>4, <1>5 DEF StaysAlone

LEMMA ReturnAlone ==
  ASSUME TypeOK, NEW u \in Tasks, NEW g \in Goroutines, Return(g),
         UNCHANGED <<told, rec>>,
         heap' = heap \/ (Working(g) /\ heap' = heap \cup {call[g].task})
  PROVE  StaysAlone(u)
<1>1. \A h \in Goroutines : Working(h)' => Working(h) /\ call'[h].task = call[h].task
  BY TmoReturns DEF Working
<1>. QED
  BY <1>1 DEF StaysAlone

LEMMA TimeoutAlone ==
  ASSUME TypeOK, NEW u \in Tasks, TimeoutStep
  PROVE  StaysAlone(u)
<1>0. "tmo" \in Goroutines /\ "cmd" \in Goroutines /\ \A g \in Goroutines : g \in {"cmd", "tmo"}
  BY DEF Goroutines
<1>1. CASE RebuildHeap
  <2>1. \A t \in heap' : rec[t].timeout # "none"
    BY <1>1 DEF RebuildHeap
  <2>2. UNCHANGED <<told, rec, pc, call>>
    BY <1>1 DEF RebuildHeap
  <2>. QED
    BY <2>1, <2>2 DEF StaysAlone, Working
<1>2. ASSUME NEW t \in Tasks, PopExpired(t) PROVE StaysAlone(u)
  <2>1. heap' \subseteq heap /\ t \in heap /\ UNCHANGED <<told, rec>>
    BY <1>2 DEF PopExpired
  <2>2. TimeoutCall(t, rec[t]).task = t
    BY TimeoutCallFacts DEF TypeOK
  <2>3. \/ UNCHANGED <<pc, call>>
        \/ /\ call'["tmo"].task = t
           /\ pc'["cmd"] = pc["cmd"] /\ call'["cmd"] = call["cmd"]
    BY <1>2, <2>2 DEF PopExpired, TypeOK, Goroutines
  <2>. QED
    BY <1>0, <2>1, <2>3 DEF StaysAlone, Working
<1>3. CASE SkipTimeout \/ BackoffNotElapsed
  <2>1. Return("tmo") /\ UNCHANGED <<told, rec, heap>>
    BY <1>3 DEF SkipTimeout, BackoffNotElapsed
  <2>. QED
    BY <1>0, <2>1, ReturnAlone
<1>4. CASE HandleTaskRetry
  <2>1. /\ Working("tmo") /\ UNCHANGED <<told, rec, heap>>
        /\ call["tmo"].task \in tasks
        /\ call' = [call EXCEPT !["tmo"] = RetryCall(call["tmo"], rec[call["tmo"].task])]
        /\ pc' = [pc EXCEPT !["tmo"] = "get"]
    BY <1>4 DEF HandleTaskRetry, TimeoutStillValid, Working
  <2>2. RetryCall(call["tmo"], rec[call["tmo"].task]).task = call["tmo"].task
    BY <1>0, <2>1, RetryCallFacts DEF TypeOK
  <2>3. /\ call'["tmo"].task = call["tmo"].task
        /\ call'["cmd"] = call["cmd"] /\ pc'["cmd"] = pc["cmd"]
    BY <2>1, <2>2 DEF TypeOK, Goroutines
  <2>. QED
    BY <1>0, <2>1, <2>3 DEF StaysAlone, Working
<1>5. CASE HandleTaskArchive \/ ArchiveNextTerminal
  <2>1. /\ Working("tmo") /\ UNCHANGED <<told, rec, heap>>
        /\ \E i \in Nat \ {0} : ArchiveFrom(i)
    <3>1. call["tmo"].alt + 1 \in Nat \ {0}
      BY DEF TypeOK, Goroutines, Call
    <3>. QED
      BY <1>5, <3>1 DEF HandleTaskArchive, ArchiveNextTerminal, Working
  <2>2. /\ pc'["tmo"] \in {"idle", "get"}
        /\ pc'["tmo"] = "get" => call'["tmo"].task = call["tmo"].task
        /\ pc'["cmd"] = pc["cmd"] /\ call'["cmd"] = call["cmd"]
    BY <2>1, ArchiveFromGoes
  <2>. QED
    BY <1>0, <2>1, <2>2 DEF StaysAlone, Working
<1>6. CASE FinishArchive
  <2>1. /\ Working("tmo") /\ Return("tmo") /\ UNCHANGED <<told, heap>>
        /\ u # call["tmo"].task => rec'[u] = rec[u]
    BY <1>6 DEF FinishArchive, Working, TypeOK
  <2>2. \A h \in Goroutines : Working(h)' => Working(h) /\ call'[h].task = call[h].task
    BY <1>0, <2>1, TmoReturns DEF Working
  <2>. QED
    BY <1>0, <2>1, <2>2 DEF StaysAlone
<1>7. CASE FinishRetry
  <2>1. /\ Working("tmo") /\ Return("tmo") /\ UNCHANGED <<told, rec>>
        /\ heap' = heap \/ heap' = heap \cup {call["tmo"].task}
    BY <1>7 DEF FinishRetry, Working
  <2>. QED
    BY <1>0, <2>1, ReturnAlone
<1>. QED
  BY <1>1, <1>2, <1>3, <1>4, <1>5, <1>6, <1>7 DEF TimeoutStep

LEMMA OthersAlone ==
  ASSUME TypeOK, NEW u \in Tasks, handler' = handler, handler.pc = "initial",
         PolicyMatched \/ HandlerStep \/ ReceiveCommand \/ FinishCommand
           \/ (\E t \in Tasks : DeadlinePasses(t)) \/ UNCHANGED vars
  PROVE  StaysAlone(u)
<1>0. "tmo" \in Goroutines /\ "cmd" \in Goroutines /\ \A g \in Goroutines : g \in {"cmd", "tmo"}
  BY DEF Goroutines
<1>1. CASE UNCHANGED <<told, rec, heap, pc, call>>
  BY <1>1 DEF StaysAlone, Working
<1>2. CASE ReceiveCommand
  <2>1. PICK t \in told, from \in States, to \in States :
          call' = [call EXCEPT !["cmd"] = CommandCall(t, from, to)]
    BY <1>2 DEF ReceiveCommand
  <2>2. CommandCall(t, from, to).task = t
    BY CommandCallFacts DEF TypeOK
  <2>3. /\ call'["cmd"].task \in told /\ call'["tmo"] = call["tmo"]
        /\ pc'["tmo"] = pc["tmo"] /\ UNCHANGED <<told, rec, heap>>
    BY <1>2, <2>1, <2>2 DEF ReceiveCommand, TypeOK, Goroutines
  <2>. QED
    BY <1>0, <2>3 DEF StaysAlone, Working
<1>3. CASE FinishCommand
  <2>1. Return("cmd") /\ UNCHANGED <<told, rec, heap>>
    BY <1>3 DEF FinishCommand
  <2>. QED
    BY <1>0, <2>1, ReturnAlone
<1>4. ASSUME NEW t \in Tasks, DeadlinePasses(t) PROVE StaysAlone(u)
  <2>1. /\ rec[t].timeout = "armed" /\ UNCHANGED <<told, heap, pc>>
        /\ u # t => rec'[u] = rec[u]
    BY <1>4 DEF DeadlinePasses, TypeOK
  <2>2. \A c \in Call : [c EXCEPT !.late = TRUE].task = c.task
    BY LateFacts
  <2>3. \A g \in Goroutines : call'[g].task = call[g].task
    BY <1>4, <2>2 DEF DeadlinePasses, TypeOK
  <2>4. \A g \in Goroutines : Working(g)' <=> Working(g)
    BY <2>1 DEF Working
  <2>. QED
    BY <2>1, <2>3, <2>4 DEF StaysAlone
<1>5. PolicyMatched \/ HandlerStep \/ UNCHANGED vars => UNCHANGED <<told, rec, heap, pc, call>>
  BY DEF PolicyMatched, HandlerStep, TakeMatched, AcquireSlot, StoreCreate,
         SetInitialState, SetDeadline, PublishCreated, ReleaseAfterFailure, At, vars
<1>. QED
  BY <1>1, <1>2, <1>3, <1>4, <1>5

LEMMA NewIsAloneNext ==
  ASSUME TypeOK, NewIsAlone, [Next]_vars
  PROVE  NewIsAlone'
<1>. SUFFICES ASSUME handler'.pc = "initial" PROVE NewIsAlone'
  BY DEF NewIsAlone
<1>1. CASE StoreCreate
  <2>1. PICK t \in Tasks \ tasks :
          /\ rec' = [rec EXCEPT ![t] = NewRecord] /\ handler' = At("initial", t)
          /\ UNCHANGED <<told, heap, pc, call>>
    BY <1>1 DEF StoreCreate, At
  <2>. QED
    BY <2>1 DEF NewIsAlone, TypeOK, Working, At
<1>2. CASE handler' = handler
  <2> DEFINE u == handler.task
  <2>1. u \in Tasks /\ handler.pc = "initial"
    BY <1>2 DEF TypeOK
  <2>2. ~Restart
    BY <1>2, <2>1 DEF Restart, At
  <2>3. StaysAlone(u)
    BY <1>2, <2>1, <2>2, EngineAlone, TimeoutAlone, OthersAlone DEF Next
  <2>4. NewRecord.timeout = "none"
    BY DEF NewRecord
  <2>5. rec'[u] = rec[u]
    BY <2>1, <2>3, <2>4 DEF StaysAlone, NewIsAlone
  <2>. HIDE DEF u
  <2>6. /\ u \notin told' /\ u \notin heap' /\ rec'[u] = NewRecord
        /\ \A g \in Goroutines : Working(g)' => call'[g].task # u
    BY <2>1, <2>3, <2>5, NewIsAloneKept DEF StaysAlone, u
  <2>. QED
    BY <1>2, <2>6 DEF NewIsAlone, u
<1>. QED
  BY <1>1, <1>2, InitialComes

LEMMA RetryMeantNext ==
  ASSUME TypeOK, RetryMeant, [Next]_vars
  PROVE  RetryMeant'
<1>0. "tmo" \in Goroutines /\ "cmd" \in Goroutines /\ call["tmo"] \in Call
  BY DEF Goroutines, TypeOK
<1>1. CASE pc'["tmo"] # "get"
  BY <1>1 DEF RetryMeant
<1>2. CASE pc'["tmo"] = pc["tmo"] /\ call'["tmo"] = call["tmo"]
  BY <1>2 DEF RetryMeant
<1>3. CASE HandleTaskRetry
  <2> DEFINE c == call["tmo"]
             r == rec[c.task]
             d == RetryCall(c, r)
  <2>1. /\ c.task \in tasks /\ r.state = c.from /\ MayRetry(c.task)
        /\ call' = [call EXCEPT !["tmo"] = d]
    BY <1>3 DEF HandleTaskRetry, TimeoutStillValid
  <2>2. c \in Call /\ r \in Record
    BY <1>0, <2>1 DEF TypeOK
  <2>3. d.to = RetryTo[r.state] /\ d.retry = r.retry + 1 /\ d.from = c.from
    BY <2>2 DEF RetryCall, Call
  <2>4. call'["tmo"] = d
    BY <1>0, <2>1 DEF TypeOK
  <2>5. c.from \in AutoRetry /\ r.retry < MaxRetries[c.from]
    BY <2>1 DEF MayRetry
  <2>6. r.retry \in Nat /\ MaxRetries[c.from] \in Nat
    BY <2>2, <2>5, ConfigAssumption DEF Record
  <2>7. d.retry <= MaxRetries[c.from]
    BY <2>3, <2>5, <2>6
  <2>. HIDE DEF d
  <2>. QED
    BY <2>1, <2>3, <2>4, <2>5, <2>7 DEF RetryMeant
<1>4. CASE HandleTaskArchive \/ ArchiveNextTerminal
  <2>1. Working("tmo") /\ \E i \in Nat \ {0} : ArchiveFrom(i)
    <3>1. call["tmo"].alt + 1 \in Nat \ {0}
      BY <1>0 DEF Call
    <3>. QED
      BY <1>4, <3>1 DEF HandleTaskArchive, ArchiveNextTerminal, Working
  <2>2. pc'["tmo"] = "get" => call'["tmo"].mode = "archive"
    BY <2>1, ArchiveFromGoes
  <2>. QED
    BY <2>2 DEF RetryMeant
<1>5. ASSUME NEW t \in Tasks, DeadlinePasses(t)
      PROVE  pc'["tmo"] = "get" => pc["tmo"] = "get" /\ call'["tmo"] = call["tmo"]
  BY <1>0, <1>5 DEF DeadlinePasses
<1>6. ASSUME NEW g \in Goroutines, EngineStep(g)
      PROVE  pc'["tmo"] = "get" => pc["tmo"] = "get" /\ call'["tmo"] = call["tmo"]
  <2>1. CASE g = "tmo"
    BY <1>0, <1>6, <2>1 DEF EngineStep, EngineGet, EngineCommit, EngineCount, EngineVerdict, TypeOK
  <2>2. CASE g = "cmd"
    BY <1>0, <1>6, <2>2 DEF EngineStep, EngineGet, EngineCommit, EngineCount, TypeOK
  <2>. QED
    BY <2>1, <2>2 DEF Goroutines
<1>7. CASE ReceiveCommand
  BY <1>0, <1>7, <1>2 DEF ReceiveCommand, TypeOK
<1>8. CASE FinishCommand
  BY <1>0, <1>8, <1>2, TmoReturns DEF FinishCommand
<1>9. ASSUME NEW t \in Tasks, PopExpired(t)
      PROVE  pc'["tmo"] # "get" \/ (pc'["tmo"] = pc["tmo"] /\ call'["tmo"] = call["tmo"])
  BY <1>0, <1>9 DEF PopExpired, TypeOK
<1>10. CASE SkipTimeout \/ BackoffNotElapsed \/ FinishArchive \/ FinishRetry
  <2>1. Return("tmo")
    BY <1>10 DEF SkipTimeout, BackoffNotElapsed, FinishArchive, FinishRetry
  <2>. QED
    BY <1>0, <1>1, <2>1, TmoReturns
<1>11. CASE Restart
  BY <1>0, <1>1, <1>11 DEF Restart
<1>12. PolicyMatched \/ HandlerStep \/ RebuildHeap \/ UNCHANGED vars
         => pc' = pc /\ call' = call
  BY DEF PolicyMatched, HandlerStep, TakeMatched, AcquireSlot, StoreCreate, RebuildHeap,
         SetInitialState, SetDeadline, PublishCreated, ReleaseAfterFailure, vars
<1>. QED
  BY <1>1, <1>2, <1>3, <1>4, <1>5, <1>6, <1>7, <1>8, <1>9, <1>10, <1>11, <1>12
  DEF Next, TimeoutStep

-----------------------------------------------------------------------------
(* Every step of the scheduler is a step of TaskLife or none.              *)

LEMMA LifeKept ==
  ASSUME TypeOK, \A t \in Tasks : Kept(t)
  PROVE  [t \in Tasks |-> LifeOf(rec[t])]' = [t \in Tasks |-> LifeOf(rec[t])]
  BY DEF Kept, LifeOf

\* A goroutine that has validated nothing before and after a step, or whose
\* call keeps its task, target, kind and mark, has the same move.
LEMMA MoveKept ==
  ASSUME NEW g \in Goroutines,
         \/ pc[g] \notin {"commit", "count"} /\ pc'[g] \notin {"commit", "count"}
         \/ /\ pc'[g] = pc[g] /\ call'[g].task = call[g].task /\ call'[g].to = call[g].to
            /\ call'[g].mode = call[g].mode /\ call'[g].archived = call[g].archived
  PROVE  MoveOf(g)' = MoveOf(g)
  BY DEF MoveOf, IsTerminalState

LEMMA MovesKept ==
  ASSUME \A g \in Goroutines : MoveOf(g)' = MoveOf(g)
  PROVE  [g \in Goroutines |-> MoveOf(g)]' = [g \in Goroutines |-> MoveOf(g)]
  OBVIOUS

LEMMA QuietMoves ==
  ASSUME TypeOK, QuietStep, \A g \in Goroutines : ~EngineGet(g), NEW g \in Goroutines
  PROVE  MoveOf(g)' = MoveOf(g)
<1>0. "tmo" \in Goroutines /\ "cmd" \in Goroutines /\ g \in {"cmd", "tmo"}
  BY DEF Goroutines
<1>1. CASE UNCHANGED <<pc, call>>
  BY <1>1, MoveKept
<1>2. CASE ReceiveCommand
  BY <1>0, <1>2, MoveKept DEF ReceiveCommand, TypeOK
<1>3. CASE FinishCommand
  BY <1>0, <1>3, MoveKept, TmoReturns DEF FinishCommand
<1>4. ASSUME NEW t \in Tasks, DeadlinePasses(t) PROVE MoveOf(g)' = MoveOf(g)
  <2>1. pc' = pc /\ (call'[g] = call[g] \/ call'[g] = [call[g] EXCEPT !.late = TRUE])
    BY <1>4 DEF DeadlinePasses
  <2>2. call[g] \in Call
    BY DEF TypeOK
  <2>3. /\ call'[g].task = call[g].task /\ call'[g].to = call[g].to
        /\ call'[g].mode = call[g].mode /\ call'[g].archived = call[g].archived
    BY <2>1, <2>2 DEF Call
  <2>. QED
    BY <2>1, <2>3, MoveKept
<1>5. ASSUME NEW t \in Tasks, PopExpired(t) PROVE MoveOf(g)' = MoveOf(g)
  BY <1>0, <1>5, MoveKept DEF PopExpired, TypeOK
<1>6. CASE SkipTimeout \/ BackoffNotElapsed \/ FinishArchive \/ FinishRetry
  <2>1. Return("tmo") /\ pc["tmo"] \notin {"commit", "count"}
    BY <1>6 DEF SkipTimeout, BackoffNotElapsed, FinishArchive, FinishRetry
  <2>. QED
    BY <1>0, <2>1, MoveKept, TmoReturns
<1>7. CASE HandleTaskRetry
  BY <1>0, <1>7, MoveKept DEF HandleTaskRetry, TypeOK
<1>8. CASE HandleTaskArchive \/ ArchiveNextTerminal
  <2>1. /\ Working("tmo") /\ pc["tmo"] \notin {"commit", "count"}
        /\ \E i \in Nat \ {0} : ArchiveFrom(i)
    <3>1. call["tmo"].alt + 1 \in Nat \ {0}
      BY <1>0 DEF TypeOK, Call
    <3>. QED
      BY <1>8, <3>1 DEF HandleTaskArchive, ArchiveNextTerminal, Working
  <2>2. /\ pc'["tmo"] \in {"idle", "get"}
        /\ pc'["cmd"] = pc["cmd"] /\ call'["cmd"] = call["cmd"]
    BY <2>1, ArchiveFromGoes
  <2>. QED
    BY <1>0, <2>1, <2>2, MoveKept
<1>9. PolicyMatched \/ TakeMatched \/ AcquireSlot \/ SetDeadline \/ PublishCreated
        \/ ReleaseAfterFailure \/ RebuildHeap \/ UNCHANGED vars => UNCHANGED <<pc, call>>
  BY DEF PolicyMatched, TakeMatched, AcquireSlot, SetDeadline, PublishCreated,
         ReleaseAfterFailure, RebuildHeap, vars
<1>. QED
  BY <1>1, <1>2, <1>3, <1>4, <1>5, <1>6, <1>7, <1>8, <1>9 DEF QuietStep, TimeoutStep

\* The variables of TaskLife.
lifeNow == [t \in Tasks |-> LifeOf(rec[t])]
moveNow == [g \in Goroutines |-> MoveOf(g)]

LEMMA NoMoveIs == Life!NoMove = NoMove /\ Life!New = LifeOf(NewRecord)
  BY DEF Life!NoMove, NoMove, Life!New, LifeOf, NewRecord

LEMMA LifeInit == Init => Life!Init
<1>. SUFFICES ASSUME Init PROVE Life!Init
  OBVIOUS
<1>1. \A g \in Goroutines : MoveOf(g) = Life!NoMove
  BY NoMoveIs DEF Init, MoveOf
<1>2. \A t \in Tasks : LifeOf(rec[t]) = Life!New
  BY NoMoveIs DEF Init
<1>. QED
  BY <1>1, <1>2 DEF Life!Init, Init

LEMMA CreateIsLife ==
  ASSUME TypeOK, StoreCreate, tasks' # tasks
  PROVE  Life!Create
<1>1. PICK t \in Tasks \ tasks :
        /\ tasks' = tasks \cup {t} /\ rec' = [rec EXCEPT ![t] = NewRecord]
  BY StoreCreateEffect
<1>2. UNCHANGED <<pc, call>>
  BY DEF StoreCreate
<1>3. moveNow' = moveNow
  BY <1>2, MoveKept DEF moveNow
<1>4. lifeNow' = [lifeNow EXCEPT ![t] = Life!New]
  BY <1>1, NoMoveIs DEF lifeNow, TypeOK
<1>. QED
  BY <1>1, <1>3, <1>4 DEF Life!Create, lifeNow, moveNow

LEMMA InitialiseIsLife ==
  ASSUME TypeOK, NewIsAlone, SetInitialState, rec' # rec
  PROVE  Life!Initialise
<1> DEFINE u == handler.task
           r == [rec[u] EXCEPT !.state = InitialState]
<1>1. u \in tasks /\ u \in Tasks /\ rec[u] = NewRecord
  BY DEF SetInitialState, NewIsAlone, TypeOK
<1>2. rec' = [rec EXCEPT ![u] = r] /\ UNCHANGED <<tasks, pc, call>>
  BY DEF SetInitialState
<1>3. LifeOf(r) = [LifeOf(rec[u]) EXCEPT !.state = InitialState]
  BY <1>1, StateWritten, NewRecordFacts, ConfigAssumption DEF LifeOf
<1>. HIDE DEF r
<1>4. lifeNow' = [lifeNow EXCEPT ![u] = [lifeNow[u] EXCEPT !.state = InitialState]]
  BY <1>1, <1>2, <1>3 DEF lifeNow, TypeOK
<1>5. lifeNow[u] = Life!New
  BY <1>1, NoMoveIs DEF lifeNow
<1>6. moveNow' = moveNow
  BY <1>2, MoveKept DEF moveNow
<1>. QED
  BY <1>1, <1>2, <1>4, <1>5, <1>6 DEF Life!Initialise, lifeNow, moveNow

\* A restart takes the validated moves and repairs nothing.
LEMMA RestartIsLife ==
  ASSUME TypeOK, NoOrphan, Restart
  PROVE  Life!Abandon
<1>1. PICK seen \in SUBSET tasks :
        rec' = [t \in Tasks |-> IF t \in seen THEN Recovered(rec[t]) ELSE rec[t]]
  BY DEF Restart
<1>2. \A t \in tasks : /\ Recovered(rec[t]).state = rec[t].state
                       /\ Recovered(rec[t]).retry = rec[t].retry
                       /\ Recovered(rec[t]).archived = rec[t].archived
  <2>. SUFFICES ASSUME NEW t \in tasks
                PROVE  /\ Recovered(rec[t]).state = rec[t].state
                       /\ Recovered(rec[t]).retry = rec[t].retry
                       /\ Recovered(rec[t]).archived = rec[t].archived
    OBVIOUS
  <2>1. rec[t] \in Record /\ (IsTerminalState(rec[t].state) => rec[t].archived)
    BY DEF TypeOK, NoOrphan
  <2>. QED
    BY <2>1 DEF Recovered, Record
<1>3. lifeNow' = lifeNow
  BY <1>1, <1>2 DEF lifeNow, LifeOf
<1>4. \A g \in Goroutines : MoveOf(g)' = Life!NoMove
  BY NoMoveIs DEF Restart, MoveOf
<1>5. UNCHANGED tasks
  BY DEF Restart
<1>6. moveNow' = [g \in Goroutines |-> IF g \in Goroutines THEN Life!NoMove ELSE moveNow[g]]
  BY <1>4 DEF moveNow
<1>. QED
  BY <1>3, <1>5, <1>6 DEF Life!Abandon, lifeNow, moveNow

\* What EngineGet leaves in the call and what follows from its verdict.
LEMMA EngineGetOutcome ==
  ASSUME TypeOK, NEW g \in Goroutines, EngineGet(g), pc'[g] \in {"commit", "count"}
  PROVE  LET c == call[g]
             r == rec[c.task]
         IN  /\ c.task \in tasks /\ c \in Call /\ r \in Record
             /\ call'[g].task = c.task /\ call'[g].to = c.to /\ call'[g].mode = c.mode
             /\ call'[g].archived = r.archived
             /\ pc'[g] = "commit" =>
                  r.state = c.from /\ r.state # c.to /\ IsTransitionAllowed(c.from, c.to)
             /\ pc'[g] = "count" => r.state = c.to /\ c.mode = "retry"
<1> DEFINE c == call[g]
           r == rec[c.task]
<1>1. /\ c.task \in tasks
      /\ call' = [call EXCEPT ![g] = Looked(c, r)]
      /\ pc' = [pc EXCEPT ![g] = EngineVerdict(c, r)]
  BY DEF EngineGet, TypeOK
<1>2. c \in Call /\ r \in Record
  BY <1>1 DEF TypeOK
<1>3. /\ Looked(c, r).task = c.task /\ Looked(c, r).to = c.to /\ Looked(c, r).mode = c.mode
      /\ Looked(c, r).archived = r.archived
  BY <1>2 DEF Looked, Call, Record
<1>4. call'[g] = Looked(c, r) /\ pc'[g] = EngineVerdict(c, r)
  BY <1>1 DEF TypeOK
<1>5. /\ EngineVerdict(c, r) = "commit" =>
           r.state = c.from /\ r.state # c.to /\ IsTransitionAllowed(c.from, c.to)
      /\ EngineVerdict(c, r) = "count" => r.state = c.to /\ c.mode = "retry"
  BY DEF EngineVerdict
<1>. QED
  BY <1>1, <1>2, <1>3, <1>4, <1>5

LEMMA EngineGetIsLife ==
  ASSUME TypeOK, CallsAgree, RetryMeant, NEW g \in Goroutines, EngineGet(g)
  PROVE  Life!Next \/ UNCHANGED <<tasks, lifeNow, moveNow>>
<1> DEFINE c == call[g]
           r == rec[c.task]
<1>0. /\ pc[g] = "get" /\ UNCHANGED <<tasks, rec>> /\ g \in {"cmd", "tmo"}
      /\ \A h \in Goroutines \ {g} : pc'[h] = pc[h] /\ call'[h] = call[h]
  BY DEF EngineGet, TypeOK, Goroutines
<1>1. lifeNow' = lifeNow
  BY <1>0 DEF lifeNow
<1>2. CASE pc'[g] \notin {"commit", "count"}
  <2>1. \A h \in Goroutines : MoveOf(h)' = MoveOf(h)
    BY <1>0, <1>2, MoveKept
  <2>. QED
    BY <1>0, <1>1, <2>1 DEF moveNow
<1>3. CASE pc'[g] \in {"commit", "count"}
  <2>1. /\ c.task \in tasks /\ c \in Call /\ r \in Record
        /\ call'[g].task = c.task /\ call'[g].to = c.to /\ call'[g].mode = c.mode
        /\ call'[g].archived = r.archived
        /\ pc'[g] = "commit" =>
             r.state = c.from /\ r.state # c.to /\ IsTransitionAllowed(c.from, c.to)
        /\ pc'[g] = "count" => r.state = c.to /\ c.mode = "retry"
    BY <1>3, EngineGetOutcome
  <2> DEFINE m == [task |-> c.task, to |-> c.to,
                   mark |-> IF pc'[g] = "count" THEN "keep"
                            ELSE IF c.to \in Terminal THEN "set"
                            ELSE IF r.archived THEN "clear" ELSE "keep",
                   adds |-> IF c.mode = "retry" THEN 1 ELSE 0]
  <2>2. MoveOf(g)' = m
    BY <1>3, <2>1 DEF MoveOf, IsTerminalState
  <2>3. \A h \in Goroutines \ {g} : MoveOf(h)' = MoveOf(h)
    BY <1>0, MoveKept
  <2>4. moveNow' = [moveNow EXCEPT ![g] = m]
    BY <2>2, <2>3 DEF moveNow
  <2>5. moveNow[g] = Life!NoMove
    BY <1>0, NoMoveIs DEF moveNow, MoveOf
  <2>6. /\ lifeNow[c.task].state = r.state /\ lifeNow[c.task].archived = r.archived
        /\ lifeNow[c.task].retry = r.retry /\ c.task \in Tasks
    BY <2>1 DEF lifeNow, LifeOf, TypeOK
  <2>7. CASE c.mode # "retry"
    <3>1. pc'[g] = "commit"
      BY <1>3, <2>1, <2>7
    <3>2. m = [task |-> c.task, to |-> c.to,
               mark |-> Life!Mark(lifeNow[c.task], c.to), adds |-> 0]
      BY <2>6, <2>7, <3>1 DEF Life!Mark, Life!Terminal, Terminal
    <3>3. <<lifeNow[c.task].state, c.to>> \in Transitions /\ c.to \in States
      BY <2>1, <2>6, <3>1 DEF IsTransitionAllowed, Call
    <3>. HIDE DEF m
    <3>4. Life!Validate(g, c.task, c.to)
      BY <1>0, <1>1, <2>4, <2>5, <3>2, <3>3 DEF Life!Validate, lifeNow, moveNow
    <3>. QED
      BY <2>1, <3>3, <3>4 DEF Life!Next
  <2>8. CASE c.mode = "retry"
    <3>1. g = "tmo"
      BY <1>0, <2>8 DEF CallsAgree
    <3>2. /\ c.from \in AutoRetry /\ c.to = RetryTo[c.from] /\ c.retry <= MaxRetries[c.from]
          /\ c.retry = r.retry + 1
      BY <1>0, <2>8, <3>1 DEF RetryMeant, CallsAgree
    <3>3. r.retry < MaxRetries[c.from]
      <4>1. r.retry \in Nat /\ MaxRetries[c.from] \in Nat
        BY <2>1, <3>2, ConfigAssumption DEF Record
      <4>. QED
        BY <3>2, <4>1
    <3>4. \/ lifeNow[c.task].state = c.from /\ <<c.from, RetryTo[c.from]>> \in Transitions
          \/ lifeNow[c.task].state = RetryTo[c.from]
      BY <1>3, <2>1, <2>6, <3>2 DEF IsTransitionAllowed
    <3>5. m = [task |-> c.task, to |-> RetryTo[c.from], adds |-> 1,
               mark |-> IF lifeNow[c.task].state = RetryTo[c.from] THEN "keep"
                        ELSE Life!Mark(lifeNow[c.task], RetryTo[c.from])]
      <4>1. pc'[g] = "count" <=> lifeNow[c.task].state = RetryTo[c.from]
        BY <1>3, <2>1, <2>6, <3>2
      <4>. QED
        BY <2>6, <2>8, <3>2, <4>1 DEF Life!Mark, Life!Terminal, Terminal
    <3>. HIDE DEF m
    <3>6. Life!ValidateRetry(c.task, c.from)
      BY <1>0, <1>1, <2>4, <2>5, <2>6, <3>1, <3>3, <3>4, <3>5
      DEF Life!ValidateRetry, lifeNow, moveNow
    <3>. QED
      BY <2>1, <3>2, <3>6 DEF Life!Next
  <2>. QED
    BY <2>7, <2>8
<1>. QED
  BY <1>2, <1>3

\* A validated move that is taken away without a write.
LEMMA AbandonIsLife ==
  ASSUME TypeOK, NEW g \in Goroutines, UNCHANGED <<tasks, rec, call>>,
         pc' = [pc EXCEPT ![g] = "err"]
  PROVE  Life!Abandon
<1>1. MoveOf(g)' = Life!NoMove
  BY NoMoveIs DEF MoveOf, TypeOK
<1>2. \A h \in Goroutines \ {g} : MoveOf(h)' = MoveOf(h)
  BY MoveKept DEF TypeOK
<1>3. moveNow' = [h \in Goroutines |-> IF h \in {g} THEN Life!NoMove ELSE moveNow[h]]
  BY <1>1, <1>2 DEF moveNow
<1>4. lifeNow' = lifeNow
  BY DEF lifeNow
<1>. QED
  BY <1>3, <1>4 DEF Life!Abandon, lifeNow, moveNow

\* A record written whole by the goroutine whose validated move it is.
LEMMA WriteIsLife ==
  ASSUME TypeOK, NEW g \in Goroutines, NEW n, UNCHANGED <<tasks, call>>,
         pc[g] \in {"commit", "count"}, pc'[g] \notin {"commit", "count"},
         \A h \in Goroutines \ {g} : pc'[h] = pc[h],
         call[g].task \in tasks,
         rec' = [rec EXCEPT ![call[g].task] = n],
         LifeOf(n) = Life!Moved(LifeOf(rec[call[g].task]), MoveOf(g))
  PROVE  Life!Write(g)
<1>1. MoveOf(g)' = Life!NoMove
  BY NoMoveIs DEF MoveOf
<1>2. \A h \in Goroutines \ {g} : MoveOf(h)' = MoveOf(h)
  BY MoveKept
<1>3. moveNow' = [moveNow EXCEPT ![g] = Life!NoMove]
  BY <1>1, <1>2 DEF moveNow
<1>4. moveNow[g] = MoveOf(g) /\ MoveOf(g).task = call[g].task
  BY DEF moveNow, MoveOf
<1>5. moveNow[g] # Life!NoMove
  <2>1. Life!NoMove.task = NoTask
    BY DEF Life!NoMove
  <2>. QED
    BY <1>4, <2>1, BoundAssumption DEF TypeOK
<1>6. lifeNow' = [lifeNow EXCEPT ![call[g].task] = Life!Moved(lifeNow[call[g].task], moveNow[g])]
  <2>1. call[g].task \in Tasks
    BY DEF TypeOK
  <2>2. lifeNow[call[g].task] = LifeOf(rec[call[g].task])
    BY <2>1 DEF lifeNow
  <2>3. lifeNow' = [lifeNow EXCEPT ![call[g].task] = LifeOf(n)]
    BY <2>1 DEF lifeNow, TypeOK
  <2>. QED
    BY <1>4, <2>2, <2>3
<1>. QED
  BY <1>3, <1>4, <1>5, <1>6 DEF Life!Write, lifeNow, moveNow

LEMMA CommitIsLife ==
  ASSUME TypeOK, CallsAgree, NEW g \in Goroutines, EngineCommit(g)
  PROVE  Life!Next
<1> DEFINE c == call[g]
           r == rec[c.task]
           n == Transitioned(r, c)
<1>1. pc[g] = "commit" /\ UNCHANGED <<tasks, call>>
  BY DEF EngineCommit
<1>2. CASE pc' = [pc EXCEPT ![g] = "err"] /\ rec' = rec
  BY <1>1, <1>2, AbandonIsLife DEF Life!Next
<1>3. CASE /\ c.task \in tasks /\ rec' = [rec EXCEPT ![c.task] = n]
           /\ pc' = [pc EXCEPT ![g] = "ok"] \/ pc' = [pc EXCEPT ![g] = "dead"]
  <2>1. c \in Call /\ r \in Record
    BY <1>3 DEF TypeOK
  <2>2. /\ n.state = c.to
        /\ n.archived = IF IsTerminalState(c.to) THEN TRUE
                        ELSE IF c.archived THEN FALSE ELSE r.archived
        /\ n.retry = IF c.mode = "retry" THEN c.retry ELSE r.retry
    BY <2>1 DEF Transitioned, Record, Call
  <2>3. c.mode = "retry" => c.retry = r.retry + 1
    BY <1>1 DEF CallsAgree, Goroutines
  <2>4. r.retry \in Nat /\ r.archived \in BOOLEAN /\ c.archived \in BOOLEAN
    BY <2>1 DEF Record, Call
  <2>5. /\ MoveOf(g).to = c.to
        /\ MoveOf(g).mark = IF IsTerminalState(c.to) THEN "set"
                            ELSE IF c.archived THEN "clear" ELSE "keep"
        /\ MoveOf(g).adds = IF c.mode = "retry" THEN 1 ELSE 0
    BY <1>1 DEF MoveOf
  <2>6. n.retry = r.retry + MoveOf(g).adds
    BY <2>2, <2>3, <2>4, <2>5
  <2>7. n.archived = IF MoveOf(g).mark = "keep" THEN r.archived ELSE MoveOf(g).mark = "set"
    BY <2>2, <2>4, <2>5
  <2>. HIDE DEF n
  <2>8. LifeOf(n) = Life!Moved(LifeOf(r), MoveOf(g))
    BY <2>2, <2>5, <2>6, <2>7 DEF LifeOf, Life!Moved
  <2>9. /\ pc'[g] \notin {"commit", "count"}
        /\ \A h \in Goroutines \ {g} : pc'[h] = pc[h]
    BY <1>3 DEF TypeOK
  <2>10. Life!Write(g)
    BY <1>1, <1>3, <2>8, <2>9, WriteIsLife
  <2>. QED
    BY <2>10 DEF Life!Next
<1>. QED
  BY <1>2, <1>3 DEF EngineCommit

LEMMA CountIsLife ==
  ASSUME TypeOK, CallsAgree, NEW g \in Goroutines, EngineCount(g)
  PROVE  Life!Next
<1> DEFINE c == call[g]
           r == rec[c.task]
           n == Counted(r, c)
<1>1. pc[g] = "count" /\ UNCHANGED <<tasks, call>>
  BY DEF EngineCount
<1>2. CASE pc' = [pc EXCEPT ![g] = "err"] /\ rec' = rec
  BY <1>1, <1>2, AbandonIsLife DEF Life!Next
<1>3. CASE /\ c.task \in tasks /\ rec' = [rec EXCEPT ![c.task] = n]
           /\ pc' = [pc EXCEPT ![g] = "ok"]
  <2>1. c \in Call /\ r \in Record
    BY <1>3 DEF TypeOK
  <2>2. n.state = c.to /\ n.archived = r.archived /\ n.retry = c.retry
    BY <2>1, CountedFacts
  <2>3. c.mode = "retry" /\ g = "tmo"
    BY <1>1 DEF CallsAgree, Goroutines
  <2>4. c.retry = r.retry + 1
    BY <1>1, <2>3 DEF CallsAgree
  <2>5. MoveOf(g).to = c.to /\ MoveOf(g).mark = "keep" /\ MoveOf(g).adds = 1
    BY <1>1, <2>3 DEF MoveOf
  <2>. HIDE DEF n
  <2>6. LifeOf(n) = Life!Moved(LifeOf(r), MoveOf(g))
    BY <2>2, <2>4, <2>5 DEF LifeOf, Life!Moved
  <2>7. /\ pc'[g] \notin {"commit", "count"}
        /\ \A h \in Goroutines \ {g} : pc'[h] = pc[h]
    BY <1>3 DEF TypeOK
  <2>8. Life!Write(g)
    BY <1>1, <1>3, <2>6, <2>7, WriteIsLife
  <2>. QED
    BY <2>8 DEF Life!Next
<1>. QED
  BY <1>2, <1>3 DEF EngineCount

LEMMA StepIsLife ==
  ASSUME Inv, NewIsAlone, RetryMeant, [Next]_vars
  PROVE  Life!Next \/ UNCHANGED <<tasks, lifeNow, moveNow>>
<1>. TypeOK /\ CallsAgree /\ NoOrphan
  BY DEF Inv
<1>1. CASE \E g \in Goroutines : EngineGet(g)
  BY <1>1, EngineGetIsLife
<1>2. CASE QuietStep /\ \A g \in Goroutines : ~EngineGet(g)
  <2>1. UNCHANGED tasks /\ lifeNow' = lifeNow
    BY <1>2, QuietEffect, LifeKept DEF lifeNow
  <2>2. moveNow' = moveNow
    BY <1>2, QuietMoves DEF moveNow
  <2>. QED
    BY <2>1, <2>2
<1>3. CASE StoreCreate
  <2>1. CASE tasks' # tasks
    BY <1>3, <2>1, CreateIsLife DEF Life!Next
  <2>2. CASE tasks' = tasks
    <3>1. UNCHANGED <<rec, pc, call>>
      BY <1>3, <2>2 DEF StoreCreate
    <3>2. lifeNow' = lifeNow /\ moveNow' = moveNow
      BY <3>1, MoveKept DEF lifeNow, moveNow
    <3>. QED
      BY <2>2, <3>2
  <2>. QED
    BY <2>1, <2>2
<1>4. CASE SetInitialState
  <2>1. CASE rec' # rec
    BY <1>4, <2>1, InitialiseIsLife DEF Life!Next
  <2>2. CASE rec' = rec
    <3>1. UNCHANGED <<tasks, pc, call>>
      BY <1>4 DEF SetInitialState
    <3>2. lifeNow' = lifeNow /\ moveNow' = moveNow
      BY <2>2, <3>1, MoveKept DEF lifeNow, moveNow
    <3>. QED
      BY <3>1, <3>2
  <2>. QED
    BY <2>1, <2>2
<1>5. CASE Restart
  BY <1>5, RestartIsLife DEF Life!Next
<1>6. CASE \E g \in Goroutines : EngineCommit(g) \/ EngineCount(g)
  BY <1>6, CommitIsLife, CountIsLife
<1>. QED
  BY <1>1, <1>2, <1>3, <1>4, <1>5, <1>6, StepKinds

\* Whatever commands, timeouts, failed writes, panics and crashes interleave,
\* the scheduler implements TaskLife, for every set of tasks and every state
\* machine: a task makes whole moves, each allowed from a state it was in when
\* a goroutine validated it, and a restart repairs nothing.
THEOREM LifeIsKeptHolds == Spec => LifeIsKept
<1>1. Init => NewIsAlone /\ RetryMeant
  BY NoCallFacts DEF Init, At, NewIsAlone, RetryMeant, Goroutines
<1>2. Inv /\ NewIsAlone /\ RetryMeant /\ [Next]_vars => NewIsAlone' /\ RetryMeant'
  BY NewIsAloneNext, RetryMeantNext DEF Inv
<1>3. Inv /\ NewIsAlone /\ RetryMeant /\ [Next]_vars =>
        [Life!Next]_<<tasks, [t \in Tasks |-> LifeOf(rec[t])], [g \in Goroutines |-> MoveOf(g)]>>
  BY StepIsLife DEF lifeNow, moveNow
<1>. QED
  BY <1>1, <1>2, <1>3, LifeInit, InvHolds, PTL DEF Spec, LifeIsKept, Life!Spec

-----------------------------------------------------------------------------
(* The check of the configuration: what its searches keep.                 *)

Succ(s) == Range(Graph[s])

Frames == [state : States, rest : Seq(States)]

ConfigTypeOK ==
    /\ next \in [States -> Seq(States)]
    /\ retryTo \in [States -> States \cup {NoState, Undefined}]
    /\ phase \in {"resolve", "reach", "ends", "loops", "done"}
    /\ phase # "done" => verdict = "none"
    /\ phase \in {"reach", "ends", "loops"} => \A s \in States : retryTo[s] # Undefined
    /\ reachable \in SUBSET States /\ waiting \in Seq(States) /\ todo \in Seq(States)
    /\ checked \in SUBSET States /\ visited \in SUBSET States
    /\ stack \in Seq(Frames)
    /\ finished \in SUBSET States /\ cycles \in SUBSET SUBSET States

\* Whoever contains the initial state and cannot be left contains what the
\* breadth-first search has found; a state found is waiting, or was taken and
\* its edges were followed or are being followed.
ReachInv ==
    /\ InitialState \in reachable
    /\ Range(waiting) \subseteq reachable
    /\ \A S \in SUBSET States : InitialState \in S /\ Closed(S) =>
         reachable \subseteq S /\ Range(todo) \subseteq S
    /\ \A s \in reachable : s \in Range(waiting) \/ Succ(s) \subseteq reachable \cup Range(todo)

\* The edges a frame has left are edges of its state.
RestIsLeft == \A i \in DOMAIN stack : Range(stack[i].rest) \subseteq Succ(stack[i].state)

\* A state seen by canReachTerminal is not terminal, is in every closed set
\* with the first state, and its edges were followed unless it is on the stack.
EndsInv ==
    /\ AllReachable
    /\ \A s \in checked : \A S \in SUBSET (States \ Terminal) : Closed(S) => s \notin S
    /\ RestIsLeft
    /\ \A i \in DOMAIN stack : /\ stack[i].state \in visited
                               /\ Succ(stack[i].state) \subseteq visited \cup Range(stack[i].rest)
    /\ stack # <<>> =>
         /\ visited \cap Terminal = {}
         /\ \A v \in visited : v \in OnStack \/ Succ(v) \subseteq visited
         /\ \A S \in SUBSET States : stack[1].state \in S /\ Closed(S) => visited \subseteq S

\* No task can move for ever in S: some state of S leads nowhere in S.
Wellfounded(S) == S # {} => \E s \in S : S \cap Succ(s) = {}

\* The stack is a path from the initial state, a cycle has an edge for each of
\* its states, and without a cycle the finished states lead to finished states
\* only and have no loop.
LoopsInv ==
    /\ AllReachable /\ ~HasTrap
    /\ RestIsLeft
    /\ \A i \in DOMAIN stack : i < Len(stack) => stack[i + 1].state \in Succ(stack[i].state)
    /\ IF stack = <<>> THEN InitialState \in finished ELSE stack[1].state = InitialState
    /\ \A c \in cycles : c # {} /\ \A s \in c : c \cap Succ(s) # {}
    /\ cycles = {} =>
         /\ \A s \in finished : Succ(s) \subseteq finished
         /\ \A i \in DOMAIN stack : \A n \in Succ(stack[i].state) :
              \/ n \in finished \/ n \in Range(stack[i].rest)
              \/ i < Len(stack) /\ n = stack[i + 1].state
         /\ \A S \in SUBSET finished : Wellfounded(S)

\* What the searches that have not begun will start from.
NotBegun ==
    /\ phase = "resolve" => todo = <<>>
    /\ phase \in {"resolve", "reach"} => checked = {} /\ stack = <<>>
    /\ phase \in {"resolve", "reach", "ends"} => finished = {} /\ cycles = {}

ConfigInv ==
    /\ ConfigTypeOK /\ NotBegun
    /\ phase = "reach" => ReachInv
    /\ phase = "ends" => EndsInv
    /\ phase = "loops" => LoopsInv
    /\ SearchesAreRight /\ LoopsAreFound

-----------------------------------------------------------------------------
(* Sequences and the stack of a search.                                    *)

LEMMA ConfigHeadTail ==
  ASSUME NEW T, NEW l \in Seq(T), l # <<>>
  PROVE  /\ Head(l) \in T /\ Head(l) \in Range(l)
         /\ Tail(l) \in Seq(T)
         /\ Range(Tail(l)) \subseteq Range(l)
         /\ \A x \in Range(l) : x = Head(l) \/ x \in Range(Tail(l))
<1>1. Len(l) \in Nat /\ Len(l) > 0 /\ DOMAIN l = 1..Len(l) /\ Head(l) = l[1]
  OBVIOUS
<1>2. /\ Tail(l) \in Seq(T) /\ Len(Tail(l)) = Len(l) - 1
      /\ DOMAIN Tail(l) = 1..(Len(l) - 1)
      /\ \A i \in 1..(Len(l) - 1) : Tail(l)[i] = l[i + 1]
  BY <1>1
<1>3. Head(l) \in T /\ Head(l) \in Range(l)
  BY <1>1 DEF Range
<1>4. Range(Tail(l)) \subseteq Range(l)
  <2>. SUFFICES ASSUME NEW x \in Range(Tail(l)) PROVE x \in Range(l)
    OBVIOUS
  <2>1. PICK i \in 1..(Len(l) - 1) : x = Tail(l)[i]
    BY <1>2 DEF Range
  <2>2. i + 1 \in DOMAIN l /\ x = l[i + 1]
    BY <1>1, <1>2, <2>1
  <2>. QED
    BY <2>2 DEF Range
<1>5. ASSUME NEW x \in Range(l) PROVE x = Head(l) \/ x \in Range(Tail(l))
  <2>1. PICK i \in 1..Len(l) : x = l[i]
    BY <1>1 DEF Range
  <2>2. CASE i = 1
    BY <2>1, <2>2, <1>1
  <2>3. CASE i # 1
    <3>1. i - 1 \in 1..(Len(l) - 1) /\ Tail(l)[i - 1] = x
      BY <1>1, <1>2, <2>1, <2>3
    <3>. QED
      BY <3>1, <1>2 DEF Range
  <2>. QED
    BY <2>2, <2>3
<1>. QED
  BY <1>2, <1>3, <1>4, <1>5

LEMMA ConfigAppend ==
  ASSUME NEW T, NEW l \in Seq(T), NEW x \in T
  PROVE  /\ Append(l, x) \in Seq(T)
         /\ Range(Append(l, x)) = Range(l) \cup {x}
<1>1. /\ Append(l, x) \in Seq(T) /\ DOMAIN l = 1..Len(l) /\ Len(l) \in Nat
      /\ DOMAIN Append(l, x) = 1..(Len(l) + 1)
      /\ \A i \in 1..Len(l) : Append(l, x)[i] = l[i]
      /\ Append(l, x)[Len(l) + 1] = x
  OBVIOUS
<1>2. ASSUME NEW y \in Range(Append(l, x)) PROVE y \in Range(l) \cup {x}
  <2>1. PICK i \in 1..(Len(l) + 1) : y = Append(l, x)[i]
    BY <1>1 DEF Range
  <2>2. i \in 1..Len(l) \/ i = Len(l) + 1
    BY <1>1
  <2>. QED
    BY <1>1, <2>1, <2>2 DEF Range
<1>3. ASSUME NEW y \in Range(l) PROVE y \in Range(Append(l, x))
  <2>1. PICK i \in 1..Len(l) : y = l[i]
    BY <1>1 DEF Range
  <2>2. i \in 1..(Len(l) + 1)
    BY <1>1
  <2>. QED
    BY <1>1, <2>1, <2>2 DEF Range
<1>4. x \in Range(Append(l, x))
  <2>1. Len(l) + 1 \in 1..(Len(l) + 1)
    BY <1>1
  <2>. QED
    BY <1>1, <2>1 DEF Range
<1>. QED
  BY <1>1, <1>2, <1>3, <1>4

\* The stack after an edge of its deepest state was looked at.
LEMMA AdvancedFacts ==
  ASSUME stack \in Seq(Frames), stack # <<>>, Top.rest # <<>>
  PROVE  /\ Len(stack) \in Nat \ {0} /\ DOMAIN stack = 1..Len(stack)
         /\ 1 \in DOMAIN stack /\ Len(stack) \in DOMAIN stack
         /\ Top \in Frames
         /\ Advanced \in Seq(Frames)
         /\ Len(Advanced) = Len(stack) /\ DOMAIN Advanced = 1..Len(stack)
         /\ Advanced # <<>>
         /\ \A i \in 1..Len(stack) :
              /\ Advanced[i].state = stack[i].state
              /\ i # Len(stack) => Advanced[i].rest = stack[i].rest
         /\ Advanced[Len(stack)].rest = Tail(Top.rest)
<1>1. /\ Len(stack) \in Nat \ {0} /\ DOMAIN stack = 1..Len(stack)
      /\ 1 \in DOMAIN stack /\ Len(stack) \in DOMAIN stack
      /\ \A i \in 1..Len(stack) : stack[i] \in Frames
  OBVIOUS
<1>2. Top \in Frames /\ Top.rest \in Seq(States)
  BY <1>1 DEF Top, Frames
<1>3. Tail(Top.rest) \in Seq(States)
  BY <1>2, ConfigHeadTail
<1> DEFINE f == [Top EXCEPT !.rest = Tail(Top.rest)]
<1>4. f \in Frames /\ f.state = Top.state /\ f.rest = Tail(Top.rest)
  BY <1>2, <1>3 DEF Frames
<1>5. Advanced = [stack EXCEPT ![Len(stack)] = f]
  BY <1>1 DEF Advanced, Top
<1> HIDE DEF f
<1>6. /\ Advanced \in Seq(Frames) /\ Len(Advanced) = Len(stack)
      /\ \A i \in 1..Len(stack) : Advanced[i] = IF i = Len(stack) THEN f ELSE stack[i]
  BY <1>1, <1>4, <1>5
<1>7. DOMAIN Advanced = 1..Len(stack) /\ Advanced # <<>>
  <2>1. Advanced \in Seq(Frames) /\ Len(Advanced) \in Nat \ {0}
    BY <1>1, <1>6
  <2>2. DOMAIN Advanced = 1..Len(Advanced) /\ Advanced # <<>>
    BY <2>1
  <2>. QED
    BY <1>6, <2>2
<1>8. ASSUME NEW i \in 1..Len(stack)
      PROVE  /\ Advanced[i].state = stack[i].state
             /\ i # Len(stack) => Advanced[i].rest = stack[i].rest
  BY <1>4, <1>6 DEF Top
<1>9. Advanced[Len(stack)].rest = Tail(Top.rest)
  BY <1>1, <1>4, <1>6
<1>. QED
  BY <1>1, <1>2, <1>6, <1>7, <1>8, <1>9

LEMMA LeftFacts ==
  ASSUME stack \in Seq(Frames), stack # <<>>
  PROVE  /\ Len(stack) \in Nat \ {0} /\ DOMAIN stack = 1..Len(stack)
         /\ 1 \in DOMAIN stack /\ Len(stack) \in DOMAIN stack
         /\ Top \in Frames
         /\ Left \in Seq(Frames)
         /\ Len(Left) = Len(stack) - 1 /\ DOMAIN Left = 1..(Len(stack) - 1)
         /\ Left = <<>> <=> Len(stack) = 1
         /\ \A i \in 1..(Len(stack) - 1) : Left[i] = stack[i]
<1>1. /\ Len(stack) \in Nat \ {0} /\ DOMAIN stack = 1..Len(stack)
      /\ 1 \in DOMAIN stack /\ Len(stack) \in DOMAIN stack
      /\ \A i \in 1..Len(stack) : stack[i] \in Frames
  OBVIOUS
<1>2. Len(stack) - 1 \in Nat
  BY <1>1
<1>3. /\ Len(Left) = Len(stack) - 1 /\ DOMAIN Left = 1..(Len(stack) - 1)
      /\ \A i \in 1..(Len(stack) - 1) : Left[i] = stack[i]
  BY <1>1, <1>2 DEF Left
<1>4. Left \in Seq(Frames)
  BY <1>1, <1>2 DEF Left
<1>5. Left = <<>> <=> Len(stack) = 1
  BY <1>1, <1>3, <1>4
<1>. QED
  BY <1>1, <1>3, <1>4, <1>5 DEF Top

-----------------------------------------------------------------------------
(* The graph, and what a step keeps of it.                                 *)

\* The graph of a configuration whose retry targets are defined.
LEMMA GraphType ==
  ASSUME ConfigTypeOK, \A s \in States : retryTo[s] # Undefined, NEW s \in States
  PROVE  Graph[s] \in Seq(States) /\ Succ(s) \subseteq States
<1>1. next[s] \in Seq(States) /\ retryTo[s] \in States \cup {NoState}
  BY DEF ConfigTypeOK
<1>2. Graph[s] = IF retryTo[s] \in {NoState, s} THEN next[s] ELSE Append(next[s], retryTo[s])
  BY DEF Graph
<1>3. Graph[s] \in Seq(States)
  BY <1>1, <1>2
<1>. QED
  BY <1>3 DEF Succ, Range

\* What a closed set is, without pairs.
LEMMA ClosedMeans ==
  ASSUME ConfigTypeOK, \A s \in States : retryTo[s] # Undefined,
         NEW S \in SUBSET States
  PROVE  Closed(S) <=> \A s \in S : Succ(s) \subseteq S
<1>1. ASSUME Closed(S), NEW s \in S, NEW n \in Succ(s) PROVE n \in S
  <2>1. s \in States /\ n \in States
    BY GraphType, <1>1
  <2>2. <<s, n>> \in Edges
    BY <2>1, <1>1 DEF Edges, Succ
  <2>. QED
    BY <2>2, <1>1 DEF Closed
<1>2. ASSUME \A s \in S : Succ(s) \subseteq S PROVE Closed(S)
  <2>. SUFFICES ASSUME NEW e \in Edges, e[1] \in S PROVE e[2] \in S
    BY DEF Closed
  <2>1. e[2] \in Succ(e[1])
    BY DEF Edges, Succ
  <2>. QED
    BY <1>2, <2>1
<1>. QED
  BY <1>1, <1>2

LEMMA EdgeMeans ==
  ASSUME NEW s \in States, NEW n \in States
  PROVE  <<s, n>> \in Edges <=> n \in Succ(s)
  BY DEF Edges, Succ

\* The configuration does not change while it is checked.
LEMMA FileKept ==
  ASSUME [ConfigNext]_configVars
  PROVE  UNCHANGED file
  BY DEF ConfigNext, configVars, Resolve, ReachState, ReachEdge, ReachDone, BeginSearch,
         SearchEdge, SearchReturn, SearchDone, CycleEdge, CycleReturn, CycleDone, Returned

LEMMA ReferencesKept ==
  ASSUME UNCHANGED file
  PROVE  /\ Graph' = Graph /\ Edges' = Edges
         /\ AllReachable' = AllReachable /\ HasTrap' = HasTrap /\ HasLoop' = HasLoop
         /\ TerminalsAreFinal' = TerminalsAreFinal
         /\ \A s \in States : Succ(s)' = Succ(s)
         /\ \A S \in SUBSET States : Closed(S)' <=> Closed(S)
<1>1. Graph' = Graph
  BY DEF Graph, file
<1>2. Edges' = Edges
  BY <1>1 DEF Edges
<1>. QED
  BY <1>1, <1>2 DEF AllReachable, HasTrap, HasLoop, TerminalsAreFinal, Closed, Succ

LEMMA FrameFacts ==
  ASSUME ConfigTypeOK, \A s \in States : retryTo[s] # Undefined, NEW s \in States
  PROVE  /\ Frame(s) \in Frames /\ Frame(s).state = s /\ Frame(s).rest = Graph[s]
         /\ <<Frame(s)>> \in Seq(Frames) /\ Len(<<Frame(s)>>) = 1
         /\ DOMAIN <<Frame(s)>> = {1} /\ <<Frame(s)>>[1] = Frame(s) /\ <<Frame(s)>> # <<>>
<1>1. Frame(s) \in Frames /\ Frame(s).state = s /\ Frame(s).rest = Graph[s]
  BY GraphType DEF Frame, Frames
<1>2. ASSUME NEW f \in Frames
      PROVE  /\ <<f>> \in Seq(Frames) /\ Len(<<f>>) = 1
             /\ DOMAIN <<f>> = {1} /\ <<f>>[1] = f /\ <<f>> # <<>>
  <2>1. DOMAIN <<f>> = 1..1 /\ 1..1 = {1}
    OBVIOUS
  <2>. QED
    BY <2>1
<1>. QED
  BY <1>1, <1>2

\* The stack after the search entered a state.
LEMMA EnteredFacts ==
  ASSUME ConfigTypeOK, \A s \in States : retryTo[s] # Undefined, NEW s \in States,
         stack # <<>>, Top.rest # <<>>
  PROVE  /\ Entered(s) \in Seq(Frames) /\ Entered(s) # <<>>
         /\ Len(Entered(s)) = Len(stack) + 1 /\ DOMAIN Entered(s) = 1..(Len(stack) + 1)
         /\ \A i \in 1..Len(stack) :
              /\ Entered(s)[i].state = stack[i].state
              /\ i # Len(stack) => Entered(s)[i].rest = stack[i].rest
         /\ Entered(s)[Len(stack)].rest = Tail(Top.rest)
         /\ Entered(s)[Len(stack) + 1].state = s
         /\ Entered(s)[Len(stack) + 1].rest = Graph[s]
<1>. stack \in Seq(Frames)
  BY DEF ConfigTypeOK
<1>1. Advanced \in Seq(Frames) /\ Len(Advanced) = Len(stack) /\ Len(stack) \in Nat \ {0}
  BY AdvancedFacts
<1>2. Frame(s) \in Frames /\ Frame(s).state = s /\ Frame(s).rest = Graph[s]
  BY FrameFacts
<1>3. /\ Entered(s) \in Seq(Frames) /\ Len(Entered(s)) = Len(stack) + 1
      /\ DOMAIN Entered(s) = 1..(Len(stack) + 1)
      /\ \A i \in 1..Len(stack) : Entered(s)[i] = Advanced[i]
      /\ Entered(s)[Len(stack) + 1] = Frame(s)
  BY <1>1, <1>2 DEF Entered
<1>4. Entered(s) # <<>>
  BY <1>1, <1>3
<1>5. Len(stack) \in 1..Len(stack)
  BY <1>1
<1>. QED
  BY <1>2, <1>3, <1>4, <1>5, AdvancedFacts

-----------------------------------------------------------------------------
(* Types of the check.                                                     *)

LEMMA FrameAt ==
  ASSUME stack \in Seq(Frames), NEW i \in DOMAIN stack
  PROVE  stack[i] \in Frames /\ stack[i].state \in States /\ stack[i].rest \in Seq(States)
<1>1. stack[i] \in Frames
  OBVIOUS
<1>. QED
  BY <1>1 DEF Frames

LEMMA ConfigTypeInit == ConfigInit => ConfigTypeOK
<1>. SUFFICES ASSUME ConfigInit PROVE ConfigTypeOK
  OBVIOUS
<1>1. Lists \subseteq Seq(States)
  BY DefinedAssumption DEF Lists
<1>2. next \in [States -> Seq(States)]
  BY <1>1 DEF ConfigInit
<1>. QED
  BY <1>2 DEF ConfigInit, ConfigTypeOK

LEMMA ConfigTypeNext == ConfigTypeOK /\ [ConfigNext]_configVars => ConfigTypeOK'
<1>. SUFFICES ASSUME ConfigTypeOK, [ConfigNext]_configVars PROVE ConfigTypeOK'
  OBVIOUS
<1>. InitialState \in States
  BY DefinedAssumption
<1>1. CASE Resolve
  <2>1. <<InitialState>> \in Seq(States)
    OBVIOUS
  <2>. QED
    BY <1>1, <2>1 DEF Resolve, ConfigTypeOK, GoTo, Finish, file, depth, loops
<1>2. CASE ReachState
  <2>1. /\ Head(waiting) \in States /\ Tail(waiting) \in Seq(States)
        /\ \A s \in States : retryTo[s] # Undefined
    BY <1>2, ConfigHeadTail DEF ReachState, ConfigTypeOK
  <2>2. Graph[Head(waiting)] \in Seq(States)
    BY <2>1, GraphType
  <2>. QED
    BY <1>2, <2>1, <2>2 DEF ReachState, ConfigTypeOK, file, depth, loops
<1>3. CASE ReachEdge
  <2>1. Head(todo) \in States /\ Tail(todo) \in Seq(States)
    BY <1>3, ConfigHeadTail DEF ReachEdge, ConfigTypeOK
  <2>2. Append(waiting, Head(todo)) \in Seq(States)
    BY <2>1 DEF ConfigTypeOK
  <2>. QED
    BY <1>3, <2>1, <2>2 DEF ReachEdge, ConfigTypeOK, file, depth, loops
<1>4. CASE ReachDone
  BY <1>4 DEF ReachDone, ConfigTypeOK, GoTo, Finish, file, breadth, depth, loops
<1>5. CASE BeginSearch
  <2>1. \A s \in States : retryTo[s] # Undefined
    BY <1>5 DEF BeginSearch, ConfigTypeOK
  <2>2. PICK s \in States : visited' = {s} /\ stack' = <<Frame(s)>>
    BY <1>5 DEF BeginSearch
  <2>3. stack' \in Seq(Frames)
    BY <2>1, <2>2, FrameFacts
  <2>. QED
    BY <1>5, <2>2, <2>3 DEF BeginSearch, ConfigTypeOK, Frames, file, breadth, loops
<1>6. CASE SearchEdge
  <2>1. \A s \in States : retryTo[s] # Undefined
    BY <1>6 DEF SearchEdge, ConfigTypeOK
  <2>2. stack \in Seq(Frames) /\ stack # <<>> /\ Top.rest # <<>>
    BY <1>6 DEF SearchEdge, ConfigTypeOK
  <2>3. Advanced \in Seq(Frames) /\ Top \in Frames /\ 1 \in DOMAIN stack
    BY <2>2, AdvancedFacts
  <2>4. Head(Top.rest) \in States
    BY <2>2, <2>3, ConfigHeadTail DEF Frames
  <2>5. Entered(Head(Top.rest)) \in Seq(Frames)
    BY <2>1, <2>2, <2>4, EnteredFacts
  <2>6. stack' \in Seq(Frames)
    <3>1. <<>> \in Seq(Frames)
      OBVIOUS
    <3>. QED
      BY <1>6, <2>3, <2>5, <3>1 DEF SearchEdge
  <2>7. checked' \in SUBSET States /\ visited' \in SUBSET States
    <3>1. stack[1].state \in States
      BY <2>2, <2>3, FrameAt
    <3>. QED
      BY <1>6, <2>4, <3>1 DEF SearchEdge, ConfigTypeOK
  <2>. QED
    BY <1>6, <2>6, <2>7 DEF SearchEdge, ConfigTypeOK, Frames, file, breadth, loops
<1>7. CASE SearchReturn
  <2>1. stack \in Seq(Frames) /\ stack # <<>>
    BY <1>7 DEF SearchReturn, ConfigTypeOK
  <2>2. stack' \in Seq(Frames)
    BY <1>7, <2>1, LeftFacts DEF SearchReturn
  <2>. QED
    BY <1>7, <2>2 DEF SearchReturn, ConfigTypeOK, Finish, Frames, file, breadth, depth, loops
<1>8. CASE SearchDone
  <2>1. \A s \in States : retryTo[s] # Undefined
    BY <1>8 DEF SearchDone, ConfigTypeOK
  <2>2. stack' \in Seq(Frames)
    BY <1>8, <2>1, FrameFacts DEF SearchDone
  <2>. QED
    BY <1>8, <2>2 DEF SearchDone, ConfigTypeOK, GoTo, Frames, file, breadth, depth, loops
<1>9. CASE CycleEdge
  <2>1. \A s \in States : retryTo[s] # Undefined
    BY <1>9 DEF CycleEdge, ConfigTypeOK
  <2>2. stack \in Seq(Frames) /\ stack # <<>> /\ Top.rest # <<>>
    BY <1>9 DEF CycleEdge, ConfigTypeOK
  <2>3. Advanced \in Seq(Frames) /\ Top \in Frames
    BY <2>2, AdvancedFacts
  <2>4. Head(Top.rest) \in States
    BY <2>2, <2>3, ConfigHeadTail DEF Frames
  <2>5. Entered(Head(Top.rest)) \in Seq(Frames)
    BY <2>1, <2>2, <2>4, EnteredFacts
  <2>6. stack' \in Seq(Frames)
    BY <1>9, <2>3, <2>5 DEF CycleEdge
  <2>7. \A i \in DOMAIN stack : stack[i].state \in States
    BY <2>2, FrameAt
  <2>8. From(Head(Top.rest)) \in SUBSET States
    BY <2>7 DEF From
  <2>9. cycles' \in SUBSET SUBSET States
    BY <1>9, <2>8 DEF CycleEdge, ConfigTypeOK
  <2>. QED
    BY <1>9, <2>6, <2>9 DEF CycleEdge, ConfigTypeOK, Frames, file, breadth, depth
<1>10. CASE CycleReturn
  <2>1. stack \in Seq(Frames) /\ stack # <<>>
    BY <1>10 DEF CycleReturn, ConfigTypeOK
  <2>2. stack' \in Seq(Frames) /\ Top \in Frames
    BY <1>10, <2>1, LeftFacts DEF CycleReturn
  <2>3. finished' \in SUBSET States
    BY <1>10, <2>2 DEF CycleReturn, ConfigTypeOK, Frames
  <2>. QED
    BY <1>10, <2>2, <2>3 DEF CycleReturn, ConfigTypeOK, Frames, file, breadth, depth
<1>11. CASE CycleDone
  BY <1>11 DEF CycleDone, ConfigTypeOK, Finish, Frames, file, breadth, depth, loops
<1>12. CASE Returned \/ UNCHANGED configVars
  BY <1>12 DEF Returned, configVars, ConfigTypeOK, Frames, file, breadth, depth, loops
<1>. QED
  BY <1>1, <1>2, <1>3, <1>4, <1>5, <1>6, <1>7, <1>8, <1>9, <1>10, <1>11, <1>12 DEF ConfigNext

-----------------------------------------------------------------------------
(* reachableStates.                                                        *)

LEMMA NotBegunNext == ConfigTypeOK /\ NotBegun /\ [ConfigNext]_configVars => NotBegun'
  BY DEF NotBegun, ConfigNext, configVars, Resolve, ReachState, ReachEdge, ReachDone, BeginSearch,
         SearchEdge, SearchReturn, SearchDone, CycleEdge, CycleReturn, CycleDone, Returned,
         GoTo, Finish, breadth, depth, loops

\* An undefined retry target ends the check, otherwise the search begins.
LEMMA ResolveInv ==
  ASSUME ConfigTypeOK, NotBegun, Resolve
  PROVE  /\ phase' \in {"reach", "done"}
         /\ phase' = "reach" => ReachInv'
         /\ verdict' \in {"none", "undefined"}
<1>. InitialState \in States
  BY DefinedAssumption
<1>1. UNCHANGED file /\ todo' = <<>>
  BY DEF Resolve, NotBegun
<1>2. phase' \in {"reach", "done"} /\ verdict' \in {"none", "undefined"}
  BY DEF Resolve, GoTo, Finish, ConfigTypeOK
<1>3. ASSUME phase' = "reach" PROVE ReachInv'
  <2>1. reachable' = {InitialState} /\ waiting' = <<InitialState>>
    BY <1>3 DEF Resolve, Finish
  <2>2. Range(<<InitialState>>) = {InitialState} /\ Range(<<>>) = {}
    BY DEF Range
  <2>. QED
    BY <1>1, <2>1, <2>2 DEF ReachInv
<1>. QED
  BY <1>2, <1>3

LEMMA ReachStateInv ==
  ASSUME ConfigTypeOK, ReachInv, ReachState
  PROVE  ReachInv'
<1>1. /\ UNCHANGED file /\ UNCHANGED reachable /\ todo = <<>> /\ waiting # <<>>
      /\ todo' = Graph[Head(waiting)] /\ waiting' = Tail(waiting)
      /\ waiting \in Seq(States) /\ \A s \in States : retryTo[s] # Undefined
  BY DEF ReachState, ConfigTypeOK
<1> DEFINE h == Head(waiting)
<1>2. /\ h \in States /\ h \in Range(waiting) /\ Range(Tail(waiting)) \subseteq Range(waiting)
      /\ \A x \in Range(waiting) : x = h \/ x \in Range(Tail(waiting))
  BY <1>1, ConfigHeadTail
<1>3. Range(todo) = {} /\ Range(todo') = Succ(h)
  BY <1>1 DEF Range, Succ
<1>4. h \in reachable /\ reachable \subseteq States
  BY <1>2 DEF ReachInv, ConfigTypeOK
<1> HIDE DEF h
<1>5. InitialState \in reachable' /\ Range(waiting') \subseteq reachable'
  BY <1>1, <1>2 DEF ReachInv
<1>6. ASSUME NEW S \in SUBSET States, InitialState \in S, Closed(S)
      PROVE  reachable' \subseteq S /\ Range(todo') \subseteq S
  <2>1. reachable \subseteq S
    BY <1>6 DEF ReachInv
  <2>2. Succ(h) \subseteq S
    BY <1>1, <1>4, <1>6, <2>1, ClosedMeans
  <2>. QED
    BY <1>1, <1>3, <2>1, <2>2
<1>7. ASSUME NEW s \in reachable'
      PROVE  s \in Range(waiting') \/ Succ(s) \subseteq reachable' \cup Range(todo')
  <2>1. CASE s = h
    BY <1>3, <2>1
  <2>2. CASE s # h
    BY <1>1, <1>2, <1>3, <1>7, <2>2 DEF ReachInv
  <2>. QED
    BY <2>1, <2>2
<1>8. \A s \in States : Succ(s)' = Succ(s)
  BY <1>1, ReferencesKept
<1>9. \A S \in SUBSET States : Closed(S)' <=> Closed(S)
  BY <1>1, ReferencesKept
<1>. QED
  BY <1>1, <1>4, <1>5, <1>6, <1>7, <1>8, <1>9 DEF ReachInv

LEMMA ReachEdgeInv ==
  ASSUME ConfigTypeOK, ReachInv, ReachEdge
  PROVE  ReachInv'
<1>1. /\ UNCHANGED file /\ todo # <<>> /\ todo' = Tail(todo)
      /\ waiting \in Seq(States) /\ todo \in Seq(States) /\ reachable \subseteq States
  BY DEF ReachEdge, ConfigTypeOK
<1> DEFINE h == Head(todo)
<1>2. /\ h \in States /\ h \in Range(todo) /\ Range(todo') \subseteq Range(todo)
      /\ \A x \in Range(todo) : x = h \/ x \in Range(todo')
  BY <1>1, ConfigHeadTail
<1>3. reachable' = reachable \cup {h}
  BY DEF ReachEdge
<1>4. Range(waiting) \subseteq Range(waiting') /\ Range(waiting') \subseteq Range(waiting) \cup {h}
      /\ (h \notin reachable => h \in Range(waiting'))
  <2>1. Range(Append(waiting, h)) = Range(waiting) \cup {h}
    BY <1>1, <1>2, ConfigAppend
  <2>. QED
    BY <2>1 DEF ReachEdge
<1> HIDE DEF h
<1>5. InitialState \in reachable' /\ Range(waiting') \subseteq reachable'
  BY <1>3, <1>4 DEF ReachInv
<1>6. ASSUME NEW S \in SUBSET States, InitialState \in S, Closed(S)
      PROVE  reachable' \subseteq S /\ Range(todo') \subseteq S
  BY <1>2, <1>3, <1>6 DEF ReachInv
<1>7. ASSUME NEW s \in reachable'
      PROVE  s \in Range(waiting') \/ Succ(s) \subseteq reachable' \cup Range(todo')
  <2>1. CASE s \in reachable
    BY <1>2, <1>3, <1>4, <2>1 DEF ReachInv
  <2>2. CASE s \notin reachable
    BY <1>3, <1>4, <2>2
  <2>. QED
    BY <2>1, <2>2
<1>8. \A s \in States : Succ(s)' = Succ(s)
  BY <1>1, ReferencesKept
<1>9. \A S \in SUBSET States : Closed(S)' <=> Closed(S)
  BY <1>1, ReferencesKept
<1>. QED
  BY <1>1, <1>2, <1>3, <1>5, <1>6, <1>7, <1>8, <1>9 DEF ReachInv

\* What the breadth-first search found is the smallest closed set.
LEMMA ReachDoneInv ==
  ASSUME ConfigTypeOK, NotBegun, ReachInv, ReachDone
  PROVE  /\ phase' \in {"ends", "done"}
         /\ phase' = "ends" => EndsInv' /\ verdict' = "none"
         /\ phase' = "done" => verdict' = "unreachable" /\ ~AllReachable'
<1>1. /\ UNCHANGED file /\ todo = <<>> /\ waiting = <<>> /\ UNCHANGED <<checked, stack>>
      /\ checked = {} /\ stack = <<>> /\ verdict = "none"
      /\ reachable \in SUBSET States /\ \A s \in States : retryTo[s] # Undefined
  BY DEF ReachDone, ConfigTypeOK, NotBegun, depth
<1>2. Range(waiting) = {} /\ Range(todo) = {}
  BY <1>1 DEF Range
<1>3. Closed(reachable)
  <2>1. \A s \in reachable : Succ(s) \subseteq reachable
    BY <1>2 DEF ReachInv
  <2>. QED
    BY <1>1, <2>1, ClosedMeans
<1>4. AllReachable' = AllReachable
  BY <1>1, ReferencesKept
<1>5. CASE reachable = States
  <2>1. AllReachable
    BY <1>5 DEF AllReachable, ReachInv
  <2>2. phase' = "ends" /\ verdict' = "none"
    BY <1>1, <1>5 DEF ReachDone, GoTo
  <2>3. EndsInv'
    BY <1>1, <1>4, <2>1 DEF EndsInv, RestIsLeft
  <2>. QED
    BY <2>2, <2>3
<1>6. CASE reachable # States
  <2>1. ~AllReachable
    BY <1>1, <1>3, <1>6 DEF AllReachable, ReachInv
  <2>2. phase' = "done" /\ verdict' = "unreachable"
    BY <1>6 DEF ReachDone, Finish
  <2>. QED
    BY <1>4, <2>1, <2>2
<1>. QED
  BY <1>5, <1>6

-----------------------------------------------------------------------------
(* canReachTerminal.                                                       *)

LEMMA BeginSearchInv ==
  ASSUME ConfigTypeOK, EndsInv, BeginSearch
  PROVE  EndsInv'
<1>1. UNCHANGED file /\ checked' = checked /\ \A s \in States : retryTo[s] # Undefined
  BY DEF BeginSearch, ConfigTypeOK
<1>2. PICK s \in States \ Terminal : visited' = {s} /\ stack' = <<Frame(s)>>
  BY DEF BeginSearch
<1>3. /\ stack' # <<>> /\ DOMAIN stack' = {1}
      /\ stack'[1].state = s /\ stack'[1].rest = Graph[s]
  BY <1>1, <1>2, FrameFacts
<1>4. Graph' = Graph /\ AllReachable' = AllReachable
  BY <1>1, ReferencesKept
<1>5. \A S \in SUBSET States : Closed(S)' <=> Closed(S)
  BY <1>1, ReferencesKept
<1>6. OnStack' = {s}
  BY <1>3 DEF OnStack
<1>7. Succ(s)' = Succ(s) /\ Range(Graph[s]) = Succ(s)
  BY <1>4 DEF Succ
<1>8. RestIsLeft'
  BY <1>3, <1>7 DEF RestIsLeft
<1>9. \A i \in DOMAIN stack' :
        /\ stack'[i].state \in visited'
        /\ Succ(stack[i].state)' \subseteq visited' \cup Range(stack'[i].rest)
  BY <1>2, <1>3, <1>7
<1>10. \A c \in checked' : \A S \in SUBSET (States \ Terminal) : Closed(S)' => c \notin S
  BY <1>1, <1>5 DEF EndsInv
<1>. QED
  BY <1>2, <1>3, <1>4, <1>6, <1>8, <1>9, <1>10 DEF EndsInv

\* The deepest state of the stack and the edge it looks at.
LEMMA TopFacts ==
  ASSUME ConfigTypeOK, RestIsLeft, stack # <<>>, Top.rest # <<>>
  PROVE  /\ Head(Top.rest) \in States /\ Head(Top.rest) \in Succ(Top.state)
         /\ Range(Tail(Top.rest)) \subseteq Range(Top.rest)
         /\ \A x \in Range(Top.rest) : x = Head(Top.rest) \/ x \in Range(Tail(Top.rest))
<1>1. stack \in Seq(Frames)
  BY DEF ConfigTypeOK
<1>2. Top \in Frames /\ Len(stack) \in DOMAIN stack
  BY <1>1, AdvancedFacts
<1>3. Top.rest \in Seq(States)
  BY <1>2 DEF Frames
<1>4. Range(Top.rest) \subseteq Succ(Top.state)
  BY <1>2 DEF RestIsLeft, Top
<1>. QED
  BY <1>3, <1>4, ConfigHeadTail

LEMMA RestIsLeftAdvanced ==
  ASSUME ConfigTypeOK, RestIsLeft, stack # <<>>, Top.rest # <<>>,
         UNCHANGED file, stack' = Advanced
  PROVE  RestIsLeft'
<1>. stack \in Seq(Frames)
  BY DEF ConfigTypeOK
<1>. SUFFICES ASSUME NEW i \in DOMAIN stack'
              PROVE  Range(stack'[i].rest) \subseteq Succ(stack[i].state)'
  BY DEF RestIsLeft
<1>1. i \in DOMAIN stack /\ stack'[i].state = stack[i].state
  BY AdvancedFacts
<1>2. Succ(stack[i].state)' = Succ(stack[i].state)
  BY <1>1, FrameAt, ReferencesKept DEF Succ
<1>3. Range(stack'[i].rest) \subseteq Range(stack[i].rest)
  BY <1>1, AdvancedFacts, TopFacts DEF Top
<1>. QED
  BY <1>1, <1>2, <1>3 DEF RestIsLeft

LEMMA RestIsLeftEntered ==
  ASSUME ConfigTypeOK, \A s \in States : retryTo[s] # Undefined, RestIsLeft,
         stack # <<>>, Top.rest # <<>>,
         UNCHANGED file, NEW n \in States, stack' = Entered(n)
  PROVE  RestIsLeft'
<1>. stack \in Seq(Frames)
  BY DEF ConfigTypeOK
<1>. SUFFICES ASSUME NEW i \in DOMAIN stack'
              PROVE  Range(stack'[i].rest) \subseteq Succ(stack[i].state)'
  BY DEF RestIsLeft
<1>0. Graph' = Graph
  BY ReferencesKept
<1>1. Len(stack) \in Nat \ {0} /\ DOMAIN stack = 1..Len(stack)
  BY AdvancedFacts
<1>2. i \in 1..Len(stack) \/ i = Len(stack) + 1
  <2>1. DOMAIN stack' = 1..(Len(stack) + 1)
    BY EnteredFacts
  <2>. QED
    BY <1>1, <2>1
<1>3. CASE i = Len(stack) + 1
  BY <1>0, <1>3, EnteredFacts DEF Succ
<1>4. CASE i \in 1..Len(stack)
  <2>1. stack'[i].state = stack[i].state
    BY <1>4, EnteredFacts
  <2>2. Range(stack'[i].rest) \subseteq Range(stack[i].rest)
    BY <1>4, EnteredFacts, TopFacts DEF Top
  <2>. QED
    BY <1>0, <1>1, <1>4, <2>1, <2>2 DEF RestIsLeft, Succ
<1>. QED
  BY <1>2, <1>3, <1>4

\* A state already seen: the search goes on with the next edge.
LEMMA SearchSeenInv ==
  ASSUME ConfigTypeOK, EndsInv, phase = "ends", stack # <<>>, Top.rest # <<>>,
         Head(Top.rest) \in visited, stack' = Advanced,
         UNCHANGED <<file, visited, checked>>
  PROVE  EndsInv'
<1>. stack \in Seq(Frames) /\ RestIsLeft /\ UNCHANGED file
  BY DEF ConfigTypeOK, EndsInv
<1>1. Graph' = Graph /\ AllReachable' = AllReachable
  BY ReferencesKept
<1>2. \A S \in SUBSET States : Closed(S)' <=> Closed(S)
  BY ReferencesKept
<1>3. /\ DOMAIN stack' = DOMAIN stack /\ stack' # <<>>
      /\ 1 \in DOMAIN stack
      /\ \A i \in DOMAIN stack : stack'[i].state = stack[i].state
  BY AdvancedFacts
<1>4. OnStack' = OnStack
  BY <1>3 DEF OnStack
<1>5. RestIsLeft'
  BY RestIsLeftAdvanced
<1>6. ASSUME NEW i \in DOMAIN stack
      PROVE  Succ(stack[i].state) \subseteq visited \cup Range(stack'[i].rest)
  <2>1. Succ(stack[i].state) \subseteq visited \cup Range(stack[i].rest)
    BY DEF EndsInv
  <2>2. \A x \in Range(stack[i].rest) : x \in visited \/ x \in Range(stack'[i].rest)
    BY AdvancedFacts, TopFacts DEF Top
  <2>. QED
    BY <2>1, <2>2
<1>. QED
  BY <1>1, <1>2, <1>3, <1>4, <1>5, <1>6 DEF EndsInv, Succ

\* A terminal state: no closed set without terminal states has the first state.
LEMMA SearchFoundInv ==
  ASSUME ConfigTypeOK, EndsInv, phase = "ends", stack # <<>>, Top.rest # <<>>,
         Head(Top.rest) \in Terminal, stack' = <<>>,
         checked' = checked \cup {stack[1].state}, UNCHANGED <<file, visited>>
  PROVE  EndsInv'
<1>. /\ stack \in Seq(Frames) /\ RestIsLeft /\ UNCHANGED file
     /\ \A s \in States : retryTo[s] # Undefined
  BY DEF ConfigTypeOK, EndsInv
<1>1. Graph' = Graph /\ AllReachable' = AllReachable
  BY ReferencesKept
<1>2. \A S \in SUBSET States : Closed(S)' <=> Closed(S)
  BY ReferencesKept
<1>3. ASSUME NEW S \in SUBSET (States \ Terminal), Closed(S) PROVE stack[1].state \notin S
  <2>. SUFFICES ASSUME stack[1].state \in S PROVE FALSE
    OBVIOUS
  <2>1. visited \subseteq S
    BY <1>3 DEF EndsInv
  <2>2. Top.state \in visited
    BY AdvancedFacts DEF EndsInv, Top
  <2>3. Head(Top.rest) \in Succ(Top.state)
    BY TopFacts
  <2>. QED
    BY <1>3, <2>1, <2>2, <2>3, ClosedMeans
<1>4. \A s \in checked' : \A S \in SUBSET (States \ Terminal) : Closed(S) => s \notin S
  BY <1>3 DEF EndsInv
<1>. QED
  BY <1>1, <1>2, <1>4 DEF EndsInv, RestIsLeft

\* A new state is entered.
LEMMA SearchEnterInv ==
  ASSUME ConfigTypeOK, EndsInv, phase = "ends", stack # <<>>, Top.rest # <<>>,
         NEW n \in States \ Terminal, n = Head(Top.rest), stack' = Entered(n),
         visited' = visited \cup {n}, UNCHANGED <<file, checked>>
  PROVE  EndsInv'
<1>. /\ stack \in Seq(Frames) /\ RestIsLeft /\ UNCHANGED file /\ n \in States
     /\ \A s \in States : retryTo[s] # Undefined
  BY DEF ConfigTypeOK, EndsInv
<1>1. Graph' = Graph /\ AllReachable' = AllReachable
  BY ReferencesKept
<1>2. \A S \in SUBSET States : Closed(S)' <=> Closed(S)
  BY ReferencesKept
<1>3. /\ DOMAIN stack = 1..Len(stack) /\ Len(stack) \in Nat \ {0} /\ 1 \in DOMAIN stack
      /\ Len(stack) \in DOMAIN stack
  BY AdvancedFacts
<1>4. /\ DOMAIN stack' = 1..(Len(stack) + 1) /\ stack' # <<>>
      /\ \A i \in DOMAIN stack : stack'[i].state = stack[i].state
      /\ \A i \in DOMAIN stack : i # Len(stack) => stack'[i].rest = stack[i].rest
      /\ stack'[Len(stack)].rest = Tail(Top.rest)
      /\ stack'[Len(stack) + 1].state = n /\ stack'[Len(stack) + 1].rest = Graph[n]
  <2>1. /\ Entered(n) # <<>>
        /\ DOMAIN Entered(n) = 1..(Len(stack) + 1)
        /\ \A i \in 1..Len(stack) :
             /\ Entered(n)[i].state = stack[i].state
             /\ i # Len(stack) => Entered(n)[i].rest = stack[i].rest
        /\ Entered(n)[Len(stack)].rest = Tail(Top.rest)
        /\ Entered(n)[Len(stack) + 1].state = n
        /\ Entered(n)[Len(stack) + 1].rest = Graph[n]
    BY EnteredFacts
  <2>. QED
    BY <1>3, <2>1
<1>5. \A i \in DOMAIN stack' : i \in DOMAIN stack \/ i = Len(stack) + 1
  BY <1>3, <1>4
<1>6. OnStack \subseteq OnStack' /\ n \in OnStack'
  BY <1>3, <1>4 DEF OnStack
<1>7. RestIsLeft'
  BY RestIsLeftEntered
<1>8. ASSUME NEW i \in DOMAIN stack
      PROVE  Succ(stack[i].state) \subseteq visited' \cup Range(stack'[i].rest)
  <2>1. Succ(stack[i].state) \subseteq visited \cup Range(stack[i].rest)
    BY DEF EndsInv
  <2>2. \A x \in Range(stack[i].rest) : x = n \/ x \in Range(stack'[i].rest)
    <3>1. CASE i = Len(stack)
      BY <1>4, <3>1, TopFacts DEF Top
    <3>2. CASE i # Len(stack)
      BY <1>4, <3>2
    <3>. QED
      BY <3>1, <3>2
  <2>. QED
    BY <2>1, <2>2
<1>9. \A i \in DOMAIN stack' :
        /\ stack'[i].state \in visited'
        /\ Succ(stack[i].state)' \subseteq visited' \cup Range(stack'[i].rest)
  <2>. SUFFICES ASSUME NEW i \in DOMAIN stack'
                PROVE  /\ stack'[i].state \in visited'
                       /\ Succ(stack[i].state)' \subseteq visited' \cup Range(stack'[i].rest)
    OBVIOUS
  <2>1. CASE i \in DOMAIN stack
    BY <1>1, <1>4, <1>8, <2>1 DEF EndsInv, Succ
  <2>2. CASE i = Len(stack) + 1
    BY <1>1, <1>4, <2>2 DEF Succ
  <2>. QED
    BY <1>5, <2>1, <2>2
<1>10. \A v \in visited' : v \in OnStack' \/ Succ(v)' \subseteq visited'
  BY <1>1, <1>6 DEF EndsInv, Succ
<1>11. ASSUME NEW S \in SUBSET States, stack'[1].state \in S, Closed(S) PROVE visited' \subseteq S
  <2>1. visited \subseteq S
    BY <1>3, <1>4, <1>11 DEF EndsInv
  <2>2. Top.state \in visited /\ n \in Succ(Top.state)
    BY <1>3, TopFacts DEF EndsInv, Top
  <2>. QED
    BY <1>11, <2>1, <2>2, ClosedMeans
<1>12. visited' \cap Terminal = {}
  BY DEF EndsInv
<1>. QED
  BY <1>1, <1>2, <1>4, <1>7, <1>9, <1>10, <1>11, <1>12 DEF EndsInv

LEMMA SearchEdgeInv ==
  ASSUME ConfigTypeOK, EndsInv, SearchEdge
  PROVE  EndsInv'
<1>1. phase = "ends" /\ stack # <<>> /\ Top.rest # <<>> /\ UNCHANGED file
  BY DEF SearchEdge
<1>2. Head(Top.rest) \in States
  BY <1>1, TopFacts DEF EndsInv
<1>3. CASE Head(Top.rest) \in visited
  BY <1>1, <1>3, SearchSeenInv DEF SearchEdge
<1>4. CASE Head(Top.rest) \notin visited /\ Head(Top.rest) \in Terminal
  BY <1>1, <1>4, SearchFoundInv DEF SearchEdge
<1>5. CASE Head(Top.rest) \notin visited /\ Head(Top.rest) \notin Terminal
  BY <1>1, <1>2, <1>5, SearchEnterInv DEF SearchEdge
<1>. QED
  BY <1>3, <1>4, <1>5

LEMMA RestIsLeftLeft ==
  ASSUME ConfigTypeOK, RestIsLeft, stack # <<>>, UNCHANGED file, stack' = Left
  PROVE  RestIsLeft'
<1>. stack \in Seq(Frames)
  BY DEF ConfigTypeOK
<1>. SUFFICES ASSUME NEW i \in DOMAIN stack'
              PROVE  Range(stack'[i].rest) \subseteq Succ(stack[i].state)'
  BY DEF RestIsLeft
<1>1. /\ Len(stack) \in Nat \ {0} /\ DOMAIN stack = 1..Len(stack)
      /\ DOMAIN Left = 1..(Len(stack) - 1)
      /\ \A j \in 1..(Len(stack) - 1) : Left[j] = stack[j]
  BY LeftFacts
<1>2. i \in DOMAIN stack /\ stack'[i] = stack[i]
  BY <1>1
<1>3. Graph' = Graph
  BY ReferencesKept
<1>. QED
  BY <1>2, <1>3 DEF RestIsLeft, Succ

\* A call that found nothing returns to its caller.
LEMMA SearchBackInv ==
  ASSUME ConfigTypeOK, EndsInv, phase = "ends", stack # <<>>, Top.rest = <<>>,
         Len(stack) # 1, stack' = Left, UNCHANGED <<file, visited, checked>>
  PROVE  EndsInv'
<1>. stack \in Seq(Frames) /\ RestIsLeft /\ UNCHANGED file
  BY DEF ConfigTypeOK, EndsInv
<1>1. Graph' = Graph /\ AllReachable' = AllReachable
  BY ReferencesKept
<1>2. \A S \in SUBSET States : Closed(S)' <=> Closed(S)
  BY ReferencesKept
<1>3. /\ Len(stack) \in Nat \ {0} /\ DOMAIN stack = 1..Len(stack)
      /\ DOMAIN Left = 1..(Len(stack) - 1) /\ Left # <<>>
      /\ \A j \in 1..(Len(stack) - 1) : Left[j] = stack[j]
  BY LeftFacts
<1>4. /\ \A i \in DOMAIN stack' : i \in DOMAIN stack /\ stack'[i] = stack[i]
      /\ \A i \in DOMAIN stack : i = Len(stack) \/ i \in DOMAIN stack'
      /\ stack' # <<>> /\ 1 \in DOMAIN stack' /\ Len(stack) \in DOMAIN stack
  BY <1>3
<1>5. Succ(Top.state) \subseteq visited
  <2>1. Succ(Top.state) \subseteq visited \cup Range(<<>>)
    BY <1>4 DEF EndsInv, Top
  <2>. QED
    BY <2>1 DEF Range
<1>6. RestIsLeft'
  BY RestIsLeftLeft
<1>7. ASSUME NEW v \in visited PROVE v \in OnStack' \/ Succ(v) \subseteq visited
  <2>1. CASE v \in OnStack
    <3>1. PICK i \in DOMAIN stack : v = stack[i].state
      BY <2>1 DEF OnStack
    <3>2. CASE i = Len(stack)
      BY <1>5, <3>1, <3>2 DEF Top
    <3>3. CASE i \in DOMAIN stack'
      BY <1>4, <3>1, <3>3 DEF OnStack
    <3>. QED
      BY <1>4, <3>2, <3>3
  <2>2. CASE v \notin OnStack
    BY <2>2 DEF EndsInv
  <2>. QED
    BY <2>1, <2>2
<1>8. \A i \in DOMAIN stack' :
        /\ stack'[i].state \in visited'
        /\ Succ(stack[i].state)' \subseteq visited' \cup Range(stack'[i].rest)
  BY <1>1, <1>4 DEF EndsInv, Succ
<1>. QED
  BY <1>1, <1>2, <1>4, <1>6, <1>7, <1>8 DEF EndsInv, Succ

\* The first call found nothing: what it saw cannot be left.
LEMMA SearchReturnInv ==
  ASSUME ConfigTypeOK, EndsInv, SearchReturn
  PROVE  /\ phase' \in {"ends", "done"}
         /\ phase' = "ends" => EndsInv' /\ verdict' = "none"
         /\ phase' = "done" => verdict' = "dead end" /\ AllReachable' /\ HasTrap'
<1>1. /\ phase = "ends" /\ stack # <<>> /\ Top.rest = <<>> /\ UNCHANGED file
      /\ stack' = Left /\ UNCHANGED <<file, visited, checked>> /\ stack \in Seq(Frames)
      /\ visited \in SUBSET States /\ verdict = "none"
      /\ \A s \in States : retryTo[s] # Undefined
  BY DEF SearchReturn, ConfigTypeOK, depth
<1>2. AllReachable' = AllReachable /\ HasTrap' = HasTrap
  BY <1>1, ReferencesKept
<1>3. CASE Len(stack) # 1
  <2>1. EndsInv'
    BY <1>1, <1>3, SearchBackInv
  <2>. QED
    BY <1>1, <1>3, <2>1 DEF SearchReturn
<1>4. CASE Len(stack) = 1
  <2>1. DOMAIN stack = {1} /\ Top = stack[1]
    <3>1. DOMAIN stack = 1..Len(stack)
      BY <1>1, LeftFacts
    <3>. QED
      BY <1>4, <3>1 DEF Top
  <2>2. Succ(stack[1].state) \subseteq visited
    <3>1. Succ(stack[1].state) \subseteq visited \cup Range(<<>>)
      BY <1>1, <2>1 DEF EndsInv
    <3>. QED
      BY <3>1 DEF Range
  <2>3. \A v \in visited : Succ(v) \subseteq visited
    BY <1>1, <2>1, <2>2 DEF EndsInv, OnStack
  <2>4. Closed(visited)
    BY <1>1, <2>3, ClosedMeans
  <2>5. visited \in SUBSET (States \ Terminal) /\ visited # {}
    BY <1>1, <2>1 DEF EndsInv
  <2>6. HasTrap
    BY <2>4, <2>5 DEF HasTrap
  <2>7. phase' = "done" /\ verdict' = "dead end"
    BY <1>4 DEF SearchReturn, Finish
  <2>. QED
    BY <1>2, <2>6, <2>7 DEF EndsInv
<1>. QED
  BY <1>3, <1>4

\* From every state that is not terminal a terminal one was found.
LEMMA SearchDoneInv ==
  ASSUME ConfigTypeOK, NotBegun, EndsInv, SearchDone
  PROVE  phase' = "loops" /\ verdict' = "none" /\ LoopsInv'
<1>. InitialState \in States
  BY DefinedAssumption
<1>1. /\ phase = "ends" /\ UNCHANGED file /\ stack' = <<Frame(InitialState)>>
      /\ finished' = {} /\ cycles' = {} /\ phase' = "loops" /\ verdict' = "none"
      /\ States \subseteq Terminal \cup checked
      /\ \A s \in States : retryTo[s] # Undefined
  BY DEF SearchDone, ConfigTypeOK, NotBegun, GoTo, loops
<1>2. AllReachable' = AllReachable /\ HasTrap' = HasTrap /\ Graph' = Graph
  BY <1>1, ReferencesKept
<1>3. ~HasTrap
  BY <1>1 DEF HasTrap, EndsInv
<1>4. /\ stack' # <<>> /\ DOMAIN stack' = {1} /\ Len(stack') = 1
      /\ stack'[1].state = InitialState /\ stack'[1].rest = Graph[InitialState]
  BY <1>1, FrameFacts
<1>5. Succ(InitialState)' = Succ(InitialState) /\ Range(stack'[1].rest) = Succ(InitialState)
  BY <1>2, <1>4 DEF Succ
<1>6. RestIsLeft'
  BY <1>4, <1>5 DEF RestIsLeft
<1>7. \A S \in SUBSET finished' : Wellfounded(S)'
  BY <1>1 DEF Wellfounded
<1>8. \A i \in DOMAIN stack' : ~(i < Len(stack'))
  BY <1>4
<1>9. \A i \in DOMAIN stack' : \A n \in Succ(stack[i].state)' : n \in Range(stack'[i].rest)
  BY <1>4, <1>5
<1>. QED
  BY <1>1, <1>2, <1>3, <1>4, <1>6, <1>7, <1>8, <1>9 DEF LoopsInv, EndsInv

-----------------------------------------------------------------------------
(* findCycles.                                                             *)

\* An edge back to a state on the stack closes a cycle.
LEMMA FromIsCycle ==
  ASSUME ConfigTypeOK, LoopsInv, stack # <<>>, Top.rest # <<>>,
         NEW n \in States, n = Head(Top.rest), n \in OnStack
  PROVE  From(n) # {} /\ \A s \in From(n) : From(n) \cap Succ(s) # {}
<1>. stack \in Seq(Frames) /\ RestIsLeft
  BY DEF ConfigTypeOK, LoopsInv
<1>1. Len(stack) \in Nat \ {0} /\ DOMAIN stack = 1..Len(stack)
  BY AdvancedFacts
<1>2. PICK p \in DOMAIN stack : stack[p].state = n
  BY DEF OnStack
<1>3. ASSUME NEW k \in DOMAIN stack, NEW i \in 1..k, stack[i].state = n
      PROVE  stack[k].state \in From(n)
  BY <1>3 DEF From
<1>4. n \in From(n)
  <2>1. p \in 1..p
    BY <1>1
  <2>. QED
    BY <1>2, <1>3, <2>1
<1>5. ASSUME NEW s \in From(n) PROVE From(n) \cap Succ(s) # {}
  <2>1. PICK k \in DOMAIN stack : s = stack[k].state /\ \E i \in 1..k : stack[i].state = n
    BY DEF From
  <2>2. PICK i \in 1..k : stack[i].state = n
    BY <2>1
  <2>3. CASE k = Len(stack)
    <3>1. n \in Succ(s)
      BY <2>1, <2>3, TopFacts DEF Top
    <3>. QED
      BY <1>4, <3>1
  <2>4. CASE k # Len(stack)
    <3>1. k + 1 \in DOMAIN stack /\ k < Len(stack) /\ i \in 1..(k + 1)
      BY <1>1, <2>4
    <3>2. stack[k + 1].state \in From(n)
      BY <1>3, <2>2, <3>1
    <3>3. stack[k + 1].state \in Succ(s)
      BY <2>1, <3>1 DEF LoopsInv
    <3>. QED
      BY <3>2, <3>3
  <2>. QED
    BY <2>3, <2>4
<1>. QED
  BY <1>4, <1>5

LEMMA WellfoundedKept ==
  ASSUME UNCHANGED file, NEW S
  PROVE  Wellfounded(S)' <=> Wellfounded(S)
<1>1. Graph' = Graph
  BY ReferencesKept
<1>. QED
  BY <1>1 DEF Wellfounded, Succ

\* An edge to a state on the stack or to a finished one is not followed.
LEMMA CycleSkipInv ==
  ASSUME ConfigTypeOK, LoopsInv, stack # <<>>, Top.rest # <<>>,
         stack' = Advanced, UNCHANGED <<file, finished>>,
         \/ Head(Top.rest) \in OnStack /\ cycles' = cycles \cup {From(Head(Top.rest))}
         \/ Head(Top.rest) \in finished /\ cycles' = cycles
  PROVE  LoopsInv'
<1>. stack \in Seq(Frames) /\ RestIsLeft /\ UNCHANGED file
  BY DEF ConfigTypeOK, LoopsInv
<1>1. Graph' = Graph /\ AllReachable' = AllReachable /\ HasTrap' = HasTrap
  BY ReferencesKept
<1>2. /\ DOMAIN stack' = DOMAIN stack /\ Len(stack') = Len(stack) /\ stack' # <<>>
      /\ DOMAIN stack = 1..Len(stack) /\ Len(stack) \in Nat \ {0} /\ 1 \in DOMAIN stack
      /\ \A i \in DOMAIN stack : stack'[i].state = stack[i].state
  BY AdvancedFacts
<1>3. RestIsLeft'
  BY RestIsLeftAdvanced
<1>4. \A i \in DOMAIN stack : i < Len(stack) => i + 1 \in DOMAIN stack
  BY <1>2
<1>5. Head(Top.rest) \in States
  BY TopFacts
<1>6. \A c \in cycles' : c # {} /\ \A s \in c : c \cap Succ(s) # {}
  BY <1>5, FromIsCycle DEF LoopsInv
<1>7. ASSUME cycles' = {}
      PROVE  /\ cycles = {} /\ Head(Top.rest) \in finished
             /\ \A i \in DOMAIN stack : \A n \in Succ(stack[i].state) :
                  \/ n \in finished \/ n \in Range(stack'[i].rest)
                  \/ i < Len(stack) /\ n = stack[i + 1].state
  <2>1. cycles = {} /\ Head(Top.rest) \in finished
    BY <1>7
  <2>2. ASSUME NEW i \in DOMAIN stack, NEW n \in Range(stack[i].rest)
        PROVE  n \in finished \/ n \in Range(stack'[i].rest)
    BY <2>1, AdvancedFacts, TopFacts DEF Top
  <2>. QED
    BY <2>1, <2>2 DEF LoopsInv
<1>8. \A S \in SUBSET finished' : cycles' = {} => Wellfounded(S)'
  BY <1>7, WellfoundedKept DEF LoopsInv
<1>. QED
  BY <1>1, <1>2, <1>3, <1>4, <1>6, <1>7, <1>8 DEF LoopsInv, Succ

LEMMA CycleEnterInv ==
  ASSUME ConfigTypeOK, LoopsInv, phase = "loops", stack # <<>>, Top.rest # <<>>,
         NEW n \in States, n = Head(Top.rest), stack' = Entered(n),
         UNCHANGED <<file, finished, cycles>>
  PROVE  LoopsInv'
<1>. /\ stack \in Seq(Frames) /\ RestIsLeft /\ UNCHANGED file
     /\ \A s \in States : retryTo[s] # Undefined
  BY DEF ConfigTypeOK, LoopsInv
<1>1. Graph' = Graph /\ AllReachable' = AllReachable /\ HasTrap' = HasTrap
  BY ReferencesKept
<1>2. /\ DOMAIN stack = 1..Len(stack) /\ Len(stack) \in Nat \ {0} /\ 1 \in DOMAIN stack
      /\ Len(stack) \in DOMAIN stack
  BY AdvancedFacts
<1>3. /\ DOMAIN stack' = 1..(Len(stack) + 1) /\ stack' # <<>> /\ Len(stack') = Len(stack) + 1
      /\ \A i \in DOMAIN stack : stack'[i].state = stack[i].state
      /\ \A i \in DOMAIN stack : i # Len(stack) => stack'[i].rest = stack[i].rest
      /\ stack'[Len(stack)].rest = Tail(Top.rest)
      /\ stack'[Len(stack) + 1].state = n /\ stack'[Len(stack) + 1].rest = Graph[n]
  <2>1. /\ Entered(n) # <<>>
        /\ Len(Entered(n)) = Len(stack) + 1 /\ DOMAIN Entered(n) = 1..(Len(stack) + 1)
        /\ \A i \in 1..Len(stack) :
             /\ Entered(n)[i].state = stack[i].state
             /\ i # Len(stack) => Entered(n)[i].rest = stack[i].rest
        /\ Entered(n)[Len(stack)].rest = Tail(Top.rest)
        /\ Entered(n)[Len(stack) + 1].state = n
        /\ Entered(n)[Len(stack) + 1].rest = Graph[n]
    BY EnteredFacts
  <2>. QED
    BY <1>2, <2>1
<1>4. RestIsLeft'
  BY RestIsLeftEntered
<1>5. \A i \in DOMAIN stack' :
        \/ i = Len(stack) + 1 /\ ~(i < Len(stack'))
        \/ i = Len(stack) /\ i \in DOMAIN stack /\ i < Len(stack')
        \/ i \in DOMAIN stack /\ i < Len(stack) /\ i < Len(stack') /\ i + 1 \in DOMAIN stack
  BY <1>2, <1>3
<1>6. Top.state = stack[Len(stack)].state /\ Top.rest = stack[Len(stack)].rest
  BY DEF Top
<1>7. ASSUME NEW i \in DOMAIN stack', i < Len(stack')
      PROVE  stack'[i + 1].state \in Succ(stack[i].state)'
  <2>1. CASE i = Len(stack)
    BY <1>1, <1>2, <1>3, <1>6, <2>1, TopFacts DEF Succ
  <2>2. CASE i \in DOMAIN stack /\ i < Len(stack) /\ i + 1 \in DOMAIN stack
    BY <1>1, <1>3, <2>2 DEF LoopsInv, Succ
  <2>. QED
    BY <1>5, <1>7, <2>1, <2>2
<1>8. ASSUME cycles' = {}, NEW i \in DOMAIN stack', NEW m \in Succ(stack[i].state)'
      PROVE  \/ m \in finished \/ m \in Range(stack'[i].rest)
             \/ i < Len(stack') /\ m = stack'[i + 1].state
  <2>1. CASE i = Len(stack) + 1
    BY <1>1, <1>3, <1>8, <2>1 DEF Succ
  <2>2. CASE i = Len(stack) /\ i < Len(stack')
    <3>1. m \in Succ(stack[i].state)
      BY <1>1, <1>2, <1>3, <1>8, <2>2 DEF Succ
    <3>2. m \in finished \/ m \in Range(Top.rest)
      <4>1. ~(i < Len(stack)) /\ i \in DOMAIN stack
        BY <1>2, <2>2
      <4>. QED
        BY <1>6, <1>8, <2>2, <3>1, <4>1 DEF LoopsInv
    <3>3. m \in Range(Top.rest) => m = n \/ m \in Range(stack'[i].rest)
      BY <1>3, <2>2, TopFacts
    <3>. QED
      BY <1>3, <2>2, <3>2, <3>3
  <2>3. CASE i \in DOMAIN stack /\ i < Len(stack) /\ i < Len(stack') /\ i + 1 \in DOMAIN stack
    <3>1. m \in Succ(stack[i].state)
      BY <1>1, <1>3, <1>8, <2>3 DEF Succ
    <3>2. i # Len(stack)
      BY <1>2, <2>3
    <3>3. \/ m \in finished \/ m \in Range(stack[i].rest)
          \/ m = stack[i + 1].state
      BY <1>8, <2>3, <3>1 DEF LoopsInv
    <3>. QED
      BY <1>3, <2>3, <3>2, <3>3
  <2>. QED
    BY <1>5, <2>1, <2>2, <2>3
<1>9. \A S \in SUBSET finished' : cycles' = {} => Wellfounded(S)'
  BY WellfoundedKept DEF LoopsInv
<1>10. stack'[1].state = InitialState
  BY <1>2, <1>3 DEF LoopsInv
<1>11. /\ \A c \in cycles' : c # {} /\ \A s \in c : c \cap Succ(s)' # {}
       /\ cycles' = {} => \A s \in finished' : Succ(s)' \subseteq finished'
  BY <1>1 DEF LoopsInv, Succ
<1>. QED
  BY <1>1, <1>3, <1>4, <1>7, <1>8, <1>9, <1>10, <1>11 DEF LoopsInv

LEMMA CycleEdgeInv ==
  ASSUME ConfigTypeOK, LoopsInv, CycleEdge
  PROVE  LoopsInv'
<1>1. phase = "loops" /\ stack # <<>> /\ Top.rest # <<>> /\ UNCHANGED file /\ UNCHANGED finished
  BY DEF CycleEdge
<1>2. Head(Top.rest) \in States
  BY <1>1, TopFacts DEF LoopsInv
<1>3. CASE Head(Top.rest) \in OnStack \/ Head(Top.rest) \in finished
  BY <1>1, <1>3, CycleSkipInv DEF CycleEdge
<1>4. CASE Head(Top.rest) \notin OnStack /\ Head(Top.rest) \notin finished
  BY <1>1, <1>2, <1>4, CycleEnterInv DEF CycleEdge
<1>. QED
  BY <1>3, <1>4

\* A state whose edges lead to finished states only adds no loop to them.
LEMMA FinishedGrows ==
  ASSUME \A s \in finished : Succ(s) \subseteq finished,
         \A S \in SUBSET finished : Wellfounded(S),
         NEW t, Succ(t) \subseteq finished, NEW S \in SUBSET (finished \cup {t})
  PROVE  Wellfounded(S)
<1>. SUFFICES ASSUME S # {}, \A s \in S : S \cap Succ(s) # {} PROVE FALSE
  BY DEF Wellfounded
<1>1. CASE t \in S /\ t \notin finished
  <2> DEFINE R == S \ {t}
  <2>1. R \in SUBSET finished
    OBVIOUS
  <2>2. PICK n \in S : n \in Succ(t)
    BY <1>1
  <2>3. R # {}
    BY <1>1, <2>2
  <2>4. ASSUME NEW s \in R PROVE R \cap Succ(s) # {}
    <3>1. PICK m \in S : m \in Succ(s)
      OBVIOUS
    <3>2. m \in finished
      BY <2>1, <3>1
    <3>. QED
      BY <1>1, <3>1, <3>2
  <2>. QED
    BY <2>1, <2>3, <2>4 DEF Wellfounded
<1>2. CASE ~(t \in S /\ t \notin finished)
  <2>1. S \in SUBSET finished
    BY <1>2
  <2>. QED
    BY <2>1 DEF Wellfounded
<1>. QED
  BY <1>1, <1>2

LEMMA CycleReturnInv ==
  ASSUME ConfigTypeOK, LoopsInv, CycleReturn
  PROVE  LoopsInv'
<1>1. /\ phase = "loops" /\ stack # <<>> /\ Top.rest = <<>> /\ UNCHANGED file
      /\ stack' = Left /\ finished' = finished \cup {Top.state} /\ cycles' = cycles
      /\ stack \in Seq(Frames) /\ RestIsLeft
  BY DEF CycleReturn, ConfigTypeOK, LoopsInv
<1>2. Graph' = Graph /\ AllReachable' = AllReachable /\ HasTrap' = HasTrap
  BY <1>1, ReferencesKept
<1>3. /\ Len(stack) \in Nat \ {0} /\ DOMAIN stack = 1..Len(stack)
      /\ Len(Left) = Len(stack) - 1 /\ DOMAIN Left = 1..(Len(stack) - 1)
      /\ Left = <<>> <=> Len(stack) = 1
      /\ \A j \in 1..(Len(stack) - 1) : Left[j] = stack[j]
  BY <1>1, LeftFacts
<1>4. \A i \in DOMAIN stack' :
        /\ i \in DOMAIN stack /\ i < Len(stack) /\ stack'[i] = stack[i]
        /\ i < Len(stack') => i + 1 \in DOMAIN stack' /\ stack'[i + 1] = stack[i + 1]
        /\ ~(i < Len(stack')) => i + 1 = Len(stack)
  BY <1>1, <1>3
<1>5. RestIsLeft'
  BY <1>1, RestIsLeftLeft
<1>6. IF stack' = <<>> THEN InitialState \in finished' ELSE stack'[1].state = InitialState
  <2>1. stack[1].state = InitialState
    BY <1>1 DEF LoopsInv
  <2>2. CASE Len(stack) = 1
    BY <1>1, <1>3, <2>1, <2>2 DEF Top
  <2>3. CASE Len(stack) # 1
    <3>1. 1 \in 1..(Len(stack) - 1)
      BY <1>3, <2>3
    <3>. QED
      BY <1>1, <1>3, <2>1, <2>3, <3>1
  <2>. QED
    BY <2>2, <2>3
<1>7. ASSUME cycles = {} PROVE Succ(Top.state) \subseteq finished
  <2>1. Len(stack) \in DOMAIN stack /\ ~(Len(stack) < Len(stack))
    BY <1>3
  <2>2. \A n \in Succ(Top.state) : n \in finished \/ n \in Range(<<>>)
    BY <1>1, <1>7, <2>1 DEF LoopsInv, Top
  <2>. QED
    BY <2>2 DEF Range
<1>8. ASSUME cycles = {}, NEW S \in SUBSET finished' PROVE Wellfounded(S)'
  <2>1. Wellfounded(S)
    BY <1>1, <1>7, <1>8, FinishedGrows DEF LoopsInv
  <2>. QED
    BY <1>1, <2>1, WellfoundedKept
<1>9. ASSUME cycles = {}, NEW i \in DOMAIN stack', NEW m \in Succ(stack[i].state)'
      PROVE  \/ m \in finished' \/ m \in Range(stack'[i].rest)
             \/ i < Len(stack') /\ m = stack'[i + 1].state
  <2>1. m \in Succ(stack[i].state)
    BY <1>2, <1>4, <1>9 DEF Succ
  <2>2. m \in finished \/ m \in Range(stack[i].rest) \/ m = stack[i + 1].state
    BY <1>4, <1>9, <2>1 DEF LoopsInv
  <2>. QED
    BY <1>1, <1>4, <2>2 DEF Top
<1>10. \A i \in DOMAIN stack' : i < Len(stack') => stack'[i + 1].state \in Succ(stack[i].state)'
  BY <1>2, <1>4 DEF LoopsInv, Succ
<1>11. /\ \A c \in cycles' : c # {} /\ \A s \in c : c \cap Succ(s)' # {}
       /\ cycles' = {} => \A s \in finished' : Succ(s)' \subseteq finished'
  BY <1>1, <1>2, <1>7 DEF LoopsInv, Succ
<1>. QED
  BY <1>1, <1>2, <1>5, <1>6, <1>8, <1>9, <1>10, <1>11 DEF LoopsInv

\* A set in which every state has an edge into the set is a loop, and there is
\* none when the finished states, now all states, have none.
LEMMA CycleDoneInv ==
  ASSUME ConfigTypeOK, LoopsInv, CycleDone
  PROVE  /\ phase' = "done" /\ verdict' \in {"loop", "ok"}
         /\ AllReachable' /\ ~HasTrap' /\ LoopsAreFound'
<1>1. /\ UNCHANGED file /\ stack = <<>> /\ phase = "loops" /\ phase' = "done"
      /\ verdict' = IF infiniteLoops # {} THEN "loop" ELSE "ok"
      /\ finished \in SUBSET States /\ cycles \in SUBSET SUBSET States
      /\ \A s \in States : retryTo[s] # Undefined
  BY DEF CycleDone, Finish, ConfigTypeOK
<1>2. /\ AllReachable' = AllReachable /\ HasTrap' = HasTrap /\ HasLoop' = HasLoop
      /\ TerminalsAreFinal' = TerminalsAreFinal
  BY <1>1, ReferencesKept
<1>3. ASSUME infiniteLoops # {} PROVE HasLoop
  <2>1. PICK c \in cycles : c \cap Terminal = {}
    BY <1>3 DEF infiniteLoops
  <2>2. c \in SUBSET (States \ Terminal) /\ c # {} /\ \A s \in c : c \cap Succ(s) # {}
    BY <1>1, <2>1 DEF LoopsInv
  <2>3. \A s \in c : \E n \in c : <<s, n>> \in Edges
    <3>. SUFFICES ASSUME NEW s \in c PROVE \E n \in c : <<s, n>> \in Edges
      OBVIOUS
    <3>1. PICK n \in c : n \in Succ(s)
      BY <2>2
    <3>. QED
      BY <2>2, <3>1, EdgeMeans
  <2>. QED
    BY <2>2, <2>3 DEF HasLoop
<1>4. ASSUME infiniteLoops = {}, TerminalsAreFinal PROVE ~HasLoop
  <2>1. ASSUME NEW c \in cycles PROVE FALSE
    <3>1. PICK s \in c : s \in Terminal
      BY <1>4 DEF infiniteLoops
    <3>2. PICK n \in c : n \in Succ(s)
      BY <2>1, <3>1 DEF LoopsInv
    <3>3. s \in States /\ n \in States
      BY <1>1, <2>1
    <3>4. <<s, n>> \in Edges
      BY <3>2, <3>3, EdgeMeans
    <3>. QED
      BY <1>4, <3>1, <3>4 DEF TerminalsAreFinal
  <2>2. /\ cycles = {} /\ InitialState \in finished
        /\ \A s \in finished : Succ(s) \subseteq finished
        /\ \A S \in SUBSET finished : Wellfounded(S)
    BY <1>1, <2>1 DEF LoopsInv
  <2>3. finished = States
    <3>1. Closed(finished)
      BY <1>1, <2>2, ClosedMeans
    <3>. QED
      BY <1>1, <2>2, <3>1 DEF LoopsInv, AllReachable
  <2>4. ASSUME NEW S \in SUBSET (States \ Terminal), S # {},
               \A s \in S : \E n \in S : <<s, n>> \in Edges
        PROVE  FALSE
    <3>1. PICK s \in S : S \cap Succ(s) = {}
      BY <2>2, <2>3, <2>4 DEF Wellfounded
    <3>2. PICK n \in S : <<s, n>> \in Edges
      BY <2>4
    <3>. QED
      BY <3>1, <3>2, EdgeMeans
  <2>. QED
    BY <2>4 DEF HasLoop
<1>. QED
  BY <1>1, <1>2, <1>3, <1>4 DEF LoopsAreFound, LoopsInv

-----------------------------------------------------------------------------
(* The check as a whole.                                                   *)

LEMMA ConfigInvInit == ConfigInit => ConfigInv
<1>. SUFFICES ASSUME ConfigInit PROVE ConfigInv
  OBVIOUS
<1>1. ConfigTypeOK
  BY ConfigTypeInit
<1>. QED
  BY <1>1 DEF ConfigInit, ConfigInv, NotBegun, SearchesAreRight, LoopsAreFound

\* A step that returns nothing new keeps what was returned.
LEMMA VerdictKept ==
  ASSUME UNCHANGED file, UNCHANGED verdict, SearchesAreRight, LoopsAreFound
  PROVE  SearchesAreRight' /\ LoopsAreFound'
<1>1. /\ AllReachable' = AllReachable /\ HasTrap' = HasTrap /\ HasLoop' = HasLoop
      /\ TerminalsAreFinal' = TerminalsAreFinal
  BY ReferencesKept
<1>. QED
  BY <1>1 DEF SearchesAreRight, LoopsAreFound

LEMMA ConfigInvNext == ConfigInv /\ [ConfigNext]_configVars => ConfigInv'
<1>. SUFFICES ASSUME ConfigInv, [ConfigNext]_configVars PROVE ConfigInv'
  OBVIOUS
<1>. /\ ConfigTypeOK /\ NotBegun /\ SearchesAreRight /\ LoopsAreFound
     /\ (phase = "reach" => ReachInv) /\ (phase = "ends" => EndsInv)
     /\ (phase = "loops" => LoopsInv)
  BY DEF ConfigInv
<1>0. ConfigTypeOK' /\ NotBegun' /\ UNCHANGED file
  BY ConfigTypeNext, NotBegunNext, FileKept
<1>1. CASE Resolve
  <2>1. /\ phase' \in {"reach", "done"} /\ (phase' = "reach" => ReachInv')
        /\ verdict' \in {"none", "undefined"}
    BY <1>1, ResolveInv
  <2>2. SearchesAreRight' /\ LoopsAreFound'
    BY <2>1 DEF SearchesAreRight, LoopsAreFound
  <2>. QED
    BY <1>0, <2>1, <2>2 DEF ConfigInv
<1>2. CASE ReachState \/ ReachEdge
  <2>1. phase = "reach" /\ phase' = "reach" /\ UNCHANGED verdict
    BY <1>2 DEF ReachState, ReachEdge
  <2>2. ReachInv'
    BY <1>2, <2>1, ReachStateInv, ReachEdgeInv
  <2>. QED
    BY <1>0, <2>1, <2>2, VerdictKept DEF ConfigInv
<1>3. CASE ReachDone
  <2>1. phase = "reach"
    BY <1>3 DEF ReachDone
  <2>2. /\ phase' \in {"ends", "done"} /\ (phase' = "ends" => EndsInv' /\ verdict' = "none")
        /\ (phase' = "done" => verdict' = "unreachable" /\ ~AllReachable')
    BY <1>3, <2>1, ReachDoneInv
  <2>3. SearchesAreRight' /\ LoopsAreFound'
    BY <2>2 DEF SearchesAreRight, LoopsAreFound
  <2>. QED
    BY <1>0, <2>2, <2>3 DEF ConfigInv
<1>4. CASE BeginSearch \/ SearchEdge
  <2>1. phase = "ends" /\ phase' = "ends" /\ UNCHANGED verdict
    BY <1>4 DEF BeginSearch, SearchEdge
  <2>2. EndsInv'
    BY <1>4, <2>1, BeginSearchInv, SearchEdgeInv
  <2>. QED
    BY <1>0, <2>1, <2>2, VerdictKept DEF ConfigInv
<1>5. CASE SearchReturn
  <2>1. phase = "ends"
    BY <1>5 DEF SearchReturn
  <2>2. /\ phase' \in {"ends", "done"} /\ (phase' = "ends" => EndsInv' /\ verdict' = "none")
        /\ (phase' = "done" => verdict' = "dead end" /\ AllReachable' /\ HasTrap')
    BY <1>5, <2>1, SearchReturnInv
  <2>3. SearchesAreRight' /\ LoopsAreFound'
    BY <2>2 DEF SearchesAreRight, LoopsAreFound
  <2>. QED
    BY <1>0, <2>2, <2>3 DEF ConfigInv
<1>6. CASE SearchDone
  <2>1. phase = "ends"
    BY <1>6 DEF SearchDone
  <2>2. phase' = "loops" /\ verdict' = "none" /\ LoopsInv'
    BY <1>6, <2>1, SearchDoneInv
  <2>3. SearchesAreRight' /\ LoopsAreFound'
    BY <2>2 DEF SearchesAreRight, LoopsAreFound
  <2>. QED
    BY <1>0, <2>2, <2>3 DEF ConfigInv
<1>7. CASE CycleEdge \/ CycleReturn
  <2>1. phase = "loops" /\ phase' = "loops" /\ UNCHANGED verdict
    BY <1>7 DEF CycleEdge, CycleReturn
  <2>2. LoopsInv'
    BY <1>7, <2>1, CycleEdgeInv, CycleReturnInv
  <2>. QED
    BY <1>0, <2>1, <2>2, VerdictKept DEF ConfigInv
<1>8. CASE CycleDone
  <2>1. phase = "loops"
    BY <1>8 DEF CycleDone
  <2>2. /\ phase' = "done" /\ verdict' \in {"loop", "ok"}
        /\ AllReachable' /\ ~HasTrap' /\ LoopsAreFound'
    BY <1>8, <2>1, CycleDoneInv
  <2>3. SearchesAreRight'
    BY <2>2 DEF SearchesAreRight
  <2>. QED
    BY <1>0, <2>2, <2>3 DEF ConfigInv
<1>9. CASE Returned \/ UNCHANGED configVars
  <2>1. UNCHANGED <<reachable, waiting, todo, checked, visited, stack, finished, cycles,
                    phase, verdict, next, retryTo>>
    BY <1>9 DEF Returned, configVars, file, breadth, depth, loops
  <2>2. /\ Graph' = Graph /\ AllReachable' = AllReachable /\ HasTrap' = HasTrap
        /\ \A S \in SUBSET States : Closed(S)' <=> Closed(S)
    BY <1>0, ReferencesKept
  <2>3. phase' = "reach" => ReachInv'
    BY <2>1, <2>2 DEF ReachInv, Succ
  <2>4. RestIsLeft' = RestIsLeft /\ OnStack' = OnStack
    BY <2>1, <2>2 DEF RestIsLeft, OnStack, Succ
  <2>5. phase' = "ends" => EndsInv'
    BY <2>1, <2>2, <2>4 DEF EndsInv, Succ
  <2>6. phase' = "loops" => LoopsInv'
    BY <2>1, <2>2, <2>4 DEF LoopsInv, Wellfounded, Succ
  <2>. QED
    BY <1>0, <2>1, <2>3, <2>5, <2>6, VerdictKept DEF ConfigInv
<1>. QED
  BY <1>1, <1>2, <1>3, <1>4, <1>5, <1>6, <1>7, <1>8, <1>9 DEF ConfigNext

\* Validate reports unreachable states and dead ends exactly when a
\* configuration has them, for every configuration.
THEOREM SearchesAreRightHolds == ConfigSpec => []SearchesAreRight
<1>1. ConfigInv => SearchesAreRight
  BY DEF ConfigInv
<1>. QED
  BY ConfigInvInit, ConfigInvNext, <1>1, PTL DEF ConfigSpec

\* Validate reports a loop only where there is one, and every loop as long as
\* nothing leads out of a terminal state, for every configuration.
THEOREM LoopsAreFoundHolds == ConfigSpec => []LoopsAreFound
<1>1. ConfigInv => LoopsAreFound
  BY DEF ConfigInv
<1>. QED
  BY ConfigInvInit, ConfigInvNext, <1>1, PTL DEF ConfigSpec

=============================================================================
