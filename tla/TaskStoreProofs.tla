-------------------------- MODULE TaskStoreProofs --------------------------
(***************************************************************************)
(* Proofs about TaskStore, for every set of callers, identifiers, mutexes  *)
(* and states, as long as reading a stored task does not fail.             *)
(*                                                                         *)
(* A step of a caller changes its own variables and, of one task at most,  *)
(* the shared ones.  SharedEffect says how; from it follows that the other *)
(* callers keep their part of the invariant, and then each action is shown *)
(* to keep its caller's part.                                              *)
(***************************************************************************)
EXTENDS TaskStore, TLAPS

-----------------------------------------------------------------------------
(* The writes.                                                             *)

\* The record of a new task.
LEMMA NewRecordType == NewRecord \in Record
  BY StoreAssumption DEF NewRecord, Record

\* putLocked adds one to the version and keeps the type.
LEMMA BumpedFacts ==
  ASSUME NEW r \in Record
  PROVE  Bumped(r) \in Record /\ Bumped(r).version = r.version + 1
  BY DEF Bumped, Record

\* So does TransitionState.
LEMMA TransitionedFacts ==
  ASSUME NEW r \in Record, NEW o \in Op
  PROVE  Transitioned(r, o) \in Record /\ Transitioned(r, o).version = r.version + 1
  <1> DEFINE archived == CASE o.mark = "set"   -> TRUE
                           [] o.mark = "clear" -> FALSE
                           [] OTHER            -> r.archived
             moved == [r EXCEPT !.state = o.to, !.archived = archived]
  <1>1. o.to \in States /\ o.mark \in {"set", "clear", "keep"}
    BY DEF Op
  <1>2. archived \in BOOLEAN
    BY <1>1 DEF Record
  <1>3. moved \in Record /\ moved.version = r.version
    BY <1>1, <1>2 DEF Record
  <1>4. Transitioned(r, o) = Bumped(moved)
    BY DEF Transitioned
  <1> QED
    BY <1>3, <1>4, BumpedFacts

\* What an operation writes is one version above what is stored.
LEMMA WriteFacts ==
  ASSUME Inv, NEW c \in Callers, pc[c] = "write", VersionMatches(c)
  PROVE  /\ op[c].id \in stored /\ op[c].id \in Ids
         /\ NewValue(c) \in Record
         /\ NewValue(c).version = db[op[c].id].version + 1
  <1>1. /\ op[c].id \in stored /\ op[c].id \in Ids
        /\ copy[c] = db[op[c].id]
        /\ copy[c] \in Record /\ mine[c] \in Record /\ op[c] \in Op
    BY DEF Inv, TypeOK, ReadStaysFresh
  <1>2. op[c].kind = "update" => mine[c].version = copy[c].version
    BY DEF VersionMatches
  <1>3. NewValue(c) \in Record /\ NewValue(c).version = db[op[c].id].version + 1
    <2>1. CASE op[c].kind \in {"state", "transition"}
      BY <1>1, <2>1, TransitionedFacts DEF NewValue
    <2>2. CASE op[c].kind = "update"
      BY <1>1, <1>2, <2>2, BumpedFacts DEF NewValue
    <2>3. CASE op[c].kind \notin {"state", "transition", "update"}
      BY <1>1, <2>3, BumpedFacts DEF NewValue
    <2> QED
      BY <2>1, <2>2, <2>3
  <1> QED
    BY <1>1, <1>3

\* Two callers never are about to write the same task: both would hold the one
\* mutex the map has for it.
LEMMA WriteExcludes ==
  ASSUME Inv, NEW c \in Callers, NEW d \in Callers, d # c,
         pc[c] = "write", pc[d] = "write"
  PROVE  op[d].id # op[c].id
  <1> SUFFICES ASSUME op[d].id = op[c].id PROVE FALSE
    OBVIOUS
  <1>1. op[c].id \in stored
    BY DEF Inv, ReadStaysFresh
  <1>2. lock[d] = keyLocks[op[c].id] /\ lock[c] = keyLocks[op[c].id]
    BY <1>1 DEF Inv, SameMutex, Holding
  <1>3. lock[c] # lock[d]
    BY DEF Inv, OneHolder, Holding
  <1> QED
    BY <1>2, <1>3

-----------------------------------------------------------------------------
(* Types.                                                                  *)

\* The entries of a task remain counts.
LEMMA EntriesType ==
  ASSUME NEW e \in [States -> Nat], NEW s \in States, NEW t \in States
  PROVE  /\ Added(e, s) \in [States -> Nat] /\ Removed(e, s) \in [States -> Nat]
         /\ Moved(e, s, t) \in [States -> Nat]
  <1>1. \A f \in [States -> Nat], u \in States :
          Added(f, u) \in [States -> Nat] /\ Removed(f, u) \in [States -> Nat]
    BY DEF Added, Removed
  <1> QED
    BY <1>1 DEF Moved

LEMMA ReindexedType ==
  ASSUME TypeOK, NEW c \in Callers, op[c].id \in Ids
  PROVE  Reindexed(c) \in [States -> Nat]
  <1>1. /\ index[op[c].id] \in [States -> Nat]
        /\ copy[c].state \in States /\ op[c].to \in States
    BY DEF TypeOK, Record, Op
  <1>2. CASE op[c].kind \in {"state", "transition"}
    BY <1>1, <1>2, EntriesType DEF Reindexed
  <1>3. CASE op[c].kind = "update"
    BY <1>1, <1>3, EntriesType DEF Reindexed
  <1>4. CASE op[c].kind \notin {"state", "transition", "update"}
    BY <1>1, <1>4, EntriesType DEF Reindexed
  <1> QED
    BY <1>2, <1>3, <1>4

LEMMA ConstantTypes ==
  /\ NoOp \in Op
  /\ \A kind \in Kinds, id \in Ids : Call(kind, id) \in Op
  /\ Unlisted \in [States -> Nat]
  /\ \A s \in States : Listed(s) \in [States -> Nat]
  BY StoreAssumption DEF NoOp, Call, Op, Kinds, Unlisted, Listed

LEMMA TypeInit == Init => TypeOK
  BY NewRecordType, ConstantTypes, StoreAssumption DEF Init, TypeOK, Labels

LEMMA TypeReturn ==
  ASSUME TypeOK, NEW c \in Callers, Return(c)
  PROVE  /\ pc' \in [Callers -> Labels] /\ op' \in [Callers -> Op]
         /\ lock' \in [Callers -> Locks \cup {NoLock}]
         /\ mine' \in [Callers -> Record] /\ copy' \in [Callers -> Record]
  BY NewRecordType, ConstantTypes DEF TypeOK, Return, Goto, Labels

LEMMA TypeBegin ==
  ASSUME TypeOK, NEW c \in Callers, NEW o \in Op, o.id \in Ids, Begin(c, o)
  PROVE  TypeOK'
  BY DEF TypeOK, Begin, Goto, Labels

LEMMA TypeCaller ==
  ASSUME Inv, NEW c \in Callers, CallerStep(c)
  PROVE  TypeOK'
  <1> USE DEF Inv
  <1> USE DEF Labels, Goto
  <1>0. pc[c] # "idle" => op[c].id \in used /\ op[c].id \in Ids
    BY DEF TypeOK, OpsFormed
  <1>1. ASSUME NEW id \in Ids, CreateSet(c, id) PROVE TypeOK'
    BY <1>1, NewRecordType, ConstantTypes DEF TypeOK, CreateSet, Kinds
  <1>2. ASSUME NEW id \in Ids, NEW to \in States, BeginTransition(c, id, to) PROVE TypeOK'
    <2> DEFINE o == [kind |-> "transition", id |-> id, to |-> to, mark |-> MarkFor(db[id], to)]
    <2>1. MarkFor(db[id], to) \in {"set", "clear", "keep"}
      BY DEF MarkFor
    <2>2. o \in Op /\ o.id \in Ids
      BY <2>1 DEF Op, Kinds
    <2> QED
      BY <1>2, <2>2, TypeBegin DEF BeginTransition
  <1>3. ASSUME NEW id \in Ids, BeginUpdate(c, id) \/ BeginResult(c, id) \/ BeginDelete(c, id)
        PROVE TypeOK'
    <2>1. PICK kind \in Kinds : Begin(c, Call(kind, id))
      BY <1>3 DEF BeginUpdate, BeginResult, BeginDelete, Kinds
    <2>2. Call(kind, id) \in Op /\ Call(kind, id).id = id
      BY ConstantTypes DEF Call
    <2> QED
      BY <2>1, <2>2, TypeBegin
  <1>4. CASE CreateAdd(c)
    <2>1. Added(index[op[c].id], Pending) \in [States -> Nat]
      BY <1>0, <1>4, StoreAssumption, EntriesType DEF TypeOK, CreateAdd
    <2>2. Call("state", op[c].id) \in Op
      BY <1>0, <1>4, ConstantTypes DEF CreateAdd, Kinds
    <2> QED
      BY <1>0, <1>4, <2>1, <2>2 DEF TypeOK, CreateAdd
  <1>5. CASE LoadLock(c)
    BY <1>0, <1>5 DEF TypeOK, LoadLock, getKeyLock
  <1>6. CASE AcquireLock(c) \/ ReadTask(c)
    BY <1>0, <1>6 DEF TypeOK, AcquireLock, ReadTask
  <1>7. CASE ReadTaskFails(c) \/ VersionConflict(c) \/ WriteFails(c)
    BY <1>7, TypeReturn DEF TypeOK, ReadTaskFails, VersionConflict, WriteFails
  <1>8. CASE DeleteMissing(c) \/ ForgetLock(c) \/ EraseTask(c)
    BY <1>0, <1>8 DEF TypeOK, DeleteMissing, ReadFails, ForgetLock, EraseTask
  <1>9. CASE DeleteMissingKey(c)
    BY <1>0, <1>9, TypeReturn DEF TypeOK, DeleteMissingKey
  <1>10. CASE PutResult(c)
    <2>1. VersionMatches(c) /\ pc[c] = "write"
      BY <1>10 DEF PutResult, VersionMatches
    <2>2. NewValue(c) \in Record
      BY <2>1, WriteFacts
    <2> QED
      BY <1>0, <1>10, <2>1, <2>2, TypeReturn DEF TypeOK, PutResult
  <1>11. CASE PutTask(c)
    <2>1. NewValue(c) \in Record
      BY <1>11, WriteFacts DEF PutTask
    <2> QED
      BY <1>0, <1>11, <2>1 DEF TypeOK, PutTask
  <1>12. CASE Reindex(c)
    BY <1>0, <1>12, ReindexedType, TypeReturn DEF TypeOK, Reindex
  <1>13. CASE PostCommitPanics(c)
    BY <1>0, <1>13, TypeReturn DEF TypeOK, PostCommitPanics
  <1> QED
    BY <1>1, <1>2, <1>3, <1>4, <1>5, <1>6, <1>7, <1>8, <1>9, <1>10, <1>11,
       <1>12, <1>13 DEF CallerStep

LEMMA TypeRestart == TypeOK /\ Restart => TypeOK'
  <1> SUFFICES ASSUME TypeOK, Restart PROVE TypeOK'
    OBVIOUS
  <1>1. RebuiltIndex \in [Ids -> [States -> Nat]]
    BY ConstantTypes DEF RebuiltIndex, TypeOK, Record
  <1> QED
    BY <1>1, NewRecordType, ConstantTypes, StoreAssumption DEF TypeOK, Restart, Labels

-----------------------------------------------------------------------------
(* What a step of a caller does to the rest.                               *)

\* The variables of the other callers.
OthersKeep(c) ==
  \A d \in Callers \ {c} :
    /\ pc'[d] = pc[d] /\ op'[d] = op[d] /\ lock'[d] = lock[d]
    /\ mine'[d] = mine[d] /\ copy'[d] = copy[d]

\* A key in use appears never, and disappears or changes only when c writes it;
\* the map changes only where it holds no mutex or nothing is stored.
SharedEffect(c) ==
  /\ used \subseteq used'
  /\ \A i \in used :
       /\ i \in stored' => i \in stored
       /\ i \in stored \ stored' => pc[c] = "write" /\ op[c].id = i
       /\ db'[i] # db[i] =>
            /\ pc[c] = "write" /\ op[c].id = i
            /\ db'[i].version = db[i].version + 1
       /\ i \in stored /\ keyLocks'[i] # keyLocks[i] => keyLocks[i] = NoLock

LEMMA ReturnKeeps ==
  ASSUME TypeOK, NEW c \in Callers, Return(c)
  PROVE  OthersKeep(c) /\ pc'[c] = "idle"
  BY DEF TypeOK, Return, Goto, OthersKeep

LEMMA CallerEffect ==
  ASSUME ReadFaults = FALSE, Inv, NEW c \in Callers, CallerStep(c)
  PROVE  OthersKeep(c) /\ SharedEffect(c)
  <1> USE DEF Inv
  <1> USE DEF Goto
  <1>0. pc[c] # "idle" => op[c].id \in used /\ op[c].id \in Ids
    BY DEF TypeOK, OpsFormed
  <1>1. ASSUME NEW id \in Ids, CreateSet(c, id) PROVE OthersKeep(c) /\ SharedEffect(c)
    BY <1>1 DEF TypeOK, CreateSet, OthersKeep, SharedEffect
  <1>2. ASSUME NEW o, Begin(c, o) PROVE OthersKeep(c) /\ SharedEffect(c)
    BY <1>2 DEF TypeOK, Begin, OthersKeep, SharedEffect
  <1>3. ASSUME NEW id \in Ids, NEW to \in States,
               \/ BeginTransition(c, id, to) \/ BeginUpdate(c, id)
               \/ BeginResult(c, id) \/ BeginDelete(c, id)
        PROVE OthersKeep(c) /\ SharedEffect(c)
    BY <1>2, <1>3 DEF BeginTransition, BeginUpdate, BeginResult, BeginDelete
  <1>4. CASE CreateAdd(c) \/ AcquireLock(c) \/ ReadTask(c)
    BY <1>4 DEF TypeOK, CreateAdd, AcquireLock, ReadTask, OthersKeep, SharedEffect
  <1>5. CASE LoadLock(c)
    BY <1>0, <1>5 DEF TypeOK, LoadLock, getKeyLock, OthersKeep, SharedEffect
  <1>6. CASE \/ ReadTaskFails(c) \/ VersionConflict(c) \/ WriteFails(c)
             \/ Reindex(c) \/ PostCommitPanics(c)
    BY <1>6, ReturnKeeps
       DEF ReadTaskFails, VersionConflict, WriteFails, Reindex, PostCommitPanics, SharedEffect
  <1>7. CASE DeleteMissing(c)
    BY <1>0, <1>7 DEF TypeOK, DeleteMissing, ReadFails, OthersKeep, SharedEffect
  <1>8. CASE ForgetLock(c)
    BY <1>0, <1>8 DEF TypeOK, ForgetLock, KeyIsGone, OthersKeep, SharedEffect
  <1>9. CASE DeleteMissingKey(c)
    <2>1. stored' = stored
      BY <1>9 DEF DeleteMissingKey, KeyIsGone
    <2> QED
      BY <1>9, <2>1, ReturnKeeps DEF DeleteMissingKey, SharedEffect
  <1>10. CASE EraseTask(c)
    BY <1>0, <1>10 DEF TypeOK, EraseTask, OthersKeep, SharedEffect
  <1>11. CASE PutResult(c)
    <2>1. VersionMatches(c) /\ pc[c] = "write"
      BY <1>11 DEF PutResult, VersionMatches
    <2>2. op[c].id \in stored /\ NewValue(c).version = db[op[c].id].version + 1
      BY <2>1, WriteFacts
    <2> QED
      BY <1>11, <2>1, <2>2, ReturnKeeps DEF TypeOK, PutResult, SharedEffect
  <1>12. CASE PutTask(c)
    <2>1. op[c].id \in stored /\ NewValue(c).version = db[op[c].id].version + 1
      BY <1>12, WriteFacts DEF PutTask
    <2>2. SharedEffect(c)
      BY <1>12, <2>1 DEF TypeOK, PutTask, SharedEffect
    <2> QED
      BY <1>12, <2>2 DEF TypeOK, PutTask, OthersKeep
  <1> QED
    BY <1>1, <1>3, <1>4, <1>5, <1>6, <1>7, <1>8, <1>9, <1>10, <1>11, <1>12,
       StoreAssumption DEF CallerStep

-----------------------------------------------------------------------------
(* The invariant, one caller at a time.                                    *)

\* The conjuncts of Inv for one caller.
CallerInv(c) ==
  pc[c] # "idle" =>
    /\ op[c].id \in used
    /\ pc[c] \in {"forget", "erase"} => op[c].kind = "delete"
    /\ pc[c] = "lock" \/ Holding(c) =>
         lock[c] # NoLock /\ (op[c].id \in stored => keyLocks[op[c].id] = lock[c])
    /\ pc[c] \in {"forget", "erase"} \/ (pc[c] = "index" /\ op[c].kind = "delete")
         => op[c].id \notin stored
    /\ pc[c] = "write" => op[c].id \in stored /\ copy[c] = db[op[c].id]
    /\ op[c].kind = "update" =>
         /\ mine[c].version <= db[op[c].id].version
         /\ mine[c].version = db[op[c].id].version => mine[c] = db[op[c].id]

LEMMA InvByCaller ==
  Inv <=> TypeOK /\ OneHolder /\ \A c \in Callers : CallerInv(c)
  BY DEF Inv, OpsFormed, SameMutex, KeyIsGone, ReadStaysFresh, CopyIsOlder,
         CallerInv, Holding

LEMMA OthersInv ==
  ASSUME ReadFaults = FALSE, Inv, TypeOK', NEW c \in Callers, CallerStep(c),
         NEW d \in Callers, d # c
  PROVE  CallerInv(d)'
  <1>1. OthersKeep(c) /\ SharedEffect(c)
    BY CallerEffect
  <1>2. /\ pc'[d] = pc[d] /\ op'[d] = op[d] /\ lock'[d] = lock[d]
        /\ mine'[d] = mine[d] /\ copy'[d] = copy[d]
    BY <1>1 DEF OthersKeep
  <1>3. CallerInv(d)
    BY InvByCaller
  <1> DEFINE i == op[d].id
  <1>4. SUFFICES ASSUME pc[d] # "idle" PROVE CallerInv(d)'
    BY <1>2 DEF CallerInv
  <1>5. i \in used /\ i \in used' /\ i \in Ids
    BY <1>1, <1>3, <1>4 DEF CallerInv, SharedEffect, Inv, TypeOK
  <1>6. pc[d] = "write" /\ pc[c] = "write" => i # op[c].id
    BY WriteExcludes DEF Inv
  <1>7. pc[d] = "write" => i \in stored' /\ db'[i] = db[i]
    BY <1>1, <1>3, <1>4, <1>5, <1>6 DEF SharedEffect, CallerInv
  <1>8. i \in stored' => i \in stored
    BY <1>1, <1>5 DEF SharedEffect
  <1>9. (pc[d] = "lock" \/ Holding(d)) /\ i \in stored' => keyLocks'[i] = lock[d]
    BY <1>1, <1>3, <1>4, <1>5, <1>8 DEF SharedEffect, CallerInv
  <1>10. op[d].kind = "update" =>
           /\ mine[d].version <= db'[i].version
           /\ mine[d].version = db'[i].version => mine[d] = db'[i]
    <2>1. db'[i] = db[i] \/ db'[i].version = db[i].version + 1
      BY <1>1, <1>5 DEF SharedEffect
    <2>2. mine[d].version \in Nat /\ db[i].version \in Nat
      BY <1>5 DEF Inv, TypeOK, Record
    <2> QED
      BY <1>3, <1>4, <2>1, <2>2 DEF CallerInv
  <1> QED
    BY <1>2, <1>3, <1>4, <1>5, <1>7, <1>8, <1>9, <1>10 DEF CallerInv, Holding

LEMMA OwnInv ==
  ASSUME ReadFaults = FALSE, Inv, TypeOK', NEW c \in Callers, CallerStep(c)
  PROVE  CallerInv(c)'
  <1> USE DEF Goto
  <1>0. TypeOK /\ CallerInv(c)
    BY InvByCaller DEF Inv
  <1>i. pc[c] # "idle" => op[c].id \in used /\ op[c].id \in Ids
    BY <1>0 DEF CallerInv, TypeOK
  <1>1. ASSUME NEW id \in Ids, CreateSet(c, id) PROVE CallerInv(c)'
    BY <1>0, <1>1 DEF TypeOK, CreateSet, CallerInv, Call, Holding
  <1>2. ASSUME NEW o, o.id \in used, o.id \in Ids, Begin(c, o) PROVE CallerInv(c)'
    BY <1>0, <1>2 DEF TypeOK, Begin, CallerInv, Holding, Record
  <1>3. ASSUME NEW id \in Ids, NEW to \in States,
               \/ BeginTransition(c, id, to) \/ BeginUpdate(c, id)
               \/ BeginResult(c, id) \/ BeginDelete(c, id)
        PROVE CallerInv(c)'
    <2>1. id \in used
      BY <1>0, <1>3 DEF TypeOK, BeginTransition, BeginUpdate, BeginResult, BeginDelete
    <2>2. \A kind : Call(kind, id).id = id
      BY DEF Call
    <2> QED
      BY <1>2, <1>3, <2>1, <2>2 DEF BeginTransition, BeginUpdate, BeginResult, BeginDelete
  <1>4. CASE CreateAdd(c)
    <2>1. pc'[c] = "begin" /\ op'[c] = Call("state", op[c].id) /\ used' = used
      BY <1>0, <1>4 DEF TypeOK, CreateAdd
    <2>2. op'[c].id = op[c].id /\ op'[c].kind = "state"
      BY <2>1 DEF Call
    <2> QED
      BY <1>i, <1>4, <2>1, <2>2 DEF CreateAdd, CallerInv, Holding
  <1>5. CASE LoadLock(c)
    BY <1>0, <1>i, <1>5, StoreAssumption DEF TypeOK, LoadLock, getKeyLock, CallerInv, Holding
  <1>6. CASE AcquireLock(c)
    BY <1>0, <1>6 DEF TypeOK, AcquireLock, CallerInv, Holding
  <1>7. CASE ReadTask(c)
    BY <1>0, <1>7 DEF TypeOK, ReadTask, CallerInv, Holding
  <1>8. CASE \/ ReadTaskFails(c) \/ VersionConflict(c) \/ WriteFails(c) \/ PutResult(c)
             \/ DeleteMissingKey(c) \/ Reindex(c) \/ PostCommitPanics(c)
    BY <1>0, <1>8, ReturnKeeps
       DEF ReadTaskFails, VersionConflict, WriteFails, PutResult, DeleteMissingKey,
           Reindex, PostCommitPanics, CallerInv
  <1>9. CASE DeleteMissing(c)
    BY <1>0, <1>9 DEF TypeOK, DeleteMissing, ReadFails, CallerInv, Holding
  <1>10. CASE EraseTask(c)
    BY <1>0, <1>10 DEF TypeOK, EraseTask, CallerInv, Holding
  <1>11. CASE ForgetLock(c)
    BY <1>0, <1>11 DEF TypeOK, ForgetLock, CallerInv, Holding
  <1>12. CASE PutTask(c)
    <2>1. /\ op[c].id \in stored
          /\ NewValue(c).version = db[op[c].id].version + 1
      BY <1>12, WriteFacts DEF PutTask
    <2>2. /\ stored' = stored /\ used' = used /\ keyLocks' = keyLocks
          /\ pc' = [pc EXCEPT ![c] = "index"]
          /\ op' = op /\ lock' = lock /\ mine' = mine
          /\ db'[op[c].id] = NewValue(c)
      BY <1>0, <1>i, <1>12, <2>1 DEF PutTask, TypeOK
    <2>3. mine[c].version \in Nat /\ db[op[c].id].version \in Nat
      BY <1>0, <1>i, <1>12 DEF TypeOK, Record, PutTask
    <2>4. pc[c] = "write" /\ pc'[c] = "index" /\ op[c].kind # "delete"
      BY <1>0, <1>12, <2>2 DEF PutTask, TypeOK
    <2> QED
      BY <1>0, <1>i, <2>1, <2>2, <2>3, <2>4 DEF CallerInv, Holding
  <1> QED
    BY <1>1, <1>3, <1>4, <1>5, <1>6, <1>7, <1>8, <1>9, <1>10, <1>11, <1>12,
       StoreAssumption DEF CallerStep

\* Only AcquireLock makes a holder, and it waits for the mutex to be free.
LEMMA OneHolderNext ==
  ASSUME ReadFaults = FALSE, Inv, NEW c \in Callers, CallerStep(c)
  PROVE  OneHolder'
  <1> USE DEF Goto
  <1>0. TypeOK /\ OneHolder
    BY DEF Inv
  <1>1. OthersKeep(c)
    BY CallerEffect
  <1>2. CASE AcquireLock(c)
    <2>1. \A d \in Callers : Holding(d) => lock[d] # lock[c]
      BY <1>2 DEF AcquireLock
    <2>2. lock' = lock
      BY <1>2 DEF AcquireLock
    <2>3. \A d \in Callers \ {c} : Holding(d)' <=> Holding(d)
      BY <1>1 DEF OthersKeep, Holding
    <2> QED
      BY <1>0, <2>1, <2>2, <2>3 DEF OneHolder
  <1>3. CASE ~AcquireLock(c)
    <2>1. Holding(c)' => Holding(c) /\ lock'[c] = lock[c]
      <3>1. ASSUME NEW id \in Ids, CreateSet(c, id) PROVE ~Holding(c)'
        BY <1>0, <3>1 DEF TypeOK, CreateSet, Holding
      <3>2. ASSUME NEW o, Begin(c, o) PROVE ~Holding(c)'
        BY <1>0, <3>2 DEF TypeOK, Begin, Holding
      <3>3. ASSUME NEW id \in Ids, NEW to \in States,
                   \/ BeginTransition(c, id, to) \/ BeginUpdate(c, id)
                   \/ BeginResult(c, id) \/ BeginDelete(c, id)
            PROVE ~Holding(c)'
        BY <3>2, <3>3 DEF BeginTransition, BeginUpdate, BeginResult, BeginDelete
      <3>4. CASE CreateAdd(c) \/ LoadLock(c)
        BY <1>0, <3>4 DEF TypeOK, CreateAdd, LoadLock, Holding
      <3>5. CASE \/ ReadTaskFails(c) \/ VersionConflict(c) \/ WriteFails(c) \/ PutResult(c)
                 \/ DeleteMissingKey(c) \/ Reindex(c) \/ PostCommitPanics(c)
        BY <1>0, <3>5, ReturnKeeps
           DEF ReadTaskFails, VersionConflict, WriteFails, PutResult, DeleteMissingKey,
               Reindex, PostCommitPanics, Holding
      <3>6. CASE \/ ReadTask(c) \/ DeleteMissing(c) \/ PutTask(c)
                 \/ EraseTask(c) \/ ForgetLock(c)
        BY <3>6 DEF ReadTask, DeleteMissing, ReadFails, PutTask, EraseTask, ForgetLock, Holding
      <3> QED
        BY <1>3, <3>1, <3>3, <3>4, <3>5, <3>6, StoreAssumption DEF CallerStep
    <2>2. \A d \in Callers : Holding(d)' => Holding(d) /\ lock'[d] = lock[d]
      BY <1>1, <2>1 DEF OthersKeep, Holding
    <2> QED
      BY <1>0, <2>2 DEF OneHolder
  <1> QED
    BY <1>2, <1>3

LEMMA InvInit == Init => Inv
  <1> SUFFICES ASSUME Init PROVE Inv
    OBVIOUS
  <1>1. \A c \in Callers : pc[c] = "idle"
    BY DEF Init
  <1> QED
    BY <1>1, TypeInit, InvByCaller DEF CallerInv, OneHolder, Holding

LEMMA InvNext ==
  ASSUME ReadFaults = FALSE, Inv, [Next]_vars
  PROVE  Inv'
  <1>1. ASSUME NEW c \in Callers, CallerStep(c) PROVE Inv'
    <2>1. TypeOK'
      BY <1>1, TypeCaller
    <2>2. OneHolder'
      BY <1>1, OneHolderNext
    <2>3. \A d \in Callers : CallerInv(d)'
      BY <1>1, <2>1, OthersInv, OwnInv
    <2>4. (TypeOK /\ OneHolder /\ \A d \in Callers : CallerInv(d))'
      BY <2>1, <2>2, <2>3
    <2> QED
      BY <2>4 DEF Inv, OpsFormed, SameMutex, KeyIsGone, ReadStaysFresh, CopyIsOlder,
                   CallerInv, Holding
  <1>2. CASE Restart
    <2>1. TypeOK'
      BY <1>2, TypeRestart DEF Inv
    <2>2. \A c \in Callers : pc'[c] = "idle"
      BY <1>2 DEF Restart
    <2>3. (TypeOK /\ OneHolder /\ \A d \in Callers : CallerInv(d))'
      BY <2>1, <2>2 DEF CallerInv, OneHolder, Holding
    <2> QED
      BY <2>3 DEF Inv, OpsFormed, SameMutex, KeyIsGone, ReadStaysFresh, CopyIsOlder,
                   CallerInv, Holding
  <1>3. CASE UNCHANGED vars
    BY <1>3 DEF vars, Inv, TypeOK, OpsFormed, OneHolder, SameMutex, KeyIsGone,
                ReadStaysFresh, CopyIsOlder, Holding
  <1> QED
    BY <1>1, <1>2, <1>3 DEF Next

-----------------------------------------------------------------------------
(* The theorems.                                                           *)

\* The inductive invariant: types, well-formed operations, one holder for a
\* mutex, one mutex for a stored task, and what follows for the copies.
THEOREM InvHolds ==
  ASSUME ReadFaults = FALSE
  PROVE  Spec => []Inv
  <1>1. Inv /\ [Next]_vars => Inv'
    BY InvNext
  <1> QED
    BY <1>1, InvInit, PTL DEF Spec

\* Every variable of the store keeps its type.
THEOREM TypeCorrect ==
  ASSUME ReadFaults = FALSE
  PROVE  Spec => []TypeOK
  <1>1. Inv => TypeOK
    BY DEF Inv
  <1> QED
    BY <1>1, InvHolds, PTL

\* No lost update: an operation that is about to write still has read what is
\* stored, although Delete drops the mutex of the task from the map.
THEOREM ReadStaysFreshHolds ==
  ASSUME ReadFaults = FALSE
  PROVE  Spec => []ReadStaysFresh
  <1>1. Inv => ReadStaysFresh
    BY DEF Inv
  <1> QED
    BY <1>1, InvHolds, PTL

\* Update never takes back what was committed after its caller's Get.
THEOREM UpdateNeverRevertsHolds ==
  ASSUME ReadFaults = FALSE
  PROVE  Spec => []UpdateNeverReverts
  <1>1. Inv => UpdateNeverReverts
    BY DEF Inv, UpdateNeverReverts, ReadStaysFresh, CopyIsOlder, VersionMatches
  <1> QED
    BY <1>1, InvHolds, PTL

\* A deleted task is not written back by an operation that read it before.
THEOREM DeletedStaysDeletedHolds ==
  ASSUME ReadFaults = FALSE
  PROVE  Spec => DeletedStaysDeleted
  <1> DEFINE Stays == \A i \in used : i \notin stored => i \notin stored'
  <1>1. Inv /\ [Next]_vars => [Stays]_vars
    <2> SUFFICES ASSUME Inv, Next PROVE Stays
      OBVIOUS
    <2>1. ASSUME NEW c \in Callers, CallerStep(c) PROVE Stays
      BY <2>1, CallerEffect DEF SharedEffect
    <2>2. CASE Restart
      BY <2>2 DEF Restart
    <2> QED
      BY <2>1, <2>2 DEF Next
  <1> QED
    BY <1>1, InvHolds, PTL DEF Spec, DeletedStaysDeleted

-----------------------------------------------------------------------------
(* The index.                                                              *)

\* Entries that suit a record: one under the state of an unarchived task, none
\* for a task archived in a terminal state, and one at most for a task that a
\* stale command has moved after it was archived.
Suits(e, r) ==
  /\ e = Unlisted \/ e = Listed(r.state)
  /\ ~r.archived => e = Listed(r.state)
  /\ r.archived /\ r.state \in Terminal => e = Unlisted

\* A transition has the mark that its caller derived from its unlocked copy;
\* labels that belong to some operations only are met in those.
KindsFormed ==
  \A c \in Callers : pc[c] # "idle" =>
    /\ op[c].kind = "transition" =>
         /\ op[c].mark = MarkFor(mine[c], op[c].to)
         /\ op[c].to = mine[c].state => op[c].to \notin Terminal
    /\ op[c].kind = "state" => op[c].mark = "keep" /\ op[c].to = InitialState
    /\ pc[c] = "index" => op[c].kind \in {"state", "transition", "update", "delete"}

\* Until its creation is through, a task is its creator's alone.
CreatorAlone ==
  \A c \in Callers : pc[c] = "add" =>
    /\ op[c].id \in stored \ known
    /\ db[op[c].id] = NewRecord /\ index[op[c].id] = Unlisted
    /\ \A d \in Callers \ {c} : pc[d] # "idle" => op[d].id # op[c].id

\* A task has one Delete that has removed its key.
OneEraser ==
  \A c, d \in Callers :
    /\ c # d /\ op[c].id = op[d].id
    /\ pc[c] \in {"index", "forget"} /\ op[c].kind = "delete"
    => ~(pc[d] \in {"index", "forget"} /\ op[d].kind = "delete")

\* Between write and index the entries suit what was read, and the record is
\* what was written; a task that is revived where it stands is listed there.
IndexBehind ==
  \A c \in Callers :
    /\ pc[c] \in {"index", "forget"} /\ op[c].id \notin skewed =>
         Suits(index[op[c].id], copy[c])
    /\ pc[c] = "index" /\ op[c].kind # "delete" =>
         /\ op[c].id \in stored /\ db[op[c].id] = NewValue(c)
         /\ op[c].kind = "update" => mine[c] = copy[c]
    /\ /\ pc[c] = "index" /\ op[c].id \notin skewed /\ op[c].kind = "transition"
       /\ op[c].mark = "clear" /\ op[c].to = copy[c].state
       => index[op[c].id] = Listed(op[c].to)

\* Otherwise they suit the record, or there are none.
IndexSuits ==
  \A i \in Ids \ skewed : Settled(i) =>
    /\ i \in stored => Suits(index[i], db[i])
    /\ i \notin stored => index[i] = Unlisted

\* A task that is archived in a state that is not terminal, and is not listed,
\* has been in that state since the last start: whoever is about to move it has
\* seen it there.
MovedIsListed ==
  \A i \in stored \ skewed :
    LET r == db[i]
    IN  /\ r.archived /\ r.state \notin Terminal /\ index[i][r.state] = 0
        /\ \A c \in Callers : pc[c] = "index" /\ op[c].id = i => copy[c].state = r.state
        => \A d \in Callers : pc[d] # "idle" /\ op[d].id = i /\ op[d].kind = "transition"
             => mine[d].state = r.state

XInv ==
  KindsFormed /\ CreatorAlone /\ OneEraser /\ IndexBehind /\ IndexSuits /\ MovedIsListed

\* What the operators of the index do with suitable entries.
LEMMA EntryFacts ==
  ASSUME NEW s \in States, NEW t \in States
  PROVE  /\ Unlisted[t] = 0 /\ Listed(s)[t] = IF t = s THEN 1 ELSE 0
         /\ Added(Unlisted, s) = Listed(s)
         /\ Removed(Listed(s), s) = Unlisted /\ Removed(Unlisted, s) = Unlisted
  <1>1. Unlisted \in [States -> Nat] /\ Listed(s) \in [States -> Nat]
    BY ConstantTypes
  <1>2. /\ Unlisted[t] = 0 /\ Listed(s)[t] = IF t = s THEN 1 ELSE 0
    BY DEF Unlisted, Listed
  <1>3. Added(Unlisted, s) = Listed(s)
    BY DEF Added, Unlisted, Listed
  <1>4. Removed(Listed(s), s) = Unlisted
    BY DEF Removed, Unlisted, Listed
  <1>5. Removed(Unlisted, s) = Unlisted
    BY DEF Removed, Unlisted
  <1> QED
    BY <1>2, <1>3, <1>4, <1>5

LEMMA MovedFacts ==
  ASSUME NEW s \in States, NEW t \in States, NEW e, e = Unlisted \/ e = Listed(s)
  PROVE  /\ Removed(e, s) = Unlisted
         /\ s # t => Moved(e, s, t) = Listed(t)
         /\ s = t => Moved(e, s, t) = e
         /\ Removed(Moved(e, s, t), t) = Unlisted
  <1>1. Removed(e, s) = Unlisted /\ Added(Unlisted, t) = Listed(t)
        /\ Removed(Listed(t), t) = Unlisted
    BY EntryFacts
  <1> QED
    BY <1>1 DEF Moved

\* The mark of a transition and its target.
LEMMA MarkFacts ==
  ASSUME NEW r \in Record, NEW to \in States, to = r.state => to \notin Terminal
  PROVE  /\ MarkFor(r, to) \in {"set", "clear", "keep"}
         /\ MarkFor(r, to) = "set" <=> to \in Terminal
         /\ MarkFor(r, to) = "clear" => to # r.state
  BY DEF MarkFor

LEMMA WrittenParts ==
  ASSUME NEW r \in Record, NEW o \in Op
  PROVE  /\ Bumped(r).state = r.state /\ Bumped(r).archived = r.archived
         /\ Transitioned(r, o).state = o.to
         /\ o.mark = "set" => Transitioned(r, o).archived
         /\ o.mark = "clear" => ~Transitioned(r, o).archived
         /\ o.mark = "keep" => Transitioned(r, o).archived = r.archived
  <1>1. \A x \in Record : Bumped(x).state = x.state /\ Bumped(x).archived = x.archived
    BY DEF Bumped, Record
  <1> DEFINE archived == CASE o.mark = "set"   -> TRUE
                           [] o.mark = "clear" -> FALSE
                           [] OTHER            -> r.archived
             moved == [r EXCEPT !.state = o.to, !.archived = archived]
  <1>2. o.to \in States /\ o.mark \in {"set", "clear", "keep"}
    BY DEF Op
  <1>3. /\ archived \in BOOLEAN
        /\ o.mark = "set" => archived
        /\ o.mark = "clear" => ~archived
        /\ o.mark = "keep" => archived = r.archived
    BY <1>2 DEF Record
  <1>4. Transitioned(r, o) = Bumped(moved)
    BY DEF Transitioned
  <1>. HIDE DEF archived
  <1>5. moved \in Record /\ moved.state = o.to /\ moved.archived = archived
    BY <1>2, <1>3 DEF Record
  <1>. HIDE DEF moved
  <1> QED
    BY <1>1, <1>3, <1>4, <1>5

\* The write, for its two kinds.
LEMMA NewValueParts ==
  ASSUME TypeOK, KindsFormed, NEW c \in Callers, pc[c] # "idle",
         op[c].kind \in {"state", "transition", "update"},
         op[c].kind = "update" => mine[c] = copy[c]
  PROVE  /\ op[c].kind = "update" =>
              NewValue(c).state = copy[c].state /\ NewValue(c).archived = copy[c].archived
         /\ op[c].kind # "update" =>
              /\ NewValue(c).state = op[c].to
              /\ op[c].mark \in {"set", "clear", "keep"}
              /\ op[c].mark = "set" <=> op[c].to \in Terminal
              /\ op[c].mark = "set" => NewValue(c).archived
              /\ op[c].mark = "clear" => ~NewValue(c).archived /\ op[c].to # mine[c].state
                                         /\ op[c].kind = "transition"
              /\ op[c].mark = "keep" => NewValue(c).archived = copy[c].archived
  <1>1. op[c] \in Op /\ mine[c] \in Record /\ copy[c] \in Record /\ op[c].to \in States
    BY DEF TypeOK, Op
  <1>2. CASE op[c].kind = "update"
    BY <1>1, <1>2, WrittenParts DEF NewValue
  <1>3. CASE op[c].kind \in {"state", "transition"}
    <2>1. NewValue(c) = Transitioned(copy[c], op[c])
      BY <1>3 DEF NewValue
    <2>2. /\ op[c].mark \in {"set", "clear", "keep"}
          /\ op[c].mark = "set" <=> op[c].to \in Terminal
          /\ op[c].mark = "clear" => op[c].to # mine[c].state /\ op[c].kind = "transition"
      BY <1>1, <1>3, MarkFacts, StoreAssumption DEF KindsFormed
    <2> QED
      BY <1>1, <1>3, <2>1, <2>2, WrittenParts
  <1> QED
    BY <1>2, <1>3

\* Whoever is between its read under the lock and its return is alone with the
\* task: two writers would hold one mutex, a deleted task has no writer.
LEMMA OwnerAlone ==
  ASSUME Inv, XInv, NEW c \in Callers, NEW d \in Callers, c # d,
         op[c].id = op[d].id, pc[c] \in {"write", "index", "forget"}
  PROVE  pc[d] \notin {"add", "write", "index", "forget"}
  <1> DEFINE i == op[c].id
             Gone(x) == pc[x] \in {"index", "forget"} /\ op[x].kind = "delete"
             Live(x) == pc[x] = "write" \/ (pc[x] = "index" /\ op[x].kind # "delete")
  <1>1. pc[d] # "add"
    BY DEF XInv, CreatorAlone
  <1>2. \A x \in Callers : Gone(x) => op[x].id \notin stored
    BY DEF Inv, KeyIsGone
  <1>3. \A x \in Callers : Live(x) => /\ op[x].id \in stored /\ Holding(x)
                                      /\ lock[x] = keyLocks[op[x].id]
    BY DEF Inv, ReadStaysFresh, XInv, IndexBehind, Holding, SameMutex
  <1>4. \A x \in Callers : pc[x] \in {"write", "index", "forget"} => Gone(x) \/ Live(x)
    BY DEF Inv, OpsFormed
  <1>5. ~(Gone(c) /\ Gone(d))
    BY DEF XInv, OneEraser
  <1>6. ~(Live(c) /\ Live(d))
    BY <1>3 DEF Inv, OneHolder
  <1> QED
    BY <1>1, <1>2, <1>3, <1>4, <1>5, <1>6

\* So before its write the index has caught up with the record.
LEMMA WriterSettled ==
  ASSUME Inv, XInv, NEW c \in Callers, pc[c] = "write"
  PROVE  Settled(op[c].id) /\ op[c].id \in stored /\ copy[c] = db[op[c].id]
  <1>1. \A d \in Callers : op[d].id = op[c].id => pc[d] \notin {"add", "index", "forget"}
    BY OwnerAlone
  <1> QED
    BY <1>1 DEF Settled, Inv, ReadStaysFresh

\* The entries after the last step of an operation.
LEMMA ReindexSuits ==
  ASSUME Inv, XInv, NEW c \in Callers, pc[c] = "index", op[c].id \notin skewed
  PROVE  LET i == op[c].id
         IN  /\ op[c].kind = "delete" => Reindexed(c) = Unlisted
             /\ op[c].kind # "delete" =>
                  /\ Suits(Reindexed(c), db[i])
                  /\ /\ db[i].archived /\ db[i].state \notin Terminal
                     /\ Reindexed(c)[db[i].state] = 0
                     => copy[c].state = db[i].state /\ Reindexed(c) = index[i]
  <1> DEFINE i == op[c].id
             e == index[i]
             old == copy[c].state
             new == NewValue(c)
  <1>1. /\ TypeOK /\ KindsFormed /\ i \in Ids /\ old \in States /\ op[c].to \in States
        /\ op[c].kind \in {"state", "transition", "update", "delete"}
    BY DEF Inv, TypeOK, OpsFormed, XInv, KindsFormed, Record, Op
  <1>2. Suits(e, copy[c])
    BY DEF XInv, IndexBehind
  <1>3. Removed(e, old) = Unlisted
    BY <1>1, <1>2, MovedFacts DEF Suits
  <1>4. CASE op[c].kind = "delete"
    BY <1>3, <1>4 DEF Reindexed
  <1>5. ASSUME op[c].kind # "delete" PROVE db[i] = new
    BY <1>5 DEF XInv, IndexBehind
  <1>6. CASE op[c].kind = "update"
    <2>1. mine[c] = copy[c]
      BY <1>6 DEF XInv, IndexBehind
    <2>2. new.state = old /\ new.archived = copy[c].archived
      BY <1>1, <1>6, <2>1, NewValueParts
    <2>3. Reindexed(c) = e
      BY <1>6, <2>1 DEF Reindexed
    <2> QED
      BY <1>2, <1>5, <1>6, <2>2, <2>3 DEF Suits
  <1>7. CASE op[c].kind \in {"state", "transition"}
    <2> DEFINE to == op[c].to
    <2>1. /\ new.state = to /\ op[c].mark \in {"set", "clear", "keep"}
          /\ op[c].mark = "set" <=> to \in Terminal
          /\ op[c].mark = "set" => new.archived
          /\ op[c].mark = "clear" => ~new.archived /\ op[c].kind = "transition"
          /\ op[c].mark = "keep" => new.archived = copy[c].archived
      BY <1>1, <1>7, NewValueParts
    <2>2. CASE op[c].mark = "set"
      <3>1. Reindexed(c) = Removed(Moved(e, old, to), to)
        BY <1>7, <2>2 DEF Reindexed
      <3>2. Reindexed(c) = Unlisted
        BY <1>1, <1>2, <3>1, MovedFacts DEF Suits
      <3> QED
        BY <1>5, <1>7, <2>1, <2>2, <3>2 DEF Suits
    <2>3. CASE op[c].mark # "set"
      <3>1. Reindexed(c) = Moved(e, old, to)
        BY <1>7, <2>3 DEF Reindexed
      <3>2. CASE old # to
        <4>1. Reindexed(c) = Listed(to) /\ Listed(to)[to] = 1
          BY <1>1, <1>2, <3>1, <3>2, MovedFacts, EntryFacts DEF Suits
        <4> QED
          BY <1>5, <1>7, <2>1, <2>3, <4>1 DEF Suits
      <3>3. CASE old = to
        <4>1. Reindexed(c) = e
          BY <1>1, <1>2, <3>1, <3>3, MovedFacts DEF Suits
        <4>2. op[c].mark = "clear" => e = Listed(to)
          BY <2>1, <3>3 DEF XInv, IndexBehind
        <4> QED
          BY <1>2, <1>5, <1>7, <2>1, <2>3, <3>3, <4>1, <4>2 DEF Suits
      <3> QED
        BY <3>2, <3>3
    <2> QED
      BY <2>2, <2>3
  <1> QED
    BY <1>1, <1>4, <1>6, <1>7

\* The steps that leave the database, the index and who may know a task alone.
Quiet(c) ==
  /\ UNCHANGED <<stored, db, used, known, index, skewed>>
  /\ pc[c] \notin {"add", "index", "forget"}
  /\ pc'[c] \notin {"add", "index", "forget"}
  /\ pc'[c] # "idle" =>
       \/ pc[c] # "idle" /\ op'[c] = op[c] /\ mine'[c] = mine[c]
       \/ op'[c].id \in known /\ mine'[c] = db[op'[c].id]

LEMMA QuietIs ==
  ASSUME ReadFaults = FALSE, Inv, NEW c \in Callers,
         \/ \E id \in Ids : \/ \E to \in States : BeginTransition(c, id, to)
                            \/ BeginUpdate(c, id) \/ BeginResult(c, id)
                            \/ BeginDelete(c, id)
         \/ LoadLock(c) \/ AcquireLock(c) \/ ReadTask(c) \/ ReadTaskFails(c)
         \/ DeleteMissing(c) \/ DeleteMissingKey(c) \/ VersionConflict(c) \/ WriteFails(c)
  PROVE  Quiet(c)
  <1> USE DEF Goto
  <1>0. TypeOK
    BY DEF Inv
  <1>1. ASSUME NEW id \in Ids, id \in known, NEW o, o.id = id, Begin(c, o) PROVE Quiet(c)
    BY <1>0, <1>1 DEF TypeOK, Begin, Quiet
  <1>2. ASSUME NEW id \in Ids, NEW to \in States,
               \/ BeginTransition(c, id, to) \/ BeginUpdate(c, id)
               \/ BeginResult(c, id) \/ BeginDelete(c, id)
        PROVE Quiet(c)
    <2>1. \A kind : Call(kind, id).id = id
      BY DEF Call
    <2> QED
      BY <1>1, <1>2, <2>1 DEF BeginTransition, BeginUpdate, BeginResult, BeginDelete
  <1>3. CASE LoadLock(c) \/ AcquireLock(c) \/ ReadTask(c) \/ DeleteMissing(c)
    BY <1>0, <1>3 DEF TypeOK, LoadLock, AcquireLock, ReadTask, DeleteMissing, ReadFails, Quiet
  <1>4. CASE ReadTaskFails(c) \/ VersionConflict(c) \/ WriteFails(c)
    BY <1>0, <1>4, ReturnKeeps DEF ReadTaskFails, ReadFails, VersionConflict, WriteFails, Quiet
  <1>5. CASE DeleteMissingKey(c)
    <2>1. stored' = stored
      BY <1>5 DEF DeleteMissingKey, Inv, KeyIsGone
    <2> QED
      BY <1>0, <1>5, <2>1, ReturnKeeps DEF DeleteMissingKey, Quiet
  <1> QED
    BY <1>2, <1>3, <1>4, <1>5, StoreAssumption

\* The marks of the operations, one caller at a time.
KindFormed(c) ==
  pc[c] # "idle" =>
    /\ op[c].kind = "transition" =>
         /\ op[c].mark = MarkFor(mine[c], op[c].to)
         /\ op[c].to = mine[c].state => op[c].to \notin Terminal
    /\ op[c].kind = "state" => op[c].mark = "keep" /\ op[c].to = InitialState
    /\ pc[c] = "index" => op[c].kind \in {"state", "transition", "update", "delete"}

LEMMA KindsNext ==
  ASSUME ReadFaults = FALSE, Inv, KindsFormed, NEW c \in Callers, CallerStep(c)
  PROVE  KindsFormed'
  <1> USE DEF Goto
  <1>0. TypeOK /\ OthersKeep(c) /\ \A d \in Callers : KindFormed(d)
    BY CallerEffect DEF Inv, KindsFormed, KindFormed
  <1>1. SUFFICES KindFormed(c)'
    BY <1>0 DEF OthersKeep, KindsFormed, KindFormed
  <1>2. ASSUME NEW id \in Ids, CreateSet(c, id) PROVE KindFormed(c)'
    BY <1>0, <1>2 DEF TypeOK, CreateSet, Call, KindFormed
  <1>3. ASSUME NEW id \in Ids, NEW to \in States, BeginTransition(c, id, to)
        PROVE KindFormed(c)'
    BY <1>0, <1>3 DEF TypeOK, BeginTransition, Begin, KindFormed
  <1>4. ASSUME NEW id \in Ids, BeginUpdate(c, id) \/ BeginResult(c, id) \/ BeginDelete(c, id)
        PROVE KindFormed(c)'
    BY <1>0, <1>4 DEF TypeOK, BeginUpdate, BeginResult, BeginDelete, Begin, Call, KindFormed
  <1>5. CASE CreateAdd(c)
    BY <1>0, <1>5 DEF TypeOK, CreateAdd, Call, KindFormed
  <1>6. CASE \/ LoadLock(c) \/ AcquireLock(c) \/ ReadTask(c) \/ DeleteMissing(c)
             \/ EraseTask(c) \/ PutTask(c)
    BY <1>0, <1>6 DEF TypeOK, LoadLock, AcquireLock, ReadTask, DeleteMissing, ReadFails,
       EraseTask, PutTask, KindFormed
  <1>7. CASE ForgetLock(c)
    BY <1>0, <1>7 DEF TypeOK, ForgetLock, KindFormed, Inv, OpsFormed
  <1>8. CASE \/ ReadTaskFails(c) \/ VersionConflict(c) \/ WriteFails(c) \/ PutResult(c)
             \/ DeleteMissingKey(c) \/ Reindex(c) \/ PostCommitPanics(c)
    BY <1>0, <1>8, ReturnKeeps
       DEF ReadTaskFails, VersionConflict, WriteFails, PutResult, DeleteMissingKey,
           Reindex, PostCommitPanics, KindFormed
  <1> QED
    BY <1>2, <1>3, <1>4, <1>5, <1>6, <1>7, <1>8 DEF CallerStep

\* XInv without KindsFormed.
Rest == CreatorAlone /\ OneEraser /\ IndexBehind /\ IndexSuits /\ MovedIsListed

\* The value to write depends on the caller alone.
LEMMA NewValueKept ==
  ASSUME NEW d \in Callers, op'[d] = op[d], mine'[d] = mine[d], copy'[d] = copy[d]
  PROVE  NewValue(d)' = NewValue(d)
  BY DEF NewValue

LEMMA QuietKeeps ==
  ASSUME Inv, XInv, NEW c \in Callers, OthersKeep(c), Quiet(c)
  PROVE  Rest'
  <1> USE DEF Quiet, OthersKeep
  <1>1. CreatorAlone'
    <2> SUFFICES ASSUME NEW a \in Callers, pc'[a] = "add",
                        NEW d \in Callers \ {a}, pc'[d] # "idle"
                 PROVE  /\ op'[a].id \in stored \ known
                        /\ db[op'[a].id] = NewRecord /\ index[op'[a].id] = Unlisted
                        /\ op'[d].id # op'[a].id
      <3>1. \A a \in Callers : pc'[a] = "add" => pc[a] = "add" /\ op'[a] = op[a]
        OBVIOUS
      <3> QED
        BY <3>1 DEF CreatorAlone, XInv
    <2>1. a # c /\ pc[a] = "add" /\ op'[a] = op[a]
      OBVIOUS
    <2>2. /\ op[a].id \in stored \ known
          /\ db[op[a].id] = NewRecord /\ index[op[a].id] = Unlisted
      BY <2>1 DEF XInv, CreatorAlone
    <2>3. op'[d].id # op[a].id
      BY <2>1, <2>2 DEF XInv, CreatorAlone
    <2> QED
      BY <2>1, <2>2, <2>3
  <1>2. \A d \in Callers : pc'[d] \in {"index", "forget"} =>
          /\ d # c /\ pc[d] = pc'[d] /\ op'[d] = op[d] /\ mine'[d] = mine[d]
          /\ copy'[d] = copy[d]
    OBVIOUS
  <1>3. OneEraser'
    BY <1>2 DEF XInv, OneEraser
  <1>4. IndexBehind'
    <2>1. \A d \in Callers : pc'[d] = "index" => NewValue(d)' = NewValue(d)
      BY <1>2, NewValueKept
    <2> QED
      BY <1>2, <2>1 DEF XInv, IndexBehind
  <1>5. \A i \in Ids : Settled(i)' <=> Settled(i)
    BY DEF Settled
  <1>6. IndexSuits'
    BY <1>5 DEF XInv, IndexSuits
  <1>7. MovedIsListed'
    <2> SUFFICES ASSUME NEW i \in stored \ skewed,
                        db[i].archived, db[i].state \notin Terminal,
                        index[i][db[i].state] = 0,
                        \A d \in Callers : pc'[d] = "index" /\ op'[d].id = i
                          => copy'[d].state = db[i].state,
                        NEW d \in Callers, pc'[d] # "idle", op'[d].id = i,
                        op'[d].kind = "transition"
                 PROVE  mine'[d].state = db[i].state
      BY DEF MovedIsListed
    <2>1. \A x \in Callers : pc[x] = "index" /\ op[x].id = i => copy[x].state = db[i].state
      OBVIOUS
    <2>2. CASE pc[d] # "idle" /\ op'[d] = op[d] /\ mine'[d] = mine[d]
      BY <2>1, <2>2 DEF XInv, MovedIsListed
    <2> QED
      BY <2>2
  <1> QED
    BY <1>1, <1>3, <1>4, <1>6, <1>7 DEF Rest

\* The conjuncts of Rest for one caller and for one task.
BehindOf(c) ==
  /\ pc[c] \in {"index", "forget"} /\ op[c].id \notin skewed =>
       Suits(index[op[c].id], copy[c])
  /\ pc[c] = "index" /\ op[c].kind # "delete" =>
       /\ op[c].id \in stored /\ db[op[c].id] = NewValue(c)
       /\ op[c].kind = "update" => mine[c] = copy[c]
  /\ /\ pc[c] = "index" /\ op[c].id \notin skewed /\ op[c].kind = "transition"
     /\ op[c].mark = "clear" /\ op[c].to = copy[c].state
     => index[op[c].id] = Listed(op[c].to)

SuitsAt(i) ==
  i \notin skewed /\ Settled(i) =>
    /\ i \in stored => Suits(index[i], db[i])
    /\ i \notin stored => index[i] = Unlisted

StandsUnlisted(i) ==
  /\ db[i].archived /\ db[i].state \notin Terminal /\ index[i][db[i].state] = 0
  /\ \A c \in Callers : pc[c] = "index" /\ op[c].id = i => copy[c].state = db[i].state

SeenThere(i) ==
  \A d \in Callers : pc[d] # "idle" /\ op[d].id = i /\ op[d].kind = "transition"
    => mine[d].state = db[i].state

ListedAt(i) == i \in stored \ skewed /\ StandsUnlisted(i) => SeenThere(i)

\* The step of a caller that is alone with its task changes nothing else.
OnlyIts(c) ==
  LET i == op[c].id
  IN  /\ pc[c] \in {"write", "index", "forget"} /\ pc'[c] \in {"idle", "index", "forget"}
      /\ pc'[c] # "idle" => op'[c] = op[c] /\ mine'[c] = mine[c] /\ copy'[c] = copy[c]
      /\ \A j \in Ids \ {i} :
           /\ db'[j] = db[j] /\ index'[j] = index[j]
           /\ j \in stored' <=> j \in stored
           /\ j \in skewed' <=> j \in skewed
           /\ j \in known' <=> j \in known

LEMMA OnlyItsKeeps ==
  ASSUME Inv, XInv, TypeOK', NEW c \in Callers, OthersKeep(c), OnlyIts(c),
         NEW i \in Ids, op[c].id = i,
         OneEraser', BehindOf(c)', SuitsAt(i)', ListedAt(i)'
  PROVE  Rest'
  <1>0. /\ \A d \in Callers : pc[d] # "idle" => op[d].id \in Ids
    BY DEF Inv, TypeOK, OpsFormed, OnlyIts
  <1>1. \A d \in Callers \ {c} : /\ pc'[d] = pc[d] /\ op'[d] = op[d] /\ mine'[d] = mine[d]
                                 /\ copy'[d] = copy[d]
    BY DEF OthersKeep
  <1>2. \A d \in Callers \ {c} : pc[d] \in {"add", "write", "index", "forget"} => op[d].id # i
    BY OwnerAlone DEF OnlyIts
  <1>3. CreatorAlone'
    <2> SUFFICES ASSUME NEW a \in Callers, pc'[a] = "add"
                 PROVE  /\ op'[a].id \in stored' \ known'
                        /\ db'[op'[a].id] = NewRecord /\ index'[op'[a].id] = Unlisted
                        /\ \A d \in Callers \ {a} : pc'[d] # "idle" => op'[d].id # op'[a].id
      BY DEF CreatorAlone
    <2>1. a # c /\ pc[a] = "add" /\ op'[a] = op[a] /\ op[a].id # i /\ op[a].id \in Ids
      BY <1>0, <1>1, <1>2 DEF OnlyIts
    <2>2. /\ op[a].id \in stored \ known
          /\ db[op[a].id] = NewRecord /\ index[op[a].id] = Unlisted
          /\ \A d \in Callers \ {a} : pc[d] # "idle" => op[d].id # op[a].id
      BY <2>1 DEF XInv, CreatorAlone
    <2>3. \A d \in Callers \ {a} : pc'[d] # "idle" => op'[d].id # op[a].id
      BY <1>1, <2>1, <2>2 DEF OnlyIts
    <2> QED
      BY <2>1, <2>2, <2>3 DEF OnlyIts
  <1>4. \A d \in Callers : BehindOf(d)'
    <2> SUFFICES ASSUME NEW d \in Callers \ {c}, pc[d] \in {"index", "forget"}
                 PROVE  BehindOf(d)'
      BY <1>1 DEF BehindOf
    <2>1. op[d].id # i /\ op[d].id \in Ids
      BY <1>0, <1>2
    <2>2. /\ pc'[d] = pc[d] /\ op'[d] = op[d] /\ mine'[d] = mine[d] /\ copy'[d] = copy[d]
          /\ NewValue(d)' = NewValue(d)
      BY <1>1, NewValueKept
    <2>3. BehindOf(d)
      BY DEF XInv, IndexBehind, BehindOf
    <2>4. /\ db'[op[d].id] = db[op[d].id] /\ index'[op[d].id] = index[op[d].id]
          /\ op[d].id \in stored' <=> op[d].id \in stored
          /\ op[d].id \in skewed' <=> op[d].id \in skewed
      BY <2>1 DEF OnlyIts
    <2> QED
      BY <2>2, <2>3, <2>4 DEF BehindOf
  <1>5. ASSUME NEW j \in Ids \ {i} PROVE SuitsAt(j)'
    <2>1. Settled(j)' => Settled(j)
      BY <1>1 DEF Settled
    <2>2. SuitsAt(j)
      BY DEF XInv, IndexSuits, SuitsAt
    <2> QED
      BY <1>5, <2>1, <2>2 DEF SuitsAt, OnlyIts
  <1>6. ASSUME NEW j \in Ids \ {i} PROVE ListedAt(j)'
    <2>1. ListedAt(j)
      BY DEF XInv, MovedIsListed, ListedAt, StandsUnlisted, SeenThere
    <2>2. StandsUnlisted(j)' => StandsUnlisted(j)
      BY <1>1, <1>6 DEF StandsUnlisted, OnlyIts
    <2>3. SeenThere(j) => SeenThere(j)'
      BY <1>1, <1>6 DEF SeenThere, OnlyIts
    <2>4. (j \in stored' <=> j \in stored) /\ (j \in skewed' <=> j \in skewed)
      BY <1>6 DEF OnlyIts
    <2> QED
      BY <2>1, <2>2, <2>3, <2>4 DEF ListedAt
  <1>7. stored' \subseteq Ids
    BY DEF TypeOK
  <1>8. /\ \A j \in Ids : SuitsAt(j)'
        /\ \A j \in stored' : ListedAt(j)'
    BY <1>5, <1>6, <1>7
  <1> QED
    BY <1>3, <1>4, <1>8 DEF Rest, IndexBehind, BehindOf, IndexSuits, SuitsAt, MovedIsListed,
       ListedAt, StandsUnlisted, SeenThere

\* Nobody becomes the eraser of a task that is stored, or stays one alone.
LEMMA OneEraserKept ==
  ASSUME XInv, NEW c \in Callers, OthersKeep(c),
         pc'[c] \in {"index", "forget"} /\ op'[c].kind = "delete" =>
           pc[c] \in {"index", "forget"} /\ op'[c] = op[c]
  PROVE  OneEraser'
  BY DEF XInv, OneEraser, OthersKeep

LEMMA PutTaskKeeps ==
  ASSUME Inv, XInv, TypeOK', NEW c \in Callers, OthersKeep(c), PutTask(c)
  PROVE  Rest'
  <1> USE DEF Goto
  <1>1. PICK i \in Ids : i = op[c].id
    BY DEF Inv, TypeOK, OpsFormed, PutTask
  <1>2. /\ pc[c] = "write" /\ VersionMatches(c) /\ pc'[c] = "index"
        /\ op[c].kind \in {"state", "transition", "update"}
        /\ Settled(i) /\ i \in stored /\ copy[c] = db[i]
    BY <1>1, WriterSettled DEF PutTask, Inv, TypeOK
  <1>3. /\ op' = op /\ mine' = mine /\ copy' = copy
        /\ UNCHANGED <<used, known, index, skewed>>
        /\ stored' = stored /\ db'[i] = NewValue(c)
        /\ \A j \in Ids \ {i} : db'[j] = db[j]
    BY <1>1, <1>2 DEF PutTask, Inv, TypeOK
  <1>4. op[c].kind = "update" => mine[c] = copy[c]
    BY <1>1, <1>2 DEF Inv, CopyIsOlder, VersionMatches
  <1>5. i \notin skewed => Suits(index[i], copy[c])
    BY <1>2 DEF XInv, IndexSuits
  <1>6. NewValue(c)' = NewValue(c)
    BY <1>3, NewValueKept
  <1>7. /\ op[c].kind = "update" =>
             NewValue(c).state = copy[c].state /\ NewValue(c).archived = copy[c].archived
        /\ op[c].kind # "update" =>
             /\ NewValue(c).state = op[c].to
             /\ op[c].mark \in {"set", "clear", "keep"}
             /\ op[c].mark = "set" <=> op[c].to \in Terminal
             /\ op[c].mark = "clear" => ~NewValue(c).archived /\ op[c].to # mine[c].state
             /\ op[c].mark = "keep" => NewValue(c).archived = copy[c].archived
    BY <1>2, <1>4, NewValueParts DEF Inv, XInv
  <1>8. \A d \in Callers : pc[d] = "index" => op[d].id # i
    BY <1>1, <1>2 DEF Settled
  <1>9. ASSUME i \notin skewed, copy[c].archived, copy[c].state \notin Terminal,
               index[i][copy[c].state] = 0
        PROVE  \A d \in Callers : pc[d] # "idle" /\ op[d].id = i /\ op[d].kind = "transition"
                 => mine[d].state = copy[c].state
    BY <1>2, <1>8, <1>9 DEF XInv, MovedIsListed
  <1>10. i \notin skewed /\ op[c].kind = "transition" /\ op[c].mark = "clear"
           /\ op[c].to = copy[c].state => index[i] = Listed(op[c].to)
    <2> SUFFICES ASSUME i \notin skewed, op[c].kind = "transition", op[c].mark = "clear",
                        op[c].to = copy[c].state, index[i] # Listed(op[c].to)
                 PROVE  FALSE
      OBVIOUS
    <2>1. copy[c].state \in States
      BY DEF Inv, TypeOK, Record
    <2>2. index[i] = Unlisted /\ copy[c].archived /\ copy[c].state \notin Terminal
      BY <1>5, <1>7 DEF Suits
    <2>3. index[i][copy[c].state] = 0
      BY <2>1, <2>2, EntryFacts
    <2>4. mine[c].state = copy[c].state
      BY <1>1, <1>2, <1>9, <2>2, <2>3
    <2> QED
      BY <1>7, <2>4
  <1>11. BehindOf(c)'
    BY <1>1, <1>2, <1>3, <1>4, <1>5, <1>6, <1>10 DEF BehindOf
  <1>12. SuitsAt(i)'
    BY <1>1, <1>2, <1>3 DEF SuitsAt, Settled
  <1>13. ListedAt(i)'
    <2> SUFFICES ASSUME i \notin skewed, StandsUnlisted(i)', NEW d \in Callers,
                        pc'[d] # "idle", op[d].id = i, op[d].kind = "transition"
                 PROVE  mine[d].state = NewValue(c).state
      BY <1>3 DEF ListedAt, SeenThere
    <2>1. /\ NewValue(c).archived /\ NewValue(c).state \notin Terminal
          /\ index[i][NewValue(c).state] = 0
          /\ copy[c].state = NewValue(c).state
      BY <1>1, <1>2, <1>3 DEF StandsUnlisted
    <2>2. copy[c].archived
      BY <1>2, <1>7, <2>1
    <2>3. pc[d] # "idle"
      BY <1>2 DEF OthersKeep
    <2> QED
      BY <1>9, <2>1, <2>2, <2>3
  <1>14. OneEraser'
    BY <1>2, <1>3, OneEraserKept
  <1>15. OnlyIts(c)
    BY <1>1, <1>2, <1>3 DEF OnlyIts
  <1> QED
    BY <1>1, <1>11, <1>12, <1>13, <1>14, <1>15, OnlyItsKeeps

LEMMA PutResultKeeps ==
  ASSUME Inv, XInv, TypeOK', NEW c \in Callers, OthersKeep(c), PutResult(c)
  PROVE  Rest'
  <1> USE DEF Goto
  <1>1. PICK i \in Ids : i = op[c].id
    BY DEF Inv, TypeOK, OpsFormed, PutResult
  <1>2. /\ pc[c] = "write" /\ pc'[c] = "idle"
        /\ Settled(i) /\ i \in stored /\ copy[c] = db[i]
    BY <1>1, WriterSettled, ReturnKeeps DEF PutResult, Inv
  <1>3. /\ UNCHANGED <<used, known, index, skewed>>
        /\ stored' = stored /\ db'[i] = Bumped(copy[c])
        /\ \A j \in Ids \ {i} : db'[j] = db[j]
    BY <1>1, <1>2 DEF PutResult, NewValue, Inv, TypeOK
  <1>4. db'[i].state = db[i].state /\ db'[i].archived = db[i].archived
    BY <1>2, <1>3, WrittenParts DEF Inv, TypeOK
  <1>5. BehindOf(c)'
    BY <1>2 DEF BehindOf
  <1>6. SuitsAt(i)'
    BY <1>2, <1>3, <1>4 DEF SuitsAt, XInv, IndexSuits, Suits
  <1>7. ListedAt(i)'
    <2>1. ListedAt(i)
      BY DEF XInv, MovedIsListed, ListedAt, StandsUnlisted, SeenThere
    <2>2. StandsUnlisted(i)' => StandsUnlisted(i)
      BY <1>2, <1>3, <1>4 DEF StandsUnlisted, OthersKeep
    <2>3. SeenThere(i) => SeenThere(i)'
      BY <1>2, <1>3, <1>4 DEF SeenThere, OthersKeep
    <2> QED
      BY <1>3, <2>1, <2>2, <2>3 DEF ListedAt
  <1>8. OneEraser'
    BY <1>2, OneEraserKept
  <1>9. OnlyIts(c)
    BY <1>1, <1>2, <1>3 DEF OnlyIts
  <1> QED
    BY <1>1, <1>5, <1>6, <1>7, <1>8, <1>9, OnlyItsKeeps

LEMMA DeleteKeeps ==
  ASSUME Inv, XInv, TypeOK', NEW c \in Callers, OthersKeep(c), EraseTask(c) \/ ForgetLock(c)
  PROVE  Rest'
  <1> USE DEF Goto
  <1>1. PICK i \in Ids : i = op[c].id
    BY DEF Inv, TypeOK, OpsFormed, EraseTask, ForgetLock
  <1>2. /\ pc[c] \in {"write", "forget"} /\ pc'[c] \in {"index", "forget"}
        /\ op[c].kind = "delete" /\ i \notin stored'
        /\ op' = op /\ mine' = mine /\ copy' = copy
        /\ UNCHANGED <<used, db, known, index, skewed>>
        /\ \A j \in Ids \ {i} : j \in stored' <=> j \in stored
    BY <1>1 DEF EraseTask, ForgetLock, Inv, TypeOK, OpsFormed, KeyIsGone
  <1>3. i \notin skewed => Suits(index[i], copy[c])
    <2>1. CASE pc[c] = "write"
      BY <1>1, <2>1, WriterSettled DEF XInv, IndexSuits
    <2>2. CASE pc[c] = "forget"
      BY <1>1, <2>2 DEF XInv, IndexBehind
    <2> QED
      BY <1>2, <2>1, <2>2
  <1>4. BehindOf(c)'
    BY <1>1, <1>2, <1>3 DEF BehindOf
  <1>5. SuitsAt(i)' /\ ListedAt(i)'
    BY <1>1, <1>2 DEF SuitsAt, ListedAt, Settled
  <1>6. OneEraser'
    <2>1. CASE pc[c] = "forget"
      BY <1>2, <2>1, OneEraserKept
    <2>2. CASE pc[c] = "write"
      <3>1. \A d \in Callers \ {c} : pc'[d] \in {"index", "forget"} => op'[d].id # i
        BY <1>1, <2>2, OwnerAlone DEF OthersKeep
      <3> QED
        BY <1>1, <1>2, <3>1 DEF OneEraser, OthersKeep, XInv
    <2> QED
      BY <1>2, <2>1, <2>2
  <1>7. OnlyIts(c)
    BY <1>1, <1>2 DEF OnlyIts
  <1> QED
    BY <1>1, <1>4, <1>5, <1>6, <1>7, OnlyItsKeeps

LEMMA ReindexKeeps ==
  ASSUME Inv, XInv, TypeOK', NEW c \in Callers, OthersKeep(c), Reindex(c)
  PROVE  Rest'
  <1> USE DEF Goto
  <1>1. PICK i \in Ids : i = op[c].id
    BY DEF Inv, TypeOK, OpsFormed, Reindex
  <1>2. /\ pc[c] = "index" /\ pc'[c] = "idle"
        /\ UNCHANGED <<stored, db, used, skewed>>
        /\ index'[i] = Reindexed(c) /\ known' = known \cup {i}
        /\ \A j \in Ids \ {i} : index'[j] = index[j]
    BY <1>1, ReturnKeeps DEF Reindex, Inv, TypeOK
  <1>3. op[c].kind = "delete" <=> i \notin stored
    BY <1>1, <1>2 DEF Inv, KeyIsGone, XInv, IndexBehind
  <1>4. i \notin skewed =>
          /\ i \notin stored => index'[i] = Unlisted
          /\ i \in stored =>
               /\ Suits(index'[i], db[i])
               /\ /\ db[i].archived /\ db[i].state \notin Terminal
                  /\ index'[i][db[i].state] = 0
                  => copy[c].state = db[i].state /\ index'[i] = index[i]
    BY <1>1, <1>2, <1>3, ReindexSuits
  <1>5. BehindOf(c)'
    BY <1>2 DEF BehindOf
  <1>6. SuitsAt(i)'
    BY <1>2, <1>4 DEF SuitsAt
  <1>7. ListedAt(i)'
    <2> SUFFICES ASSUME i \in stored \ skewed, StandsUnlisted(i)'
                 PROVE  SeenThere(i)'
      BY <1>2 DEF ListedAt
    <2>1. copy[c].state = db[i].state /\ index'[i] = index[i]
      BY <1>2, <1>4 DEF StandsUnlisted
    <2>2. StandsUnlisted(i)
      BY <1>2, <2>1 DEF StandsUnlisted, OthersKeep
    <2>3. SeenThere(i)
      BY <2>2 DEF XInv, MovedIsListed, StandsUnlisted, SeenThere
    <2> QED
      BY <1>2, <2>3 DEF SeenThere, OthersKeep
  <1>8. OneEraser'
    BY <1>2, OneEraserKept
  <1>9. OnlyIts(c)
    BY <1>1, <1>2 DEF OnlyIts
  <1> QED
    BY <1>1, <1>5, <1>6, <1>7, <1>8, <1>9, OnlyItsKeeps

LEMMA PanicKeeps ==
  ASSUME Inv, XInv, TypeOK', NEW c \in Callers, OthersKeep(c), PostCommitPanics(c)
  PROVE  Rest'
  <1>1. PICK i \in Ids : i = op[c].id
    BY DEF Inv, TypeOK, OpsFormed, PostCommitPanics
  <1>2. /\ pc[c] = "index" /\ pc'[c] = "idle"
        /\ UNCHANGED <<stored, db, used, known, index>> /\ skewed' = skewed \cup {i}
    BY <1>1, ReturnKeeps DEF PostCommitPanics, Inv
  <1>3. BehindOf(c)' /\ SuitsAt(i)' /\ ListedAt(i)'
    BY <1>2 DEF BehindOf, SuitsAt, ListedAt
  <1>4. OneEraser'
    BY <1>2, OneEraserKept
  <1>5. OnlyIts(c)
    BY <1>1, <1>2 DEF OnlyIts
  <1> QED
    BY <1>1, <1>3, <1>4, <1>5, OnlyItsKeeps

LEMMA CreateSetKeeps ==
  ASSUME Inv, XInv, TypeOK', NEW c \in Callers, OthersKeep(c), NEW i \in Ids, CreateSet(c, i)
  PROVE  Rest'
  <1> USE DEF Goto
  <1>1. /\ pc[c] = "idle" /\ pc'[c] = "add" /\ i \notin used
        /\ op'[c].id = i /\ op'[c].kind = "create"
        /\ stored' = stored \cup {i} /\ db'[i] = NewRecord
        /\ UNCHANGED <<known, index, skewed>>
        /\ \A j \in Ids \ {i} : db'[j] = db[j]
    BY DEF CreateSet, Call, Inv, TypeOK
  <1>2. /\ i \notin stored /\ i \notin known /\ i \notin skewed
        /\ \A d \in Callers : pc[d] # "idle" => op[d].id # i /\ op[d].id \in Ids
    BY <1>1 DEF Inv, TypeOK, OpsFormed
  <1>3. index[i] = Unlisted
    <2>1. Settled(i)
      BY <1>2 DEF Settled
    <2> QED
      BY <1>2, <2>1 DEF XInv, IndexSuits
  <1>4. \A d \in Callers \ {c} : /\ pc'[d] = pc[d] /\ op'[d] = op[d] /\ mine'[d] = mine[d]
                                 /\ copy'[d] = copy[d]
    BY DEF OthersKeep
  <1>5. CreatorAlone'
    BY <1>1, <1>2, <1>3, <1>4 DEF XInv, CreatorAlone
  <1>6. OneEraser'
    BY <1>1, OneEraserKept
  <1>7. ASSUME NEW d \in Callers PROVE BehindOf(d)'
    <2>1. CASE d = c
      BY <1>1, <2>1 DEF BehindOf
    <2>2. CASE d # c /\ pc[d] \in {"index", "forget"}
      <3>1. BehindOf(d)
        BY DEF XInv, IndexBehind, BehindOf
      <3>2. NewValue(d)' = NewValue(d)
        BY <1>4, <2>2, NewValueKept
      <3> QED
        BY <1>1, <1>2, <1>4, <2>2, <3>1, <3>2 DEF BehindOf
    <2> QED
      BY <1>4, <2>1, <2>2 DEF BehindOf
  <1>8. ASSUME NEW j \in Ids PROVE SuitsAt(j)'
    <2>1. CASE j = i
      BY <1>1, <2>1 DEF SuitsAt, Settled
    <2>2. CASE j # i
      <3>1. Settled(j)' => Settled(j)
        BY <1>1, <1>4 DEF Settled
      <3> QED
        BY <1>1, <2>2, <3>1 DEF SuitsAt, XInv, IndexSuits
    <2> QED
      BY <2>1, <2>2
  <1>9. ASSUME NEW j \in Ids PROVE ListedAt(j)'
    <2>1. CASE j = i
      BY <1>1, <2>1 DEF ListedAt, StandsUnlisted, NewRecord
    <2>2. CASE j # i
      <3>1. ListedAt(j)
        BY DEF XInv, MovedIsListed, ListedAt, StandsUnlisted, SeenThere
      <3>2. StandsUnlisted(j)' => StandsUnlisted(j)
        BY <1>1, <1>4, <2>2 DEF StandsUnlisted
      <3>3. SeenThere(j) => SeenThere(j)'
        BY <1>1, <1>4, <2>2 DEF SeenThere
      <3> QED
        BY <1>1, <2>2, <3>1, <3>2, <3>3 DEF ListedAt
    <2> QED
      BY <2>1, <2>2
  <1>10. stored' \subseteq Ids
    BY DEF TypeOK
  <1> QED
    BY <1>5, <1>6, <1>7, <1>8, <1>9, <1>10 DEF Rest, IndexBehind, BehindOf, IndexSuits,
       SuitsAt, MovedIsListed, ListedAt, StandsUnlisted, SeenThere

LEMMA CreateAddKeeps ==
  ASSUME Inv, XInv, TypeOK', NEW c \in Callers, OthersKeep(c), CreateAdd(c)
  PROVE  Rest'
  <1> USE DEF Goto
  <1>1. PICK i \in Ids : i = op[c].id
    BY DEF Inv, TypeOK, OpsFormed, CreateAdd
  <1>2. /\ pc[c] = "add" /\ i \in stored /\ db[i] = NewRecord /\ index[i] = Unlisted
        /\ \A d \in Callers \ {c} : pc[d] # "idle" => op[d].id # i
    BY <1>1 DEF CreateAdd, XInv, CreatorAlone
  <1>3. Added(Unlisted, Pending) = Listed(Pending)
    BY EntryFacts, StoreAssumption
  <1>4. /\ pc'[c] = "begin" /\ op'[c].id = i /\ op'[c].kind = "state"
        /\ UNCHANGED <<stored, db, known, skewed>>
        /\ index'[i] = Listed(Pending)
        /\ \A j \in Ids \ {i} : index'[j] = index[j]
    BY <1>1, <1>2, <1>3 DEF CreateAdd, Call, Inv, TypeOK
  <1>5. \A d \in Callers \ {c} : /\ pc'[d] = pc[d] /\ op'[d] = op[d] /\ mine'[d] = mine[d]
                                 /\ copy'[d] = copy[d]
    BY DEF OthersKeep
  <1>6. \A d \in Callers : pc[d] # "idle" => op[d].id \in Ids
    BY DEF Inv, TypeOK, OpsFormed
  <1>7. CreatorAlone'
    BY <1>1, <1>2, <1>4, <1>5, <1>6 DEF XInv, CreatorAlone
  <1>8. OneEraser'
    BY <1>4, OneEraserKept
  <1>9. ASSUME NEW d \in Callers PROVE BehindOf(d)'
    <2>1. CASE d = c
      BY <1>4, <2>1 DEF BehindOf
    <2>2. CASE d # c /\ pc[d] \in {"index", "forget"}
      <3>1. BehindOf(d)
        BY DEF XInv, IndexBehind, BehindOf
      <3>2. NewValue(d)' = NewValue(d)
        BY <1>5, <2>2, NewValueKept
      <3> QED
        BY <1>2, <1>4, <1>5, <1>6, <2>2, <3>1, <3>2 DEF BehindOf
    <2> QED
      BY <1>5, <2>1, <2>2 DEF BehindOf
  <1>10. ASSUME NEW j \in Ids PROVE SuitsAt(j)'
    <2>1. CASE j = i
      <3>1. Suits(Listed(Pending), NewRecord)
        BY DEF Suits, NewRecord
      <3> QED
        BY <1>2, <1>4, <2>1, <3>1 DEF SuitsAt
    <2>2. CASE j # i
      <3>1. Settled(j)' => Settled(j)
        BY <1>1, <1>4, <1>5, <2>2 DEF Settled
      <3> QED
        BY <1>4, <2>2, <3>1 DEF SuitsAt, XInv, IndexSuits
    <2> QED
      BY <2>1, <2>2
  <1>11. ASSUME NEW j \in Ids PROVE ListedAt(j)'
    <2>1. CASE j = i
      BY <1>2, <1>4, <2>1 DEF ListedAt, StandsUnlisted, NewRecord
    <2>2. CASE j # i
      <3>1. ListedAt(j)
        BY DEF XInv, MovedIsListed, ListedAt, StandsUnlisted, SeenThere
      <3>2. StandsUnlisted(j)' => StandsUnlisted(j)
        BY <1>1, <1>4, <1>5, <2>2 DEF StandsUnlisted
      <3>3. SeenThere(j) => SeenThere(j)'
        BY <1>4, <1>5, <2>2 DEF SeenThere
      <3> QED
        BY <1>4, <2>2, <3>1, <3>2, <3>3 DEF ListedAt
    <2> QED
      BY <2>1, <2>2
  <1>12. stored' \subseteq Ids
    BY DEF TypeOK
  <1> QED
    BY <1>7, <1>8, <1>9, <1>10, <1>11, <1>12 DEF Rest, IndexBehind, BehindOf, IndexSuits,
       SuitsAt, MovedIsListed, ListedAt, StandsUnlisted, SeenThere

\* With every caller gone, only the index counts.
LEMMA IdleSuits ==
  ASSUME \A c \in Callers : pc[c] = "idle",
         \A i \in Ids : /\ i \in stored => Suits(index[i], db[i])
                        /\ i \notin stored => index[i] = Unlisted
  PROVE  XInv
  BY DEF XInv, KindsFormed, CreatorAlone, OneEraser, IndexBehind, IndexSuits, MovedIsListed

LEMMA RebuiltSuits ==
  ASSUME NEW i \in Ids
  PROVE  /\ i \in stored => Suits(RebuiltIndex[i], db[i])
         /\ i \notin stored => RebuiltIndex[i] = Unlisted
  BY DEF RebuiltIndex, Suits

LEMMA XInvNext ==
  ASSUME ReadFaults = FALSE, Inv, XInv, [Next]_vars
  PROVE  XInv'
  <1>1. ASSUME NEW c \in Callers, CallerStep(c) PROVE XInv'
    <2>1. OthersKeep(c) /\ TypeOK'
      BY <1>1, CallerEffect, TypeCaller
    <2>2. KindsFormed'
      BY <1>1, KindsNext DEF XInv
    <2>3. CASE Quiet(c)
      BY <2>1, <2>2, <2>3, QuietKeeps DEF Rest, XInv
    <2>4. CASE \E id \in Ids : CreateSet(c, id)
      BY <2>1, <2>2, <2>4, CreateSetKeeps DEF Rest, XInv
    <2>5. CASE \/ CreateAdd(c) \/ PutTask(c) \/ PutResult(c) \/ EraseTask(c)
               \/ ForgetLock(c) \/ Reindex(c) \/ PostCommitPanics(c)
      BY <2>1, <2>2, <2>5, CreateAddKeeps, PutTaskKeeps, PutResultKeeps, DeleteKeeps,
         ReindexKeeps, PanicKeeps DEF Rest, XInv
    <2> QED
      BY <1>1, <2>3, <2>4, <2>5, QuietIs DEF CallerStep
  <1>2. CASE Restart
    <2>1. /\ \A c \in Callers : pc'[c] = "idle"
          /\ stored' = stored /\ db' = db /\ index' = RebuiltIndex
      BY <1>2 DEF Restart
    <2>2. \A i \in Ids : /\ i \in stored' => Suits(index'[i], db'[i])
                         /\ i \notin stored' => index'[i] = Unlisted
      BY <2>1, RebuiltSuits
    <2> QED
      BY <2>1, <2>2 DEF XInv, KindsFormed, CreatorAlone, OneEraser, IndexBehind, IndexSuits,
         MovedIsListed
  <1>3. CASE UNCHANGED vars
    <2>1. \A d \in Callers : NewValue(d)' = NewValue(d)
      BY <1>3, NewValueKept DEF vars
    <2>2. \A i : Settled(i)' <=> Settled(i)
      BY <1>3 DEF vars, Settled
    <2> QED
      BY <1>3, <2>1, <2>2 DEF vars, XInv, KindsFormed, CreatorAlone, OneEraser, IndexBehind,
         IndexSuits, MovedIsListed
  <1> QED
    BY <1>1, <1>2, <1>3 DEF Next

LEMMA SuitsAgrees ==
  ASSUME TypeOK, IndexSuits
  PROVE  IndexAgrees
  <1> SUFFICES ASSUME NEW i \in Ids \ skewed, Settled(i), NEW s \in States
               PROVE  /\ i \in ListByState(s) <=> i \in List(s)
                      /\ ~(i \in stored /\ db[i].archived /\ db[i].state \notin Terminal) =>
                           Count(i, s) = IF i \in List(s) THEN 1 ELSE 0
    BY DEF IndexAgrees
  <1>1. db[i].state \in States
    BY DEF TypeOK, Record
  <1>2. /\ Unlisted[s] = 0
        /\ Listed(db[i].state)[s] = IF s = db[i].state THEN 1 ELSE 0
    BY <1>1, EntryFacts
  <1>3. /\ i \in stored => Suits(index[i], db[i])
        /\ i \notin stored => index[i] = Unlisted
    BY DEF IndexSuits
  <1> QED
    BY <1>2, <1>3 DEF Suits, List, ListByState, MatchFilter, Count

\* Whatever the order of stale commands, archivals, revivals, deletions and
\* restarts, a listing by the index is the listing that reads every key, and
\* the count is its length, once no operation is between write and index.
THEOREM IndexAgreesHolds ==
  ASSUME ReadFaults = FALSE
  PROVE  Spec => []IndexAgrees
  <1>1. Init => XInv
    BY IdleSuits DEF Init
  <1>2. Inv /\ XInv /\ [Next]_vars => XInv'
    BY XInvNext
  <1>3. Inv /\ XInv => IndexAgrees
    BY SuitsAgrees DEF Inv, XInv
  <1> QED
    BY <1>1, <1>2, <1>3, InvHolds, PTL DEF Spec

=============================================================================
