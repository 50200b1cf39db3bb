----------------------------- MODULE TaskStore -----------------------------
(***************************************************************************)
(* The task table of nuts (pkg/task/engine_store.go): JSON records in a    *)
(* key-value database, one mutex per key, created on demand and dropped    *)
(* by Delete, and a secondary index from states to tasks kept in memory.   *)
(*                                                                         *)
(* Callers are the goroutines that use the store at the same time: the     *)
(* task creator, the two that run HandleTransitionCommand, and the archive *)
(* cleaner (pkg/task/archive.go).  A caller first reads the task without   *)
(* the lock (its own copy, "mine"), then calls one operation, which takes  *)
(* the lock of the key, reads again ("copy"), writes and updates the index.*)
(*                                                                         *)
(* A record keeps what the properties tell apart: state, archived mark and *)
(* version.  The index counts the entries of a task under each state; its  *)
(* order by creation time and the transition history are left out.         *)
(***************************************************************************)
EXTENDS Naturals

CONSTANTS
    Ids,           \* task identifiers; CreateTask never uses one twice
    NoId,          \* not a task identifier
    States,
    Pending,       \* the state Create gives a task
    InitialState,  \* the state CreateTask then gives it
    Terminal,      \* the terminal states
    Callers,       \* goroutines
    Locks,         \* mutex objects
    NoLock,        \* no mutex
    ReadFaults,    \* TRUE: reading a stored task may fail
    MaxVersion,    \* bound: no operation starts on a task of this version
    MaxRestarts    \* bound: how often the process restarts

ASSUME StoreAssumption ==
    /\ NoId \notin Ids /\ NoLock \notin Locks
    /\ Terminal \subseteq States
    /\ {Pending, InitialState} \subseteq States \ Terminal
    /\ ReadFaults \in BOOLEAN /\ MaxVersion \in Nat /\ MaxRestarts \in Nat

VARIABLES
    stored,    \* keys of the database                            (persistent)
    db,        \* the record of every key                         (persistent)
    used,      \* identifiers that were ever created
    known,     \* identifiers that callers have learnt of
    keyLocks,  \* the mutex that the map holds for a key
    index,     \* stateIndex: how often a task is listed under a state
    skewed,    \* tasks whose index update a panic skipped (history variable)
    pc, op,    \* where a caller is, and in which operation
    lock,      \* the mutex it waits for or holds
    mine,      \* the copy it read without the lock
    copy,      \* the copy it read under the lock
    restarts

vars == <<stored, db, used, known, keyLocks, index, skewed,
          pc, op, lock, mine, copy, restarts>>

callerVars == <<pc, op, lock, mine, copy>>

Record == [state : States, archived : BOOLEAN, version : Nat]
NewRecord == [state |-> Pending, archived |-> FALSE, version |-> 0]

\* mark: what TransitionState does to ArchivedAt.
Kinds == {"none", "create", "state", "transition", "update", "result", "delete"}
Op == [kind : Kinds, id : Ids \cup {NoId}, to : States, mark : {"set", "clear", "keep"}]
Call(kind, id) == [kind |-> kind, id |-> id, to |-> InitialState, mark |-> "keep"]
NoOp == Call("none", NoId)

Unlisted == [s \in States |-> 0]
Listed(s) == [Unlisted EXCEPT ![s] = 1]

\* A caller is between lock.Lock() and the deferred lock.Unlock().
Holding(c) == pc[c] \in {"read", "write", "index", "forget", "erase"}

-----------------------------------------------------------------------------
Init ==
    /\ stored = {} /\ db = [i \in Ids |-> NewRecord]
    /\ used = {} /\ known = {}
    /\ keyLocks = [i \in Ids |-> NoLock]
    /\ index = [i \in Ids |-> Unlisted]
    /\ skewed = {}
    /\ pc = [c \in Callers |-> "idle"]
    /\ op = [c \in Callers |-> NoOp]
    /\ lock = [c \in Callers |-> NoLock]
    /\ mine = [c \in Callers |-> NewRecord]
    /\ copy = [c \in Callers |-> NewRecord]
    /\ restarts = 0

Goto(c, label) == pc' = [pc EXCEPT ![c] = label]

\* The operation returns: its deferred Unlock runs, its copies are garbage.
Return(c) ==
    /\ Goto(c, "idle")
    /\ op' = [op EXCEPT ![c] = NoOp]
    /\ lock' = [lock EXCEPT ![c] = NoLock]
    /\ mine' = [mine EXCEPT ![c] = NewRecord]
    /\ copy' = [copy EXCEPT ![c] = NewRecord]

Begin(c, o) ==
    /\ pc[c] = "idle"
    /\ db[o.id].version < MaxVersion
    /\ Goto(c, "begin")
    /\ op' = [op EXCEPT ![c] = o]
    /\ mine' = [mine EXCEPT ![c] = db[o.id]]
    /\ UNCHANGED <<stored, db, used, known, keyLocks, index, skewed,
                   lock, copy, restarts>>

-----------------------------------------------------------------------------
(* The entries of one task in the index.                                   *)

\* Mutant of Removed: the entry is taken to be there, and the count of a state
\* nobody is in drops.
RemovedUnchecked(e, s) == [e EXCEPT ![s] = @ - 1]

\* removeFromStateIndex: nothing happens when the task is not listed under s.
Removed(e, s) == [e EXCEPT ![s] = IF @ > 0 THEN @ - 1 ELSE 0]

\* addToStateIndex does not look whether the task is listed already.
Added(e, s) == [e EXCEPT ![s] = @ + 1]

\* Mutant of Moved: the new entry is added and the old one is kept.
MovedOnlyAdded(e, old, new) == IF old = new THEN e ELSE Added(e, new)

\* moveInStateIndex
Moved(e, old, new) == IF old = new THEN e ELSE Added(Removed(e, old), new)

-----------------------------------------------------------------------------
(* The operations the rest of the program asks for.                        *)

\* CreateTask: Create, then UpdateStateWithRecord of the initial state.
\* Create takes no lock: db.Set and the insertion in the index are two steps.
CreateSet(c, id) ==
    /\ pc[c] = "idle" /\ id \notin used
    /\ stored' = stored \cup {id}
    /\ db' = [db EXCEPT ![id] = NewRecord]
    /\ used' = used \cup {id}
    /\ Goto(c, "add")
    /\ op' = [op EXCEPT ![c] = Call("create", id)]
    /\ UNCHANGED <<known, keyLocks, index, skewed, lock, mine, copy, restarts>>

CreateAdd(c) ==
    /\ pc[c] = "add"
    /\ index' = [index EXCEPT ![op[c].id] = Added(@, Pending)]
    /\ Goto(c, "begin")
    /\ op' = [op EXCEPT ![c] = Call("state", op[c].id)]
    /\ UNCHANGED <<stored, db, used, known, keyLocks, skewed,
                   lock, mine, copy, restarts>>

\* HandleTransitionCommand validates an unlocked copy and derives the mark
\* from it; a task already in the target state gets a new retry count only.
MarkFor(r, to) ==
    CASE to = r.state      -> "keep"
      [] to \in Terminal   -> "set"
      [] OTHER             -> IF r.archived THEN "clear" ELSE "keep"

BeginTransition(c, id, to) ==
    /\ id \in known \cap stored
    /\ to = db[id].state => to \notin Terminal
    /\ Begin(c, [kind |-> "transition", id |-> id, to |-> to,
                 mark |-> MarkFor(db[id], to)])

\* Get, set TimeoutAt in the copy, Update.
BeginUpdate(c, id) == id \in known \cap stored /\ Begin(c, Call("update", id))

BeginResult(c, id) == id \in known /\ Begin(c, Call("result", id))

\* ArchiveCleaner.cleanup: List shows an archived task, Delete follows.
BeginDelete(c, id) ==
    /\ id \in known \cap stored /\ db[id].archived
    /\ Begin(c, Call("delete", id))

-----------------------------------------------------------------------------
(* The locked part of every operation.                                     *)

Referenced(l) == \/ \E i \in Ids : keyLocks[i] = l
                 \/ \E c \in Callers : lock[c] = l

\* Mutant of getKeyLock: two callers store a mutex each, because the load and
\* the store are not one step.
getKeyLockAlwaysNew(id, l) ==
    /\ ~Referenced(l)
    /\ keyLocks' = [keyLocks EXCEPT ![id] = l]

\* LoadOrStore returns the mutex of the map, or puts a new one there.
getKeyLock(id, l) ==
    /\ \/ keyLocks[id] = l
       \/ keyLocks[id] = NoLock /\ ~Referenced(l)
    /\ keyLocks' = [keyLocks EXCEPT ![id] = l]

LoadLock(c) ==
    /\ pc[c] = "begin"
    /\ \E l \in Locks :
         /\ getKeyLock(op[c].id, l)
         /\ lock' = [lock EXCEPT ![c] = l]
    /\ Goto(c, "lock")
    /\ UNCHANGED <<stored, db, used, known, index, skewed, op, mine, copy, restarts>>

AcquireLock(c) ==
    /\ pc[c] = "lock"
    /\ \A d \in Callers : Holding(d) => lock[d] # lock[c]
    /\ Goto(c, "read")
    /\ UNCHANGED <<stored, db, used, known, keyLocks, index, skewed,
                   op, lock, mine, copy, restarts>>

\* getLocked finds the task.
ReadTask(c) ==
    /\ pc[c] = "read" /\ op[c].id \in stored
    /\ copy' = [copy EXCEPT ![c] = db[op[c].id]]
    /\ Goto(c, "write")
    /\ UNCHANGED <<stored, db, used, known, keyLocks, index, skewed,
                   op, lock, mine, restarts>>

ReadFails(c) == pc[c] = "read" /\ (op[c].id \notin stored \/ ReadFaults)

\* getLocked fails: every operation but Delete gives up.
ReadTaskFails(c) ==
    /\ ReadFails(c) /\ op[c].kind # "delete"
    /\ Return(c)
    /\ UNCHANGED <<stored, db, used, known, keyLocks, index, skewed, restarts>>

\* Delete takes any read error for a missing task, drops the mutex from the
\* map and deletes the key all the same.
DeleteMissing(c) ==
    /\ ReadFails(c) /\ op[c].kind = "delete"
    /\ keyLocks' = [keyLocks EXCEPT ![op[c].id] = NoLock]
    /\ Goto(c, "erase")
    /\ UNCHANGED <<stored, db, used, known, index, skewed,
                   op, lock, mine, copy, restarts>>

DeleteMissingKey(c) ==
    /\ pc[c] = "erase"
    /\ \/ stored' = stored \ {op[c].id}
       \/ UNCHANGED stored
    /\ Return(c)
    /\ UNCHANGED <<db, used, known, keyLocks, index, skewed, restarts>>

-----------------------------------------------------------------------------
(* putLocked and the updates of the index.                                 *)

\* Mutant of Bumped: the version stays, so that a later Update cannot see that
\* the task has changed.
NotBumped(r) == r

Bumped(r) == [r EXCEPT !.version = @ + 1]

\* What TransitionState and UpdateStateWithRecord store.
Transitioned(r, o) ==
    Bumped([r EXCEPT !.state = o.to,
                     !.archived = CASE o.mark = "set"   -> TRUE
                                    [] o.mark = "clear" -> FALSE
                                    [] OTHER            -> @])

NewValue(c) ==
    CASE op[c].kind \in {"state", "transition"} -> Transitioned(copy[c], op[c])
      [] op[c].kind = "update"                  -> Bumped(mine[c])
      [] OTHER                                  -> Bumped(copy[c])

VersionMatches(c) == op[c].kind = "update" => mine[c].version = copy[c].version

VersionConflict(c) ==
    /\ pc[c] = "write" /\ ~VersionMatches(c)
    /\ Return(c)
    /\ UNCHANGED <<stored, db, used, known, keyLocks, index, skewed, restarts>>

\* UpdateResult leaves the index alone and returns with the write.
PutResult(c) ==
    /\ pc[c] = "write" /\ op[c].kind = "result"
    /\ stored' = stored \cup {op[c].id}
    /\ db' = [db EXCEPT ![op[c].id] = NewValue(c)]
    /\ Return(c)
    /\ UNCHANGED <<used, known, keyLocks, index, skewed, restarts>>

PutTask(c) ==
    /\ pc[c] = "write" /\ op[c].kind \in {"state", "transition", "update"}
    /\ VersionMatches(c)
    /\ stored' = stored \cup {op[c].id}
    /\ db' = [db EXCEPT ![op[c].id] = NewValue(c)]
    /\ Goto(c, "index")
    /\ UNCHANGED <<used, known, keyLocks, index, skewed, op, lock, mine, copy, restarts>>

\* db.Set or db.Delete fails: the operation returns its error.
WriteFails(c) ==
    /\ pc[c] = "write" /\ VersionMatches(c)
    /\ Return(c)
    /\ UNCHANGED <<stored, db, used, known, keyLocks, index, skewed, restarts>>

\* Mutant of EraseTask: the mutex goes before the key it guards.
EraseTaskForgetsFirst(c) ==
    /\ pc[c] = "write" /\ op[c].kind = "delete"
    /\ keyLocks' = [keyLocks EXCEPT ![op[c].id] = NoLock]
    /\ Goto(c, "erase")
    /\ UNCHANGED <<stored, db, used, known, index, skewed,
                   op, lock, mine, copy, restarts>>

\* Delete: the key goes first, then the mutex, then the index entry.
EraseTask(c) ==
    /\ pc[c] = "write" /\ op[c].kind = "delete"
    /\ stored' = stored \ {op[c].id}
    /\ Goto(c, "forget")
    /\ UNCHANGED <<db, used, known, keyLocks, index, skewed,
                   op, lock, mine, copy, restarts>>

ForgetLock(c) ==
    /\ pc[c] = "forget"
    /\ keyLocks' = [keyLocks EXCEPT ![op[c].id] = NoLock]
    /\ Goto(c, "index")
    /\ UNCHANGED <<stored, db, used, known, index, skewed,
                   op, lock, mine, copy, restarts>>

\* The index update that ends an operation.  Update removes a task that its
\* caller archives, which only recoverOrphanedTasks does, at start-up, with
\* terminal tasks left unarchived (TaskEngine: there are none).
Reindexed(c) ==
    LET e == index[op[c].id]
        old == copy[c].state
        o == op[c]
    IN  CASE o.kind \in {"state", "transition"} ->
                 IF o.mark = "set" THEN Removed(Moved(e, old, o.to), o.to)
                                   ELSE Moved(e, old, o.to)
          [] o.kind = "update" ->
                 IF mine[c].archived /\ ~copy[c].archived THEN Removed(e, old) ELSE e
          [] OTHER -> Removed(e, old)

Reindex(c) ==
    /\ pc[c] = "index"
    /\ index' = [index EXCEPT ![op[c].id] = Reindexed(c)]
    /\ known' = known \cup {op[c].id}
    /\ Return(c)
    /\ UNCHANGED <<stored, db, used, keyLocks, skewed, restarts>>

\* postCommit publishes on the event bus under the lock; a panic there
\* unwinds TransitionState, which unlocks but never updates the index.
PostCommitPanics(c) ==
    /\ pc[c] = "index" /\ op[c].kind = "transition"
    /\ op[c].to # mine[c].state   \* a new retry count alone is not published
    /\ skewed' = skewed \cup {op[c].id}
    /\ Return(c)
    /\ UNCHANGED <<stored, db, used, known, keyLocks, index, restarts>>

\* A crash forgets the callers, the map of mutexes and the index;
\* NewTaskStore rebuilds the index from the unarchived tasks.
RebuiltIndex ==
    [i \in Ids |-> IF i \in stored /\ ~db[i].archived
                   THEN Listed(db[i].state) ELSE Unlisted]

Restart ==
    /\ restarts < MaxRestarts
    /\ restarts' = restarts + 1
    /\ known' = stored
    /\ keyLocks' = [i \in Ids |-> NoLock]
    /\ index' = RebuiltIndex
    /\ skewed' = {}
    /\ pc' = [c \in Callers |-> "idle"]
    /\ op' = [c \in Callers |-> NoOp]
    /\ lock' = [c \in Callers |-> NoLock]
    /\ mine' = [c \in Callers |-> NewRecord]
    /\ copy' = [c \in Callers |-> NewRecord]
    /\ UNCHANGED <<stored, db, used>>

CallerStep(c) ==
    \/ \E id \in Ids :
         \/ CreateSet(c, id)
         \/ \E to \in States : BeginTransition(c, id, to)
         \/ BeginUpdate(c, id)
         \/ BeginResult(c, id)
         \/ BeginDelete(c, id)
    \/ CreateAdd(c)
    \/ LoadLock(c) \/ AcquireLock(c)
    \/ ReadTask(c) \/ ReadTaskFails(c)
    \/ DeleteMissing(c) \/ DeleteMissingKey(c)
    \/ VersionConflict(c) \/ PutResult(c) \/ PutTask(c) \/ WriteFails(c)
    \/ EraseTask(c) \/ ForgetLock(c)
    \/ Reindex(c) \/ PostCommitPanics(c)

Next == (\E c \in Callers : CallerStep(c)) \/ Restart

Spec == Init /\ [][Next]_vars

-----------------------------------------------------------------------------
Labels == {"idle", "add", "begin", "lock", "read", "write", "index", "forget", "erase"}

\* Every variable has its type.
TypeOK ==
    /\ stored \subseteq used /\ used \subseteq Ids /\ known \subseteq used
    /\ skewed \subseteq used
    /\ db \in [Ids -> Record]
    /\ keyLocks \in [Ids -> Locks \cup {NoLock}]
    /\ index \in [Ids -> [States -> Nat]]
    /\ pc \in [Callers -> Labels]
    /\ op \in [Callers -> Op]
    /\ lock \in [Callers -> Locks \cup {NoLock}]
    /\ mine \in [Callers -> Record] /\ copy \in [Callers -> Record]
    /\ restarts \in 0..MaxRestarts

\* No lost update: when an operation is about to write, the task is still
\* stored and still is what the operation read, although Delete removes the
\* mutex of the key from the map while other callers wait for it.
ReadStaysFresh ==
    \A c \in Callers : pc[c] = "write" =>
        op[c].id \in stored /\ copy[c] = db[op[c].id]

\* Optimistic locking of Update: a caller's own copy that passes the version
\* check is the stored task, so Update never takes back a state, an archived
\* mark or a retry that was committed after the caller's Get.
UpdateNeverReverts ==
    \A c \in Callers : pc[c] = "write" /\ op[c].kind = "update" /\ VersionMatches(c)
        => mine[c] = db[op[c].id]

\* A task that was deleted stays deleted: no operation that read the task
\* before Delete writes it back after.
DeletedStaysDeleted ==
    [][\A i \in used : i \notin stored => i \notin stored']_vars

Settled(id) == \A c \in Callers : op[c].id = id => pc[c] \notin {"add", "index", "forget"}

\* Listings of the unarchived tasks in a state, at one moment: by a scan of all
\* keys, or by the index, with another look at what the record says; and the
\* number of index entries, which Count returns for a filter with a state only.
MatchFilter(id, s) == db[id].state = s /\ ~db[id].archived
List(s) == {id \in stored : MatchFilter(id, s)}
ListByState(s) == {id \in stored : index[id][s] > 0 /\ MatchFilter(id, s)}
Count(id, s) == index[id][s]

\* Between operations, and unless a panic of postCommit cut one short, the list
\* that goes by the index is the one that reads every key, and the count is
\* its length, whatever the order in which stale commands have archived, moved
\* and revived a task.  (A task that a stale command moved out of its archived
\* terminal state may be counted or not.)
IndexAgrees ==
    \A i \in Ids \ skewed : Settled(i) =>
      \A s \in States :
        /\ i \in ListByState(s) <=> i \in List(s)
        /\ ~(i \in stored /\ db[i].archived /\ db[i].state \notin Terminal) =>
             Count(i, s) = IF i \in List(s) THEN 1 ELSE 0

-----------------------------------------------------------------------------
(* What makes the properties inductive, as long as reads do not fail.      *)

\* Operations are on identifiers in use, and the labels only Delete reaches
\* belong to it.
OpsFormed ==
    \A c \in Callers : pc[c] # "idle" =>
        /\ op[c].id \in used
        /\ pc[c] \in {"forget", "erase"} => op[c].kind = "delete"

\* A mutex has one holder.
OneHolder ==
    \A c, d \in Callers : c # d /\ Holding(c) /\ Holding(d) => lock[c] # lock[d]

\* As long as a task is stored, whoever waits for or holds a mutex for it has
\* the one that the map holds.
SameMutex ==
    \A c \in Callers : (pc[c] = "lock" \/ Holding(c)) =>
        /\ lock[c] # NoLock
        /\ op[c].id \in stored => keyLocks[op[c].id] = lock[c]

\* Once Delete has removed the key, it is gone.
KeyIsGone ==
    \A c \in Callers :
        pc[c] \in {"forget", "erase"} \/ (pc[c] = "index" /\ op[c].kind = "delete")
            => op[c].id \notin stored

\* The copy that an Update will write is the stored task or an older version.
CopyIsOlder ==
    \A c \in Callers : pc[c] # "idle" /\ op[c].kind = "update" =>
        /\ mine[c].version <= db[op[c].id].version
        /\ mine[c].version = db[op[c].id].version => mine[c] = db[op[c].id]

Inv ==
    /\ TypeOK /\ OpsFormed /\ OneHolder /\ SameMutex /\ KeyIsGone
    /\ ReadStaysFresh /\ CopyIsOlder

=============================================================================
