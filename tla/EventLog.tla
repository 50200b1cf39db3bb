------------------------------ MODULE EventLog ------------------------------
(***************************************************************************)
(* The event log of nuts (pkg/eventlog) and its use by the scheduler: the  *)
(* goroutines that write entries, the asynchronous wrapper with its        *)
(* channel and its loop, the ring buffer or the database below it with     *)
(* their index by trace and by task, the cleaner, a query that runs        *)
(* beside them, and the order in which Core.Stop shuts them down.          *)
(*                                                                         *)
(* The database keeps rows in no order.  A query on it takes the slice of  *)
(* IDs under the lock and reads it after, while the cleaner shifts the same*)
(* array: the IDs it has not read yet move, unless the index has got       *)
(* another array in the meantime.                                          *)
(***************************************************************************)
EXTENDS RingLog, FiniteSets

CONSTANTS
    Writers,       \* goroutines of the scheduler that write entries
    Traces, Tasks, \* trace IDs and task IDs
    NoKey,         \* the empty task ID
    ChanSize,      \* capacity of the channel of the wrapper
    ListRank       \* where the database lists an entry: by its key, not by time

\* traceIndex and taskIndex are two maps, so that a trace ID is never mistaken
\* for a task ID; here they are one function, of keys that are apart.
ASSUME LogAssumption ==
    /\ ChanSize \in Nat \ {0}
    /\ ListRank \in [Entries -> Int] /\ \A d, e \in Entries : ListRank[d] = ListRank[e] => d = e
    /\ NoKey \notin Traces \cup Tasks /\ Traces \cap Tasks = {}

VARIABLES
    kind,      \* eventlog.type: "disabled", "unknown", "memory" or "db"
    label,     \* trace and task of every entry made so far: entry i is the i-th
    wpc,       \* a writer is "idle", "busy" with an event, or "gone"
    ch, open,  \* entries in the channel; whether it is open
    cpc, cur,  \* where processLoop is, and its entry
    rows,      \* entries in the database
    index,     \* traceIndex and taskIndex
    clpc, old, \* where the cleaner is; the entries it has still to delete
    aged,      \* entries older than the retention
    query,     \* the query under way: its key, the IDs left, what it found
    stop,      \* how far Core.Stop is
    panicked, late, down  \* an Append panicked; Stop gave up waiting; the process died

logVars == <<rows, index>>
writeVars == <<wpc, label>>
stopVars == <<stop, late>>
vars == <<ringVars, kind, writeVars, ch, open, cpc, cur, logVars, clpc, old, aged,
          query, stopVars, panicked, down>>

Keys == Traces \cup Tasks
Labels == [trace : Traces, task : Tasks \cup {NoKey}]
Made == 1..Len(label)
KeysOf(e) == {label[e].trace, label[e].task} \ {NoKey}
Elems(s) == {s[i] : i \in DOMAIN s}

\* removeFromIndex goes through the IDs and takes the first that is equal.
PositionOf(s, e) == CHOOSE i \in DOMAIN s : s[i] = e /\ \A j \in 1..(i - 1) : s[j] # e
Removed(s, e) ==
    IF e \notin Elems(s) THEN s
    ELSE SubSeq(s, 1, PositionOf(s, e) - 1) \o SubSeq(s, PositionOf(s, e) + 1, Len(s))

NoQuery == [key |-> NoKey, ids |-> <<>>, found |-> {}, whole |-> {}, torn |-> FALSE]
NoIndex == [k \in Keys |-> <<>>]

HasLog == kind \in {"memory", "db"}

\* The key-value store below the log, one statement each: Set of a new key,
\* Delete, Get of one row, and all entries by List and Get.  Writes may be
\* refused; reads are taken to succeed.
Set(e) == rows' = rows \cup {e}
Delete(e) == rows' = rows \ {e}
Get(e) == {e} \cap rows
AllEntries == rows

-----------------------------------------------------------------------------
\* initEventLog: a database that cannot be opened gives a log in memory.
Init ==
    /\ RingInit
    /\ kind \in {"disabled", "unknown", "memory", "db"}
    /\ label = <<>> /\ wpc = [w \in Writers |-> "idle"]
    /\ ch = <<>> /\ open = TRUE
    /\ cpc = "recv" /\ cur = NoEntry
    /\ rows = {} /\ index = NoIndex
    /\ clpc = "idle" /\ old = {} /\ aged = {}
    /\ query = NoQuery
    /\ stop = "running" /\ late = FALSE
    /\ panicked = FALSE /\ down = FALSE

-----------------------------------------------------------------------------
(* The writers.                                                            *)

\* A goroutine of the scheduler takes an event, a command or a timeout.
Receive(w) ==
    /\ wpc[w] = "idle"
    /\ wpc' = [wpc EXCEPT ![w] = "busy"]
    /\ UNCHANGED <<ringVars, kind, label, ch, open, cpc, cur, logVars,
                   clpc, old, aged, query, stopVars, panicked, down>>

\* It is done with it.
Finish(w) ==
    /\ wpc[w] = "busy"
    /\ wpc' = [wpc EXCEPT ![w] = "idle"]
    /\ UNCHANGED <<ringVars, kind, label, ch, open, cpc, cur, logVars,
                   clpc, old, aged, query, stopVars, panicked, down>>

\* It sees that the context is done.
Exit(w) ==
    /\ wpc[w] = "idle" /\ stop # "running"
    /\ wpc' = [wpc EXCEPT ![w] = "gone"]
    /\ UNCHANGED <<ringVars, kind, label, ch, open, cpc, cur, logVars,
                   clpc, old, aged, query, stopVars, panicked, down>>

\* asyncEventLog.Append; an entry for which the channel has no room leaves no
\* trace at all.
AppendAsync(w, l) ==
    /\ wpc[w] = "busy" /\ HasLog /\ open
    /\ Len(label) + 1 \in Entries
    /\ IF Len(ch) < ChanSize
       THEN label' = Append(label, l) /\ ch' = Append(ch, Len(label) + 1)
       ELSE UNCHANGED <<label, ch>>
    /\ UNCHANGED <<ringVars, kind, wpc, open, cpc, cur, logVars, clpc, old, aged,
                   query, stopVars, panicked, down>>

\* The send on a closed channel panics, which ends the goroutine.
AppendPanics(w) ==
    /\ wpc[w] = "busy" /\ HasLog /\ ~open
    /\ wpc' = [wpc EXCEPT ![w] = "gone"]
    /\ panicked' = TRUE
    /\ UNCHANGED <<ringVars, kind, label, ch, open, cpc, cur, logVars,
                   clpc, old, aged, query, stopVars, down>>

-----------------------------------------------------------------------------
(* The index.                                                              *)

Added(ix, ks, e) == [k \in Keys |-> IF k \in ks THEN Append(ix[k], e) ELSE ix[k]]

\* removeFromIndex, for all keys of an entry of the ring.
Without(ix, e) ==
    IF e = NoEntry THEN ix
    ELSE [k \in Keys |-> IF k \in KeysOf(e) THEN Removed(ix[k], e) ELSE ix[k]]

\* What a query has left when e is taken out of its array in place.  An ID it has
\* still to read leaves a place at the end, with a copy of the last ID or one
\* that is added later; an ID it has read moves the next one out of its reach.
Shifted(q, e) ==
    IF e \in Elems(q.ids) THEN [q EXCEPT !.ids = Removed(@, e)]
    ELSE IF q.ids = <<>> THEN q
    ELSE [q EXCEPT !.ids = Tail(@), !.torn = TRUE]

\* removeFromIndex of the database, for one key: the lock is held.  The index has
\* another array than the query when an append has had to move it.
Unindex(k, e) ==
    /\ index' = [index EXCEPT ![k] = Removed(index[k], e)]
    /\ \/ query.key = k /\ e \in query.whole /\ query' = Shifted(query, e)
       \/ UNCHANGED query

-----------------------------------------------------------------------------
(* processLoop.                                                            *)

\* Mutant of TakeMemory: the entry that is overwritten stays in the index.
TakeMemoryUncleaned ==
    /\ cpc = "recv" /\ kind = "memory" /\ ch # <<>>
    /\ ch' = Tail(ch)
    /\ RingAppend(Head(ch))
    /\ index' = Added(index, KeysOf(Head(ch)), Head(ch))
    /\ UNCHANGED <<kind, writeVars, open, cpc, cur, rows, clpc, old, aged,
                   query, stopVars, panicked, down>>

\* ringBufferEventLog.Append, under its lock.
TakeMemory ==
    /\ cpc = "recv" /\ kind = "memory" /\ ch # <<>>
    /\ ch' = Tail(ch)
    /\ RingAppend(Head(ch))
    /\ index' = LET kept == IF count = RingSize THEN Without(index, ring[head]) ELSE index
                IN  Added(kept, KeysOf(Head(ch)), Head(ch))
    /\ UNCHANGED <<kind, writeVars, open, cpc, cur, rows, clpc, old, aged,
                   query, stopVars, panicked, down>>

\* dbEventLog.Append: the row first.
TakeDB ==
    /\ cpc = "recv" /\ kind = "db" /\ ch # <<>>
    /\ ch' = Tail(ch)
    /\ Set(Head(ch))
    /\ cur' = Head(ch) /\ cpc' = "trace"
    /\ UNCHANGED <<ringVars, kind, writeVars, open, index, clpc, old, aged,
                   query, stopVars, panicked, down>>

\* The database refuses: processLoop logs it, and the entry is lost.
TakeFails ==
    /\ cpc = "recv" /\ kind = "db" /\ ch # <<>>
    /\ ch' = Tail(ch)
    /\ UNCHANGED <<ringVars, kind, writeVars, open, cpc, cur, logVars, clpc, old, aged,
                   query, stopVars, panicked, down>>

\* Then the two indexes, each under its own lock.
IndexTrace ==
    /\ cpc = "trace"
    /\ index' = Added(index, {label[cur].trace}, cur)
    /\ cpc' = "task"
    /\ UNCHANGED <<ringVars, kind, writeVars, ch, open, cur, rows, clpc, old, aged,
                   query, stopVars, panicked, down>>

IndexTask ==
    /\ cpc = "task"
    /\ index' = Added(index, {label[cur].task} \ {NoKey}, cur)
    /\ cpc' = "recv" /\ cur' = NoEntry
    /\ UNCHANGED <<ringVars, kind, writeVars, ch, open, rows, clpc, old, aged,
                   query, stopVars, panicked, down>>

LoopEnds ==
    /\ cpc = "recv" /\ HasLog /\ ch = <<>> /\ ~open
    /\ cpc' = "gone"
    /\ UNCHANGED <<ringVars, kind, writeVars, ch, open, cur, logVars, clpc, old, aged,
                   query, stopVars, panicked, down>>

-----------------------------------------------------------------------------
(* The cleaner, which nobody stops.                                        *)

\* Time passes: the entries get older than the retention, which is hours, in
\* the order of their timestamps and long after they have been indexed.
Age(e) ==
    /\ kind = "db" /\ e \in rows \ aged /\ e # cur
    /\ \A f \in rows \ aged : e <= f
    /\ aged' = aged \cup {e}
    /\ UNCHANGED <<ringVars, kind, writeVars, ch, open, cpc, cur, logVars, clpc, old,
                   query, stopVars, panicked, down>>

\* Cleanup lists the rows; there is nothing to do in memory, and the log of an
\* unknown type is a nil interface, on which the call panics.
Clean ==
    /\ clpc = "idle"
    /\ \/ kind = "unknown" /\ down' = TRUE /\ UNCHANGED <<clpc, old>>
       \/ /\ kind = "db" /\ aged \cap AllEntries # {}
          /\ old' = aged \cap AllEntries /\ clpc' = "delete" /\ UNCHANGED down
    /\ UNCHANGED <<ringVars, kind, writeVars, ch, open, cpc, cur, logVars, aged,
                   query, stopVars, panicked>>

Doomed == CHOOSE e \in old : \A f \in old : e <= f

\* The row is deleted, or the database refuses and the next one follows.
CleanDelete ==
    /\ clpc = "delete" /\ old # {}
    /\ \/ Delete(Doomed) /\ clpc' = "trace" /\ UNCHANGED old
       \/ old' = old \ {Doomed} /\ UNCHANGED <<rows, clpc>>
    /\ UNCHANGED <<ringVars, kind, writeVars, ch, open, cpc, cur, index, aged,
                   query, stopVars, panicked, down>>

CleanTrace ==
    /\ clpc = "trace"
    /\ Unindex(label[Doomed].trace, Doomed)
    /\ clpc' = "task"
    /\ UNCHANGED <<ringVars, kind, writeVars, ch, open, cpc, cur, rows, old, aged,
                   stopVars, panicked, down>>

CleanTask ==
    /\ clpc = "task"
    /\ IF label[Doomed].task = NoKey THEN UNCHANGED <<index, query>>
       ELSE Unindex(label[Doomed].task, Doomed)
    /\ clpc' = "delete" /\ old' = old \ {Doomed} /\ aged' = aged \ {Doomed}
    /\ UNCHANGED <<ringVars, kind, writeVars, ch, open, cpc, cur, rows,
                   stopVars, panicked, down>>

CleanDone ==
    /\ clpc = "delete" /\ old = {}
    /\ clpc' = "idle"
    /\ UNCHANGED <<ringVars, kind, writeVars, ch, open, cpc, cur, logVars, old, aged,
                   query, stopVars, panicked, down>>

-----------------------------------------------------------------------------
(* Queries.                                                                *)

\* Query of the database: a scan of all entries.
ScanDB(k) == {e \in AllEntries : k \in KeysOf(e)}

\* findByIDs and Query of the ring, under its lock: both go through the ring from
\* the oldest entry on, so a result is known by the places it takes entries from.
FindByIDs(ids) == {i \in 1..count : RingContents[i] \in Elems(ids)}
Scan(k) == {i \in 1..count : k \in KeysOf(RingContents[i])}

\* QueryByTraceID and QueryByTaskID of the database take the IDs ...
BeginQuery(k) ==
    /\ kind = "db" /\ query = NoQuery /\ index[k] # <<>> /\ stop = "running"
    /\ query' = [NoQuery EXCEPT !.key = k, !.ids = index[k], !.whole = Elems(index[k])]
    /\ UNCHANGED <<ringVars, kind, writeVars, ch, open, cpc, cur, logVars, clpc, old,
                   aged, stopVars, panicked, down>>

\* Mutant of GetRow: a row that is missing ends the query.
GetRowGivesUp ==
    /\ query.ids # <<>>
    /\ query' = IF Get(Head(query.ids)) # {}
                THEN [query EXCEPT !.ids = Tail(query.ids),
                                   !.found = @ \cup {Head(query.ids)}]
                ELSE [query EXCEPT !.ids = <<>>]
    /\ UNCHANGED <<ringVars, kind, writeVars, ch, open, cpc, cur, logVars, clpc, old,
                   aged, stopVars, panicked, down>>

\* ... and getByIDs reads their rows; one that is missing is left out.
GetRow ==
    /\ query.ids # <<>>
    /\ query' = [query EXCEPT !.ids = Tail(query.ids),
                              !.found = @ \cup Get(Head(query.ids))]
    /\ UNCHANGED <<ringVars, kind, writeVars, ch, open, cpc, cur, logVars, clpc, old,
                   aged, stopVars, panicked, down>>

EndQuery ==
    /\ query # NoQuery /\ query.ids = <<>>
    /\ query' = NoQuery
    /\ UNCHANGED <<ringVars, kind, writeVars, ch, open, cpc, cur, logVars, clpc, old,
                   aged, stopVars, panicked, down>>

-----------------------------------------------------------------------------
(* Core.Stop.                                                              *)

Cancel ==
    /\ stop = "running"
    /\ stop' = "cancelled"
    /\ UNCHANGED <<ringVars, kind, writeVars, ch, open, cpc, cur, logVars, clpc, old,
                   aged, query, late, panicked, down>>

\* Mutant of Wait: Stop does not wait for the goroutines.
WaitNot ==
    /\ stop = "cancelled"
    /\ stop' = "waited" /\ UNCHANGED late
    /\ UNCHANGED <<ringVars, kind, writeVars, ch, open, cpc, cur, logVars, clpc, old,
                   aged, query, panicked, down>>

\* All goroutines have ended, or the grace period has.
Wait ==
    /\ stop = "cancelled"
    /\ stop' = "waited"
    /\ late' = (\E w \in Writers : wpc[w] # "gone")
    /\ UNCHANGED <<ringVars, kind, writeVars, ch, open, cpc, cur, logVars, clpc, old,
                   aged, query, panicked, down>>

\* Mutant of CloseChannel: Close only cancels the context of processLoop.
CloseChannelNot ==
    /\ stop = "waited"
    /\ stop' = IF HasLog THEN "closing" ELSE "closed"
    /\ UNCHANGED <<ringVars, kind, writeVars, ch, open, cpc, cur, logVars, clpc, old,
                   aged, query, late, panicked, down>>

\* asyncEventLog.Close closes the channel ...
CloseChannel ==
    /\ stop = "waited"
    /\ IF HasLog THEN open' = FALSE /\ stop' = "closing" ELSE stop' = "closed" /\ UNCHANGED open
    /\ UNCHANGED <<ringVars, kind, writeVars, ch, cpc, cur, logVars, clpc, old,
                   aged, query, late, panicked, down>>

\* Mutant of CloseInner: the log is closed while processLoop is still at work.
CloseInnerEarly ==
    /\ stop = "closing"
    /\ stop' = "closed"
    /\ RingClose /\ index' = NoIndex
    /\ UNCHANGED <<kind, writeVars, ch, open, cpc, cur, rows, clpc, old,
                   aged, query, late, panicked, down>>

\* ... waits for processLoop, and closes the log below it.
CloseInner ==
    /\ stop = "closing" /\ cpc = "gone"
    /\ stop' = "closed"
    /\ RingClose /\ index' = NoIndex
    /\ UNCHANGED <<kind, writeVars, ch, open, cpc, cur, rows, clpc, old,
                   aged, query, late, panicked, down>>

-----------------------------------------------------------------------------
\* rebuildIndex: all rows of a trace or a task, each once, in the order of List.
InSequence(S) ==
    {s \in [1..Cardinality(S) -> S] :
        Elems(s) = S /\ \A i, j \in DOMAIN s : i < j => ListRank[s[i]] < ListRank[s[j]]}
Rebuilt ==
    {ix \in [Keys -> UNION {InSequence(ScanDB(k)) : k \in Keys}] :
        \A k \in Keys : ix[k] \in InSequence(ScanDB(k))}

\* The process dies at any point and starts again: what was in memory is gone.
Crash ==
    /\ wpc' = [w \in Writers |-> "idle"]
    /\ ch' = <<>> /\ open' = TRUE /\ cpc' = "recv" /\ cur' = NoEntry
    /\ clpc' = "idle" /\ old' = {} /\ query' = NoQuery
    /\ stop' = "running" /\ late' = FALSE /\ panicked' = FALSE
    /\ RingReset
    /\ index' \in Rebuilt
    /\ UNCHANGED <<kind, label, rows, aged, down>>

Write == \E w \in Writers : \/ Receive(w) \/ Finish(w) \/ Exit(w) \/ AppendPanics(w)
                            \/ \E l \in Labels : AppendAsync(w, l)
Process == TakeMemory \/ TakeDB \/ TakeFails \/ IndexTrace \/ IndexTask \/ LoopEnds
Cleaning == \/ Clean \/ CleanDelete \/ CleanTrace \/ CleanTask \/ CleanDone
            \/ \E e \in Made : Age(e)
Querying == GetRow \/ EndQuery \/ \E k \in Keys : BeginQuery(k)
Stopping == Cancel \/ Wait \/ CloseChannel \/ CloseInner

Next == /\ ~down
        /\ Write \/ Process \/ Cleaning \/ Querying \/ Stopping \/ Crash

\* processLoop is a goroutine that runs as long as it has work, and Stop is
\* carried on by its caller and by the timer of the grace period.
Fairness ==
    /\ WF_vars(~down /\ Process)
    /\ WF_vars(~down /\ (Wait \/ CloseChannel \/ CloseInner))

Spec == Init /\ [][Next]_vars /\ Fairness

-----------------------------------------------------------------------------
TypeOK ==
    /\ RingTypeOK
    /\ kind \in {"disabled", "unknown", "memory", "db"}
    /\ label \in Seq(Labels)
    /\ wpc \in [Writers -> {"idle", "busy", "gone"}]
    /\ ch \in Seq(Made) /\ Len(ch) <= ChanSize /\ open \in BOOLEAN
    /\ cpc \in {"recv", "trace", "task", "gone"} /\ cur \in Made \cup {NoEntry}
    /\ rows \subseteq Made /\ index \in [Keys -> Seq(Made)]
    /\ clpc \in {"idle", "delete", "trace", "task"}
    /\ old \subseteq Made /\ aged \subseteq Made
    /\ stop \in {"running", "cancelled", "waited", "closing", "closed"}
    /\ panicked \in BOOLEAN /\ late \in BOOLEAN /\ down \in BOOLEAN

\* The contents of the log, whichever kind it is, as TraceLog describes them.
Log == INSTANCE TraceLog WITH
          Capacity <- RingSize,
          durable <- (kind = "db"),
          order <- IF kind = "db" THEN <<>> ELSE RingContents,
          table <- IF kind = "db" THEN rows ELSE {},
          expired <- IF kind = "db" THEN aged \cap rows ELSE {}

\* The log in memory keeps the newest entries in the order they were taken from
\* the channel, the database keeps all that have not expired, and none is
\* recorded twice, through wrap-around, clean-up, a crash between a row and its
\* index, and Close.
LogIsKept == Log!Spec

\* An entry of the database whose index is under construction, or being undone.
Pending == {cur} \cup (IF clpc \in {"trace", "task"} THEN {Doomed} ELSE {})

\* The way through the index (QueryByTraceID, QueryByTaskID) and the scan of
\* all entries (Query) find the same entries of a trace or a task, on the ring in
\* the same order, and the index holds no ID of an entry that is gone: in the
\* database but for the entry that is being written or deleted at that moment.
IndexFindsAll ==
    stop # "closed" =>
      \A k \in Keys :
        IF kind = "db"
        THEN /\ Elems(index[k]) \ Pending = ScanDB(k) \ Pending
             /\ Cardinality(Elems(index[k])) = Len(index[k])
        ELSE FindByIDs(index[k]) = Scan(k) /\ Cardinality(Scan(k)) = Len(index[k])

\* A query finds every entry that was indexed when it began and is still
\* stored when it ends, though entries are written and deleted meanwhile; an ID
\* that it has read, and that the cleaner then takes out of the same array, is
\* the one thing that can hide another.
LastingIsFound ==
    (query # NoQuery /\ query.ids = <<>> /\ ~query.torn) =>
        query.whole \cap rows \subseteq query.found

\* When Stop has closed the log, every entry that was accepted by the channel
\* has been stored and indexed, or refused by the database.
CloseFlushes == (stop = "closed" /\ HasLog) => ch = <<>> /\ cur = NoEntry

\* A writer panics on the closed channel only after Stop has given up waiting
\* for it, and the process dies of its cleaner only with a type of log that
\* does not exist.
PanicsExplained == (panicked => late) /\ (down => kind = "unknown")

\* Stop returns, unless the process dies first.
StopReturns == stop = "cancelled" ~> (stop \in {"closed", "running"} \/ down)

=============================================================================
