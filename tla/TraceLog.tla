------------------------------ MODULE TraceLog ------------------------------
(***************************************************************************)
(* What the event log of nuts promises its readers (the EventLog interface *)
(* of pkg/eventlog/interface.go).  A log in memory is a sequence: it keeps *)
(* the newest Capacity entries in the order in which they were recorded,   *)
(* and is emptied as a whole.  A durable log is a table, which has no      *)
(* order: an entry leaves it only after it has expired.  No entry is       *)
(* recorded twice.                                                         *)
(***************************************************************************)
EXTENDS Naturals, Sequences

CONSTANTS Entries, Capacity

VARIABLES
    durable,
    order,     \* the log in memory, the oldest entry first
    table,     \* the durable log
    expired    \* the entries of the table that are past the retention

Recorded == table \cup {order[i] : i \in DOMAIN order}

Init == durable \in BOOLEAN /\ order = <<>> /\ table = {} /\ expired = {}

\* The oldest entry makes room.
Kept(s) == IF Len(s) > Capacity THEN Tail(s) ELSE s

Record ==
    /\ \E e \in Entries \ Recorded :
         \/ durable /\ table' = table \cup {e} /\ UNCHANGED order
         \/ ~durable /\ order' = Kept(Append(order, e)) /\ UNCHANGED table
    /\ UNCHANGED <<durable, expired>>

Age ==
    /\ \E e \in table \ expired : expired' = expired \cup {e}
    /\ UNCHANGED <<durable, order, table>>

Expire ==
    /\ \E e \in expired : table' = table \ {e} /\ expired' = expired \ {e}
    /\ UNCHANGED <<durable, order>>

Reset == ~durable /\ order' = <<>> /\ UNCHANGED <<durable, table, expired>>

Next == Record \/ Age \/ Expire \/ Reset

Spec == Init /\ [][Next]_<<durable, order, table, expired>>
=============================================================================
