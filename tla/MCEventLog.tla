----------------------------- MODULE MCEventLog -----------------------------
(* The event log for TLC.  The database lists the entries in another order   *)
(* than the one in which they were written.                                  *)
EXTENDS EventLog

MCListRank == [e \in Entries |-> (e + 1) % 3]

\* Bound: only the second entry may be without a task.  It comes between, before
\* or after entries that have one, in the ring, the table and both indexes.
TasksNamed == \A e \in DOMAIN label' : label'[e].task = NoKey => e = 2

MCSpec == Init /\ [][Next /\ TasksNamed]_vars /\ Fairness

=============================================================================
