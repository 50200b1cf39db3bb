------------------------------ MODULE TaskLife ------------------------------
(***************************************************************************)
(* What the scheduler of nuts promises whoever reads the task table: the   *)
(* life of a task is made of moves that somebody validated against the     *)
(* state the task was in.                                                  *)
(*                                                                         *)
(* A caller of the engine validates at most one move at a time and writes  *)
(* it later, at once and whole: the state, the archive mark and the retry  *)
(* count.  What happened to the task in between is not looked at, so that  *)
(* a stale move can land, but never more than one for each caller, and     *)
(* never one that was not allowed when it was validated.  A failure or a   *)
(* crash takes moves that were not written away and nothing else: there is *)
(* no repair of records, since no write leaves one half done.              *)
(***************************************************************************)
EXTENDS StateMachine

CONSTANTS
    Tasks, NoTask, Pending,
    Transitions,               \* the allowed pairs of states
    AutoRetry, RetryTo, MaxRetries,
    Callers,                   \* who moves tasks
    Retrier                    \* the caller that retries

VARIABLES
    stored,   \* the tasks there are
    life,     \* the state, the archive mark and the retry count of every task
    move      \* the validated move that a caller has not written yet

New == [state |-> Pending, archived |-> FALSE, retry |-> 0]
NoMove == [task |-> NoTask, to |-> Pending, mark |-> "keep", adds |-> 0]

Init ==
    /\ stored = {}
    /\ life = [t \in Tasks |-> New]
    /\ move = [g \in Callers |-> NoMove]

Create ==
    /\ \E t \in Tasks \ stored :
         stored' = stored \cup {t} /\ life' = [life EXCEPT ![t] = New]
    /\ UNCHANGED move

\* The initial state of the configuration, before anybody else knows the task.
Initialise ==
    /\ \E t \in stored :
         life[t] = New /\ life' = [life EXCEPT ![t].state = InitialState]
    /\ UNCHANGED <<stored, move>>

\* What a move to a state does to the archive mark of a task.
Mark(r, to) == IF to \in Terminal THEN "set" ELSE IF r.archived THEN "clear" ELSE "keep"

Validate(g, t, to) ==
    /\ move[g] = NoMove
    /\ <<life[t].state, to>> \in Transitions
    /\ move' = [move EXCEPT ![g] =
         [task |-> t, to |-> to, mark |-> Mark(life[t], to), adds |-> 0]]
    /\ UNCHANGED <<stored, life>>

\* A retry from s, or one that finds the task already where it leads.
ValidateRetry(t, s) ==
    /\ move[Retrier] = NoMove
    /\ life[t].retry < MaxRetries[s]
    /\ \/ life[t].state = s /\ <<s, RetryTo[s]>> \in Transitions
       \/ life[t].state = RetryTo[s]
    /\ move' = [move EXCEPT ![Retrier] =
         [task |-> t, to |-> RetryTo[s], adds |-> 1,
          mark |-> IF life[t].state = RetryTo[s] THEN "keep" ELSE Mark(life[t], RetryTo[s])]]
    /\ UNCHANGED <<stored, life>>

Moved(r, m) ==
    [state    |-> m.to,
     archived |-> IF m.mark = "keep" THEN r.archived ELSE m.mark = "set",
     retry    |-> r.retry + m.adds]

Write(g) ==
    /\ move[g] # NoMove
    /\ life' = [life EXCEPT ![move[g].task] = Moved(@, move[g])]
    /\ move' = [move EXCEPT ![g] = NoMove]
    /\ UNCHANGED stored

Abandon ==
    /\ \E G \in SUBSET Callers :
         move' = [g \in Callers |-> IF g \in G THEN NoMove ELSE move[g]]
    /\ UNCHANGED <<stored, life>>

Next ==
    \/ Create \/ Initialise \/ Abandon
    \/ \E g \in Callers, t \in stored, to \in States : Validate(g, t, to)
    \/ \E t \in stored, s \in AutoRetry : ValidateRetry(t, s)
    \/ \E g \in Callers : Write(g)

Spec == Init /\ [][Next]_<<stored, life, move>>
=============================================================================
