------------------------- MODULE StateMachineConfig -------------------------
(***************************************************************************)
(* The check that a state machine configuration must pass before the       *)
(* scheduler starts (Validate, pkg/task/sm_validator.go), one step for     *)
(* every edge that one of its three searches looks at.                     *)
(*                                                                         *)
(*   "reach"  reachableStates: breadth first, over a queue                 *)
(*   "ends"   canReachTerminal: depth first, once for every state that is  *)
(*            not terminal, in the order of a Go map: any order            *)
(*   "loops"  findCycles: depth first, from the initial state              *)
(*                                                                         *)
(* The recursion of the depth-first searches is a stack of the states they *)
(* are in, each with the edges it has left.  A configuration gives every   *)
(* state the list of its allowed transitions, in the order of the file,    *)
(* which is the order the searches follow.  That the initial state, the    *)
(* terminal states and the ends of transitions are defined is taken for    *)
(* granted; a retry_to_state need not be.                                  *)
(***************************************************************************)
EXTENDS StateMachine, Functions

CONSTANTS
    MaxOut,         \* bound: allowed transitions listed for a state
    NoState,        \* the state has no auto_retry
    Undefined       \* a retry_to_state that no state has

ASSUME DefinedAssumption ==
    /\ InitialState \in States
    /\ TerminalStates \in Seq(States) /\ TerminalStates # <<>>
    /\ NoState \notin States /\ Undefined \notin States /\ NoState # Undefined
    /\ MaxOut \in Nat

VARIABLES
    next,       \* the transitions of every state, in order        (the file)
    retryTo,    \* the retry_to_state of auto_retry, defaulted     (the file)
    phase,      \* the search that Validate is in
    reachable,  \* reachableStates: the states found
    waiting,    \* reachableStates: its queue
    todo,       \* reachableStates: edges left of the state taken last
    checked,    \* the states from which canReachTerminal found a terminal state
    visited,    \* canReachTerminal: the states seen, all of them dead ends so far
    stack,      \* the states a depth-first search is in, the deepest last
    finished,   \* findCycles: the states in stateMap as visited
    cycles,     \* findCycles: the cycles closed so far
    verdict     \* what Validate returned

file == <<next, retryTo>>
breadth == <<reachable, waiting, todo>>
depth == <<checked, visited>>
loops == <<finished, cycles>>
configVars == <<file, phase, breadth, depth, stack, loops, verdict>>

Lists == UNION {{l \in [1..n -> States] : IsInjective(l)} : n \in 0..MaxOut}

ConfigInit ==
    /\ next \in [States -> Lists]
    /\ retryTo \in [States -> States \cup {NoState, Undefined}]
    /\ phase = "resolve"
    /\ reachable = {} /\ waiting = <<>> /\ todo = <<>>
    /\ checked = {} /\ visited = {} /\ stack = <<>>
    /\ finished = {} /\ cycles = {}
    /\ verdict = "none"

\* The implicit edges of auto_retry come last; an edge to itself is left out.
Graph ==
    [s \in States |-> IF retryTo[s] \in {NoState, s} THEN next[s]
                      ELSE Append(next[s], retryTo[s])]

GoTo(p) == phase' = p /\ UNCHANGED verdict
Finish(v) == phase' = "done" /\ verdict' = v

\* The edges are put together; a retry_to_state must be defined.
Resolve ==
    /\ phase = "resolve"
    /\ IF \E s \in States : retryTo[s] = Undefined
       THEN Finish("undefined") /\ UNCHANGED <<reachable, waiting>>
       ELSE /\ GoTo("reach")
            /\ reachable' = {InitialState} /\ waiting' = <<InitialState>>
    /\ UNCHANGED <<file, todo, depth, stack, loops>>

-----------------------------------------------------------------------------
(* reachableStates.                                                        *)

ReachState ==
    /\ phase = "reach" /\ todo = <<>> /\ waiting # <<>>
    /\ todo' = Graph[Head(waiting)]
    /\ waiting' = Tail(waiting)
    /\ UNCHANGED <<file, phase, reachable, depth, stack, loops, verdict>>

ReachEdge ==
    /\ phase = "reach" /\ todo # <<>>
    /\ todo' = Tail(todo)
    /\ IF Head(todo) \in reachable
       THEN UNCHANGED <<reachable, waiting>>
       ELSE /\ reachable' = reachable \cup {Head(todo)}
            /\ waiting' = Append(waiting, Head(todo))
    /\ UNCHANGED <<file, phase, depth, stack, loops, verdict>>

ReachDone ==
    /\ phase = "reach" /\ todo = <<>> /\ waiting = <<>>
    /\ IF reachable = States THEN GoTo("ends") ELSE Finish("unreachable")
    /\ UNCHANGED <<file, breadth, depth, stack, loops>>

-----------------------------------------------------------------------------
(* The stack of the depth-first searches.                                  *)

Frame(s) == [state |-> s, rest |-> Graph[s]]
Top == stack[Len(stack)]
Advanced == [stack EXCEPT ![Len(stack)].rest = Tail(@)]
Entered(s) == Append(Advanced, Frame(s))
Left == SubSeq(stack, 1, Len(stack) - 1)
OnStack == {stack[i].state : i \in DOMAIN stack}

-----------------------------------------------------------------------------
(* canReachTerminal.                                                       *)

BeginSearch ==
    /\ phase = "ends" /\ stack = <<>>
    /\ \E s \in States \ (Terminal \cup checked) :
         visited' = {s} /\ stack' = <<Frame(s)>>
    /\ UNCHANGED <<file, phase, breadth, checked, loops, verdict>>

\* A terminal state ends the search: every call under way returns TRUE.
SearchEdge ==
    /\ phase = "ends" /\ stack # <<>> /\ Top.rest # <<>>
    /\ LET n == Head(Top.rest)
       IN  \/ /\ n \in visited
              /\ stack' = Advanced
              /\ UNCHANGED <<visited, checked>>
           \/ /\ n \notin visited /\ n \in Terminal
              /\ stack' = <<>>
              /\ checked' = checked \cup {stack[1].state}
              /\ UNCHANGED visited
           \/ /\ n \notin visited /\ n \notin Terminal
              /\ stack' = Entered(n)
              /\ visited' = visited \cup {n}
              /\ UNCHANGED checked
    /\ UNCHANGED <<file, phase, breadth, loops, verdict>>

\* Mutant of SearchReturn: the first call that finds nothing decides.
SearchReturnDecides ==
    /\ phase = "ends" /\ stack # <<>> /\ Top.rest = <<>>
    /\ stack' = Left
    /\ Finish("dead end")
    /\ UNCHANGED <<file, breadth, depth, loops>>

\* A call returns FALSE; the first one's answer is Validate's.
SearchReturn ==
    /\ phase = "ends" /\ stack # <<>> /\ Top.rest = <<>>
    /\ stack' = Left
    /\ IF Len(stack) = 1 THEN Finish("dead end") ELSE UNCHANGED <<phase, verdict>>
    /\ UNCHANGED <<file, breadth, depth, loops>>

SearchDone ==
    /\ phase = "ends" /\ stack = <<>> /\ States \subseteq Terminal \cup checked
    /\ GoTo("loops")
    /\ stack' = <<Frame(InitialState)>>
    /\ UNCHANGED <<file, breadth, depth, loops>>

-----------------------------------------------------------------------------
(* findCycles.  A cycle is its set of states: normalizeCycle and           *)
(* uniqueCycles drop copies of the same list.                              *)

\* The states of the stack from s on.
From(s) == {stack[k].state : k \in {j \in DOMAIN stack :
                \E i \in 1..j : stack[i].state = s}}

\* An edge back to a state on the stack closes a cycle, an edge to a finished
\* state is not followed.
CycleEdge ==
    /\ phase = "loops" /\ stack # <<>> /\ Top.rest # <<>>
    /\ LET n == Head(Top.rest)
       IN  \/ /\ n \in OnStack
              /\ stack' = Advanced
              /\ cycles' = cycles \cup {From(n)}
           \/ /\ n \notin OnStack /\ n \in finished
              /\ stack' = Advanced
              /\ UNCHANGED cycles
           \/ /\ n \notin OnStack /\ n \notin finished
              /\ stack' = Entered(n)
              /\ UNCHANGED cycles
    /\ UNCHANGED <<file, phase, breadth, depth, finished, verdict>>

CycleReturn ==
    /\ phase = "loops" /\ stack # <<>> /\ Top.rest = <<>>
    /\ stack' = Left
    /\ finished' = finished \cup {Top.state}
    /\ UNCHANGED <<file, phase, breadth, depth, cycles, verdict>>

\* Mutant of infiniteLoops: only the cycles through the initial state.
infiniteLoopsAtStart == {c \in cycles : c \cap Terminal = {} /\ InitialState \in c}

\* A cycle counts when none of its states is terminal.
infiniteLoops == {c \in cycles : c \cap Terminal = {}}

CycleDone ==
    /\ phase = "loops" /\ stack = <<>>
    /\ Finish(IF infiniteLoops # {} THEN "loop" ELSE "ok")
    /\ UNCHANGED <<file, breadth, depth, stack, loops>>

Returned == phase = "done" /\ UNCHANGED configVars

-----------------------------------------------------------------------------
ConfigNext ==
    \/ Resolve
    \/ ReachState \/ ReachEdge \/ ReachDone
    \/ BeginSearch \/ SearchEdge \/ SearchReturn \/ SearchDone
    \/ CycleEdge \/ CycleReturn \/ CycleDone
    \/ Returned

ConfigSpec == ConfigInit /\ [][ConfigNext]_configVars

-----------------------------------------------------------------------------
(* References: what the searches should find, without searching.           *)

Edges == {e \in States \X States : e[2] \in Range(Graph[e[1]])}
Closed(S) == \A e \in Edges : e[1] \in S => e[2] \in S

AllReachable == \A S \in SUBSET States : InitialState \in S /\ Closed(S) => S = States

\* A set of states that a task cannot leave and that has no terminal state.
HasTrap == \E S \in SUBSET (States \ Terminal) : S # {} /\ Closed(S)

\* A task can move for ever among states that are not terminal.
HasLoop == \E S \in SUBSET (States \ Terminal) :
             S # {} /\ \A s \in S : \E n \in S : <<s, n>> \in Edges

\* No transition and no retry leads out of a terminal state.
TerminalsAreFinal == \A e \in Edges : e[1] \notin Terminal

\* Validate refuses for unreachable states exactly when there are some, and
\* otherwise for a dead end exactly when a task could be caught in one.
SearchesAreRight ==
    verdict \notin {"none", "undefined"} =>
        /\ verdict = "unreachable" <=> ~AllReachable
        /\ AllReachable => (verdict = "dead end" <=> HasTrap)

\* Validate refuses no configuration for a loop that is not there, and finds
\* every infinite loop as long as nothing leads out of a terminal state.  (Its
\* depth-first search does not follow edges to finished states, so a loop can
\* hide behind a cycle through a terminal state that is retried.)
LoopsAreFound ==
    /\ verdict = "loop" => HasLoop
    /\ verdict = "ok" /\ TerminalsAreFinal => ~HasLoop

=============================================================================
