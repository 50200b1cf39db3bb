--------------------------- MODULE PoliciesProofs ---------------------------
(***************************************************************************)
(* Proofs about Policies, for every number of policies, bodies, requests   *)
(* and parallel evaluations, and any size of the queue.                    *)
(*                                                                         *)
(* A request writes the store and then the programs.  What holds between   *)
(* the two is the key: as long as no other request wrote in between, the   *)
(* stored policy is the one that the request carries (WrittenIsStored), so *)
(* that what it compiles at the end is the program of what is stored.      *)
(*                                                                         *)
(* In memory the version of a policy only grows as long as it is not       *)
(* removed: what EnablePolicy and DisablePolicy have read is either still  *)
(* there, in its version, or overwritten, in a later one (ReadIsDated).    *)
(***************************************************************************)
EXTENDS Policies, TLAPS

\* A request under way is about a policy, and carries one when it writes.
ReqFormed ==
    \A r \in Requests :
        /\ req[r].pc # "idle" <=> req[r].id \in Ids
        /\ req[r].pc = "get" => req[r].op \in {"enable", "disable"}
        /\ req[r].pc = "create" => req[r].op = "add"
        /\ req[r].pc = "update" => req[r].op # "add"
        /\ req[r].pc \in {"create", "update", "set", "compile"} =>
             req[r].new \in Policy /\ req[r].new.ver < MaxVersion

\* Only the database compares and writes in two steps.
SetIsDB == \A r \in Requests : req[r].pc = "set" => kind = "db"

\* Only a switch that has read its policy can be outdated.
SinceIsRead ==
    \A r \in Requests : since[r] # "same" =>
        req[r].pc \in {"update", "set"} /\ req[r].op \in {"enable", "disable"}

\* In memory the versions tell whether it is, unless the policy was removed.
ReadIsDated ==
    kind = "memory" =>
        \A r \in Requests :
            /\ req[r].pc = "update" /\ req[r].op \in {"enable", "disable"}
            /\ since[r] # "renewed"
            => /\ store[req[r].id] # Nothing
               /\ store[req[r].id].ver >= req[r].new.ver
               /\ since[r] = "written" => store[req[r].id].ver > req[r].new.ver

\* What a request has written is still stored when it compiles.
WrittenIsStored ==
    \A r \in Requests : req[r].pc = "compile" /\ req[r].id \notin raced =>
        /\ store[req[r].id] # Nothing
        /\ store[req[r].id].body = req[r].new.body
        /\ store[req[r].id].on = req[r].new.on

Compiling(i) == \E r \in Requests : req[r].pc = "compile" /\ req[r].id = i

\* The cache follows the store as soon as nobody is between the two.
CachedIsStored ==
    up => \A i \in Ids \ raced : ~Compiling(i) => programs[i] = Reloaded(store, unread)[i]

Untouched(i) == \A r \in Requests : req[r].id # i

Off(i) == store[i] = Nothing \/ ~store[i].on

\* A policy that was switched off is off as long as no request comes for it.
QuietIsOff == \A i \in quiet \cup hush : Untouched(i) /\ Off(i)

\* Match never gets as far as evaluating one.
HushIsUnlisted == \A i \in hush : ev[i].pc \in {"none", "get"}

\* During a match the policies that requests are about are known.
TouchedIsKnown == mpc # "idle" => \A r \in Requests : req[r].id \in Ids => req[r].id \in touched

\* What Match has listed is what is stored, if nobody wrote since.
ListedIsStored ==
    \A i \in Ids \ (touched \cup raced) : ev[i].pc \in {"todo", "run"} =>
        store[i] # Nothing /\ store[i].body = ev[i].body

\* The phases of Match.
Phases ==
    /\ mpc = "idle" => \A i \in Ids : ev[i].pc = "none"
    /\ mpc = "publish" => \A i \in Ids : ev[i].pc \in {"none", "done"}

\* The inductive invariant.
PInv ==
    /\ TypeOK /\ ReqFormed /\ SetIsDB /\ SinceIsRead /\ ReadIsDated /\ ConflictIsRefused
    /\ WrittenIsStored /\ CachedIsStored /\ QuietIsOff /\ HushIsUnlisted
    /\ TouchedIsKnown /\ ListedIsStored /\ Phases /\ MatchIsOneBody

-----------------------------------------------------------------------------
(* The steps of a request, reduced to what they do to it.                  *)

\* A request arrives.
Arrives(r) ==
    \E op \in {"add", "put", "enable", "disable", "remove"},
       i \in Ids, pc \in {"get", "create", "update", "remove"}, p \in Policy \cup {Nothing} :
        /\ pc \in {"create", "update"} => p \in Policy /\ p.ver < MaxVersion
        /\ pc = "get" => op \in {"enable", "disable"}
        /\ pc = "create" => op = "add"
        /\ pc = "update" => op = "put"
        /\ Begin(r, op, i, pc, p)

\* It moves on without a write: it is answered, has read the policy it will
\* change, or has compared the versions.
Moves(r) ==
    /\ UNCHANGED <<kind, store, programs, matchVars, unread, clobbered, quiet, hush, touched>>
    /\ \/ /\ req[r].pc # "compile" /\ Return(r) /\ UNCHANGED raced
          /\ \/ since' = [since EXCEPT ![r] = "same"]
             \/ req[r].pc \in {"get", "remove"} /\ UNCHANGED since
       \/ /\ req[r].pc = "get" /\ UNCHANGED <<raced, since>>
          /\ \E p \in Policy : /\ p.ver < MaxVersion
                               /\ store[req[r].id] # Nothing /\ p.ver = store[req[r].id].ver
                               /\ req' = [req EXCEPT ![r].pc = "update", ![r].new = p]
       \/ /\ req[r].pc \in {"create", "update"} /\ kind = "db"
          /\ Goto(r, "set") /\ Race(r) /\ UNCHANGED since

\* It writes the policy it carries, in one version or another.
Writes(r) ==
    /\ req[r].pc \in {"create", "update", "set"}
    /\ \E p \in Policy : /\ p.body = req[r].new.body /\ p.on = req[r].new.on
                         /\ store' = [store EXCEPT ![req[r].id] = p]
                         /\ kind = "memory" /\ store[req[r].id] # Nothing =>
                              req[r].pc = "set" \/ p.ver > store[req[r].id].ver
    /\ Goto(r, "compile") /\ Mark(r) /\ Outdate(r, "written")
    /\ UNCHANGED <<kind, programs, matchVars, unread, quiet, hush, touched>>
    /\ clobbered' \in SUBSET Ids
    /\ clobbered' # clobbered => req[r].pc = "set" \/ since[r] = "written"
    /\ kind = "memory" /\ req[r].pc = "update" => ~Conflict(r)

Removes(r) ==
    /\ req[r].pc = "remove"
    /\ store' = [store EXCEPT ![req[r].id] = Nothing]
    /\ programs' = [programs EXCEPT ![req[r].id] = Nothing]
    /\ unread' = unread \ {req[r].id}
    /\ Mark(r) /\ Outdate(r, "renewed") /\ Silenced(r, FALSE)
    /\ Return(r)
    /\ UNCHANGED <<kind, matchVars, clobbered, hush, touched>>

LEMMA ArriveIs ==
    ASSUME TypeOK, NEW r \in Requests, Arrive(r)
    PROVE  Arrives(r)
<1>1. PICK i \in Ids : \/ Remove(r, i) \/ Toggle(r, "enable", i) \/ Toggle(r, "disable", i)
                       \/ \E p \in Policy : Add(r, i, p) \/ Put(r, i, p)
  BY DEF Arrive
<1>2. CASE Remove(r, i)
  BY <1>2 DEF Remove, Arrives
<1>3. CASE Toggle(r, "enable", i) \/ Toggle(r, "disable", i)
  BY <1>3 DEF Toggle, Arrives
<1>4. CASE \E p \in Policy : Add(r, i, p) \/ Put(r, i, p)
  BY <1>4 DEF Add, Put, Arrives
<1> QED
  BY <1>1, <1>2, <1>3, <1>4

\* A policy in another version.
LEMMA Versioned ==
    ASSUME NEW p \in Policy, p.ver < MaxVersion, NEW v \in {1, p.ver, p.ver + 1}
    PROVE  /\ [p EXCEPT !.ver = v] \in Policy /\ [p EXCEPT !.ver = v].ver = v
           /\ [p EXCEPT !.ver = v].body = p.body /\ [p EXCEPT !.ver = v].on = p.on
BY PolicyAssumption DEF Policy, Versions

LEMMA Switched ==
    ASSUME NEW p \in Policy, NEW b \in BOOLEAN
    PROVE  [p EXCEPT !.on = b] \in Policy /\ [p EXCEPT !.on = b].ver = p.ver
BY DEF Policy

\* A write of one of these policies is one in the sense of Writes.
LEMMA WriteIs ==
    ASSUME TypeOK, ReqFormed, NEW r \in Requests, req[r].pc \in {"create", "update", "set"},
           NEW p \in Policy, p.body = req[r].new.body, p.on = req[r].new.on, Write(r, p),
           UNCHANGED <<kind, programs, matchVars, unread, quiet, hush, touched>>,
           req[r].pc = "create" => store[req[r].id] = Nothing,
           req[r].pc = "update" => ~Conflict(r) /\ p.ver > store[req[r].id].ver
    PROVE  Writes(r)
<1>1. req[r].id \in Ids
  BY DEF ReqFormed
<1>2. clobbered' \in SUBSET Ids
  BY <1>1 DEF Write, TypeOK
<1>3. clobbered' # clobbered => req[r].pc = "set" \/ since[r] = "written"
  BY DEF Write, ReqFormed
<1>4. store' = [store EXCEPT ![req[r].id] = p] /\ Goto(r, "compile") /\ Mark(r) /\ Outdate(r, "written")
  BY DEF Write
<1> QED
  BY <1>2, <1>3, <1>4 DEF Writes

LEMMA ServeIs ==
    ASSUME TypeOK, ReqFormed, NEW r \in Requests, Serve(r)
    PROVE  Moves(r) \/ Writes(r) \/ Removes(r) \/ Compile(r)
<1> DEFINE i == req[r].id
<1> DEFINE p == req[r].new
<1>1. /\ req[r].pc # "idle" => i \in Ids
      /\ req[r].pc \in {"create", "update", "set"} => p \in Policy /\ p.ver < MaxVersion
  BY DEF ReqFormed
<1>2. CASE Get(r)
  <2>1. CASE Return(r)
    BY <1>2, <2>1 DEF Get, Moves, At, historyVars
  <2>2. CASE /\ store[i] # Nothing /\ store[i].ver # MaxVersion
             /\ req' = [req EXCEPT ![r].pc = "update",
                           ![r].new = [store[i] EXCEPT !.on = (req[r].op = "enable")]]
    <3> DEFINE q == [store[i] EXCEPT !.on = (req[r].op = "enable")]
    <3>1. store[i] \in Policy
      BY <1>1, <1>2, <2>2 DEF TypeOK, Get, At
    <3>2. q \in Policy /\ q.ver = store[i].ver
      BY <3>1, Switched
    <3>4. store[i].ver < MaxVersion
      BY <2>2, <3>1, PolicyAssumption DEF Policy, Versions
    <3>3. req' = [req EXCEPT ![r].pc = "update", ![r].new = q]
      BY <2>2
    <3> HIDE DEF q
    <3> QED
      BY <1>2, <2>2, <3>2, <3>3, <3>4 DEF Get, Moves, At, historyVars
  <2> QED
    BY <1>2, <2>1, <2>2 DEF Get
<1>3. CASE Invalid(r) \/ SetFails(r)
  BY <1>3 DEF Invalid, SetFails, Moves, At, Refuse
<1>4. CASE CreateMemory(r)
  <2>1. CASE store[i] = Nothing
    <3> DEFINE q == [p EXCEPT !.ver = 1]
    <3>1. Write(r, q) /\ req[r].pc = "create"
      BY <1>4, <2>1 DEF CreateMemory, At
    <3>2. q \in Policy /\ q.body = p.body /\ q.on = p.on
      BY <1>1, <3>1, Versioned
    <3> HIDE DEF q
    <3> QED
      BY <1>4, <2>1, <3>1, <3>2, WriteIs DEF CreateMemory
  <2>2. CASE store[i] # Nothing
    BY <1>4, <2>2 DEF CreateMemory, Moves, At, Refuse
  <2> QED
    BY <2>1, <2>2
<1>5. CASE UpdateMemory(r)
  <2>1. CASE Conflict(r)
    BY <1>5, <2>1 DEF UpdateMemory, Moves, At, Refuse
  <2>2. CASE ~Conflict(r)
    <3> DEFINE q == NextVersion(p)
    <3>1. Write(r, q) /\ req[r].pc = "update"
      BY <1>5, <2>2 DEF UpdateMemory, At
    <3>2. q \in Policy /\ q.body = p.body /\ q.on = p.on /\ q.ver = p.ver + 1
      BY <1>1, <3>1, Versioned DEF NextVersion
    <3>3. p.ver = store[i].ver /\ p.ver \in Nat
      BY <1>1, <2>2, <3>1, PolicyAssumption DEF Conflict, Policy, Versions
    <3>4. q.ver > store[i].ver
      BY <3>2, <3>3
    <3> HIDE DEF q
    <3> QED
      BY <1>5, <2>2, <3>1, <3>2, <3>4, WriteIs DEF UpdateMemory
  <2> QED
    BY <2>1, <2>2
<1>6. CASE CheckDB(r)
  BY <1>6 DEF CheckDB, Moves, At, Refuse
<1>7. CASE Set(r)
  <2> DEFINE q == IF req[r].op = "add" THEN p ELSE NextVersion(p)
  <2>1. q \in Policy /\ q.body = p.body /\ q.on = p.on
    BY <1>1, <1>7, Versioned DEF Set, At, NextVersion
  <2>2. Write(r, q) /\ req[r].pc = "set"
    BY <1>7 DEF Set, At
  <2> HIDE DEF q
  <2> QED
    BY <1>7, <2>1, <2>2, WriteIs DEF Set
<1>8. CASE Delete(r)
  BY <1>8 DEF Delete, Removes, Moves, At
<1> QED
  BY <1>2, <1>3, <1>4, <1>5, <1>6, <1>7, <1>8 DEF Serve

\* A step of Match that is not its begin or its end.
Matches(i) == Fetch(i) \/ Spawn(i) \/ Evaluate(i) \/ Publish(i)

\* Every step is one of these.
LEMMA StepIs ==
    ASSUME TypeOK, ReqFormed, [Next]_vars
    PROVE  \/ UNCHANGED vars
           \/ Cancel
           \/ Restart
           \/ /\ up /\ UNCHANGED <<up, ctxDone>>
              /\ \/ \E r \in Requests : Arrives(r) \/ Moves(r) \/ Writes(r) \/ Removes(r) \/ Compile(r)
                 \/ BeginMatch \/ MatchCancelled \/ EndMatch \/ EndEvent \/ Handle
                 \/ \E i \in Ids : Matches(i)
BY ArriveIs, ServeIs DEF Next, Match, Matches

-----------------------------------------------------------------------------
(* Types.                                                                  *)

Evals == [pc : {"none", "get", "todo", "run", "done"},
          body : Bodies \cup {Nothing}, prog : Bodies \cup {Nothing}]
Reqs == [pc : {"idle", "get", "create", "update", "set", "compile", "remove"},
         op : {"none", "add", "put", "enable", "disable", "remove"},
         id : Ids \cup {Nothing}, new : Policy \cup {Nothing}]

LEMMA ListedTyped ==
    ASSUME TypeOK
    PROVE  Listed \in [Ids -> Evals] /\ NoEval \in Evals /\ NoEvals \in [Ids -> Evals]
BY DEF TypeOK, Listed, NoEval, NoEvals, Evals, Stored, Policy

LEMMA IdleTyped == Idle \in Reqs
BY DEF Idle, Reqs

LEMMA Sizes == QueueSize \in Nat \ {0} /\ MaxVersion \in Nat \ {0} /\ MaxEvals \in Nat \ {0}
BY PolicyAssumption

\* An empty queue, a match more, and a match less.
LEMMA QueueTyped ==
    ASSUME TypeOK
    PROVE  /\ <<>> \in Seq(Ids) /\ Len(<<>>) <= QueueSize
           /\ queue \in Seq(Ids) /\ Len(queue) <= QueueSize
           /\ queue # <<>> => Tail(queue) \in Seq(Ids) /\ Len(Tail(queue)) <= QueueSize
           /\ \A i \in Ids : Len(queue) < QueueSize =>
                 Append(queue, i) \in Seq(Ids) /\ Len(Append(queue, i)) <= QueueSize
<1>1. queue \in Seq(Ids) /\ Len(queue) <= QueueSize /\ Len(queue) \in Nat
  BY DEF TypeOK
<1> QED
  BY <1>1, Sizes

LEMMA InitTypes == Init => TypeOK /\ ReqFormed
<1> SUFFICES ASSUME Init PROVE TypeOK /\ ReqFormed
  OBVIOUS
<1>1. programs \in [Ids -> Bodies \cup {Nothing}]
  BY DEF Init, Reloaded, Program, Policy
<1>2. NoEvals \in [Ids -> Evals]
  BY DEF NoEvals, NoEval, Evals
<1>3. req \in [Requests -> Reqs] /\ ReqFormed
  BY IdleTyped, PolicyAssumption DEF Init, ReqFormed, Idle
<1>4. queue \in Seq(Ids) /\ Len(queue) <= QueueSize
  BY Sizes DEF Init
<1>5. /\ {raced, unread, clobbered, quiet, hush, touched} \subseteq SUBSET Ids
      /\ since \in [Requests -> {"same", "written", "renewed"}]
  BY DEF Init, LeftOut
<1> QED
  BY <1>1, <1>2, <1>3, <1>4, <1>5 DEF Init, TypeOK, Evals, Reqs

LEMMA TypeStep == TypeOK /\ ReqFormed /\ [Next]_vars => TypeOK' /\ ReqFormed'
<1> SUFFICES ASSUME TypeOK, ReqFormed, [Next]_vars PROVE TypeOK' /\ ReqFormed'
  OBVIOUS
<1>0. /\ req \in [Requests -> Reqs] /\ ev \in [Ids -> Evals]
      /\ raced \in SUBSET Ids /\ quiet \in SUBSET Ids /\ hush \in SUBSET Ids
      /\ touched \in SUBSET Ids /\ clobbered \in SUBSET Ids /\ unread \in SUBSET Ids
      /\ since \in [Requests -> {"same", "written", "renewed"}]
  BY DEF TypeOK, Reqs, Evals
<1>1. CASE UNCHANGED vars
  BY <1>1 DEF vars, writeVars, matchVars, historyVars, TypeOK, ReqFormed
<1>2. CASE Cancel
  BY <1>2 DEF Cancel, writeVars, matchVars, historyVars, TypeOK, ReqFormed
<1>3. CASE Restart
  <2>1. store' \in [Ids -> Policy \cup {Nothing}]
    BY <1>3 DEF Restart, TypeOK, Nowhere
  <2>2. programs' \in [Ids -> Bodies \cup {Nothing}]
    BY <1>3, <2>1 DEF Restart, Reloaded, Program, Policy, Nowhere
  <2>3. req' \in [Requests -> Reqs] /\ ev' \in [Ids -> Evals] /\ ReqFormed'
    BY <1>3, IdleTyped, ListedTyped, PolicyAssumption DEF Restart, ReqFormed, Idle
  <2>4. unread' \in SUBSET Ids /\ since' \in [Requests -> {"same", "written", "renewed"}]
    BY <1>3 DEF Restart, LeftOut
  <2>5. /\ kind' \in {"memory", "db"} /\ up' \in BOOLEAN /\ ctxDone' \in BOOLEAN
        /\ mpc' \in {"idle", "match", "publish"} /\ queue' \in Seq(Ids) /\ Len(queue') <= QueueSize
        /\ {raced', clobbered', quiet', hush', touched'} \subseteq SUBSET Ids
    BY <1>0, <1>3, QueueTyped DEF Restart, TypeOK
  <2> QED
    BY <2>1, <2>2, <2>3, <2>4, <2>5 DEF TypeOK, Reqs, Evals
<1>4. ASSUME NEW r \in Requests, Arrives(r), UNCHANGED <<up, ctxDone>> PROVE TypeOK' /\ ReqFormed'
  <2>1. PICK op \in {"add", "put", "enable", "disable", "remove"}, i \in Ids,
             pc \in {"get", "create", "update", "remove"}, p \in Policy \cup {Nothing} :
          /\ pc \in {"create", "update"} => p \in Policy /\ p.ver < MaxVersion
          /\ pc = "get" => op \in {"enable", "disable"}
          /\ pc = "create" => op = "add"
          /\ pc = "update" => op = "put"
          /\ Begin(r, op, i, pc, p)
    BY <1>4 DEF Arrives
  <2>2. req' = [req EXCEPT ![r] = [pc |-> pc, op |-> op, id |-> i, new |-> p]]
    BY <2>1 DEF Begin
  <2>3. req' \in [Requests -> Reqs]
    BY <1>0, <2>2 DEF Reqs
  <2>4. ReqFormed'
    BY <1>0, <2>1, <2>2 DEF ReqFormed
  <2> QED
    BY <1>0, <1>4, <2>1, <2>3, <2>4 DEF Begin, matchVars, TypeOK, Reqs, Evals
<1>5. ASSUME NEW r \in Requests, Return(r) PROVE req' \in [Requests -> Reqs] /\ ReqFormed'
  BY <1>0, <1>5, IdleTyped, PolicyAssumption DEF Return, ReqFormed, Idle
<1>6. ASSUME NEW r \in Requests, NEW pc \in {"set", "compile"}, Goto(r, pc),
             req[r].pc \in {"create", "update", "set"}
      PROVE  req' \in [Requests -> Reqs] /\ ReqFormed'
  BY <1>0, <1>6 DEF Goto, ReqFormed, Reqs
<1>7. ASSUME NEW r \in Requests, req[r].pc # "idle", Race(r) \/ Mark(r) PROVE raced' \in SUBSET Ids
  BY <1>0, <1>7 DEF Race, Mark, ReqFormed
<1>8. ASSUME NEW r \in Requests, Moves(r), UNCHANGED <<up, ctxDone>> PROVE TypeOK' /\ ReqFormed'
  <2>1. req' \in [Requests -> Reqs] /\ ReqFormed' /\ raced' \in SUBSET Ids
    <3>1. CASE Return(r) /\ UNCHANGED raced
      BY <1>0, <1>5, <3>1
    <3>2. CASE /\ req[r].pc = "get" /\ UNCHANGED raced
               /\ \E p \in Policy : /\ p.ver < MaxVersion
                                     /\ req' = [req EXCEPT ![r].pc = "update", ![r].new = p]
      <4>1. PICK p \in Policy : /\ p.ver < MaxVersion
                               /\ req' = [req EXCEPT ![r].pc = "update", ![r].new = p]
        BY <3>2
      <4>2. req[r] \in Reqs
        BY <1>0
      <4>3. req' = [req EXCEPT ![r] = [req[r] EXCEPT !.pc = "update", !.new = p]]
        BY <1>0, <4>1, <4>2 DEF Reqs
      <4>4. [req[r] EXCEPT !.pc = "update", !.new = p] \in Reqs
        BY <4>2 DEF Reqs
      <4>5. req' \in [Requests -> Reqs]
        BY <1>0, <4>3, <4>4
      <4>6. ReqFormed'
        BY <1>0, <3>2, <4>1, <4>2, <4>3 DEF ReqFormed, Reqs
      <4> QED
        BY <1>0, <3>2, <4>5, <4>6
    <3>3. CASE /\ req[r].pc \in {"create", "update"} /\ kind = "db"
               /\ Goto(r, "set") /\ Race(r)
      BY <1>6, <1>7, <3>3
    <3> QED
      BY <1>8, <3>1, <3>2, <3>3 DEF Moves
  <2>2. since' \in [Requests -> {"same", "written", "renewed"}]
    BY <1>0, <1>8 DEF Moves
  <2> QED
    BY <1>8, <2>1, <2>2 DEF Moves, matchVars, TypeOK, Reqs, Evals
<1>15. ASSUME NEW r \in Requests, NEW what \in {"written", "renewed"}, Outdate(r, what)
       PROVE  since' \in [Requests -> {"same", "written", "renewed"}]
  BY <1>0, <1>15 DEF Outdate
<1>9. ASSUME NEW r \in Requests, Writes(r), UNCHANGED <<up, ctxDone>> PROVE TypeOK' /\ ReqFormed'
  <2>1. req' \in [Requests -> Reqs] /\ ReqFormed' /\ raced' \in SUBSET Ids
    BY <1>6, <1>7, <1>9 DEF Writes
  <2>2. store' \in [Ids -> Policy \cup {Nothing}]
    BY <1>9 DEF Writes, TypeOK
  <2>3. since' \in [Requests -> {"same", "written", "renewed"}]
    BY <1>9, <1>15 DEF Writes
  <2> QED
    BY <1>9, <2>1, <2>2, <2>3 DEF Writes, matchVars, TypeOK, Reqs, Evals
<1>10. ASSUME NEW r \in Requests, NEW on, Silenced(r, on), req[r].pc # "idle" PROVE quiet' \in SUBSET Ids
  BY <1>0, <1>10 DEF Silenced, ReqFormed
<1>11. ASSUME NEW r \in Requests, Removes(r), UNCHANGED <<up, ctxDone>> PROVE TypeOK' /\ ReqFormed'
  <2>1. /\ req' \in [Requests -> Reqs] /\ ReqFormed'
        /\ raced' \in SUBSET Ids /\ quiet' \in SUBSET Ids
    BY <1>5, <1>7, <1>10, <1>11 DEF Removes
  <2>2. store' \in [Ids -> Policy \cup {Nothing}] /\ programs' \in [Ids -> Bodies \cup {Nothing}]
    BY <1>11 DEF Removes, TypeOK
  <2>3. /\ since' \in [Requests -> {"same", "written", "renewed"}]
        /\ unread' \in SUBSET Ids
    BY <1>0, <1>11, <1>15 DEF Removes
  <2> QED
    BY <1>11, <2>1, <2>2, <2>3 DEF Removes, matchVars, TypeOK, Reqs, Evals
<1>12. ASSUME NEW r \in Requests, Compile(r), UNCHANGED <<up, ctxDone>> PROVE TypeOK' /\ ReqFormed'
  <2>1. req' \in [Requests -> Reqs] /\ ReqFormed' /\ quiet' \in SUBSET Ids
    BY <1>5, <1>10, <1>12 DEF Compile, At
  <2>2. programs' \in [Ids -> Bodies \cup {Nothing}]
    BY <1>12 DEF Compile, At, TypeOK, ReqFormed, Program, Policy
  <2>3. unread' \in SUBSET Ids
    BY <1>0, <1>12 DEF Compile
  <2> QED
    BY <1>12, <2>1, <2>2, <2>3 DEF Compile, matchVars, TypeOK, Reqs, Evals
<1>13. ASSUME UNCHANGED <<up, ctxDone>>,
              BeginMatch \/ MatchCancelled \/ EndMatch \/ EndEvent \/ Handle
       PROVE  TypeOK' /\ ReqFormed'
  <2>1. [i \in Ids |-> IF i \in Stored THEN [NoEval EXCEPT !.pc = "get"] ELSE NoEval] \in [Ids -> Evals]
    BY DEF NoEval, Evals
  <2>2. ev' \in [Ids -> Evals] /\ touched' \in SUBSET Ids /\ hush' \in SUBSET Ids
    BY <1>0, <1>13, <2>1, ListedTyped DEF BeginMatch, MatchCancelled, EndMatch, EndEvent, Handle, historyVars
  <2>3. queue' \in Seq(Ids) /\ Len(queue') <= QueueSize
    BY <1>13, QueueTyped DEF BeginMatch, MatchCancelled, EndMatch, EndEvent, Handle
  <2>4. ReqFormed'
    BY <1>13 DEF BeginMatch, MatchCancelled, EndMatch, EndEvent, Handle, writeVars, ReqFormed
  <2> QED
    BY <1>13, <2>2, <2>3, <2>4 DEF BeginMatch, MatchCancelled, EndMatch, EndEvent, Handle,
       writeVars, historyVars, TypeOK, Evals, Reqs
<1>14. ASSUME NEW i \in Ids, Matches(i), UNCHANGED <<up, ctxDone>> PROVE TypeOK' /\ ReqFormed'
  <2>1. ev' \in [Ids -> Evals]
    <3>1. CASE Fetch(i)
      BY <1>0, <3>1, ListedTyped DEF Fetch
    <3>2. CASE Spawn(i)
      BY <1>0, <3>2 DEF Spawn, Evals
    <3>3. CASE Evaluate(i)
      <4>1. programs[i] \in Bodies \cup {Nothing}
        BY DEF TypeOK
      <4>2. [ev[i] EXCEPT !.pc = "done", !.prog = programs[i]] \in Evals
        BY <1>0, <4>1 DEF Evals
      <4> QED
        BY <1>0, <3>3, <4>2, ListedTyped DEF Evaluate
    <3>4. CASE Publish(i)
      BY <1>0, <3>4, ListedTyped DEF Publish
    <3> QED
      BY <1>14, <3>1, <3>2, <3>3, <3>4 DEF Matches
  <2>2. queue' \in Seq(Ids) /\ Len(queue') <= QueueSize
    BY <1>14, QueueTyped DEF Matches, Fetch, Spawn, Evaluate, Publish
  <2>3. ReqFormed'
    BY <1>14 DEF Matches, Fetch, Spawn, Evaluate, Publish, writeVars, ReqFormed
  <2> QED
    BY <1>14, <2>1, <2>2, <2>3 DEF Matches, Fetch, Spawn, Evaluate, Publish,
       writeVars, historyVars, TypeOK, Evals, Reqs
<1> QED
  BY <1>1, <1>2, <1>3, <1>4, <1>8, <1>9, <1>11, <1>12, <1>13, <1>14, StepIs

-----------------------------------------------------------------------------
(* Init, and what a step leaves alone.                                     *)

LEMMA InitRest == Init => PInv
<1> SUFFICES ASSUME Init PROVE PInv
  OBVIOUS
<1>1. TypeOK /\ ReqFormed
  BY InitTypes
<1>2. \A r \in Requests : req[r].pc = "idle"
  BY DEF Init, Idle
<1>3. \A i \in Ids : ev[i].pc = "none"
  BY DEF Init, NoEvals, NoEval
<1>4. SetIsDB /\ SinceIsRead /\ ReadIsDated /\ WrittenIsStored /\ CachedIsStored
  BY <1>2 DEF Init, SetIsDB, SinceIsRead, ReadIsDated, WrittenIsStored, CachedIsStored
<1>5. QuietIsOff /\ HushIsUnlisted /\ TouchedIsKnown /\ ConflictIsRefused
  BY DEF Init, QuietIsOff, HushIsUnlisted, TouchedIsKnown, ConflictIsRefused
<1>6. ListedIsStored /\ Phases /\ MatchIsOneBody
  BY <1>3 DEF Init, ListedIsStored, Phases, MatchIsOneBody, InEv
<1> QED
  BY <1>1, <1>4, <1>5, <1>6 DEF PInv

\* The steps of Match and of the handler do not write.
MatchStep == BeginMatch \/ MatchCancelled \/ EndMatch \/ EndEvent \/ Handle \/ \E i \in Ids : Matches(i)

LEMMA MatchOnlyReads ==
    MatchStep => UNCHANGED <<kind, store, programs, req, raced, unread, since, clobbered, quiet>>
BY DEF MatchStep, Matches, BeginMatch, MatchCancelled, EndMatch, EndEvent, Handle,
   Fetch, Spawn, Evaluate, Publish, writeVars, historyVars

\* What a step of a request does to the requests.
LEMMA ReturnIs ==
    ASSUME TypeOK, NEW r \in Requests, Return(r)
    PROVE  /\ \A s \in Requests \ {r} : req'[s] = req[s]
           /\ req'[r].id = Nothing /\ req'[r].pc = "idle"
BY DEF TypeOK, Return, Idle

LEMMA GotoIs ==
    ASSUME TypeOK, NEW r \in Requests, NEW pc, Goto(r, pc)
    PROVE  /\ \A s \in Requests \ {r} : req'[s] = req[s]
           /\ req'[r].id = req[r].id /\ req'[r].new = req[r].new /\ req'[r].op = req[r].op
           /\ req'[r].pc = pc
<1>0. req \in [Requests -> Reqs]
  BY DEF TypeOK, Reqs
<1> QED
  BY <1>0 DEF Goto, Reqs

LEMMA MovesIs ==
    ASSUME TypeOK, NEW r \in Requests, Moves(r)
    PROVE  /\ \A s \in Requests \ {r} : req'[s] = req[s]
           /\ req'[r].id \in {req[r].id, Nothing}
           /\ req[r].pc # "compile" /\ req'[r].pc # "compile"
           /\ req'[r].pc = "set" => kind = "db"
           /\ raced \subseteq raced'
           /\ UNCHANGED <<kind, store, programs, unread, clobbered>>
<1>0. req \in [Requests -> Reqs]
  BY DEF TypeOK, Reqs
<1>5. UNCHANGED <<kind, store, programs, unread, clobbered>>
  BY DEF Moves
<1>1. CASE req[r].pc # "compile" /\ Return(r) /\ UNCHANGED raced
  BY <1>1, <1>5, ReturnIs
<1>2. ASSUME NEW p, req[r].pc = "get", UNCHANGED raced,
             req' = [req EXCEPT ![r].pc = "update", ![r].new = p]
      PROVE  /\ \A s \in Requests \ {r} : req'[s] = req[s]
             /\ req'[r].id = req[r].id /\ req'[r].pc = "update"
  BY <1>0, <1>2 DEF Reqs
<1>3. CASE req[r].pc \in {"create", "update"} /\ Goto(r, "set") /\ Race(r) /\ kind = "db"
  <2>1. /\ \A s \in Requests \ {r} : req'[s] = req[s]
        /\ req'[r].id = req[r].id /\ req'[r].pc = "set"
    BY <1>3, GotoIs
  <2>2. raced \subseteq raced'
    BY <1>3 DEF Race
  <2> QED
    BY <1>3, <1>5, <2>1, <2>2
<1>4. CASE /\ req[r].pc = "get" /\ UNCHANGED raced
           /\ \E p \in Policy : req' = [req EXCEPT ![r].pc = "update", ![r].new = p]
  BY <1>2, <1>4, <1>5
<1> QED
  BY <1>1, <1>3, <1>4 DEF Moves

\* What a write, and a removal, do to the store, and who counts as racing.
LEMMA WritesIs ==
    ASSUME TypeOK, ReqFormed, NEW r \in Requests, Writes(r)
    PROVE  /\ req[r].id \in Ids /\ req[r].pc # "compile"
           /\ \A s \in Requests \ {r} : req'[s] = req[s]
           /\ req'[r].id = req[r].id /\ req'[r].new = req[r].new /\ req'[r].pc = "compile"
           /\ store'[req[r].id] \in Policy /\ store'[req[r].id] # Nothing
           /\ store'[req[r].id].body = req[r].new.body /\ store'[req[r].id].on = req[r].new.on
           /\ \A i \in Ids \ {req[r].id} : store'[i] = store[i]
           /\ \A i : i # req[r].id => (i \in raced' <=> i \in raced)
           /\ req[r].id \in raced' <=> \E s \in Requests \ {r} : Writing(s, req[r].id)
           /\ UNCHANGED <<kind, programs, unread, mpc, ev, queue, quiet, hush, touched>>
<1>1. req[r].id \in Ids /\ req[r].pc # "compile"
  BY DEF Writes, ReqFormed
<1>2. /\ \A s \in Requests \ {r} : req'[s] = req[s]
      /\ req'[r].id = req[r].id /\ req'[r].new = req[r].new /\ req'[r].pc = "compile"
  BY GotoIs DEF Writes
<1>3. PICK p \in Policy : /\ p.body = req[r].new.body /\ p.on = req[r].new.on
                          /\ store' = [store EXCEPT ![req[r].id] = p]
  BY DEF Writes
<1>4. store'[req[r].id] = p /\ \A i \in Ids \ {req[r].id} : store'[i] = store[i]
  BY <1>1, <1>3 DEF TypeOK
<1>5. p # Nothing
  BY PolicyAssumption
<1>6. /\ \A i : i # req[r].id => (i \in raced' <=> i \in raced)
      /\ req[r].id \in raced' <=> \E s \in Requests \ {r} : Writing(s, req[r].id)
  BY DEF Writes, Mark, Others
<1>7. UNCHANGED <<kind, programs, unread, mpc, ev, queue, quiet, hush, touched>>
  BY DEF Writes, matchVars
<1> QED
  BY <1>1, <1>2, <1>3, <1>4, <1>5, <1>6, <1>7

LEMMA RemovesIs ==
    ASSUME TypeOK, ReqFormed, NEW r \in Requests, Removes(r)
    PROVE  /\ req[r].id \in Ids /\ req[r].pc = "remove"
           /\ \A s \in Requests \ {r} : req'[s] = req[s]
           /\ req'[r].id = Nothing /\ req'[r].pc = "idle"
           /\ store'[req[r].id] = Nothing /\ programs'[req[r].id] = Nothing
           /\ \A i \in Ids \ {req[r].id} : store'[i] = store[i] /\ programs'[i] = programs[i]
           /\ \A i : i # req[r].id => (i \in raced' <=> i \in raced)
           /\ req[r].id \in raced' <=> \E s \in Requests \ {r} : Writing(s, req[r].id)
           /\ unread' = unread \ {req[r].id}
           /\ \A i \in quiet' : i \in quiet \/ /\ i = req[r].id
                                               /\ \A s \in Requests \ {r} : req[s].id # i
           /\ UNCHANGED <<kind, clobbered, mpc, ev, queue, hush, touched>>
<1>1. req[r].id \in Ids /\ req[r].pc = "remove"
  BY DEF Removes, ReqFormed
<1>2. /\ \A s \in Requests \ {r} : req'[s] = req[s]
      /\ req'[r].id = Nothing /\ req'[r].pc = "idle"
  BY ReturnIs DEF Removes
<1>3. /\ store'[req[r].id] = Nothing /\ programs'[req[r].id] = Nothing
      /\ \A i \in Ids \ {req[r].id} : store'[i] = store[i] /\ programs'[i] = programs[i]
  BY <1>1 DEF Removes, TypeOK
<1>4. /\ \A i : i # req[r].id => (i \in raced' <=> i \in raced)
      /\ req[r].id \in raced' <=> \E s \in Requests \ {r} : Writing(s, req[r].id)
  BY DEF Removes, Mark, Others
<1>5. \A i \in quiet' : i \in quiet \/ (i = req[r].id /\ \A s \in Requests \ {r} : req[s].id # i)
  BY DEF Removes, Silenced
<1>6. unread' = unread \ {req[r].id} /\ UNCHANGED <<kind, clobbered, mpc, ev, queue, hush, touched>>
  BY DEF Removes, matchVars
<1> QED
  BY <1>1, <1>2, <1>3, <1>4, <1>5, <1>6

LEMMA CompileIs ==
    ASSUME TypeOK, ReqFormed, NEW r \in Requests, Compile(r)
    PROVE  /\ req[r].id \in Ids /\ req[r].pc = "compile"
           /\ \A s \in Requests \ {r} : req'[s] = req[s]
           /\ req'[r].id = Nothing /\ req'[r].pc = "idle"
           /\ programs'[req[r].id] = req[r].new.body
           /\ \A i \in Ids \ {req[r].id} : programs'[i] = programs[i]
           /\ \A i \in quiet' : \/ i \in quiet
                                \/ /\ i = req[r].id /\ i \notin raced /\ ~req[r].new.on
                                   /\ \A s \in Requests \ {r} : req[s].id # i
           /\ unread' = unread \ {req[r].id}
           /\ UNCHANGED <<kind, store, raced, since, clobbered, mpc, ev, queue, hush, touched>>
<1>1. req[r].id \in Ids /\ req[r].pc = "compile"
  BY DEF Compile, At, ReqFormed
<1>2. /\ \A s \in Requests \ {r} : req'[s] = req[s]
      /\ req'[r].id = Nothing /\ req'[r].pc = "idle"
  BY ReturnIs DEF Compile
<1>3. /\ programs'[req[r].id] = req[r].new.body
      /\ \A i \in Ids \ {req[r].id} : programs'[i] = programs[i]
  BY <1>1 DEF Compile, TypeOK, Program
<1>4. \A i \in quiet' : \/ i \in quiet
                        \/ /\ i = req[r].id /\ i \notin raced /\ ~req[r].new.on
                           /\ \A s \in Requests \ {r} : req[s].id # i
  BY DEF Compile, Silenced
<1>5. /\ unread' = unread \ {req[r].id}
      /\ UNCHANGED <<kind, store, raced, since, clobbered, mpc, ev, queue, hush, touched>>
  BY DEF Compile, matchVars
<1> QED
  BY <1>1, <1>2, <1>3, <1>4, <1>5

LEMMA ArrivesIs ==
    ASSUME TypeOK, ReqFormed, NEW r \in Requests, Arrives(r)
    PROVE  \E i \in Ids :
           /\ req[r].pc = "idle" /\ req[r].id \notin Ids
           /\ \A s \in Requests \ {r} : req'[s] = req[s]
           /\ req'[r].id = i /\ req'[r].pc \notin {"idle", "set", "compile"}
           /\ req'[r].pc = "update" => req'[r].op = "put"
           /\ quiet' = quiet \ {i} /\ hush' = hush \ {i}
           /\ touched' = IF mpc = "idle" THEN {} ELSE touched \cup {i}
           /\ UNCHANGED <<kind, store, programs, mpc, ev, queue, raced, unread, since, clobbered>>
<1>1. PICK op \in {"add", "put", "enable", "disable", "remove"}, i \in Ids,
           pc \in {"get", "create", "update", "remove"}, p \in Policy \cup {Nothing} :
          (pc = "update" => op = "put") /\ Begin(r, op, i, pc, p)
  BY DEF Arrives
<1>2. req[r].pc = "idle" /\ req[r].id \notin Ids
  BY <1>1 DEF Begin, At, ReqFormed
<1>3. req' = [req EXCEPT ![r] = [pc |-> pc, op |-> op, id |-> i, new |-> p]]
  BY <1>1 DEF Begin
<1>4. /\ \A s \in Requests \ {r} : req'[s] = req[s]
      /\ req'[r].id = i /\ req'[r].pc = pc /\ req'[r].op = op
  BY <1>3 DEF TypeOK
<1> QED
  BY <1>1, <1>2, <1>4 DEF Begin, matchVars

-----------------------------------------------------------------------------
(* Every step keeps the invariant.                                         *)

\* Every step, with the steps of Match in one.
LEMMA Cases ==
    ASSUME PInv, [Next]_vars
    PROVE  \/ UNCHANGED vars \/ Cancel \/ Restart
           \/ /\ up /\ UNCHANGED up
              /\ \/ MatchStep
                 \/ \E r \in Requests : Arrives(r) \/ Moves(r) \/ Writes(r) \/ Removes(r) \/ Compile(r)
BY StepIs DEF PInv, MatchStep

LEMMA SetStep == PInv /\ [Next]_vars => SetIsDB' /\ ConflictIsRefused'
<1> SUFFICES ASSUME PInv, [Next]_vars PROVE SetIsDB' /\ ConflictIsRefused'
  OBVIOUS
<1> USE DEF PInv, SetIsDB, ConflictIsRefused
<1>1. CASE UNCHANGED vars \/ Cancel
  BY <1>1 DEF vars, Cancel, writeVars, historyVars
<1>2. CASE Restart
  BY <1>2 DEF Restart, Idle
<1>3. CASE MatchStep
  BY <1>3, MatchOnlyReads
<1>4. ASSUME NEW r \in Requests, Arrives(r) PROVE SetIsDB' /\ ConflictIsRefused'
  BY <1>4, ArrivesIs
<1>5. ASSUME NEW r \in Requests, Moves(r) PROVE SetIsDB' /\ ConflictIsRefused'
  <2>1. UNCHANGED <<kind, clobbered>>
    BY <1>5 DEF Moves
  <2> QED
    BY <1>5, <2>1, MovesIs
<1>6. ASSUME NEW r \in Requests, Writes(r) PROVE SetIsDB' /\ ConflictIsRefused'
  <2>1. clobbered' # clobbered => req[r].pc = "set" \/ since[r] = "written"
    BY <1>6 DEF Writes
  <2>2. kind = "memory" => since[r] # "written"
    <3>1. SUFFICES ASSUME kind = "memory", since[r] = "written" PROVE FALSE
      OBVIOUS
    <3>2. req[r].pc = "update" /\ req[r].op \in {"enable", "disable"}
      BY <3>1 DEF SinceIsRead
    <3>3. store[req[r].id] # Nothing /\ store[req[r].id].ver > req[r].new.ver
      BY <3>1, <3>2 DEF ReadIsDated
    <3>4. store[req[r].id].ver = req[r].new.ver
      BY <1>6, <3>1, <3>2, <3>3 DEF Writes, Conflict
    <3>5. req[r].new.ver \in Nat
      BY <3>2, PolicyAssumption DEF ReqFormed, Policy, Versions
    <3> QED
      BY <3>3, <3>4, <3>5
  <2>3. kind \in {"memory", "db"}
    BY DEF TypeOK
  <2> QED
    BY <1>6, <2>1, <2>2, <2>3, WritesIs
<1>7. ASSUME NEW r \in Requests, Removes(r) \/ Compile(r) PROVE SetIsDB' /\ ConflictIsRefused'
  BY <1>7, RemovesIs, CompileIs
<1> QED
  BY <1>1, <1>2, <1>3, <1>4, <1>5, <1>6, <1>7, Cases

\* Who is outdated after a write, or a removal.
LEMMA OutdateIs ==
    ASSUME TypeOK, NEW r \in Requests, NEW what, Outdate(r, what)
    PROVE  /\ since'[r] = "same"
           /\ \A s \in Requests \ {r} :
                since'[s] = IF s \in Holders(req[r].id) /\ since[s] # "renewed" THEN what ELSE since[s]
BY DEF Outdate, TypeOK

LEMMA SinceStep == PInv /\ [Next]_vars => SinceIsRead'
<1> SUFFICES ASSUME PInv, [Next]_vars PROVE SinceIsRead'
  OBVIOUS
<1> USE DEF PInv
<1>0. since \in [Requests -> {"same", "written", "renewed"}] /\ req \in [Requests -> Reqs]
  BY DEF TypeOK, Reqs
<1>1. CASE UNCHANGED vars \/ Cancel
  BY <1>1 DEF vars, Cancel, writeVars, historyVars, SinceIsRead
<1>2. CASE Restart
  BY <1>2 DEF Restart, SinceIsRead
<1>3. CASE MatchStep
  BY <1>3, MatchOnlyReads DEF SinceIsRead
<1>4. ASSUME NEW r \in Requests, Arrives(r) PROVE SinceIsRead'
  BY <1>4, ArrivesIs DEF SinceIsRead
<1>5. ASSUME NEW r \in Requests, Moves(r) PROVE SinceIsRead'
  <2>1. CASE Return(r)
    <3>1. since'[r] = "same" /\ \A s \in Requests \ {r} : since'[s] = since[s]
      <4>1. CASE since' = [since EXCEPT ![r] = "same"]
        BY <1>0, <4>1
      <4>2. CASE req[r].pc \in {"get", "remove"} /\ UNCHANGED since
        BY <4>2 DEF SinceIsRead
      <4>3. CASE UNCHANGED since /\ req'[r].pc # "idle"
        BY <2>1, <4>3, ReturnIs
      <4>4. since' = [since EXCEPT ![r] = "same"] \/ (req[r].pc \in {"get", "remove"} /\ UNCHANGED since)
            \/ (UNCHANGED since /\ req'[r].pc # "idle")
        BY <1>0, <1>5, GotoIs DEF Moves, Reqs
      <4> QED
        BY <4>1, <4>2, <4>3, <4>4
    <3> QED
      BY <2>1, <3>1, ReturnIs DEF SinceIsRead
  <2>2. CASE req[r].pc = "get" /\ UNCHANGED since /\ ~Return(r)
    BY <1>5, <2>2, MovesIs DEF SinceIsRead
  <2>3. CASE Goto(r, "set") /\ UNCHANGED since
    BY <2>3, GotoIs DEF SinceIsRead
  <2> QED
    BY <1>5, <2>1, <2>2, <2>3 DEF Moves
<1>6. ASSUME NEW r \in Requests, Writes(r) \/ Removes(r) PROVE SinceIsRead'
  <2>1. PICK what : Outdate(r, what)
    BY <1>6 DEF Writes, Removes
  <2>2. \A s \in Requests \ {r} : req'[s] = req[s]
    BY <1>6, WritesIs, RemovesIs
  <2> QED
    BY <2>1, <2>2, OutdateIs DEF SinceIsRead, Holders
<1>7. ASSUME NEW r \in Requests, Compile(r) PROVE SinceIsRead'
  BY <1>7, CompileIs DEF SinceIsRead
<1> QED
  BY <1>1, <1>2, <1>3, <1>4, <1>5, <1>6, <1>7, Cases

LEMMA ReadStep == PInv /\ [Next]_vars => ReadIsDated'
<1> SUFFICES ASSUME PInv, [Next]_vars PROVE ReadIsDated'
  OBVIOUS
<1> USE DEF PInv
<1>0. /\ since \in [Requests -> {"same", "written", "renewed"}] /\ req \in [Requests -> Reqs]
      /\ \A i \in Ids : store[i] # Nothing => store[i].ver \in Nat
      /\ \A r \in Requests : req[r].pc = "update" => req[r].id \in Ids /\ req[r].new.ver \in Nat
  BY PolicyAssumption DEF TypeOK, Reqs, ReqFormed, Policy, Versions
<1>1. CASE UNCHANGED vars \/ Cancel
  BY <1>1 DEF vars, Cancel, writeVars, historyVars, ReadIsDated
<1>2. CASE Restart
  BY <1>2 DEF Restart, Idle, ReadIsDated
<1>3. CASE MatchStep
  BY <1>3, MatchOnlyReads DEF ReadIsDated
<1>4. ASSUME NEW r \in Requests, Arrives(r) PROVE ReadIsDated'
  BY <1>4, ArrivesIs DEF ReadIsDated
<1>5. ASSUME NEW r \in Requests, Moves(r) PROVE ReadIsDated'
  <2>1. /\ UNCHANGED <<kind, store>>
        /\ \A s \in Requests \ {r} : req'[s] = req[s] /\ since'[s] = since[s]
    BY <1>0, <1>5, MovesIs DEF Moves
  <2>2. \/ req'[r].pc # "update"
        \/ /\ store[req'[r].id] # Nothing /\ req'[r].new.ver = store[req'[r].id].ver
           /\ since'[r] = "same" /\ req'[r].id \in Ids
    <3>1. CASE Return(r)
      BY <3>1, ReturnIs
    <3>2. CASE Goto(r, "set")
      BY <3>2, GotoIs
    <3>3. CASE /\ req[r].pc = "get" /\ UNCHANGED since
               /\ \E p \in Policy : /\ store[req[r].id] # Nothing /\ p.ver = store[req[r].id].ver
                                    /\ req' = [req EXCEPT ![r].pc = "update", ![r].new = p]
      <4>1. PICK p \in Policy : /\ store[req[r].id] # Nothing /\ p.ver = store[req[r].id].ver
                                /\ req' = [req EXCEPT ![r].pc = "update", ![r].new = p]
        BY <3>3
      <4>2. req'[r].id = req[r].id /\ req'[r].new = p
        BY <1>0, <4>1 DEF Reqs
      <4>3. since[r] = "same" /\ req[r].id \in Ids
        BY <3>3 DEF SinceIsRead, ReqFormed
      <4> QED
        BY <3>3, <4>1, <4>2, <4>3
    <3> QED
      BY <1>5, <3>1, <3>2, <3>3 DEF Moves
  <2>3. ASSUME NEW s \in Requests, kind = "memory",
               req'[s].pc = "update", req'[s].op \in {"enable", "disable"}, since'[s] # "renewed"
        PROVE  /\ store[req'[s].id] # Nothing
               /\ store[req'[s].id].ver >= req'[s].new.ver
               /\ since'[s] = "written" => store[req'[s].id].ver > req'[s].new.ver
    <3>1. CASE s # r
      BY <2>1, <2>3, <3>1 DEF ReadIsDated
    <3>2. CASE s = r
      BY <1>0, <2>2, <2>3, <3>2
    <3> QED
      BY <3>1, <3>2
  <2> QED
    BY <2>1, <2>3 DEF ReadIsDated
<1>6. ASSUME NEW r \in Requests, Writes(r), kind = "memory", NEW s \in Requests,
             req'[s].pc = "update", req'[s].op \in {"enable", "disable"}, since'[s] # "renewed"
      PROVE  /\ store'[req'[s].id] # Nothing
             /\ store'[req'[s].id].ver >= req'[s].new.ver
             /\ since'[s] = "written" => store'[req'[s].id].ver > req'[s].new.ver
  <2>1. s # r /\ req'[s] = req[s] /\ req[s].id \in Ids
    BY <1>0, <1>6, WritesIs
  <2>2. since'[s] = IF s \in Holders(req[r].id) /\ since[s] # "renewed" THEN "written" ELSE since[s]
    BY <1>6, <2>1, OutdateIs DEF Writes
  <2>3. since[s] # "renewed"
    BY <1>6, <2>2
  <2>4. /\ store[req[s].id] # Nothing /\ store[req[s].id].ver >= req[s].new.ver
        /\ since[s] = "written" => store[req[s].id].ver > req[s].new.ver
    BY <1>6, <2>1, <2>3 DEF ReadIsDated
  <2>5. CASE req[s].id # req[r].id
    <3>1. store'[req[s].id] = store[req[s].id] /\ since'[s] = since[s]
      BY <1>6, <2>1, <2>2, <2>5, WritesIs DEF Holders
    <3> QED
      BY <2>1, <2>4, <3>1
  <2>6. CASE req[s].id = req[r].id
    <3>1. store'[req[s].id].ver > store[req[s].id].ver /\ store'[req[s].id].ver \in Nat
      <4>1. PICK p \in Policy : /\ store' = [store EXCEPT ![req[r].id] = p]
                                /\ req[r].pc = "set" \/ p.ver > store[req[r].id].ver
        BY <1>6, <2>4, <2>6 DEF Writes
      <4>2. req[r].pc # "set"
        BY <1>6 DEF SetIsDB
      <4>3. store'[req[s].id] = p
        BY <2>1, <2>6, <4>1 DEF TypeOK
      <4> QED
        BY <2>6, <4>1, <4>2, <4>3, PolicyAssumption DEF Policy, Versions
    <3>2. store'[req[s].id].ver > req[s].new.ver
      BY <1>0, <1>6, <2>1, <2>4, <3>1
    <3>3. store'[req[s].id] # Nothing
      BY <1>6, <2>6, WritesIs
    <3> QED
      BY <1>0, <1>6, <2>1, <3>1, <3>2, <3>3
  <2> QED
    BY <2>5, <2>6
<1>7. ASSUME NEW r \in Requests, Removes(r), kind = "memory", NEW s \in Requests,
             req'[s].pc = "update", req'[s].op \in {"enable", "disable"}, since'[s] # "renewed"
      PROVE  /\ store'[req'[s].id] # Nothing
             /\ store'[req'[s].id].ver >= req'[s].new.ver
             /\ since'[s] = "written" => store'[req'[s].id].ver > req'[s].new.ver
  <2>1. s # r /\ req'[s] = req[s] /\ req[s].id \in Ids
    BY <1>0, <1>7, RemovesIs
  <2>2. since'[s] = IF s \in Holders(req[r].id) /\ since[s] # "renewed" THEN "renewed" ELSE since[s]
    BY <1>7, <2>1, OutdateIs DEF Removes
  <2>3. s \notin Holders(req[r].id) /\ since'[s] = since[s]
    BY <1>7, <2>2
  <2>4. req[s].id # req[r].id
    BY <1>7, <2>1, <2>3 DEF Holders
  <2>5. store'[req[s].id] = store[req[s].id]
    BY <1>7, <2>1, <2>4, RemovesIs
  <2> QED
    BY <1>7, <2>1, <2>3, <2>5 DEF ReadIsDated
<1>8. ASSUME NEW r \in Requests, Compile(r) PROVE ReadIsDated'
  BY <1>8, CompileIs DEF ReadIsDated
<1>9. (\E r \in Requests : Writes(r)) => ReadIsDated'
  BY <1>6, WritesIs DEF ReadIsDated
<1>10. (\E r \in Requests : Removes(r)) => ReadIsDated'
  BY <1>7, RemovesIs DEF ReadIsDated
<1> QED
  BY <1>1, <1>2, <1>3, <1>4, <1>5, <1>8, <1>9, <1>10, Cases

LEMMA WrittenStep == PInv /\ [Next]_vars => WrittenIsStored'
<1> SUFFICES ASSUME PInv, [Next]_vars PROVE WrittenIsStored'
  OBVIOUS
<1> USE DEF PInv
<1>1. CASE UNCHANGED vars \/ Cancel
  BY <1>1 DEF vars, Cancel, writeVars, historyVars, WrittenIsStored
<1>2. CASE Restart
  BY <1>2 DEF Restart, Idle, WrittenIsStored
<1>3. CASE MatchStep
  BY <1>3, MatchOnlyReads DEF WrittenIsStored
<1>4. ASSUME NEW r \in Requests, Arrives(r) PROVE WrittenIsStored'
  BY <1>4, ArrivesIs DEF WrittenIsStored
<1>5. ASSUME NEW r \in Requests, Moves(r) PROVE WrittenIsStored'
  <2>1. UNCHANGED store
    BY <1>5 DEF Moves
  <2> QED
    BY <1>5, <2>1, MovesIs DEF WrittenIsStored
<1>6. ASSUME NEW r \in Requests, Writes(r), NEW s \in Requests,
             req'[s].pc = "compile", req'[s].id \notin raced'
      PROVE  /\ store'[req'[s].id] # Nothing
             /\ store'[req'[s].id].body = req'[s].new.body
             /\ store'[req'[s].id].on = req'[s].new.on
  <2>1. CASE s = r
    BY <1>6, <2>1, WritesIs
  <2>2. CASE s # r
    <3>1. req'[s] = req[s] /\ req[s].id \in Ids
      BY <1>6, <2>2, WritesIs DEF ReqFormed
    <3>2. req[s].id # req[r].id
      BY <1>6, <2>2, <3>1, WritesIs DEF Writing
    <3>3. store'[req[s].id] = store[req[s].id] /\ req[s].id \notin raced
      BY <1>6, <3>1, <3>2, WritesIs
    <3> QED
      BY <1>6, <3>1, <3>3 DEF WrittenIsStored
  <2> QED
    BY <2>1, <2>2
<1>7. ASSUME NEW r \in Requests, Removes(r), NEW s \in Requests,
             req'[s].pc = "compile", req'[s].id \notin raced'
      PROVE  /\ store'[req'[s].id] # Nothing
             /\ store'[req'[s].id].body = req'[s].new.body
             /\ store'[req'[s].id].on = req'[s].new.on
  <2>1. s # r
    BY <1>7, RemovesIs
  <2>2. req'[s] = req[s] /\ req[s].id \in Ids
    BY <1>7, <2>1, RemovesIs DEF ReqFormed
  <2>3. req[s].id # req[r].id
    BY <1>7, <2>1, <2>2, RemovesIs DEF Writing
  <2>4. store'[req[s].id] = store[req[s].id] /\ req[s].id \notin raced
    BY <1>7, <2>2, <2>3, RemovesIs
  <2> QED
    BY <1>7, <2>2, <2>4 DEF WrittenIsStored
<1>8. ASSUME NEW r \in Requests, Compile(r) PROVE WrittenIsStored'
  BY <1>8, CompileIs DEF WrittenIsStored
<1>9. (\E r \in Requests : Writes(r)) => WrittenIsStored'
  BY <1>6 DEF WrittenIsStored
<1>10. (\E r \in Requests : Removes(r)) => WrittenIsStored'
  BY <1>7 DEF WrittenIsStored
<1> QED
  BY <1>1, <1>2, <1>3, <1>4, <1>5, <1>8, <1>9, <1>10, Cases

LEMMA CachedStep == PInv /\ [Next]_vars => CachedIsStored'
<1> SUFFICES ASSUME PInv, [Next]_vars PROVE CachedIsStored'
  OBVIOUS
<1> USE DEF PInv
<1>1. CASE UNCHANGED vars \/ Cancel
  BY <1>1 DEF vars, Cancel, writeVars, historyVars, CachedIsStored, Compiling, Reloaded
<1>2. CASE Restart
  <2>1. CASE ~up'
    BY <2>1 DEF CachedIsStored
  <2>2. CASE up'
    <3>1. programs' = Reloaded(store', unread')
      BY <1>2, <2>2 DEF Restart
    <3> QED
      BY <3>1 DEF CachedIsStored, Reloaded
  <2> QED
    BY <2>1, <2>2
<1>3. SUFFICES ASSUME up, NEW i \in Ids, i \notin raced', ~Compiling(i)',
                      \/ MatchStep
                      \/ \E r \in Requests : Arrives(r) \/ Moves(r) \/ Writes(r) \/ Removes(r) \/ Compile(r)
               PROVE  programs'[i] = Reloaded(store', unread')[i]
  BY <1>1, <1>2, Cases DEF CachedIsStored
<1>4. Reloaded(store, unread)[i] = IF store[i] = Nothing \/ i \in unread THEN Nothing ELSE store[i].body
  BY DEF Reloaded, Program
<1>5. Reloaded(store', unread')[i] = IF store'[i] = Nothing \/ i \in unread' THEN Nothing ELSE store'[i].body
  BY DEF Reloaded, Program
<1>6. i \notin raced /\ ~Compiling(i) => programs[i] = Reloaded(store, unread)[i]
  BY <1>3 DEF CachedIsStored
<1>7. CASE MatchStep
  BY <1>3, <1>4, <1>5, <1>6, <1>7, MatchOnlyReads DEF Compiling
<1>8. ASSUME NEW r \in Requests, Arrives(r) PROVE programs'[i] = Reloaded(store', unread')[i]
  <2>1. UNCHANGED <<store, programs, raced, unread>> /\ ~Compiling(i)
    BY <1>3, <1>8, ArrivesIs DEF Compiling
  <2> QED
    BY <1>3, <1>4, <1>5, <1>6, <2>1
<1>9. ASSUME NEW r \in Requests, Moves(r) PROVE programs'[i] = Reloaded(store', unread')[i]
  <2>1. UNCHANGED <<store, programs, unread>>
    BY <1>9 DEF Moves
  <2>2. i \notin raced /\ ~Compiling(i)
    BY <1>3, <1>9, MovesIs DEF Compiling
  <2> QED
    BY <1>4, <1>5, <1>6, <2>1, <2>2
<1>10. ASSUME NEW r \in Requests, Writes(r) PROVE programs'[i] = Reloaded(store', unread')[i]
  <2>1. i # req[r].id
    BY <1>3, <1>10, WritesIs DEF Compiling
  <2>2. i \notin raced /\ ~Compiling(i) /\ store'[i] = store[i] /\ UNCHANGED <<programs, unread>>
    BY <1>3, <1>10, <2>1, WritesIs DEF Compiling
  <2> QED
    BY <1>4, <1>5, <1>6, <2>2
<1>11. ASSUME NEW r \in Requests, Removes(r) PROVE programs'[i] = Reloaded(store', unread')[i]
  <2>1. CASE i = req[r].id
    BY <1>5, <1>11, <2>1, RemovesIs
  <2>2. CASE i # req[r].id
    <3>1. i \notin raced /\ ~Compiling(i) /\ store'[i] = store[i] /\ programs'[i] = programs[i]
          /\ (i \in unread' <=> i \in unread)
      BY <1>3, <1>11, <2>2, RemovesIs DEF Compiling
    <3> QED
      BY <1>4, <1>5, <1>6, <3>1
  <2> QED
    BY <2>1, <2>2
<1>12. ASSUME NEW r \in Requests, Compile(r) PROVE programs'[i] = Reloaded(store', unread')[i]
  <2>0. i \notin raced /\ store' = store /\ unread' = unread \ {req[r].id}
    BY <1>3, <1>12, CompileIs
  <2>1. CASE i = req[r].id
    <3>1. programs'[i] = req[r].new.body /\ req[r].pc = "compile"
      BY <1>12, <2>1, CompileIs
    <3>2. store[i] # Nothing /\ store[i].body = req[r].new.body
      BY <2>0, <2>1, <3>1 DEF WrittenIsStored
    <3>3. i \notin unread'
      BY <2>0, <2>1
    <3> QED
      BY <1>5, <2>0, <3>1, <3>2, <3>3
  <2>2. CASE i # req[r].id
    <3>2. i \in unread' <=> i \in unread
      BY <2>0, <2>2
    <3>1. ~Compiling(i) /\ programs'[i] = programs[i]
      BY <1>3, <1>12, <2>2, CompileIs DEF Compiling
    <3> QED
      BY <1>4, <1>5, <1>6, <2>0, <3>1, <3>2
  <2> QED
    BY <2>1, <2>2
<1> QED
  BY <1>3, <1>7, <1>8, <1>9, <1>10, <1>11, <1>12

\* What the steps of Match do to the policies it has listed.
LEMMA ListedIs ==
    ASSUME NEW i \in Ids
    PROVE  /\ Listed[i].pc \in {"none", "todo"}
           /\ Listed[i].pc = "todo" => store[i] # Nothing /\ store[i].on /\ Listed[i].body = store[i].body
BY DEF Listed, NoEval, Stored

LEMMA MatchesIs ==
    ASSUME TypeOK, NEW i \in Ids, Matches(i)
    PROVE  /\ \A j \in Ids \ {i} : ev'[j] = ev[j]
           /\ \/ ev'[i].pc = "none"
              \/ ev[i].pc = "get" /\ ev'[i] = Listed[i]
              \/ ev[i].pc = "todo" /\ ev'[i].pc = "run" /\ ev'[i].body = ev[i].body
              \/ /\ ev[i].pc = "run" /\ ev'[i].pc = "done"
                 /\ ev'[i].body = ev[i].body /\ ev'[i].prog = programs[i] /\ programs[i] # Nothing
           /\ UNCHANGED <<mpc, hush, touched>>
<1>0. ev \in [Ids -> Evals] /\ ev[i] \in Evals
  BY DEF TypeOK, Evals
<1>1. CASE Fetch(i)
  <2>1. PICK e \in {Listed[i], NoEval} : ev' = [ev EXCEPT ![i] = e]
    BY <1>1 DEF Fetch
  <2>2. NoEval.pc = "none"
    BY DEF NoEval
  <2> QED
    BY <1>0, <1>1, <2>1, <2>2 DEF Fetch, historyVars
<1>2. CASE Spawn(i)
  BY <1>0, <1>2 DEF Spawn, historyVars, Evals
<1>3. CASE Evaluate(i)
  <2>1. PICK b \in BOOLEAN :
          /\ b => programs[i] # Nothing
          /\ ev' = [ev EXCEPT ![i] = IF b THEN [@ EXCEPT !.pc = "done", !.prog = programs[i]] ELSE NoEval]
    BY <1>3 DEF Evaluate, EvaluateWithCtx
  <2>2. UNCHANGED <<mpc, hush, touched>> /\ ev[i].pc = "run"
    BY <1>3 DEF Evaluate, historyVars
  <2>3. CASE b
    BY <1>0, <2>1, <2>2, <2>3 DEF Evals
  <2>4. CASE ~b
    BY <1>0, <2>1, <2>2, <2>4 DEF Evals, NoEval
  <2> QED
    BY <2>3, <2>4
<1>4. CASE Publish(i)
  BY <1>0, <1>4 DEF Publish, historyVars, NoEval
<1> QED
  BY <1>1, <1>2, <1>3, <1>4 DEF Matches

LEMMA QuietStep == PInv /\ [Next]_vars => QuietIsOff' /\ HushIsUnlisted'
<1> SUFFICES ASSUME PInv, [Next]_vars PROVE QuietIsOff' /\ HushIsUnlisted'
  OBVIOUS
<1> USE DEF PInv
<1>0. quiet \subseteq Ids /\ hush \subseteq Ids
  BY DEF TypeOK
<1>1. CASE UNCHANGED vars \/ Cancel
  BY <1>1 DEF vars, Cancel, writeVars, matchVars, historyVars, QuietIsOff, HushIsUnlisted, Untouched, Off
<1>2. CASE Restart
  BY <1>2 DEF Restart, QuietIsOff, HushIsUnlisted
<1>3. CASE MatchStep
  <2>1. UNCHANGED <<kind, store, programs, req, raced, unread, clobbered, quiet>>
    BY <1>3, MatchOnlyReads
  <2>2. CASE BeginMatch
    <3>1. hush' = quiet
      BY <2>2 DEF BeginMatch
    <3>2. \A i \in quiet : ev'[i].pc \in {"none", "get"}
      <4>1. SUFFICES ASSUME NEW i \in quiet PROVE ev'[i].pc \in {"none", "get"}
        OBVIOUS
      <4>2. i \in Ids /\ Off(i)
        BY <1>0 DEF QuietIsOff
      <4>3. CASE ev' = Listed
        BY <4>2, <4>3, ListedIs DEF Off
      <4>4. CASE ev' = [j \in Ids |-> IF j \in Stored THEN [NoEval EXCEPT !.pc = "get"] ELSE NoEval]
        BY <4>2, <4>4 DEF NoEval
      <4> QED
        BY <2>2, <4>3, <4>4 DEF BeginMatch
    <3> QED
      BY <2>1, <3>1, <3>2 DEF QuietIsOff, HushIsUnlisted, Untouched, Off
  <2>3. CASE MatchCancelled \/ EndEvent
    BY <2>1, <2>3 DEF MatchCancelled, EndEvent, QuietIsOff, HushIsUnlisted, Untouched, Off
  <2>4. CASE EndMatch \/ Handle
    BY <2>1, <2>4 DEF EndMatch, Handle, historyVars, QuietIsOff, HushIsUnlisted, Untouched, Off
  <2>5. ASSUME NEW i \in Ids, Matches(i) PROVE QuietIsOff' /\ HushIsUnlisted'
    <3>1. UNCHANGED hush
      BY <2>5, MatchesIs
    <3>2. QuietIsOff'
      BY <2>1, <3>1 DEF QuietIsOff, Untouched, Off
    <3>3. ASSUME NEW j \in hush PROVE ev'[j].pc \in {"none", "get"}
      <4>1. CASE j # i
        BY <1>0, <2>5, <4>1, MatchesIs DEF HushIsUnlisted
      <4>2. CASE j = i
        <5>1. Off(i) /\ ev[i].pc \in {"none", "get"}
          BY <4>2 DEF QuietIsOff, HushIsUnlisted
        <5>2. Listed[i].pc = "none"
          BY <5>1, ListedIs DEF Off
        <5> QED
          BY <2>5, <4>2, <5>1, <5>2, MatchesIs
      <4> QED
        BY <4>1, <4>2
    <3> QED
      BY <3>1, <3>2, <3>3 DEF HushIsUnlisted
  <2> QED
    BY <1>3, <2>2, <2>3, <2>4, <2>5 DEF MatchStep
<1>4. ASSUME NEW r \in Requests, Arrives(r) PROVE QuietIsOff' /\ HushIsUnlisted'
  BY <1>4, ArrivesIs DEF QuietIsOff, HushIsUnlisted, Untouched, Off
<1>5. ASSUME NEW r \in Requests, Moves(r) PROVE QuietIsOff' /\ HushIsUnlisted'
  <2>1. UNCHANGED <<store, ev, quiet, hush>>
    BY <1>5 DEF Moves, matchVars
  <2>2. \A i \in Ids : Untouched(i) => Untouched(i)'
    BY <1>5, MovesIs, PolicyAssumption DEF Untouched
  <2> QED
    BY <1>0, <2>1, <2>2 DEF QuietIsOff, HushIsUnlisted, Off
<1>6. ASSUME NEW r \in Requests, Writes(r) PROVE QuietIsOff' /\ HushIsUnlisted'
  <2>1. \A i \in quiet \cup hush : i # req[r].id
    BY DEF QuietIsOff, Untouched
  <2>2. \A i \in quiet \cup hush : store'[i] = store[i]
    BY <1>0, <1>6, <2>1, WritesIs
  <2>3. \A i \in Ids : Untouched(i) => Untouched(i)'
    BY <1>6, WritesIs DEF Untouched
  <2> QED
    BY <1>0, <1>6, <2>2, <2>3, WritesIs DEF QuietIsOff, HushIsUnlisted, Off
<1>7. ASSUME NEW r \in Requests, Removes(r) PROVE QuietIsOff' /\ HushIsUnlisted'
  <2>1. UNCHANGED <<ev, hush>>
    BY <1>7, RemovesIs
  <2>2. \A i \in Ids : Untouched(i) => Untouched(i)'
    BY <1>7, RemovesIs, PolicyAssumption DEF Untouched
  <2>3. \A i \in Ids : Off(i) => Off(i)'
    BY <1>7, RemovesIs DEF Off
  <2>4. ASSUME NEW i \in quiet', i \notin quiet PROVE Untouched(i)' /\ Off(i)'
    BY <1>7, <2>4, RemovesIs, PolicyAssumption DEF Untouched, Off
  <2> QED
    BY <1>0, <2>1, <2>2, <2>3, <2>4 DEF QuietIsOff, HushIsUnlisted
<1>8. ASSUME NEW r \in Requests, Compile(r) PROVE QuietIsOff' /\ HushIsUnlisted'
  <2>1. UNCHANGED <<store, ev, hush>>
    BY <1>8, CompileIs
  <2>2. \A i \in Ids : Untouched(i) => Untouched(i)'
    BY <1>8, CompileIs, PolicyAssumption DEF Untouched
  <2>3. \A i \in Ids : Off(i) => Off(i)'
    BY <2>1 DEF Off
  <2>4. ASSUME NEW i \in quiet', i \notin quiet PROVE Untouched(i)' /\ Off(i)'
    <3>1. /\ i = req[r].id /\ i \notin raced /\ ~req[r].new.on /\ req[r].pc = "compile"
          /\ \A s \in Requests \ {r} : req[s].id # i
      BY <1>8, <2>4, CompileIs
    <3>2. Untouched(i)'
      BY <1>8, <3>1, CompileIs, PolicyAssumption DEF Untouched
    <3>3. store[i].on = req[r].new.on
      BY <3>1 DEF WrittenIsStored
    <3> QED
      BY <2>1, <3>1, <3>2, <3>3 DEF Off
  <2> QED
    BY <1>0, <2>1, <2>2, <2>3, <2>4 DEF QuietIsOff, HushIsUnlisted
<1> QED
  BY <1>1, <1>2, <1>3, <1>4, <1>5, <1>6, <1>7, <1>8, Cases

\* A policy that a request is about is not one that Match relies on.
LEMMA RelyIs ==
    ASSUME PInv, NEW r \in Requests, req[r].id \in Ids
    PROVE  req[r].id \in touched \/ ev[req[r].id].pc = "none"
BY DEF PInv, TouchedIsKnown, Phases, TypeOK

\* The cache has the program of what Match has listed.
LEMMA JudgedIsListed ==
    ASSUME PInv, up, NEW i \in Ids, ev[i].pc = "run", i \notin touched \cup raced
    PROVE  programs[i] \in {ev[i].body, Nothing}
<1> USE DEF PInv
<1>1. mpc # "idle"
  BY DEF Phases
<1>2. ~Compiling(i)
  BY <1>1 DEF Compiling, TouchedIsKnown
<1>3. programs[i] = Reloaded(store, unread)[i]
  BY <1>2 DEF CachedIsStored
<1>4. store[i] # Nothing /\ store[i].body = ev[i].body
  BY DEF ListedIsStored
<1> QED
  BY <1>3, <1>4 DEF Reloaded, Program

MatchInv == TouchedIsKnown /\ ListedIsStored /\ Phases /\ MatchIsOneBody

LEMMA WriteKeepsMatch ==
    ASSUME PInv, NEW r \in Requests, req[r].id \in Ids, UNCHANGED <<mpc, ev, touched>>,
           \A s \in Requests \ {r} : req'[s] = req[s],
           req'[r].id \in {req[r].id, Nothing},
           \A i \in Ids \ {req[r].id} : store'[i] = store[i] /\ (i \in raced => i \in raced')
    PROVE  MatchInv'
<1> USE DEF PInv
<1>1. TouchedIsKnown'
  BY PolicyAssumption DEF TouchedIsKnown
<1>2. Phases'
  BY DEF Phases
<1>3. \A i \in Ids \ touched : ev[i].pc # "none" => store'[i] = store[i] /\ (i \in raced => i \in raced')
  BY RelyIs
<1>4. ListedIsStored'
  BY <1>3 DEF ListedIsStored
<1>5. MatchIsOneBody'
  BY <1>3 DEF MatchIsOneBody, InEv
<1> QED
  BY <1>1, <1>2, <1>4, <1>5 DEF MatchInv

LEMMA MatchInvStep == PInv /\ [Next]_vars => MatchInv'
<1> SUFFICES ASSUME PInv, [Next]_vars PROVE MatchInv'
  OBVIOUS
<1> USE DEF PInv
<1>1. CASE UNCHANGED vars \/ Cancel
  BY <1>1 DEF vars, Cancel, writeVars, matchVars, historyVars, MatchInv,
     TouchedIsKnown, ListedIsStored, Phases, MatchIsOneBody, InEv
<1>2. CASE Restart
  <2>1. mpc' = "idle" /\ \A i \in Ids : ev'[i].pc = "none"
    BY <1>2 DEF Restart, NoEvals, NoEval
  <2> QED
    BY <2>1 DEF MatchInv, TouchedIsKnown, ListedIsStored, Phases, MatchIsOneBody, InEv
<1>3. ASSUME MatchStep, up PROVE MatchInv'
  <2>1. UNCHANGED <<kind, store, programs, req, raced, unread, clobbered, quiet>>
    BY <1>3, MatchOnlyReads
  <2>2. CASE BeginMatch
    <3>1. mpc' = "match" /\ touched' = {i \in Ids : \E r \in Requests : req[r].id = i}
      BY <2>2 DEF BeginMatch
    <3>2. \A i \in Ids : /\ ev'[i].pc # "done"
                         /\ ev'[i].pc \in {"todo", "run"} => store[i] # Nothing /\ store[i].body = ev'[i].body
      <4>1. CASE ev' = Listed
        BY <4>1, ListedIs
      <4>2. CASE ev' = [j \in Ids |-> IF j \in Stored THEN [NoEval EXCEPT !.pc = "get"] ELSE NoEval]
        BY <4>2 DEF NoEval
      <4> QED
        BY <2>2, <4>1, <4>2 DEF BeginMatch
    <3>3. TouchedIsKnown'
      BY <2>1, <3>1 DEF TouchedIsKnown
    <3> QED
      BY <2>1, <3>1, <3>2, <3>3 DEF MatchInv, ListedIsStored, Phases, MatchIsOneBody, InEv
  <2>3. CASE MatchCancelled
    <3>1. mpc' = "idle" /\ \A i \in Ids : ev'[i].pc = "none"
      BY <2>3 DEF MatchCancelled, NoEvals, NoEval
    <3> QED
      BY <3>1 DEF MatchInv, TouchedIsKnown, ListedIsStored, Phases, MatchIsOneBody, InEv
  <2>4. CASE EndEvent
    <3>1. mpc' = "idle" /\ ev' = ev /\ \A i \in Ids : ev[i].pc = "none"
      BY <2>4 DEF EndEvent, Phases, InEv
    <3> QED
      BY <3>1 DEF MatchInv, TouchedIsKnown, ListedIsStored, Phases, MatchIsOneBody, InEv
  <2>5. CASE EndMatch
    <3>1. /\ mpc = "match" /\ mpc' = "publish" /\ UNCHANGED <<ev, touched>>
          /\ \A i \in Ids : ev[i].pc \notin {"get", "todo", "run"}
      BY <2>5 DEF EndMatch, historyVars, InEv
    <3>2. Phases'
      BY <3>1 DEF Phases, TypeOK
    <3> QED
      BY <2>1, <3>1, <3>2 DEF MatchInv, TouchedIsKnown, ListedIsStored, MatchIsOneBody, InEv
  <2>6. CASE Handle
    BY <2>1, <2>6 DEF Handle, historyVars, MatchInv, TouchedIsKnown, ListedIsStored, Phases,
       MatchIsOneBody, InEv
  <2>7. ASSUME NEW i \in Ids, Matches(i) PROVE MatchInv'
    <3>1. UNCHANGED <<mpc, touched>> /\ \A j \in Ids \ {i} : ev'[j] = ev[j]
      BY <2>7, MatchesIs
    <3>2. \/ ev'[i].pc = "none"
          \/ ev[i].pc = "get" /\ ev'[i] = Listed[i]
          \/ ev[i].pc = "todo" /\ ev'[i].pc = "run" /\ ev'[i].body = ev[i].body
          \/ /\ ev[i].pc = "run" /\ ev'[i].pc = "done"
             /\ ev'[i].body = ev[i].body /\ ev'[i].prog = programs[i] /\ programs[i] # Nothing
      BY <2>7, MatchesIs
    <3>3. TouchedIsKnown'
      BY <2>1, <3>1 DEF TouchedIsKnown
    <3>4. Phases'
      BY <3>1, <3>2 DEF Phases
    <3>5. i \notin touched \cup raced /\ ev'[i].pc \in {"todo", "run"} =>
            store[i] # Nothing /\ store[i].body = ev'[i].body
      BY <3>2, ListedIs DEF ListedIsStored
    <3>6. i \notin touched \cup raced /\ ev'[i].pc = "done" => ev'[i].prog = ev'[i].body
      BY <1>3, <3>2, JudgedIsListed, ListedIs
    <3>7. ListedIsStored'
      BY <2>1, <3>1, <3>5 DEF ListedIsStored
    <3>8. MatchIsOneBody'
      BY <2>1, <3>1, <3>6 DEF MatchIsOneBody, InEv
    <3> QED
      BY <3>3, <3>4, <3>7, <3>8 DEF MatchInv
  <2> QED
    BY <1>3, <2>2, <2>3, <2>4, <2>5, <2>6, <2>7 DEF MatchStep
<1>4. ASSUME NEW r \in Requests, Arrives(r) PROVE MatchInv'
  <2>1. PICK i \in Ids :
           /\ \A s \in Requests \ {r} : req'[s] = req[s]
           /\ req'[r].id = i
           /\ touched' = IF mpc = "idle" THEN {} ELSE touched \cup {i}
           /\ UNCHANGED <<store, mpc, ev, raced>>
    BY <1>4, ArrivesIs
  <2>2. CASE mpc = "idle"
    BY <2>1, <2>2 DEF MatchInv, TouchedIsKnown, ListedIsStored, Phases, MatchIsOneBody, InEv
  <2>3. CASE mpc # "idle"
    BY <2>1, <2>3 DEF MatchInv, TouchedIsKnown, ListedIsStored, Phases, MatchIsOneBody, InEv
  <2> QED
    BY <2>2, <2>3
<1>5. ASSUME NEW r \in Requests, Moves(r) PROVE MatchInv'
  <2>1. UNCHANGED <<store, mpc, ev, touched>>
    BY <1>5 DEF Moves, matchVars
  <2>2. TouchedIsKnown'
    BY <1>5, <2>1, MovesIs, PolicyAssumption DEF TouchedIsKnown
  <2>3. raced \subseteq raced'
    BY <1>5, MovesIs
  <2> QED
    BY <2>1, <2>2, <2>3 DEF MatchInv, ListedIsStored, Phases, MatchIsOneBody, InEv
<1>6. ASSUME NEW r \in Requests, Writes(r) PROVE MatchInv'
  BY <1>6, WritesIs, WriteKeepsMatch
<1>7. ASSUME NEW r \in Requests, Removes(r) PROVE MatchInv'
  BY <1>7, RemovesIs, WriteKeepsMatch
<1>8. ASSUME NEW r \in Requests, Compile(r) PROVE MatchInv'
  BY <1>8, CompileIs, WriteKeepsMatch
<1> QED
  BY <1>1, <1>2, <1>3, <1>4, <1>5, <1>6, <1>7, <1>8, Cases

-----------------------------------------------------------------------------
(* The theorems.                                                           *)

\* The inductive invariant holds: whatever requests, matches, cancellations
\* and restarts interleave, store, cache, requests and match stay related.
THEOREM PInvHolds == Spec => []PInv
<1>1. Init => PInv
  BY InitRest
<1>2. PInv /\ [Next]_vars => PInv'
  BY TypeStep, SetStep, SinceStep, ReadStep, WrittenStep, CachedStep, QuietStep, MatchInvStep DEF PInv, MatchInv
<1> QED
  BY <1>1, <1>2, PTL DEF Spec

\* Between the requests that write a policy the cache of compiled programs is
\* the one of the store, unless two writers overlapped: compilePolicy at the end
\* of AddPolicy and UpdatePolicy, and RemovePolicy, leave no stale program, and
\* only a policy that ReloadPolicies could not read is without one.
THEOREM ProgramIsCurrentHolds == Spec => []ProgramIsCurrent
<1>1. PInv => ProgramIsCurrent
  BY DEF PInv, CachedIsStored, ProgramIsCurrent, Settled, Writing, Compiling
<1> QED
  BY <1>1, PInvHolds, PTL

\* In memory no add, update, EnablePolicy or DisablePolicy writes over a policy in
\* another state than the one it knows, unless the policy was removed and added
\* again: Update refuses every version but the stored one, and versions only grow.
THEOREM ConflictIsRefusedHolds == Spec => []ConflictIsRefused
<1>1. PInv => ConflictIsRefused
  BY DEF PInv
<1> QED
  BY <1>1, PInvHolds, PTL

\* DisablePolicy and RemovePolicy are final for every later event, until a
\* request comes for the policy: ListEnabled does not list it.
THEOREM SilencedStaysQuietHolds == Spec => []SilencedStaysQuiet
<1>1. PInv => SilencedStaysQuiet
  BY DEF PInv, HushIsUnlisted, SilencedStaysQuiet
<1> QED
  BY <1>1, PInvHolds, PTL

\* Match reads policy and program at different moments; both are of one body
\* unless a request was on the policy meanwhile, or two raced before.
THEOREM MatchIsOneBodyHolds == Spec => []MatchIsOneBody
<1>1. PInv => MatchIsOneBody
  BY DEF PInv
<1> QED
  BY <1>1, PInvHolds, PTL

=============================================================================
