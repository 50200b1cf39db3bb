------------------------------ MODULE Policies ------------------------------
(***************************************************************************)
(* The policies of nuts (pkg/policy) and their use by the scheduler: HTTP  *)
(* requests that add, update, enable, disable and remove policies, the     *)
(* store in memory or on a database, the cache of compiled programs, the   *)
(* engine that matches an event against the enabled policies, and the      *)
(* queue that takes the matches to the task handler.                       *)
(*                                                                         *)
(* A body stands for what a policy says: its DSL, its expansion and its    *)
(* timeout.  A program is named by the body it was compiled from.  Every   *)
(* body that gets past validatePolicy compiles, since Validate of the CEL  *)
(* engine is a compilation: the error path after it is not reachable.      *)
(* Any access to a database may fail.                                      *)
(***************************************************************************)
EXTENDS Naturals, Sequences, FiniteSets

CONSTANTS
    Ids,         \* policy IDs
    Bodies,      \* valid contents of policies
    Requests,    \* HTTP requests under way at the same time
    Nothing,     \* no policy, no program
    MaxVersion,  \* bound on the version of a policy
    MaxEvals,    \* max_concurrent_evaluations
    QueueSize    \* capacity of policyMatchedCh

VARIABLES
    kind,        \* the store is in "memory" or a "db"
    store,       \* the stored policies
    programs,    \* the compiled programs
    req,         \* where every request is, and the policy it carries
    up, ctxDone, \* Core.Start has succeeded; Core.Stop has begun
    mpc, ev,     \* where Match is, and what it knows of every policy
    queue,       \* policyMatchedCh: the policies that matched
    raced,       \* policies with two writers at once, since the last lone one
    unread,      \* stored policies that the last start could not read, not written since
    since,       \* what happened to the policy that a request has read, since it did
    clobbered,   \* policies that a request wrote over what it did not know
    quiet,       \* policies switched off or removed, with no writer since
    hush,        \* during a match: those that were so at its begin, and still are
    touched      \* during a match: policies that had a writer since its begin

writeVars == <<kind, store, programs, req>>
matchVars == <<mpc, ev, queue>>
historyVars == <<raced, unread, since, clobbered, quiet, hush, touched>>
vars == <<writeVars, up, ctxDone, matchVars, historyVars>>

Versions == 1..MaxVersion
Policy == [body : Bodies, on : BOOLEAN, ver : Versions]

ASSUME PolicyAssumption ==
    /\ Nothing \notin Ids \cup Bodies \cup Requests \cup Policy
    /\ {MaxVersion, MaxEvals, QueueSize} \subseteq Nat \ {0}

Stored == {i \in Ids : store[i] # Nothing}
Idle == [pc |-> "idle", op |-> "none", id |-> Nothing, new |-> Nothing]
NoEval == [pc |-> "none", body |-> Nothing, prog |-> Nothing]
NoEvals == [i \in Ids |-> NoEval]
Nowhere == [i \in Ids |-> Nothing]

\* What the engine compiles a policy to.
Program(p) == p.body

\* ReloadPolicies, when every policy it lists can be compiled.
Reloaded(st, lost) ==
    [i \in Ids |-> IF st[i] = Nothing \/ i \in lost THEN Nothing ELSE Program(st[i])]

\* List of the store: a database leaves out what it cannot read, without an error.
LeftOut(st) == IF kind = "db" THEN SUBSET {i \in Ids : st[i] # Nothing} ELSE {{}}

\* initPolicyEngine and Start: a database may hold policies of an earlier run.
Init ==
    /\ kind \in {"memory", "db"}
    /\ store \in [Ids -> Policy \cup {Nothing}]
    /\ (kind = "memory" => store = Nowhere) /\ \A i \in Stored : store[i].ver = 1
    /\ unread \in LeftOut(store) /\ programs = Reloaded(store, unread)
    /\ req = [r \in Requests |-> Idle]
    /\ up = TRUE /\ ctxDone = FALSE
    /\ mpc = "idle" /\ ev = NoEvals /\ queue = <<>>
    /\ raced = {} /\ clobbered = {} /\ quiet = {} /\ hush = {} /\ touched = {}
    /\ since = [r \in Requests |-> "same"]

-----------------------------------------------------------------------------
(* The requests.                                                           *)

At(r, pc) == req[r].pc = pc
Goto(r, pc) == req' = [req EXCEPT ![r].pc = pc]
Return(r) == req' = [req EXCEPT ![r] = Idle]
Refuse(r) == Return(r) /\ since' = [since EXCEPT ![r] = "same"]

\* A request has written to the store and not yet to the programs, or has
\* checked the store and not yet written.
Writing(s, i) == req[s].id = i /\ req[s].pc \in {"set", "compile"}
Others(r, i) == {s \in Requests \ {r} : Writing(s, i)}

\* The history of a policy that request r is about to write, and writes.
Race(r) == raced' = IF Others(r, req[r].id) = {} THEN raced ELSE raced \cup {req[r].id}
Mark(r) ==
    raced' = IF Others(r, req[r].id) = {} THEN raced \ {req[r].id}
             ELSE raced \cup {req[r].id}

\* The switches of a policy that have read it and not yet written it.
Holders(i) ==
    {s \in Requests : /\ req[s].id = i /\ req[s].op \in {"enable", "disable"}
                      /\ req[s].pc \in {"update", "set"}}

\* Request r has changed its policy: those who have read it do not know.
Outdate(r, what) ==
    since' = [s \in Requests |->
                IF s = r THEN "same"
                ELSE IF s \in Holders(req[r].id) /\ since[s] # "renewed" THEN what ELSE since[s]]

\* The version that an update carries is not the stored one.
Conflict(r) == \/ store[req[r].id] = Nothing
               \/ store[req[r].id].ver # req[r].new.ver

\* Request r writes p over what is stored now.
Write(r, p) ==
    LET i == req[r].id
        unknown == IF req[r].op = "add" THEN store[i] # Nothing
                   ELSE Conflict(r) \/ since[r] = "written"
    IN  /\ store' = [store EXCEPT ![i] = p]
        /\ clobbered' = IF unknown THEN clobbered \cup {i} ELSE clobbered
        /\ Goto(r, "compile") /\ Mark(r) /\ Outdate(r, "written")

\* A request arrives: what it brings is what its sender knows or guesses.
Begin(r, op, i, pc, p) ==
    /\ At(r, "idle")
    /\ req' = [req EXCEPT ![r] = [pc |-> pc, op |-> op, id |-> i, new |-> p]]
    /\ quiet' = quiet \ {i} /\ hush' = hush \ {i}
    /\ touched' = IF mpc = "idle" THEN {} ELSE touched \cup {i}
    /\ UNCHANGED <<kind, store, programs, matchVars, raced, unread, since, clobbered>>

\* POST: AddPolicy.  The version is 1 in either store unless the body of the
\* request has one of its own and the store is on a database.
Add(r, i, p) == p.ver < MaxVersion /\ Begin(r, "add", i, "create", p)

\* PUT: UpdatePolicy, with the version that the body of the request has.
Put(r, i, p) == p.ver < MaxVersion /\ Begin(r, "put", i, "update", p)

\* EnablePolicy and DisablePolicy begin with a Get.
Toggle(r, op, i) == Begin(r, op, i, "get", Nothing)

Remove(r, i) == Begin(r, "remove", i, "remove", Nothing)

\* The Get of EnablePolicy and DisablePolicy, which on a database may fail: a copy
\* with the flag changed.
Get(r) ==
    /\ At(r, "get")
    /\ LET i == req[r].id
           there == store[i] # Nothing /\ store[i].ver # MaxVersion
       IN  \/ (there => kind = "db") /\ Return(r)
           \/ /\ there
              /\ req' = [req EXCEPT ![r].pc = "update",
                           ![r].new = [store[i] EXCEPT !.on = (req[r].op = "enable")]]
    /\ UNCHANGED <<kind, store, programs, matchVars, historyVars>>

\* validatePolicy fails: unknown engine, or an invalid DSL.
Invalid(r) ==
    /\ At(r, "create") \/ At(r, "update")
    /\ Refuse(r)
    /\ UNCHANGED <<kind, store, programs, matchVars, raced, unread, clobbered, quiet, hush, touched>>

\* MemoryPolicyStore.Create and Update are one step under the store's lock.
CreateMemory(r) ==
    /\ At(r, "create") /\ kind = "memory"
    /\ IF store[req[r].id] = Nothing
       THEN Write(r, [req[r].new EXCEPT !.ver = 1])
       ELSE Refuse(r) /\ UNCHANGED <<store, raced, clobbered>>
    /\ UNCHANGED <<kind, programs, matchVars, unread, quiet, hush, touched>>

NextVersion(p) == [p EXCEPT !.ver = p.ver + 1]

\* Mutant of UpdateMemory: the version is compared and not raised.
UpdateMemoryFlat(r) ==
    /\ At(r, "update") /\ kind = "memory"
    /\ IF Conflict(r) THEN Refuse(r) /\ UNCHANGED <<store, raced, clobbered>>
       ELSE Write(r, req[r].new)
    /\ UNCHANGED <<kind, programs, matchVars, unread, quiet, hush, touched>>

UpdateMemory(r) ==
    /\ At(r, "update") /\ kind = "memory"
    /\ IF Conflict(r) THEN Refuse(r) /\ UNCHANGED <<store, raced, clobbered>>
       ELSE Write(r, NextVersion(req[r].new))
    /\ UNCHANGED <<kind, programs, matchVars, unread, quiet, hush, touched>>

\* enginePolicyStore.Create and Update read and compare ...  For Create a policy
\* that cannot be read is not there; Update gives up.
CheckDB(r) ==
    /\ At(r, "create") \/ At(r, "update")
    /\ kind = "db"
    /\ \/ /\ At(r, "create") => store[req[r].id] # Nothing
          /\ Refuse(r) /\ UNCHANGED raced
       \/ /\ At(r, "update") => ~Conflict(r)
          /\ Goto(r, "set") /\ Race(r) /\ UNCHANGED since
    /\ UNCHANGED <<kind, store, programs, matchVars, unread, clobbered, quiet, hush, touched>>

\* ... and write, if they can: what is there now need not be what they compared
\* with.
SetFails(r) ==
    /\ At(r, "set")
    /\ Refuse(r)
    /\ UNCHANGED <<kind, store, programs, matchVars, raced, unread, clobbered, quiet, hush, touched>>

Set(r) ==
    /\ At(r, "set")
    /\ Write(r, IF req[r].op = "add" THEN req[r].new ELSE NextVersion(req[r].new))
    /\ UNCHANGED <<kind, programs, matchVars, unread, quiet, hush, touched>>

\* A policy that is off, with no other request that writes it or is about to.
Silenced(r, on) ==
    quiet' = IF \/ on \/ req[r].id \in raced
                \/ \E s \in Requests \ {r} : req[s].id = req[r].id
             THEN quiet ELSE quiet \cup {req[r].id}

\* Mutant of Compile: a program that is there is kept.
CompileOnce(r) ==
    /\ At(r, "compile")
    /\ programs' = IF programs[req[r].id] # Nothing THEN programs
                   ELSE [programs EXCEPT ![req[r].id] = Program(req[r].new)]
    /\ Return(r) /\ Silenced(r, req[r].new.on) /\ unread' = unread \ {req[r].id}
    /\ UNCHANGED <<kind, store, matchVars, raced, since, clobbered, hush, touched>>

\* compilePolicy under the lock of the manager, from the request's own policy.
Compile(r) ==
    /\ At(r, "compile")
    /\ programs' = [programs EXCEPT ![req[r].id] = Program(req[r].new)]
    /\ Return(r) /\ Silenced(r, req[r].new.on) /\ unread' = unread \ {req[r].id}
    /\ UNCHANGED <<kind, store, matchVars, raced, since, clobbered, hush, touched>>

\* Only the store in memory minds that there is nothing to delete.
Absent(i) == kind = "memory" /\ store[i] = Nothing
MayNotDelete(i) == Absent(i) \/ kind = "db"

\* Mutant of Delete: the program of a removed policy stays.
DeleteHalf(r) ==
    /\ At(r, "remove")
    /\ IF Absent(req[r].id)
       THEN UNCHANGED <<store, raced, unread, since, quiet>>
       ELSE /\ store' = [store EXCEPT ![req[r].id] = Nothing]
            /\ unread' = unread \ {req[r].id}
            /\ Mark(r) /\ Outdate(r, "renewed") /\ Silenced(r, FALSE)
    /\ Return(r)
    /\ UNCHANGED <<kind, programs, matchVars, clobbered, hush, touched>>

\* RemovePolicy, under the lock of the manager.
Delete(r) ==
    /\ At(r, "remove")
    /\ \/ /\ MayNotDelete(req[r].id)
          /\ UNCHANGED <<store, programs, raced, unread, since, quiet>>
       \/ /\ ~Absent(req[r].id)
          /\ store' = [store EXCEPT ![req[r].id] = Nothing]
          /\ programs' = [programs EXCEPT ![req[r].id] = Nothing]
          /\ unread' = unread \ {req[r].id}
          /\ Mark(r) /\ Outdate(r, "renewed") /\ Silenced(r, FALSE)
    /\ Return(r)
    /\ UNCHANGED <<kind, matchVars, clobbered, hush, touched>>

-----------------------------------------------------------------------------
(* processEvents and Match.                                                *)

InEv(pc) == {i \in Ids : ev[i].pc = pc}

\* ListEnabled of the store in memory, in one step.
Listed == [i \in Ids |-> IF i \in Stored /\ store[i].on
                         THEN [NoEval EXCEPT !.pc = "todo", !.body = store[i].body] ELSE NoEval]

\* An event was taken from the channel and let through by the limiter.
BeginMatch ==
    /\ mpc = "idle" /\ ~ctxDone
    /\ mpc' = "match"
    /\ ev' = IF kind = "memory" THEN Listed
             ELSE [i \in Ids |-> IF i \in Stored THEN [NoEval EXCEPT !.pc = "get"] ELSE NoEval]
    /\ hush' = quiet
    /\ touched' = {i \in Ids : \E r \in Requests : req[r].id = i}
    /\ UNCHANGED <<writeVars, queue, raced, unread, since, clobbered, quiet>>

\* Mutant of Fetch: List in place of ListEnabled.
FetchAny(i) ==
    /\ ev[i].pc = "get"
    /\ ev' = [ev EXCEPT ![i] = IF i \in Stored
                               THEN [NoEval EXCEPT !.pc = "todo", !.body = store[i].body] ELSE NoEval]
    /\ UNCHANGED <<writeVars, mpc, queue, historyVars>>

\* ListEnabled of the database: keys first, then one Get for each; a policy that
\* cannot be read is left out.
Fetch(i) ==
    /\ ev[i].pc = "get"
    /\ \E e \in {Listed[i], NoEval} : ev' = [ev EXCEPT ![i] = e]
    /\ UNCHANGED <<writeVars, mpc, queue, historyVars>>

\* A goroutine for the next policy, when the semaphore lets it.
Spawn(i) ==
    /\ ev[i].pc = "todo" /\ InEv("get") = {}
    /\ Cardinality(InEv("run")) < MaxEvals
    /\ ev' = [ev EXCEPT ![i].pc = "run"]
    /\ UNCHANGED <<writeVars, mpc, queue, historyVars>>

\* EvaluateWithCtx: a match, or no match, an error, a timeout or a cancelled
\* context, which all come to the same.
EvaluateWithCtx(prog) == BOOLEAN

\* evaluatePolicy: without a program it can be no match.
Evaluate(i) ==
    /\ ev[i].pc = "run"
    /\ \E matched \in IF programs[i] = Nothing THEN {FALSE} ELSE EvaluateWithCtx(programs[i]) :
         ev' = [ev EXCEPT ![i] = IF matched THEN [@ EXCEPT !.pc = "done", !.prog = programs[i]]
                                 ELSE NoEval]
    /\ UNCHANGED <<writeVars, mpc, queue, historyVars>>

\* Match gives up for the context while policies are left, but not before the
\* goroutines it has started are done: the matches so far are lost.
MatchCancelled ==
    /\ mpc = "match" /\ ctxDone
    /\ InEv("todo") # {} /\ InEv("get") = {} /\ InEv("run") = {}
    /\ mpc' = "idle" /\ ev' = NoEvals /\ hush' = {} /\ touched' = {}
    /\ UNCHANGED <<writeVars, queue, raced, unread, since, clobbered, quiet>>

EndMatch ==
    /\ mpc = "match"
    /\ InEv("get") \cup InEv("todo") \cup InEv("run") = {}
    /\ mpc' = "publish"
    /\ UNCHANGED <<writeVars, ev, queue, historyVars>>

\* processMatchedEvent: a match for which there is no room is dropped.
Publish(i) ==
    /\ mpc = "publish" /\ ev[i].pc = "done"
    /\ queue' = IF Len(queue) < QueueSize
                THEN Append(queue, i) ELSE queue
    /\ ev' = [ev EXCEPT ![i] = NoEval]
    /\ UNCHANGED <<writeVars, mpc, historyVars>>

EndEvent ==
    /\ mpc = "publish" /\ InEv("done") = {}
    /\ mpc' = "idle" /\ hush' = {} /\ touched' = {}
    /\ UNCHANGED <<writeVars, ev, queue, raced, unread, since, clobbered, quiet>>

\* startTaskEventHandler: the handler takes the next match and makes a task.
Handle ==
    /\ queue # <<>> /\ ~ctxDone
    /\ queue' = Tail(queue)
    /\ UNCHANGED <<writeVars, mpc, ev, historyVars>>

-----------------------------------------------------------------------------
Cancel ==
    /\ up /\ ~ctxDone
    /\ ctxDone' = TRUE
    /\ UNCHANGED <<writeVars, up, matchVars, historyVars>>

\* The process dies at any point and starts again.  A stored policy that the
\* engine of today cannot compile, or keys that cannot be listed, keep Core.Start
\* from succeeding; a policy that cannot be read does not.
Restart ==
    /\ store' = IF kind = "db" THEN store ELSE Nowhere
    /\ req' = [r \in Requests |-> Idle]
    /\ ctxDone' = FALSE /\ mpc' = "idle" /\ ev' = NoEvals /\ queue' = <<>>
    /\ raced' = {} /\ quiet' = {} /\ hush' = {} /\ touched' = {}
    /\ since' = [r \in Requests |-> "same"]
    /\ unread' \in LeftOut(store')
    /\ \/ up' = TRUE /\ programs' = Reloaded(store', unread')
       \/ kind = "db" /\ up' = FALSE /\ programs' = Nowhere
    /\ UNCHANGED <<kind, clobbered>>

Arrive(r) == \E i \in Ids :
    \/ Remove(r, i) \/ Toggle(r, "enable", i) \/ Toggle(r, "disable", i)
    \/ \E p \in Policy : Add(r, i, p) \/ Put(r, i, p)
Serve(r) == \/ Get(r) \/ Invalid(r) \/ CreateMemory(r) \/ UpdateMemory(r)
            \/ CheckDB(r) \/ SetFails(r) \/ Set(r) \/ Compile(r) \/ Delete(r)
Match == \/ MatchCancelled \/ EndMatch \/ EndEvent
         \/ \E i \in Ids : Fetch(i) \/ Spawn(i) \/ Evaluate(i) \/ Publish(i)

Next == \/ /\ up /\ UNCHANGED <<up, ctxDone>>
           /\ \/ \E r \in Requests : Arrive(r) \/ Serve(r)
              \/ BeginMatch \/ Match \/ Handle
        \/ Cancel \/ Restart

Spec == Init /\ [][Next]_vars

-----------------------------------------------------------------------------
TypeOK ==
    /\ kind \in {"memory", "db"}
    /\ store \in [Ids -> Policy \cup {Nothing}]
    /\ programs \in [Ids -> Bodies \cup {Nothing}]
    /\ req \in [Requests ->
          [pc : {"idle", "get", "create", "update", "set", "compile", "remove"},
           op : {"none", "add", "put", "enable", "disable", "remove"},
           id : Ids \cup {Nothing}, new : Policy \cup {Nothing}]]
    /\ up \in BOOLEAN /\ ctxDone \in BOOLEAN /\ mpc \in {"idle", "match", "publish"}
    /\ ev \in [Ids -> [pc : {"none", "get", "todo", "run", "done"},
                       body : Bodies \cup {Nothing}, prog : Bodies \cup {Nothing}]]
    /\ queue \in Seq(Ids) /\ Len(queue) <= QueueSize
    /\ since \in [Requests -> {"same", "written", "renewed"}]
    /\ {raced, unread, clobbered, quiet, hush, touched} \subseteq SUBSET Ids

\* Nobody is writing policy i.
Settled(i) == \A r \in Requests : ~Writing(r, i)

\* Between the requests that write a policy, the cache has the program of the
\* stored body, and no program of a policy that is gone, unless two of them
\* overlapped: the store and the cache then saw them in different orders.  Only a
\* stored policy that the last start could not read is without its program.
ProgramIsCurrent ==
    up => \A i \in Ids \ raced : Settled(i) => programs[i] = Reloaded(store, unread)[i]

\* No request of the store in memory writes over what it does not know: an add
\* replaces nothing, an update the version it carries, and EnablePolicy and
\* DisablePolicy, which read and write under two locks, what they have read.  A
\* policy that was removed and added in between is not told apart, since its
\* version begins at 1 again.  On a database all of this can be lost.
ConflictIsRefused == clobbered # {} => kind = "db"

\* A policy that was switched off or removed, with no request on it since,
\* matches no event that is taken up afterwards, though its program may still
\* be in the cache.
SilencedStaysQuiet ==
    \A i \in hush : ev[i].pc # "done"

\* The program that judged an event and the timeout and expansion that its task
\* gets are of one body, unless the policy was written during the match, or
\* by two requests at once before.
MatchIsOneBody ==
    \A i \in InEv("done") : ev[i].prog # ev[i].body => i \in touched \cup raced

=============================================================================
