------------------------------ MODULE FetchPool ------------------------------
(***************************************************************************)
(* Outbound fetching: crates/server/src/service.rs and the handlers that   *)
(* call it.  A subscribe or preview request runs fetch_and_merge inside    *)
(* its own handler future; the future spawns one task per source row into  *)
(* its JoinSet, and every task carries a permit of the one semaphore that  *)
(* AppState shares between all requests.  refresh_source calls             *)
(* fetch_source directly.                                                  *)
(*                                                                         *)
(* The semaphore is tokio's: a permit that comes back while somebody waits *)
(* is assigned to the oldest waiter at once, before that waiter is polled, *)
(* so a permit has three kinds of owner: the semaphore, a request that was *)
(* granted it and has not run yet, and a task.                             *)
(*                                                                         *)
(* A handler future can be dropped at any await (the client hung up).      *)
(* Dropping it drops its place in the semaphore's queue, or the permit it  *)
(* was granted, and the JoinSet, which aborts the tasks; an aborted task   *)
(* keeps its permit until the runtime really drops it.                     *)
(***************************************************************************)
EXTENDS Integers, FiniteSets, SequencesExt

CONSTANTS
  Reqs,         \* connection slots whose handler calls fetch_and_merge
  Previews,     \* those of Reqs that serve /admin/preview; the others serve
                \* /subscribe/{name}?format=v2ray
  Refreshers,   \* connection slots of POST /admin/sources/{id}/refresh
  Sources,      \* rows of the sources table
  Singles,      \* the rows of kind 'single': parsed in place, no network
  Selects,      \* for each slot, the row sets its SELECT may return
  QueryError,   \* "combined": what `errors` names when the SELECT failed
  Concurrency,  \* CONCURRENCY
  MaxNodes      \* MAX_NODES

ASSUME FetchPoolAssumption ==
  /\ IsFiniteSet(Reqs) /\ IsFiniteSet(Sources)
  /\ Previews \subseteq Reqs
  /\ Singles \subseteq Sources
  /\ QueryError \notin Sources
  /\ Selects \in [Reqs -> SUBSET SUBSET Sources]
  /\ Concurrency \in Nat
  /\ MaxNodes \in Nat

VARIABLES
  permits,  \* permits the semaphore holds itself
  queue,    \* requests waiting in acquire_owned, oldest first
  phase,    \* where each request's handler is
  rows,     \* local `sources`: what the SELECT returned
  task,     \* the task a request spawned for each row
  joinset,  \* the tasks still in the request's JoinSet
  nodes,    \* length of `all_nodes`
  errors,   \* sources named in `errors` ("combined" for a failed SELECT)
  refresh   \* what each refresh handler is doing

vars == <<permits, queue, phase, rows, task, joinset, nodes, errors, refresh>>
slots == <<permits, queue>>

Answers == {"200", "500", "502"}
Phases == {"idle", "spawning", "waiting", "granted", "joining", "dropped"} \cup Answers

\* A task holds a permit while it runs and, once aborted, until it is dropped.
\* Finished tasks keep their outcome until the slot is reused.
Live == {"running", "aborting"}
Outcomes == {"ok", "err", "panic"}
TaskStates == {"none"} \cup Live \cup Outcomes

-----------------------------------------------------------------------------
\* AppState::new: a configured concurrency of 0 still leaves one permit.
Permits == IF Concurrency = 0 THEN 1 ELSE Concurrency

\* Rows the spawn loop has not reached.
Todo(r) == {s \in rows[r] : task[r][s] = "none"}

\* The rows whose task is in state st, over all requests.
TasksIn(states) == {t \in Reqs \X Sources : task[t[1]][t[2]] \in states}

LiveTasks == TasksIn(Live)
Granted == {r \in Reqs : phase[r] = "granted"}

\* Requests to upstream servers that are in flight.
Outbound == {t \in LiveTasks : t[2] \notin Singles}
Refreshing == {f \in Refreshers : refresh[f] = "fetching"}

-----------------------------------------------------------------------------
Init ==
  /\ permits = Permits
  /\ queue = <<>>
  /\ phase = [r \in Reqs |-> "idle"]
  /\ rows = [r \in Reqs |-> {}]
  /\ task = [r \in Reqs |-> [s \in Sources |-> "none"]]
  /\ joinset = [r \in Reqs |-> {}]
  /\ nodes = [r \in Reqs |-> 0]
  /\ errors = [r \in Reqs |-> {}]
  /\ refresh = [f \in Refreshers |-> "idle"]

\* The SELECT answers.  In general with any subset of the table: the ids come
\* from the combined subscription, the kind filter or nothing, and rows may
\* be gone by now.
QueryRows(r) ==
  /\ phase[r] = "idle"
  /\ \E found \in Selects[r] : rows' = [rows EXCEPT ![r] = found]
  /\ phase' = [phase EXCEPT ![r] = "spawning"]
  /\ UNCHANGED <<slots, task, joinset, nodes, errors, refresh>>

\* The SELECT fails: recorded as one source error, except in a preview of
\* everything, whose error unwrap_or_default drops.
QueryFails(r) ==
  /\ phase[r] = "idle"
  /\ \/ errors' = [errors EXCEPT ![r] = {QueryError}]
     \/ r \in Previews /\ UNCHANGED errors
  /\ phase' = [phase EXCEPT ![r] = "spawning"]
  /\ UNCHANGED <<slots, rows, task, joinset, nodes, refresh>>

\* set.spawn: the permit, already taken, moves into the task.
SpawnTask(r) ==
  \E s \in Todo(r) :
    /\ task' = [task EXCEPT ![r][s] = "running"]
    /\ joinset' = [joinset EXCEPT ![r] = @ \cup {s}]
    /\ phase' = [phase EXCEPT ![r] = "spawning"]

\* acquire_owned finds a permit.
AcquireAndSpawn(r) ==
  /\ phase[r] = "spawning"
  /\ permits > 0
  /\ SpawnTask(r)
  /\ permits' = permits - 1
  /\ UNCHANGED <<queue, rows, nodes, errors, refresh>>

\* acquire_owned finds none and queues up.
AcquireWaits(r) ==
  /\ phase[r] = "spawning"
  /\ Todo(r) # {}
  /\ permits = 0
  /\ queue' = Append(queue, r)
  /\ phase' = [phase EXCEPT ![r] = "waiting"]
  /\ UNCHANGED <<permits, rows, task, joinset, nodes, errors, refresh>>

\* The waiter is polled and finds the permit it was granted.
SpawnGranted(r) ==
  /\ phase[r] = "granted"
  /\ SpawnTask(r)
  /\ UNCHANGED <<slots, rows, nodes, errors, refresh>>

SpawnLoopEnds(r) ==
  /\ phase[r] = "spawning"
  /\ Todo(r) = {}
  /\ phase' = [phase EXCEPT ![r] = "joining"]
  /\ UNCHANGED <<slots, rows, task, joinset, nodes, errors, refresh>>

-----------------------------------------------------------------------------
\* Mutant: the latest waiter is served first.
GiveBackToLatest(ph) ==
  IF queue = <<>>
  THEN /\ permits' = permits + 1
       /\ phase' = ph
       /\ UNCHANGED queue
  ELSE /\ queue' = Front(queue)
       /\ phase' = [ph EXCEPT ![Last(queue)] = "granted"]
       /\ UNCHANGED permits

\* Drop of one permit, in a step whose own effect on the phases is ph.
GiveBack(ph) ==
  IF queue = <<>>
  THEN /\ permits' = permits + 1
       /\ phase' = ph
       /\ UNCHANGED queue
  ELSE /\ queue' = Tail(queue)
       /\ phase' = [ph EXCEPT ![Head(queue)] = "granted"]
       /\ UNCHANGED permits

\* What a task can end with.  A remote source yields at least one node or is
\* an error, and parse_subscription_text yields none when max_nodes is 0.  A
\* parser may panic on the source's text.
Results(s) == IF s \notin Singles /\ MaxNodes = 0 THEN Outcomes \ {"ok"} ELSE Outcomes

\* Mutant: the permit is released by a call after the work, not by a drop.
TaskEndsLeaksOnPanic(r, s) ==
  /\ task[r][s] = "running"
  /\ \E out \in Results(s) :
       /\ task' = [task EXCEPT ![r][s] = out]
       /\ IF out = "panic" THEN UNCHANGED <<slots, phase>> ELSE GiveBack(phase)
  /\ UNCHANGED <<rows, joinset, nodes, errors, refresh>>

\* Mutant: the permit stays in the task's result until somebody joins it.
TaskEndsKeepsPermit(r, s) ==
  /\ task[r][s] = "running"
  /\ \E out \in Results(s) : task' = [task EXCEPT ![r][s] = out]
  /\ UNCHANGED <<slots, phase, rows, joinset, nodes, errors, refresh>>

\* Mutant: the permit is given back by a call and by the drop.
TaskEndsReleasesTwice(r, s) ==
  /\ task[r][s] = "running"
  /\ \E out \in Results(s) : task' = [task EXCEPT ![r][s] = out]
  /\ \/ queue # <<>> /\ GiveBack(phase)
     \/ queue = <<>> /\ permits' = permits + 2 /\ UNCHANGED <<queue, phase>>
  /\ UNCHANGED <<rows, joinset, nodes, errors, refresh>>

\* The task ends, by itself, by its timeout or by a panic; `_permit` drops.
TaskEnds(r, s) ==
  /\ task[r][s] = "running"
  /\ \E out \in Results(s) : task' = [task EXCEPT ![r][s] = out]
  /\ GiveBack(phase)
  /\ UNCHANGED <<rows, joinset, nodes, errors, refresh>>

\* How many nodes an Ok result carries: one line, or up to max_nodes.
Yields(s) == IF s \in Singles THEN {1} ELSE 1 .. MaxNodes

\* Mutant: a success replaces the nodes merged so far.
JoinNextReplaces(r) ==
  /\ phase[r] = "joining"
  /\ \E s \in joinset[r] :
       /\ joinset' = [joinset EXCEPT ![r] = @ \ {s}]
       /\ \/ /\ task[r][s] = "ok"
             /\ \E n \in Yields(s) : nodes' = [nodes EXCEPT ![r] = n]
             /\ UNCHANGED errors
          \/ /\ task[r][s] = "err"
             /\ errors' = [errors EXCEPT ![r] = @ \cup {s}]
             /\ UNCHANGED nodes
          \/ /\ task[r][s] = "panic"
             /\ UNCHANGED <<nodes, errors>>
  /\ UNCHANGED <<slots, phase, rows, task, refresh>>

\* Mutant: only successes are looked at.
JoinNextIgnoresErrors(r) ==
  /\ phase[r] = "joining"
  /\ \E s \in joinset[r] :
       /\ task[r][s] \in Outcomes
       /\ joinset' = [joinset EXCEPT ![r] = @ \ {s}]
       /\ IF task[r][s] = "ok"
          THEN \E n \in Yields(s) : nodes' = [nodes EXCEPT ![r] = @ + n]
          ELSE UNCHANGED nodes
  /\ UNCHANGED <<slots, phase, rows, task, errors, refresh>>

\* join_next returns a finished task: Ok appends, Err is recorded, and the
\* JoinError of a panic is skipped.
JoinNext(r) ==
  /\ phase[r] = "joining"
  /\ \E s \in joinset[r] :
       /\ joinset' = [joinset EXCEPT ![r] = @ \ {s}]
       /\ \/ /\ task[r][s] = "ok"
             /\ \E n \in Yields(s) : nodes' = [nodes EXCEPT ![r] = @ + n]
             /\ UNCHANGED errors
          \/ /\ task[r][s] = "err"
             /\ errors' = [errors EXCEPT ![r] = @ \cup {s}]
             /\ UNCHANGED nodes
          \/ /\ task[r][s] = "panic"
             /\ UNCHANGED <<nodes, errors>>
  /\ UNCHANGED <<slots, phase, rows, task, refresh>>

\* all_nodes.truncate(max_nodes).
Truncated(r) == IF nodes[r] > MaxNodes THEN MaxNodes ELSE nodes[r]

\* Mutant: any failed source refuses the subscription.
VerdictsAnyError(r) ==
  IF r \in Previews THEN {"200"}
  ELSE IF errors[r] # {} THEN {"502"} ELSE {"200", "500"}

\* Mutant: an empty merge is served like any other.
VerdictsNeverRefuse(r) == IF r \in Previews THEN {"200"} ELSE {"200", "500"}

\* The handler's verdict on (nodes, errors).  A subscription that passes may
\* still fail on the v2ray_base64 setting or in the serializer.
Verdicts(r) ==
  IF r \in Previews THEN {"200"}
  ELSE IF Truncated(r) = 0 /\ errors[r] # {} THEN {"502"} ELSE {"200", "500"}

\* Mutant: `if let` instead of `while let` around join_next.
AnswerAfterFirstJoin(r) ==
  /\ phase[r] = "joining"
  /\ joinset[r] = {} \/ joinset[r] # rows[r]
  /\ \E v \in Verdicts(r) : phase' = [phase EXCEPT ![r] = v]
  /\ nodes' = [nodes EXCEPT ![r] = Truncated(r)]
  /\ UNCHANGED <<slots, rows, task, joinset, errors, refresh>>

Answer(r) ==
  /\ phase[r] = "joining"
  /\ joinset[r] = {}
  /\ \E v \in Verdicts(r) : phase' = [phase EXCEPT ![r] = v]
  /\ nodes' = [nodes EXCEPT ![r] = Truncated(r)]
  /\ UNCHANGED <<slots, rows, task, joinset, errors, refresh>>

\* The response is written and the slot is free for the next request.
Forget(r) ==
  /\ rows' = [rows EXCEPT ![r] = {}]
  /\ joinset' = [joinset EXCEPT ![r] = {}]
  /\ nodes' = [nodes EXCEPT ![r] = 0]
  /\ errors' = [errors EXCEPT ![r] = {}]

Close(r) ==
  /\ phase[r] \in Answers
  /\ phase' = [phase EXCEPT ![r] = "idle"]
  /\ task' = [task EXCEPT ![r] = [s \in Sources |-> "none"]]
  /\ Forget(r)
  /\ UNCHANGED <<slots, refresh>>

-----------------------------------------------------------------------------
\* The client hangs up and the handler future is dropped with its locals.
LeaveSemaphore(r) ==
  LET dropped == [phase EXCEPT ![r] = "dropped"] IN
  \/ /\ phase[r] \in {"spawning", "joining"}
     /\ phase' = dropped
     /\ UNCHANGED slots
  \/ /\ phase[r] = "waiting"
     /\ phase' = dropped
     /\ queue' = RemoveFirst(queue, r)
     /\ UNCHANGED permits
  \/ /\ phase[r] = "granted"
     /\ GiveBack(dropped)

\* Mutant: the tasks are not in a JoinSet and run on.
AbortNone(r) ==
  task' = [task EXCEPT ![r] =
             [s \in Sources |-> IF task[r][s] = "running" THEN "running" ELSE "none"]]

AbortAll(r) ==
  task' = [task EXCEPT ![r] =
             [s \in Sources |-> IF task[r][s] = "running" THEN "aborting" ELSE "none"]]

Disconnect(r) ==
  /\ LeaveSemaphore(r)
  /\ AbortAll(r)
  /\ Forget(r)
  /\ UNCHANGED refresh

\* The runtime drops an aborted task, and the permit with it.
AbortedTaskDropped(r, s) ==
  /\ task[r][s] = "aborting"
  /\ task' = [task EXCEPT ![r][s] = "none"]
  /\ GiveBack(phase)
  /\ UNCHANGED <<rows, joinset, nodes, errors, refresh>>

\* The slot of a dropped request is reused once its tasks are gone (another
\* slot stands for a request that arrives earlier).
SlotFree(r) ==
  /\ phase[r] = "dropped"
  /\ \A s \in Sources : task[r][s] = "none"
  /\ phase' = [phase EXCEPT ![r] = "idle"]
  /\ UNCHANGED <<slots, rows, task, joinset, nodes, errors, refresh>>

-----------------------------------------------------------------------------
\* refresh_source of a remote row goes to fetch_source without a permit.
RefreshStarts(f) ==
  /\ refresh[f] = "idle"
  /\ Sources \ Singles # {}
  /\ refresh' = [refresh EXCEPT ![f] = "fetching"]
  /\ UNCHANGED <<slots, phase, rows, task, joinset, nodes, errors>>

RefreshEnds(f) ==
  /\ refresh[f] = "fetching"
  /\ refresh' = [refresh EXCEPT ![f] = "idle"]
  /\ UNCHANGED <<slots, phase, rows, task, joinset, nodes, errors>>

-----------------------------------------------------------------------------
Handler(r) ==
  \/ QueryRows(r) \/ QueryFails(r)
  \/ AcquireAndSpawn(r) \/ AcquireWaits(r) \/ SpawnGranted(r) \/ SpawnLoopEnds(r)
  \/ JoinNext(r) \/ Answer(r) \/ Close(r)
  \/ Disconnect(r) \/ SlotFree(r)

TaskStep(r, s) == TaskEnds(r, s) \/ AbortedTaskDropped(r, s)

Next ==
  \/ \E r \in Reqs : Handler(r)
  \/ \E r \in Reqs, s \in Sources : TaskStep(r, s)
  \/ \E f \in Refreshers : RefreshStarts(f) \/ RefreshEnds(f)

Spec == Init /\ [][Next]_vars

\* What the runtime owes: a task ends (every fetch has a timeout) or is
\* dropped after its abort, and a handler that can be polled is polled.
\* Clients owe nothing: they may never send, close or hang up.
Polled(r) ==
  AcquireAndSpawn(r) \/ AcquireWaits(r) \/ SpawnGranted(r) \/ SpawnLoopEnds(r)
    \/ JoinNext(r) \/ Answer(r)

Fairness ==
  /\ \A r \in Reqs : WF_vars(Polled(r))
  /\ \A r \in Reqs, s \in Sources : WF_vars(TaskStep(r, s))

FairSpec == Spec /\ Fairness

-----------------------------------------------------------------------------
TypeOK ==
  /\ permits \in 0 .. Permits
  /\ queue \in Seq(Reqs)
  /\ phase \in [Reqs -> Phases]
  /\ rows \in [Reqs -> SUBSET Sources]
  /\ task \in [Reqs -> [Sources -> TaskStates]]
  /\ joinset \in [Reqs -> SUBSET Sources]
  /\ nodes \in [Reqs -> Nat]
  /\ errors \in [Reqs -> SUBSET (Sources \cup {QueryError})]
  /\ refresh \in [Refreshers -> {"idle", "fetching"}]

\* No permit is lost or made up on any path: a task's end, its panic, the
\* abort of a task, a waiter that leaves with or without a permit.
PermitsConserved ==
  permits + Cardinality(Granted) + Cardinality(LiveTasks) = Permits

\* state.rs:12 for the requests that go through the semaphore: they never
\* have more than CONCURRENCY fetches in flight together.
MergeFetchCap == Cardinality(Outbound) <= Permits

\* Nobody fetches for a client that is gone.  A request that has answered left
\* no task behind, and one whose client hung up only such as are aborted and
\* wait to be dropped: not one runs on.
NothingOutlivesTheRequest ==
  \A r \in Reqs :
    /\ phase[r] \in Answers \cup {"idle", "dropped"} =>
         joinset[r] = {} /\ \A s \in Sources : task[r][s] # "running"
    /\ phase[r] \in Answers \cup {"idle"} => \A s \in Sources : task[r][s] # "aborting"

\* At the answer every row is accounted for: its error is reported, its task
\* panicked, or its nodes are among those merged.  Every row that succeeded
\* gave one at least, so there are no fewer nodes than such rows unless
\* MAX_NODES cut the list, and never more than MAX_NODES.
Succeeded(r) == {s \in rows[r] : task[r][s] = "ok"}

RowsAccounted ==
  \A r \in Reqs : phase[r] \in Answers =>
    /\ \A s \in rows[r] : s \in errors[r] \/ task[r][s] \in {"ok", "panic"}
    /\ \A s \in errors[r] \cap Sources : task[r][s] = "err"
    /\ nodes[r] <= MaxNodes
    /\ nodes[r] >= Cardinality(Succeeded(r)) \/ nodes[r] = MaxNodes

\* README: "502 when all member sources failed".  With room for at least one
\* node, a subscription is refused only if no source gave one, and one whose
\* sources all failed is refused, as long as no task panicked: the JoinError
\* of a panic is skipped.
RefusedWhenAllFailed ==
  \A r \in Reqs :
    /\ MaxNodes > 0 /\ phase[r] = "502" =>
         /\ errors[r] # {}
         /\ \A s \in rows[r] : task[r][s] # "ok"
    /\ /\ r \notin Previews
       /\ phase[r] \in Answers
       /\ rows[r] # {}
       /\ \A s \in rows[r] : task[r][s] = "err"
       => phase[r] = "502"

\* The README's sentence has no such exception.
AllFailuresRefused ==
  \A r \in Reqs \ Previews :
    /\ phase[r] \in Answers
    /\ rows[r] # {}
    /\ \A s \in rows[r] : task[r][s] \in {"err", "panic"}
    => phase[r] = "502"

\* Nobody waits for a permit for ever, whatever the others do: the semaphore
\* is first come, first served, and a permit is never held across a wait.
NoStarvation ==
  \A r \in Reqs : phase[r] = "waiting" ~> phase[r] # "waiting"

\* A request that has its rows answers unless its client leaves.
RequestsAnswered ==
  \A r \in Reqs : phase[r] = "spawning" ~> phase[r] \in Answers \cup {"dropped"}
=============================================================================
