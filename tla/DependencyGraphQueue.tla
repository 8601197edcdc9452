------------------------ MODULE DependencyGraphQueue ------------------------
(***************************************************************************)
(* The dependency-graph job queue: roots enqueued in PostgreSQL by the     *)
(* request path, resolver workers that claim them through the ingest API,  *)
(* run npm and report back, and the notifier that wakes the workers up.    *)
(* A job is one row of dependency_graph_roots.  Time is abstracted: the    *)
(* poll ticker may fire, and a retry time may pass, at any moment.         *)
(***************************************************************************)
EXTENDS Integers, FiniteSets

CONSTANTS
    Job,           \* (tenant, upstream, package, version): the unique key
    Worker,        \* resolver processes
    Tenant,
    JobTenant,     \* the tenant of a job
    Scope,         \* dependency_graph.tenant_id of a worker
    AllTenants,    \* the scope "*"
    NoJob,
    Concurrency,   \* dependency_graph.concurrency
    MaxFaults,     \* bound on crashes and failed calls
    MaxRestarts    \* bound on SIGTERMs

ASSUME QueueAssumption ==
    /\ JobTenant \in [Job -> Tenant]
    /\ Scope \in [Worker -> Tenant \cup {AllTenants}]
    /\ NoJob \notin Job
    /\ Concurrency \in Nat \ {0}
    /\ MaxFaults \in Nat
    /\ MaxRestarts \in Nat

VARIABLES
    status,      \* the status column, "absent" while there is no row
    ready,       \* rows with status pending or failed and updated_at <= now
    older,       \* older[j]: ready rows with a smaller updated_at than j
    loop,        \* where a worker's Run loop is
    lock,        \* the row a worker's claim transaction has locked
    tasks,       \* resolveJob goroutines that are running npm
    calls,       \* resolveJob goroutines waiting for CompleteResolve / FailResolve
    wire,        \* CompleteResolve / FailResolve requests not yet executed
    toNotify,    \* jobs inserted whose Notify call is still to come
    subscribed,  \* workers with an open watch
    signal,      \* the one-slot wake-up channel of a worker
    backlog,     \* history: rows may be ready that no signal will tell w of
    faults, restarts

vars == <<status, ready, older, loop, lock, tasks, calls, wire, toNotify,
          subscribed, signal, backlog, faults, restarts>>

queueVars == <<status, ready, older>>
workerVars == <<loop, lock, tasks, calls>>
watchVars == <<toNotify, subscribed, signal, backlog>>
boundVars == <<faults, restarts>>

Results == {"complete", "failed"}
Claimable == {"pending", "failed"}
Loops == {"down", "wait", "claim", "commit", "return"}

\* A resolveJob goroutine: its root, and a number that tells the goroutines
\* of a worker apart (one may still wait for the answer to its report when the
\* same root is claimed again).  There is one number more than slots, so that a
\* broken limit would be seen.
Id == 1..(Concurrency + 1)
Goroutine == [job : Job, id : Id]

Init ==
    /\ status = [j \in Job |-> "absent"]
    /\ ready = {}
    /\ older = [j \in Job |-> {}]
    /\ loop = [w \in Worker |-> "down"]
    /\ lock = [w \in Worker |-> NoJob]
    /\ tasks = [w \in Worker |-> {}]
    /\ calls = [w \in Worker |-> {}]
    /\ wire = {}
    /\ toNotify = {}
    /\ subscribed = {}
    /\ signal = [w \in Worker |-> FALSE]
    /\ backlog = [w \in Worker |-> TRUE]
    /\ faults = 0
    /\ restarts = 0

InScope(w, j) == Scope[w] \in {AllTenants, JobTenant[j]}
Fault == faults < MaxFaults /\ faults' = faults + 1 /\ UNCHANGED restarts

-----------------------------------------------------------------------------
(* The queue.                                                              *)

\* updated_at becomes the current time (or the retry time passes): j is the
\* youngest of the ready rows.
BecomeReady(j) ==
    /\ ready' = ready \cup {j}
    /\ older' = [older EXCEPT ![j] = ready]

\* An UPDATE of the status column after which j cannot be claimed (a failed
\* row has its retry time ahead).
LeaveReady(j, st) ==
    /\ status' = [status EXCEPT ![j] = st]
    /\ ready' = ready \ {j}
    /\ older' = [k \in Job |-> IF k = j THEN {} ELSE older[k] \ {j}]

\* Mutant: a conflicting insert sets the row back to pending.
UpsertResolve(j) ==
    /\ j \notin ready
    /\ status' = [status EXCEPT ![j] = "pending"]
    /\ BecomeReady(j)
    /\ toNotify' = toNotify \cup {j}
    /\ UNCHANGED <<workerVars, wire, subscribed, signal, backlog, boundVars>>

\* EnqueueResolve: ON CONFLICT DO NOTHING, so only the first insert of a root
\* does anything and is followed by Notify.
EnqueueResolve(j) ==
    /\ status[j] = "absent"
    /\ status' = [status EXCEPT ![j] = "pending"]
    /\ BecomeReady(j)
    /\ toNotify' = toNotify \cup {j}
    /\ UNCHANGED <<workerVars, wire, subscribed, signal, backlog, boundVars>>

\* Notify: a non-blocking send to every subscriber of the tenant.
Notify(j) ==
    /\ j \in toNotify
    /\ toNotify' = toNotify \ {j}
    /\ signal' = [w \in Worker |-> signal[w] \/ (w \in subscribed /\ InScope(w, j))]
    /\ UNCHANGED <<queueVars, workerVars, wire, subscribed, backlog, boundVars>>

\* CompleteResolve: one transaction, not guarded by the row's status.
CompleteResolve(m) ==
    /\ m \in wire /\ m.result = "complete"
    /\ wire' = wire \ {m}
    /\ LeaveReady(m.job, "complete")
    /\ UNCHANGED <<workerVars, watchVars, boundVars>>

\* FailResolve: updated_at is the retry time, so the row is not ready yet.
FailResolve(m) ==
    /\ m \in wire /\ m.result = "failed"
    /\ wire' = wire \ {m}
    /\ LeaveReady(m.job, "failed")
    /\ UNCHANGED <<workerVars, watchVars, boundVars>>

\* The request is lost, or its transaction rolls back.
RequestFails(m) ==
    /\ m \in wire
    /\ Fault
    /\ wire' = wire \ {m}
    /\ UNCHANGED <<queueVars, workerVars, watchVars>>

\* The retry time of a failed row passes.
RetryDue(j) ==
    /\ status[j] = "failed" /\ j \notin ready
    /\ BecomeReady(j)
    /\ UNCHANGED <<status, workerVars, wire, watchVars, boundVars>>

-----------------------------------------------------------------------------
(* DependencyGraphWorker.Run.                                              *)

Start(w) ==
    /\ loop[w] = "down"
    /\ loop' = [loop EXCEPT ![w] = "wait"]
    /\ UNCHANGED <<queueVars, lock, tasks, calls, wire, watchVars, boundVars>>

\* WatchResolveJobs, at start and after every reconnect delay: rows inserted
\* before it were not signalled.
WatchResolveJobs(w) ==
    /\ loop[w] # "down" /\ w \notin subscribed
    /\ subscribed' = subscribed \cup {w}
    /\ backlog' = [backlog EXCEPT ![w] = TRUE]
    /\ UNCHANGED <<queueVars, workerVars, wire, toNotify, signal, boundVars>>

\* The stream breaks; a signal on its way may be lost with it.
WatchBreaks(w, kept) ==
    /\ w \in subscribed
    /\ Fault
    /\ subscribed' = subscribed \ {w}
    /\ signal' = [signal EXCEPT ![w] = @ /\ kept]
    /\ UNCHANGED <<queueVars, workerVars, wire, toNotify, backlog>>

\* case <-ticker.C
Tick(w) ==
    /\ loop[w] = "wait"
    /\ loop' = [loop EXCEPT ![w] = "claim"]
    /\ UNCHANGED <<queueVars, lock, tasks, calls, wire, watchVars, boundVars>>

\* case <-notifications: the slot is empty before the claims begin.
Receive(w) ==
    /\ loop[w] = "wait" /\ signal[w]
    /\ loop' = [loop EXCEPT ![w] = "claim"]
    /\ signal' = [signal EXCEPT ![w] = FALSE]
    /\ UNCHANGED <<queueVars, lock, tasks, calls, wire, toNotify, subscribed,
                   backlog, boundVars>>

\* Mutant: one goroutine too many.
OffByOneSlot(w) == Cardinality(tasks[w] \cup calls[w]) <= Concurrency

\* len(sem) < cap(sem)
FreeSlot(w) == Cardinality(tasks[w] \cup calls[w]) < Concurrency

Locked == {lock[w] : w \in Worker}
\* Ready rows the claim of w may take: not locked by another claim.
Candidates(w) == {j \in ready \ Locked : InScope(w, j)}

\* Mutant: the select locks nothing.
SelectUnlocked(w, j) ==
    /\ loop[w] = "claim" /\ FreeSlot(w)
    /\ j \in ready /\ InScope(w, j)
    /\ lock' = [lock EXCEPT ![w] = j]
    /\ loop' = [loop EXCEPT ![w] = "commit"]
    /\ UNCHANGED <<queueVars, tasks, calls, wire, watchVars, boundVars>>

\* Mutant: ORDER BY updated_at DESC.
SelectNewest(w, j) ==
    /\ loop[w] = "claim" /\ FreeSlot(w)
    /\ j \in Candidates(w) /\ \A k \in Candidates(w) : j \notin older[k]
    /\ lock' = [lock EXCEPT ![w] = j]
    /\ loop' = [loop EXCEPT ![w] = "commit"]
    /\ UNCHANGED <<queueVars, tasks, calls, wire, watchVars, boundVars>>

\* ClaimNextResolveJob: ORDER BY updated_at LIMIT 1 FOR UPDATE SKIP LOCKED.
SelectOldest(w, j) ==
    /\ loop[w] = "claim" /\ FreeSlot(w)
    /\ j \in Candidates(w) /\ older[j] \cap Candidates(w) = {}
    /\ lock' = [lock EXCEPT ![w] = j]
    /\ loop' = [loop EXCEPT ![w] = "commit"]
    /\ UNCHANGED <<queueVars, tasks, calls, wire, watchVars, boundVars>>

\* Numbers no goroutine of w has.
Unused(w) == Id \ {g.id : g \in tasks[w] \cup calls[w]}

\* The claim commits and its answer starts a goroutine.
CommitClaim(w) ==
    /\ loop[w] = "commit"
    /\ LeaveReady(lock[w], "resolving")
    /\ \E n \in Unused(w) :
          /\ \A m \in Unused(w) : n <= m
          /\ tasks' = [tasks EXCEPT ![w] = @ \cup {[job |-> lock[w], id |-> n]}]
    /\ lock' = [lock EXCEPT ![w] = NoJob]
    /\ loop' = [loop EXCEPT ![w] = "claim"]
    /\ UNCHANGED <<calls, wire, watchVars, boundVars>>

\* A pass of w ends early, and the row it has locked is there again for
\* everyone: no signal tells of them.
GivesBack(w) == backlog' = [v \in Worker |-> backlog[v] \/ v = w \/ lock[w] # NoJob]

\* The claim fails before the commit: the row stays as it was.
ClaimRollsBack(w) ==
    /\ loop[w] \in {"claim", "commit"}
    /\ Fault
    /\ lock' = [lock EXCEPT ![w] = NoJob]
    /\ loop' = [loop EXCEPT ![w] = "wait"]
    /\ GivesBack(w)
    /\ UNCHANGED <<queueVars, tasks, calls, wire, toNotify, subscribed, signal>>

\* The claim commits and its answer is lost, or the claimed root does not
\* normalize: the row is resolving and nobody knows.
ClaimAnswerLost(w) ==
    /\ loop[w] = "commit"
    /\ Fault
    /\ LeaveReady(lock[w], "resolving")
    /\ lock' = [lock EXCEPT ![w] = NoJob]
    /\ loop' = [loop EXCEPT ![w] = "wait"]
    /\ backlog' = [backlog EXCEPT ![w] = TRUE]
    /\ UNCHANGED <<tasks, calls, wire, toNotify, subscribed, signal>>

\* claimAvailableJobs ends because the select finds no row, ...
SelectsNothing(w) ==
    /\ loop[w] = "claim" /\ FreeSlot(w) /\ Candidates(w) = {}
    /\ loop' = [loop EXCEPT ![w] = "return"]
    /\ backlog' = [backlog EXCEPT ![w] = FALSE]
    /\ UNCHANGED <<queueVars, lock, tasks, calls, wire, toNotify, subscribed,
                   signal, boundVars>>

\* Mutant: the wake-up channel is drained when the pass ends.
PassEndsDraining(w) ==
    /\ loop[w] = "return"
    /\ loop' = [loop EXCEPT ![w] = "wait"]
    /\ signal' = [signal EXCEPT ![w] = FALSE]
    /\ UNCHANGED <<queueVars, lock, tasks, calls, wire, toNotify, subscribed,
                   backlog, boundVars>>

\* The empty answer reaches the worker, and Run selects again.
PassEnds(w) ==
    /\ loop[w] = "return"
    /\ loop' = [loop EXCEPT ![w] = "wait"]
    /\ UNCHANGED <<queueVars, lock, tasks, calls, wire, watchVars, boundVars>>

\* ... or no free slot, and rows may be left behind.
AllSlotsBusy(w) ==
    /\ loop[w] = "claim" /\ ~FreeSlot(w)
    /\ loop' = [loop EXCEPT ![w] = "wait"]
    /\ backlog' = [backlog EXCEPT ![w] = TRUE]
    /\ UNCHANGED <<queueVars, lock, tasks, calls, wire, toNotify, subscribed,
                   signal, boundVars>>

\* Mutant: FailResolve is called under the context whose deadline has passed,
\* and is never sent.
ReportUnderDeadline(w, g, result) ==
    /\ g \in tasks[w]
    /\ tasks' = [tasks EXCEPT ![w] = @ \ {g}]
    /\ calls' = [calls EXCEPT ![w] = @ \cup {g}]
    /\ wire' = wire \cup {[from |-> w, job |-> g.job, id |-> g.id, result |-> r] :
                             r \in {result} \ {"failed"}}
    /\ UNCHANGED <<queueVars, loop, lock, watchVars, boundVars>>

\* resolveJob: npm succeeds or fails (a timeout included), and the outcome is
\* sent under context.Background().
ReportResult(w, g, result) ==
    /\ g \in tasks[w]
    /\ tasks' = [tasks EXCEPT ![w] = @ \ {g}]
    /\ calls' = [calls EXCEPT ![w] = @ \cup {g}]
    /\ wire' = wire \cup {[from |-> w, job |-> g.job, id |-> g.id, result |-> result]}
    /\ UNCHANGED <<queueVars, loop, lock, watchVars, boundVars>>

OnWire(j) == \E m \in wire : m.job = j
OwnCallOnWire(w, g) == \E m \in wire : m.from = w /\ m.job = g.job /\ m.id = g.id

\* The call was executed or refused; the goroutine ends and frees its slot.
CallReturns(w, g) ==
    /\ g \in calls[w] /\ ~OwnCallOnWire(w, g)
    /\ calls' = [calls EXCEPT ![w] = @ \ {g}]
    /\ UNCHANGED <<queueVars, loop, lock, tasks, wire, watchVars, boundVars>>

\* The connection breaks while the control plane still executes the call: the
\* error is only logged.
CallBreaks(w, g) ==
    /\ g \in calls[w] /\ OwnCallOnWire(w, g)
    /\ Fault
    /\ calls' = [calls EXCEPT ![w] = @ \ {g}]
    /\ UNCHANGED <<queueVars, loop, lock, tasks, wire, watchVars>>

\* The process ends with its goroutines.  A claim it was waiting for rolls back
\* or commits with nobody left to resolve it; reports already sent are executed.
ProcessEnds(w) ==
    /\ loop[w] # "down"
    /\ loop' = [loop EXCEPT ![w] = "down"]
    /\ lock' = [lock EXCEPT ![w] = NoJob]
    /\ tasks' = [tasks EXCEPT ![w] = {}]
    /\ calls' = [calls EXCEPT ![w] = {}]
    /\ subscribed' = subscribed \ {w}
    /\ signal' = [signal EXCEPT ![w] = FALSE]
    /\ \/ loop[w] = "commit" /\ LeaveReady(lock[w], "resolving") /\ UNCHANGED backlog
       \/ GivesBack(w) /\ UNCHANGED queueVars
    /\ UNCHANGED <<wire, toNotify>>

\* SIGTERM: serve returns and the process exits.  The runner of the worker has
\* no shutdown function and the context of Run is never cancelled, so nothing
\* waits for the goroutines, and the signal may come at any point of the loop.
Shutdown(w) ==
    /\ restarts < MaxRestarts
    /\ restarts' = restarts + 1
    /\ ProcessEnds(w)
    /\ UNCHANGED faults

\* The process dies.
Crash(w) == Fault /\ ProcessEnds(w)

-----------------------------------------------------------------------------
\* PostgreSQL executes the outstanding request for a root.
Database(j) == \E m \in wire : m.job = j /\ (CompleteResolve(m) \/ FailResolve(m))

\* The claim pass that a wake-up has started.
ClaimStep(w) ==
    \/ \E j \in Job : SelectOldest(w, j)
    \/ CommitClaim(w)
    \/ SelectsNothing(w)
    \/ PassEnds(w)
    \/ AllSlotsBusy(w)

Report(w, g) == \E result \in Results : ReportResult(w, g, result)

Failures ==
    \/ \E m \in wire : RequestFails(m)
    \/ \E w \in Worker :
          \/ \E kept \in BOOLEAN : WatchBreaks(w, kept)
          \/ ClaimRollsBack(w) \/ ClaimAnswerLost(w) \/ Crash(w)
          \/ \E g \in Goroutine : CallBreaks(w, g)

Next ==
    \/ \E j \in Job : EnqueueResolve(j) \/ Notify(j) \/ Database(j) \/ RetryDue(j)
    \/ \E w \in Worker :
          \/ Start(w) \/ WatchResolveJobs(w) \/ Tick(w) \/ Receive(w)
          \/ ClaimStep(w) \/ Shutdown(w)
          \/ \E g \in Goroutine : Report(w, g) \/ CallReturns(w, g)
    \/ Failures

Spec == Init /\ [][Next]_vars

\* The ticker fires, goroutines run, npm ends by its timeout, the database
\* executes calls, retry times pass and stopped workers are started again.
\* Nothing is assumed of signals, of requests that enqueue or of npm's result.
Fairness ==
    /\ \A j \in Job : WF_vars(Database(j)) /\ WF_vars(RetryDue(j))
    /\ \A w \in Worker :
          /\ WF_vars(Start(w)) /\ WF_vars(Tick(w)) /\ WF_vars(ClaimStep(w))
          /\ \A g \in Goroutine : WF_vars(Report(w, g)) /\ WF_vars(CallReturns(w, g))

FairSpec == Spec /\ Fairness

-----------------------------------------------------------------------------
(* Properties.                                                             *)

\* Every variable keeps its type; a worker never exceeds its slots.
TypeOK ==
    /\ status \in [Job -> {"absent", "pending", "resolving"} \cup Results]
    /\ ready \subseteq Job
    /\ older \in [Job -> SUBSET Job]
    /\ loop \in [Worker -> Loops]
    /\ lock \in [Worker -> Job \cup {NoJob}]
    /\ tasks \in [Worker -> SUBSET Goroutine]
    /\ calls \in [Worker -> SUBSET Goroutine]
    /\ wire \subseteq [from : Worker, job : Job, id : Id, result : Results]
    /\ toNotify \subseteq Job
    /\ subscribed \subseteq Worker
    /\ signal \in [Worker -> BOOLEAN]
    /\ backlog \in [Worker -> BOOLEAN]
    /\ faults \in 0..MaxFaults
    /\ restarts \in 0..MaxRestarts

\* The semaphore: claims never start more goroutines than there are slots.
SlotsRespected == \A w \in Worker : Cardinality(tasks[w] \cup calls[w]) <= Concurrency

\* CompleteResolve and FailResolve do not look at the status they replace.
\* That is safe because a root has at most one resolver, a goroutine or a
\* request on its way, and its row is resolving for as long as it has one.
OneResolver ==
    /\ \A w \in Worker : \A g \in tasks[w] :
          /\ status[g.job] = "resolving" /\ ~OnWire(g.job)
          /\ \A v \in Worker : \A h \in tasks[v] : h.job = g.job => v = w /\ h = g
    /\ \A m \in wire :
          /\ status[m.job] = "resolving"
          /\ \A n \in wire : n.job = m.job => n = m

\* A resolved graph stays: no late FailResolve of an earlier attempt and no
\* repeated enqueue takes a complete root back.
CompleteIsFinal ==
    [][\A j \in Job : status[j] = "complete" => status'[j] = "complete"]_vars

\* A resolving row nobody works on.
Orphan(j) ==
    /\ status[j] = "resolving" /\ ~OnWire(j)
    /\ \A w \in Worker : \A g \in tasks[w] : g.job # j

Orphans == {j \in Job : Orphan(j)}

\* There is no lease: a row that loses its resolver stays resolving.  Rows are
\* lost only to a process that ends (a SIGTERM included) or to a failed call,
\* each time no more than the slots of one worker; a timeout of npm, a retry
\* and a report that is late or refused lose none.
OrphansBounded == Cardinality(Orphans) <= Concurrency * (faults + restarts)

\* A new job wakes the workers that watch: a waiting worker without a signal
\* has no new, announced job to claim, unless it ended its last pass early, has
\* just subscribed or another claim has given a row back (then the poll ticker
\* has to find the job).
NoLostWakeup ==
    \A w \in Worker :
        /\ loop[w] = "wait" /\ w \in subscribed
        /\ ~signal[w] /\ ~backlog[w]
        => \A j \in Candidates(w) : status[j] = "pending" => j \in toNotify

\* Polling retries everything: a pending or failed root is claimed again, and
\* a root that keeps failing does not starve another one.
QueuedJobClaimed ==
    \A j \in Job : status[j] \in Claimable ~> status[j] = "resolving"
=============================================================================
