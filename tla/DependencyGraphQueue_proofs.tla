-------------------- MODULE DependencyGraphQueue_proofs --------------------
(***************************************************************************)
(* Exclusive resolution and its consequences, for any number of jobs and   *)
(* workers.                                                                *)
(***************************************************************************)
EXTENDS DependencyGraphQueue, FiniteSetTheorems, TLAPS

\* Only pending and failed rows are ready.
ReadyInv == \A j \in ready : status[j] \in Claimable

\* A claim locks one ready row, and no two claims lock the same.
LockInv ==
    /\ \A w \in Worker :
          /\ loop[w] = "commit" => lock[w] \in ready
          /\ loop[w] # "commit" => lock[w] = NoJob
          /\ loop[w] = "down" => tasks[w] = {}
    /\ \A w, v \in Worker : w # v /\ lock[w] = lock[v] => lock[w] = NoJob

\* A row with a resolver is resolving, so it is not ready; a locked row is
\* ready, so no goroutine and no request can be about it.
QInv == TypeOK /\ ReadyInv /\ LockInv /\ OneResolver

USE DEF queueVars, workerVars, watchVars, boundVars, Results, Claimable, Loops

-----------------------------------------------------------------------------
(* One lemma per group of actions that disturb the same conjuncts.         *)

\* A root is enqueued.
LEMMA EnqueueKeeps ==
    ASSUME QInv, NEW j \in Job, EnqueueResolve(j) PROVE QInv'
<1>1. TypeOK'
  BY QueueAssumption DEF QInv, TypeOK, LockInv, EnqueueResolve, BecomeReady
<1>2. ReadyInv'
  BY QueueAssumption DEF QInv, TypeOK, ReadyInv, LockInv, OneResolver, EnqueueResolve, BecomeReady
<1>3. LockInv'
  BY QueueAssumption DEF QInv, TypeOK, ReadyInv, LockInv, OneResolver, EnqueueResolve, BecomeReady
<1>4. OneResolver'
  BY QueueAssumption DEF QInv, TypeOK, ReadyInv, LockInv, OneResolver, OnWire, EnqueueResolve, BecomeReady
<1>5. QED
  BY <1>1, <1>2, <1>3, <1>4 DEF QInv

\* Signals change nothing of the queue.
LEMMA NotifyKeeps ==
    ASSUME QInv, NEW j \in Job, Notify(j) PROVE QInv'
<1>1. TypeOK'
  BY QueueAssumption DEF QInv, TypeOK, LockInv, Notify
<1>2. ReadyInv'
  BY QueueAssumption DEF QInv, TypeOK, ReadyInv, LockInv, OneResolver, Notify
<1>3. LockInv'
  BY QueueAssumption DEF QInv, TypeOK, ReadyInv, LockInv, OneResolver, Notify
<1>4. OneResolver'
  BY QueueAssumption DEF QInv, TypeOK, ReadyInv, LockInv, OneResolver, OnWire, Notify
<1>5. QED
  BY <1>1, <1>2, <1>3, <1>4 DEF QInv

\* A failed root becomes ready again.
LEMMA RetryKeeps ==
    ASSUME QInv, NEW j \in Job, RetryDue(j) PROVE QInv'
<1>1. TypeOK'
  BY QueueAssumption DEF QInv, TypeOK, LockInv, RetryDue, BecomeReady
<1>2. ReadyInv'
  BY QueueAssumption DEF QInv, TypeOK, ReadyInv, LockInv, OneResolver, RetryDue, BecomeReady
<1>3. LockInv'
  BY QueueAssumption DEF QInv, TypeOK, ReadyInv, LockInv, OneResolver, RetryDue, BecomeReady
<1>4. OneResolver'
  BY QueueAssumption DEF QInv, TypeOK, ReadyInv, LockInv, OneResolver, OnWire, RetryDue, BecomeReady
<1>5. QED
  BY <1>1, <1>2, <1>3, <1>4 DEF QInv

\* CompleteResolve and FailResolve, whatever status they replace.
LEMMA ExecuteKeeps ==
    ASSUME QInv, NEW m \in wire, CompleteResolve(m) \/ FailResolve(m) PROVE QInv'
<1>1. TypeOK'
  BY QueueAssumption DEF QInv, TypeOK, LockInv, CompleteResolve, FailResolve, LeaveReady
<1>2. ReadyInv'
  BY QueueAssumption DEF QInv, TypeOK, ReadyInv, LockInv, OneResolver, CompleteResolve, FailResolve, LeaveReady
<1>3. LockInv'
  BY QueueAssumption DEF QInv, TypeOK, ReadyInv, LockInv, OneResolver, CompleteResolve, FailResolve, LeaveReady
<1>4. OneResolver'
  <2>1. /\ wire' = wire \ {m} /\ tasks' = tasks
        /\ \E st \in Results : status' = [status EXCEPT ![m.job] = st]
    BY DEF CompleteResolve, FailResolve, LeaveReady
  <2>2. \A j \in Job : j # m.job => status'[j] = status[j]
    BY <2>1 DEF QInv, TypeOK
  <2>3. \A v \in Worker : \A g \in tasks[v] : g.job \in Job /\ g.job # m.job
    BY DEF QInv, TypeOK, OneResolver, OnWire, Goroutine
  <2>4. \A n \in wire' : n \in wire /\ n.job \in Job /\ n.job # m.job
    BY <2>1 DEF QInv, TypeOK, OneResolver
  <2> QED BY <2>1, <2>2, <2>3, <2>4 DEF QInv, OneResolver, OnWire
<1>5. QED
  BY <1>1, <1>2, <1>3, <1>4 DEF QInv

\* A request is lost: its row becomes an orphan by a fault.
LEMMA RequestFailsKeeps ==
    ASSUME QInv, NEW m \in wire, RequestFails(m) PROVE QInv'
<1>1. TypeOK'
  BY QueueAssumption DEF QInv, TypeOK, LockInv, RequestFails, Fault
<1>2. ReadyInv'
  BY QueueAssumption DEF QInv, TypeOK, ReadyInv, LockInv, OneResolver, RequestFails, Fault
<1>3. LockInv'
  BY QueueAssumption DEF QInv, TypeOK, ReadyInv, LockInv, OneResolver, RequestFails, Fault
<1>4. OneResolver'
  BY QueueAssumption DEF QInv, TypeOK, ReadyInv, LockInv, OneResolver, OnWire, RequestFails, Fault
<1>5. QED
  BY <1>1, <1>2, <1>3, <1>4 DEF QInv

\* Steps of the Run loop outside a claim.
LEMMA LoopKeeps ==
    ASSUME QInv, NEW w \in Worker, Start(w) \/ Tick(w) \/ Receive(w) \/ SelectsNothing(w) \/ PassEnds(w)
           \/ AllSlotsBusy(w) PROVE QInv'
<1>a. TypeOK
  BY DEF QInv
<1>b. loop' \in [Worker -> Loops]
  BY <1>a DEF TypeOK, Start, Tick, Receive,
      SelectsNothing, PassEnds, AllSlotsBusy
<1>c. signal' \in [Worker -> BOOLEAN] /\ backlog' \in [Worker -> BOOLEAN]
  BY <1>a DEF TypeOK, Start, Tick, Receive,
      SelectsNothing, PassEnds, AllSlotsBusy
<1>d. subscribed' \subseteq Worker /\ faults' \in 0..MaxFaults /\ restarts' \in 0..MaxRestarts
  BY <1>a, QueueAssumption DEF TypeOK, Start, Tick, Receive,
      SelectsNothing, PassEnds, AllSlotsBusy
<1>e. UNCHANGED <<status, ready, older, lock, tasks, calls, wire, toNotify>>
  BY DEF Start, Tick, Receive,
      SelectsNothing, PassEnds, AllSlotsBusy
<1>1. TypeOK'
  BY <1>a, <1>b, <1>c, <1>d, <1>e DEF TypeOK
<1>2. ReadyInv'
  BY QueueAssumption DEF QInv, TypeOK, ReadyInv, LockInv, OneResolver, Start, Tick, Receive,
      SelectsNothing, PassEnds, AllSlotsBusy
<1>3. LockInv'
  <2>1. /\ loop[w] # "commit" /\ loop'[w] # "commit"
        /\ loop'[w] = "down" => tasks[w] = {}
    BY <1>a DEF TypeOK, Start, Tick, Receive,
      SelectsNothing, PassEnds, AllSlotsBusy
  <2>2. \A v \in Worker \ {w} : loop'[v] = loop[v]
    BY <1>a DEF TypeOK, Start, Tick, Receive,
      SelectsNothing, PassEnds, AllSlotsBusy
  <2>3. QED
    BY <1>e, <2>1, <2>2 DEF QInv, LockInv
<1>4. OneResolver'
  BY QueueAssumption DEF QInv, TypeOK, ReadyInv, LockInv, OneResolver, OnWire, Start, Tick, Receive,
      SelectsNothing, PassEnds, AllSlotsBusy
<1>5. QED
  BY <1>1, <1>2, <1>3, <1>4 DEF QInv

\* The watch opens and breaks.
LEMMA WatchKeeps ==
    ASSUME QInv, NEW w \in Worker, WatchResolveJobs(w) \/ \E kept \in BOOLEAN : WatchBreaks(w, kept) PROVE QInv'
<1>a. TypeOK
  BY DEF QInv
<1>b. signal' \in [Worker -> BOOLEAN]
  BY <1>a DEF TypeOK, WatchResolveJobs, WatchBreaks
<1>c. subscribed' \subseteq Worker /\ backlog' \in [Worker -> BOOLEAN]
  BY <1>a DEF TypeOK, WatchResolveJobs, WatchBreaks
<1>d. faults' \in 0..MaxFaults /\ restarts' \in 0..MaxRestarts
  BY <1>a, QueueAssumption DEF TypeOK, WatchResolveJobs, WatchBreaks, Fault
<1>e. UNCHANGED <<queueVars, workerVars, wire, toNotify>>
  BY DEF WatchResolveJobs, WatchBreaks
<1>1. TypeOK'
  BY <1>a, <1>b, <1>c, <1>d, <1>e DEF TypeOK
<1>2. ReadyInv'
  BY QueueAssumption DEF QInv, TypeOK, ReadyInv, LockInv, OneResolver, WatchResolveJobs, WatchBreaks, Fault
<1>3. LockInv'
  BY QueueAssumption DEF QInv, TypeOK, ReadyInv, LockInv, OneResolver, WatchResolveJobs, WatchBreaks, Fault
<1>4. OneResolver'
  BY QueueAssumption DEF QInv, TypeOK, ReadyInv, LockInv, OneResolver, OnWire, WatchResolveJobs, WatchBreaks, Fault
<1>5. QED
  BY <1>1, <1>2, <1>3, <1>4 DEF QInv

\* The select locks a ready row no other claim has locked.
LEMMA SelectKeeps ==
    ASSUME QInv, NEW w \in Worker, NEW j \in Job, SelectOldest(w, j) PROVE QInv'
<1>1. TypeOK'
  BY QueueAssumption DEF QInv, TypeOK, LockInv, SelectOldest, Candidates, Locked
<1>2. ReadyInv'
  BY QueueAssumption DEF QInv, TypeOK, ReadyInv, LockInv, OneResolver, SelectOldest, Candidates, Locked
<1>3. LockInv'
  BY QueueAssumption DEF QInv, TypeOK, ReadyInv, LockInv, OneResolver, SelectOldest, Candidates, Locked
<1>4. OneResolver'
  BY QueueAssumption DEF QInv, TypeOK, ReadyInv, LockInv, OneResolver, OnWire, SelectOldest, Candidates, Locked
<1>5. QED
  BY <1>1, <1>2, <1>3, <1>4 DEF QInv

\* The claim commits: the row gets its only resolver.
LEMMA CommitKeeps ==
    ASSUME QInv, NEW w \in Worker, CommitClaim(w) PROVE QInv'
<1>a. TypeOK
  BY DEF QInv
<1>b. PICK n \in Id : tasks' = [tasks EXCEPT ![w] = @ \cup {[job |-> lock[w], id |-> n]}]
  BY DEF CommitClaim, Unused
<1>c. lock[w] \in Job
  BY <1>a DEF QInv, LockInv, TypeOK, CommitClaim
<1>d. tasks' \in [Worker -> SUBSET Goroutine]
  <2>1. [job |-> lock[w], id |-> n] \in Goroutine
    BY <1>c DEF Goroutine
  <2> QED BY <1>a, <1>b, <2>1 DEF TypeOK
<1>e. /\ status' \in [Job -> {"absent", "pending", "resolving"} \cup Results]
      /\ ready' \subseteq Job /\ older' \in [Job -> SUBSET Job]
      /\ loop' \in [Worker -> Loops] /\ lock' \in [Worker -> Job \cup {NoJob}]
      /\ UNCHANGED <<calls, wire, watchVars, boundVars>>
  BY <1>a, <1>c DEF TypeOK, CommitClaim, LeaveReady
<1>1. TypeOK'
  BY <1>a, <1>d, <1>e DEF TypeOK
<1>2. ReadyInv'
  BY QueueAssumption DEF QInv, TypeOK, ReadyInv, LockInv, OneResolver, CommitClaim, LeaveReady
<1>3. LockInv'
  BY QueueAssumption DEF QInv, TypeOK, ReadyInv, LockInv, OneResolver, CommitClaim, LeaveReady
<1>4. OneResolver'
  BY QueueAssumption DEF QInv, TypeOK, ReadyInv, LockInv, OneResolver, OnWire, CommitClaim, LeaveReady
<1>5. QED
  BY <1>1, <1>2, <1>3, <1>4 DEF QInv

\* The claim rolls back.
LEMMA RollbackKeeps ==
    ASSUME QInv, NEW w \in Worker, ClaimRollsBack(w) PROVE QInv'
<1>1. TypeOK'
  BY QueueAssumption DEF QInv, TypeOK, LockInv, ClaimRollsBack, GivesBack, Fault
<1>2. ReadyInv'
  BY QueueAssumption DEF QInv, TypeOK, ReadyInv, LockInv, OneResolver, ClaimRollsBack, Fault
<1>3. LockInv'
  BY QueueAssumption DEF QInv, TypeOK, ReadyInv, LockInv, OneResolver, ClaimRollsBack, Fault
<1>4. OneResolver'
  BY QueueAssumption DEF QInv, TypeOK, ReadyInv, LockInv, OneResolver, OnWire, ClaimRollsBack, Fault
<1>5. QED
  BY <1>1, <1>2, <1>3, <1>4 DEF QInv

\* The claim commits for nobody.
LEMMA AnswerLostKeeps ==
    ASSUME QInv, NEW w \in Worker, ClaimAnswerLost(w) PROVE QInv'
<1>1. TypeOK'
  BY QueueAssumption DEF QInv, TypeOK, LockInv, ClaimAnswerLost, LeaveReady, Fault
<1>2. ReadyInv'
  BY QueueAssumption DEF QInv, TypeOK, ReadyInv, LockInv, OneResolver, ClaimAnswerLost, LeaveReady, Fault
<1>3. LockInv'
  BY QueueAssumption DEF QInv, TypeOK, ReadyInv, LockInv, OneResolver, ClaimAnswerLost, LeaveReady, Fault
<1>4. OneResolver'
  BY QueueAssumption DEF QInv, TypeOK, ReadyInv, LockInv, OneResolver, OnWire, ClaimAnswerLost, LeaveReady, Fault
<1>5. QED
  BY <1>1, <1>2, <1>3, <1>4 DEF QInv

\* A goroutine hands its row over to a request.
LEMMA ReportKeeps ==
    ASSUME QInv, NEW w \in Worker, NEW g \in Goroutine, NEW result \in Results,
           ReportResult(w, g, result) PROVE QInv'
<1>a. TypeOK
  BY DEF QInv
<1>b. [from |-> w, job |-> g.job, id |-> g.id, result |-> result]
         \in [from : Worker, job : Job, id : Id, result : Results]
  BY DEF Goroutine
<1>c. wire' \subseteq [from : Worker, job : Job, id : Id, result : Results]
  BY <1>a, <1>b DEF TypeOK, ReportResult
<1>d. /\ tasks' \in [Worker -> SUBSET Goroutine] /\ calls' \in [Worker -> SUBSET Goroutine]
      /\ UNCHANGED <<queueVars, loop, lock, watchVars, boundVars>>
  BY <1>a DEF TypeOK, ReportResult
<1>1. TypeOK'
  BY <1>a, <1>c, <1>d DEF TypeOK
<1>2. ReadyInv'
  BY QueueAssumption DEF QInv, TypeOK, ReadyInv, LockInv, OneResolver, ReportResult
<1>3. LockInv'
  BY QueueAssumption DEF QInv, TypeOK, ReadyInv, LockInv, OneResolver, ReportResult
<1>4. OneResolver'
  BY QueueAssumption DEF QInv, TypeOK, ReadyInv, LockInv, OneResolver, OnWire, ReportResult
<1>5. QED
  BY <1>1, <1>2, <1>3, <1>4 DEF QInv

\* A call ends.
LEMMA CallKeeps ==
    ASSUME QInv, NEW w \in Worker, NEW g \in Goroutine, CallReturns(w, g) \/ CallBreaks(w, g) PROVE QInv'
<1>1. TypeOK'
  BY QueueAssumption DEF QInv, TypeOK, LockInv, CallReturns, CallBreaks, Fault
<1>2. ReadyInv'
  BY QueueAssumption DEF QInv, TypeOK, ReadyInv, LockInv, OneResolver, CallReturns, CallBreaks, Fault
<1>3. LockInv'
  BY QueueAssumption DEF QInv, TypeOK, ReadyInv, LockInv, OneResolver, CallReturns, CallBreaks, Fault
<1>4. OneResolver'
  BY QueueAssumption DEF QInv, TypeOK, ReadyInv, LockInv, OneResolver, OnWire, CallReturns, CallBreaks, Fault
<1>5. QED
  BY <1>1, <1>2, <1>3, <1>4 DEF QInv

\* A process ends with its goroutines, by a signal or by a fault.
LEMMA EndKeeps ==
    ASSUME QInv, NEW w \in Worker, Shutdown(w) \/ Crash(w) PROVE QInv'
<1>a. TypeOK /\ ProcessEnds(w)
  BY DEF QInv, Shutdown, Crash
<1>b. faults' \in 0..MaxFaults /\ restarts' \in 0..MaxRestarts
  BY <1>a, QueueAssumption DEF TypeOK, Shutdown, Crash, Fault
<1>c. /\ loop' = [loop EXCEPT ![w] = "down"] /\ lock' = [lock EXCEPT ![w] = NoJob]
      /\ tasks' = [tasks EXCEPT ![w] = {}] /\ calls' = [calls EXCEPT ![w] = {}]
      /\ subscribed' = subscribed \ {w} /\ signal' = [signal EXCEPT ![w] = FALSE]
      /\ wire' = wire /\ toNotify' = toNotify
  BY <1>a DEF ProcessEnds
<1>d. backlog' \in [Worker -> BOOLEAN]
  BY <1>a DEF TypeOK, ProcessEnds, GivesBack
<1>e. \/ loop[w] = "commit" /\ LeaveReady(lock[w], "resolving")
      \/ UNCHANGED queueVars
  BY <1>a DEF ProcessEnds
<1>f. loop[w] = "commit" => lock[w] \in ready /\ lock[w] \in Job
  BY <1>a DEF QInv, LockInv, TypeOK
<1>g. status' \in [Job -> {"absent", "pending", "resolving"} \cup Results]
      /\ ready' \subseteq Job /\ older' \in [Job -> SUBSET Job]
  BY <1>a, <1>e, <1>f DEF TypeOK, LeaveReady
<1>1. TypeOK'
  BY <1>a, <1>b, <1>c, <1>d, <1>g, QueueAssumption DEF TypeOK
<1>h. /\ \A j \in ready' : j \in ready /\ status'[j] = status[j]
      /\ \A j \in ready : j \notin ready' => loop[w] = "commit" /\ lock[w] = j
  <2>1. CASE UNCHANGED queueVars
    <3>1. ready' = ready /\ status' = status
      BY <2>1
    <3> QED BY <3>1
  <2>2. CASE loop[w] = "commit" /\ LeaveReady(lock[w], "resolving")
    <3>1. ready' = ready \ {lock[w]} /\ \A j \in Job : j # lock[w] => status'[j] = status[j]
      BY <1>a, <2>2 DEF TypeOK, LeaveReady
    <3> QED BY <1>a, <2>2, <3>1 DEF TypeOK
  <2> QED BY <1>e, <2>1, <2>2
<1>i. \A j \in Job : status[j] = "resolving" => status'[j] = "resolving"
  BY <1>a, <1>e, <1>f DEF TypeOK, LeaveReady
<1>2. ReadyInv'
  BY <1>1, <1>h DEF QInv, ReadyInv, TypeOK
<1>3. LockInv'
  <2>1. \A v \in Worker \ {w} : lock'[v] = lock[v] /\ loop'[v] = loop[v] /\ tasks'[v] = tasks[v]
    BY <1>a, <1>c DEF TypeOK
  <2>2. lock'[w] = NoJob /\ loop'[w] = "down" /\ tasks'[w] = {}
    BY <1>a, <1>c DEF TypeOK
  <2>3. \A v \in Worker \ {w} : loop[v] = "commit" => lock[v] \in ready'
    BY <1>a, <1>f, <1>h, QueueAssumption DEF QInv, LockInv, TypeOK
  <2> QED BY <2>1, <2>2, <2>3 DEF QInv, LockInv
<1>4. OneResolver'
  <2>1. \A v \in Worker : tasks'[v] \subseteq tasks[v]
    BY <1>a, <1>c DEF TypeOK
  <2>2. \A v \in Worker : \A g \in tasks[v] : g.job \in Job
    BY <1>a DEF TypeOK, Goroutine
  <2>3. \A m \in wire : m.job \in Job
    BY <1>a DEF TypeOK
  <2> QED BY <1>c, <1>i, <2>1, <2>2, <2>3 DEF QInv, OneResolver, OnWire
<1>5. QED
  BY <1>1, <1>2, <1>3, <1>4 DEF QInv

-----------------------------------------------------------------------------
\* The queue starts empty, with every worker down.
LEMMA InitQ == Init => QInv
  BY QueueAssumption
  DEF Init, QInv, TypeOK, ReadyInv, LockInv, OneResolver

\* Every step keeps the invariant.
LEMMA NextQ == QInv /\ [Next]_vars => QInv'
<1>. SUFFICES ASSUME QInv, [Next]_vars PROVE QInv'
  OBVIOUS
<1>1. ASSUME NEW j \in Job, EnqueueResolve(j) \/ Notify(j) \/ Database(j) \/ RetryDue(j)
      PROVE  QInv'
  BY <1>1, EnqueueKeeps, NotifyKeeps, RetryKeeps, ExecuteKeeps DEF Database
<1>2. ASSUME NEW w \in Worker,
             \/ Start(w) \/ WatchResolveJobs(w) \/ Tick(w) \/ Receive(w)
             \/ ClaimStep(w) \/ Shutdown(w)
             \/ \E g \in Goroutine : Report(w, g) \/ CallReturns(w, g)
      PROVE  QInv'
  BY <1>2, LoopKeeps, WatchKeeps, SelectKeeps, CommitKeeps, ReportKeeps, CallKeeps,
     EndKeeps
  DEF ClaimStep, Report
<1>3. ASSUME Failures PROVE QInv'
  BY <1>3, RequestFailsKeeps, WatchKeeps, RollbackKeeps, AnswerLostKeeps, EndKeeps,
     CallKeeps
  DEF Failures
<1>4. ASSUME UNCHANGED vars PROVE QInv'
  BY <1>4 DEF vars, QInv, TypeOK, ReadyInv, LockInv, OneResolver, OnWire
<1>5. QED
  BY <1>1, <1>2, <1>3, <1>4 DEF Next

\* The inductive invariant holds in every reachable state.
THEOREM QueueInvariance == Spec => []QInv
  BY InitQ, NextQ, PTL DEF Spec

\* Every variable keeps its type, and the status column its CHECK constraint.
THEOREM QueueTypeCorrect == Spec => []TypeOK
<1>1. QInv => TypeOK
  BY DEF QInv
<1>2. QED
  BY <1>1, QueueInvariance, PTL

\* FOR UPDATE SKIP LOCKED: a root has at most one resolver at a time, through
\* crashes, lost answers and restarts.
THEOREM ResolutionIsExclusive == Spec => []OneResolver
<1>1. QInv => OneResolver
  BY DEF QInv
<1>2. QED
  BY <1>1, QueueInvariance, PTL

\* One step never takes a complete root back.
LEMMA CompleteStep ==
    QInv /\ [Next]_vars => [\A j \in Job : status[j] = "complete" => status'[j] = "complete"]_vars
<1>. SUFFICES ASSUME QInv, Next, NEW k \in Job, status[k] = "complete"
              PROVE  status'[k] = "complete"
  OBVIOUS
<1>1. \/ UNCHANGED status
      \/ \E j \in Job : EnqueueResolve(j)
      \/ \E m \in wire : CompleteResolve(m) \/ FailResolve(m)
      \/ \E w \in Worker : loop[w] = "commit" /\ LeaveReady(lock[w], "resolving")
  BY DEF Next, Notify, Database, RetryDue, Start, WatchResolveJobs, Tick, Receive, ClaimStep,
         SelectOldest, SelectsNothing, PassEnds, AllSlotsBusy, Report,
         ReportResult, CallReturns, Failures, RequestFails, WatchBreaks, ClaimRollsBack,
         Crash, Shutdown, ProcessEnds, CallBreaks, CommitClaim, ClaimAnswerLost
<1>2. CASE UNCHANGED status
  BY <1>2
<1>3. CASE \E j \in Job : EnqueueResolve(j)
  BY <1>3 DEF EnqueueResolve, QInv, TypeOK
<1>4. CASE \E m \in wire : CompleteResolve(m) \/ FailResolve(m)
  BY <1>4 DEF CompleteResolve, FailResolve, LeaveReady, QInv, TypeOK, OneResolver
<1>5. CASE \E w \in Worker : loop[w] = "commit" /\ LeaveReady(lock[w], "resolving")
  BY <1>5 DEF LeaveReady, QInv, TypeOK, ReadyInv, LockInv
<1>6. QED
  BY <1>1, <1>2, <1>3, <1>4, <1>5

\* CompleteResolve is final although FailResolve never looks at the status.
THEOREM CompletionIsFinal == Spec => CompleteIsFinal
  BY QueueInvariance, CompleteStep, PTL DEF Spec, CompleteIsFinal

-----------------------------------------------------------------------------
(* The semaphore.                                                          *)

Busy(w) == tasks[w] \cup calls[w]

\* A claim that is about to commit was begun with a free slot, and nobody
\* else takes that slot.
SlotInv(w) ==
    /\ IsFiniteSet(Busy(w))
    /\ Cardinality(Busy(w)) <= Concurrency
    /\ loop[w] = "commit" => Cardinality(Busy(w)) < Concurrency

\* What a step does to the slots of one worker.
Releases(w) ==
    /\ Busy(w)' \subseteq Busy(w)
    /\ loop'[w] = "commit" => loop[w] = "commit" \/ Cardinality(Busy(w)) < Concurrency

Takes(w) ==
    /\ loop[w] = "commit" /\ loop'[w] # "commit"
    /\ \E g \in Goroutine : Busy(w)' = Busy(w) \cup {g}

LEMMA SlotStep ==
    ASSUME NEW w \in Worker, SlotInv(w), Releases(w) \/ Takes(w)
    PROVE  SlotInv(w)'
<1>1. /\ IsFiniteSet(Busy(w)) /\ Cardinality(Busy(w)) <= Concurrency
      /\ loop[w] = "commit" => Cardinality(Busy(w)) < Concurrency
  BY DEF SlotInv
<1>2. Cardinality(Busy(w)) \in Nat BY <1>1, FS_CardinalityType
<1>3. CASE Releases(w)
  <2>1. Busy(w)' \subseteq Busy(w) BY <1>3 DEF Releases
  <2>2. IsFiniteSet(Busy(w)') /\ Cardinality(Busy(w)') <= Cardinality(Busy(w))
    BY <1>1, <2>1, FS_Subset
  <2>3. Cardinality(Busy(w)') \in Nat BY <2>2, FS_CardinalityType
  <2>4. Cardinality(Busy(w)') <= Concurrency BY <1>1, <1>2, <2>2, <2>3, QueueAssumption
  <2>5. loop'[w] = "commit" => Cardinality(Busy(w)') < Concurrency
    <3> HIDE DEF Busy
    <3>1. loop'[w] = "commit" => Cardinality(Busy(w)) < Concurrency BY <1>1, <1>3 DEF Releases
    <3> QED BY <1>2, <2>2, <2>3, <3>1, QueueAssumption
  <2> QED BY <2>2, <2>4, <2>5 DEF SlotInv
<1>4. CASE Takes(w)
  <2>1. PICK g \in Goroutine : Busy(w)' = Busy(w) \cup {g} BY <1>4 DEF Takes
  <2>2. IsFiniteSet(Busy(w) \cup {g})
        /\ Cardinality(Busy(w) \cup {g}) \in {Cardinality(Busy(w)), Cardinality(Busy(w)) + 1}
    BY <1>1, <1>2, FS_AddElement
  <2>3. Cardinality(Busy(w)) < Concurrency /\ loop'[w] # "commit" BY <1>1, <1>4 DEF Takes
  <2>4. Cardinality(Busy(w) \cup {g}) <= Concurrency BY <1>2, <2>2, <2>3, QueueAssumption
  <2> QED BY <2>1, <2>2, <2>3, <2>4 DEF SlotInv
<1> QED BY <1>3, <1>4

\* Every step, for every worker.
LEMMA SlotsOfNext ==
    ASSUME QInv, [Next]_vars, NEW v \in Worker
    PROVE  Releases(v) \/ Takes(v)
<1>1. TypeOK BY DEF QInv
<1>2. CASE tasks' = tasks /\ calls' = calls /\ loop' = loop BY <1>2 DEF Releases, Busy
<1>3. ASSUME NEW w \in Worker,
             \/ Start(w) \/ Tick(w) \/ Receive(w) \/ SelectsNothing(w) \/ PassEnds(w)
             \/ AllSlotsBusy(w) \/ ClaimRollsBack(w) \/ ClaimAnswerLost(w)
      PROVE  Releases(v)
  <2>1. tasks' = tasks /\ calls' = calls
    BY <1>3 DEF Start, Tick, Receive, SelectsNothing, PassEnds, AllSlotsBusy,
                ClaimRollsBack, ClaimAnswerLost
  <2>2. \E l \in Loops \ {"commit"} : loop' = [loop EXCEPT ![w] = l]
    BY <1>3 DEF Start, Tick, Receive, SelectsNothing, PassEnds, AllSlotsBusy,
                ClaimRollsBack, ClaimAnswerLost
  <2>3. loop'[v] = "commit" => loop[v] = "commit" BY <1>1, <2>2 DEF TypeOK
  <2> QED BY <2>1, <2>3 DEF Releases, Busy
<1>4. ASSUME NEW w \in Worker, NEW j \in Job, SelectOldest(w, j) PROVE Releases(v)
  <2>1. tasks' = tasks /\ calls' = calls /\ loop' = [loop EXCEPT ![w] = "commit"]
        /\ Cardinality(Busy(w)) < Concurrency
    BY <1>4 DEF SelectOldest, FreeSlot, Busy
  <2>2. v # w => loop'[v] = loop[v] BY <1>1, <2>1 DEF TypeOK
  <2> QED BY <2>1, <2>2 DEF Releases, Busy
<1>5. ASSUME NEW w \in Worker, CommitClaim(w) PROVE Releases(v) \/ Takes(v)
  <2>0. PICK n \in Id : tasks' = [tasks EXCEPT ![w] = @ \cup {[job |-> lock[w], id |-> n]}]
    BY <1>5 DEF CommitClaim, Unused
  <2>1. calls' = calls /\ loop' = [loop EXCEPT ![w] = "claim"] /\ loop[w] = "commit"
    BY <1>5 DEF CommitClaim
  <2>2. CASE v = w
    <3>1. lock[w] \in Job BY <1>1, <2>1 DEF QInv, LockInv, TypeOK
    <3> DEFINE g == [job |-> lock[w], id |-> n]
    <3>2. g \in Goroutine BY <3>1 DEF Goroutine
    <3> HIDE DEF g
    <3>4. tasks'[v] = tasks[v] \cup {g} /\ loop'[v] = "claim" BY <1>1, <2>0, <2>1, <2>2 DEF TypeOK, g
    <3>3. Busy(v)' = Busy(v) \cup {g} BY <2>1, <3>4 DEF Busy
    <3> QED BY <2>1, <2>2, <3>2, <3>3, <3>4 DEF Takes
  <2>3. CASE v # w
    <3>1. tasks'[v] = tasks[v] /\ loop'[v] = loop[v] BY <1>1, <2>0, <2>1, <2>3 DEF TypeOK
    <3> QED BY <2>1, <3>1 DEF Releases, Busy
  <2> QED BY <2>2, <2>3
<1>6. ASSUME NEW w \in Worker, NEW g \in Goroutine, Report(w, g) \/ CallReturns(w, g) \/ CallBreaks(w, g)
      PROVE  Releases(v)
  <2>1. loop' = loop BY <1>6 DEF Report, ReportResult, CallReturns, CallBreaks
  <2>2. tasks'[v] \cup calls'[v] \subseteq tasks[v] \cup calls[v]
    BY <1>1, <1>6 DEF TypeOK, Report, ReportResult, CallReturns, CallBreaks
  <2> QED BY <2>1, <2>2 DEF Releases, Busy
<1>7. ASSUME NEW w \in Worker, Shutdown(w) \/ Crash(w) PROVE Releases(v)
  <2>1. /\ loop' = [loop EXCEPT ![w] = "down"]
        /\ tasks' = [tasks EXCEPT ![w] = {}] /\ calls' = [calls EXCEPT ![w] = {}]
    BY <1>7 DEF Shutdown, Crash, ProcessEnds
  <2> QED BY <1>1, <2>1 DEF TypeOK, Releases, Busy
<1>8. ASSUME \/ \E j \in Job : EnqueueResolve(j) \/ Notify(j) \/ Database(j) \/ RetryDue(j)
             \/ \E w \in Worker : WatchResolveJobs(w) \/ \E kept \in BOOLEAN : WatchBreaks(w, kept)
             \/ \E m \in wire : RequestFails(m)
             \/ UNCHANGED vars
      PROVE  tasks' = tasks /\ calls' = calls /\ loop' = loop
  BY <1>8 DEF EnqueueResolve, Notify, Database, CompleteResolve, FailResolve, RetryDue,
              WatchResolveJobs, WatchBreaks, RequestFails, vars
<1> QED BY <1>2, <1>3, <1>4, <1>5, <1>6, <1>7, <1>8 DEF Next, ClaimStep, Failures

Slots == \A w \in Worker : SlotInv(w)

LEMMA SlotsInvariance == Spec => []Slots
<1>1. Init => Slots
  <2> SUFFICES ASSUME Init, NEW w \in Worker PROVE SlotInv(w) BY DEF Slots
  <2>1. Busy(w) = {} /\ loop[w] = "down" BY DEF Init, Busy
  <2>2. IsFiniteSet({}) /\ Cardinality({}) = 0 BY FS_EmptySet
  <2> QED BY <2>1, <2>2, QueueAssumption DEF SlotInv
<1>2. QInv /\ Slots /\ [Next]_vars => Slots' BY SlotsOfNext, SlotStep DEF Slots
<1> QED BY <1>1, <1>2, QueueInvariance, PTL DEF Spec

\* len(sem) < cap(sem): a worker never runs more resolutions than it has
\* slots, although the slot is taken only after the claim has committed.
THEOREM SlotsAreRespected == Spec => []SlotsRespected
<1>1. Slots => SlotsRespected BY DEF Slots, SlotInv, Busy, SlotsRespected
<1> QED BY <1>1, SlotsInvariance, PTL

-----------------------------------------------------------------------------
(* Orphans.                                                                *)

Few(S, n) == IsFiniteSet(S) /\ Cardinality(S) <= n

LEMMA FewUnion ==
    ASSUME NEW S, NEW T, NEW U, NEW m \in Nat, NEW n \in Nat, Few(S, m), Few(T, n),
           U \subseteq S \cup T
    PROVE  Few(U, m + n)
<1>1. IsFiniteSet(S) /\ IsFiniteSet(T) /\ Cardinality(S) <= m /\ Cardinality(T) <= n BY DEF Few
<1>2. /\ IsFiniteSet(S \cup T) /\ IsFiniteSet(S \cap T)
      /\ Cardinality(S \cup T) = Cardinality(S) + Cardinality(T) - Cardinality(S \cap T)
  BY <1>1, FS_Union, FS_Intersection
<1>3. IsFiniteSet(U) /\ Cardinality(U) <= Cardinality(S \cup T) BY <1>2, FS_Subset
<1>4. /\ Cardinality(S) \in Nat /\ Cardinality(T) \in Nat /\ Cardinality(U) \in Nat
      /\ Cardinality(S \cap T) \in Nat /\ Cardinality(S \cup T) \in Nat
  BY <1>1, <1>2, <1>3, FS_CardinalityType
<1> QED BY <1>1, <1>2, <1>3, <1>4 DEF Few

LEMMA FewOne ==
    ASSUME NEW x
    PROVE  Few({x}, 1) /\ Few({x}, Concurrency)
<1>1. IsFiniteSet({x}) /\ Cardinality({x}) = 1 BY FS_Singleton
<1> QED BY <1>1, QueueAssumption DEF Few

\* The roots of a worker's goroutines are no more than the goroutines.
LEMMA RootsOfTasks ==
    ASSUME NEW w \in Worker, NEW n \in Nat, IsFiniteSet(Busy(w)), Cardinality(Busy(w)) <= n
    PROVE  Few({g.job : g \in tasks[w]}, n)
<1> DEFINE f == [g \in tasks[w] |-> g.job]
<1>1. tasks[w] \subseteq Busy(w) BY DEF Busy
<1>2. IsFiniteSet(tasks[w]) /\ Cardinality(tasks[w]) <= Cardinality(Busy(w)) BY <1>1, FS_Subset
<1>3. f \in Surjection(tasks[w], {g.job : g \in tasks[w]}) BY DEF Surjection
<1>4. /\ IsFiniteSet({g.job : g \in tasks[w]})
      /\ Cardinality({g.job : g \in tasks[w]}) <= Cardinality(tasks[w])
  BY <1>2, <1>3, FS_Surjection
<1>5. /\ Cardinality({g.job : g \in tasks[w]}) \in Nat /\ Cardinality(tasks[w]) \in Nat
      /\ Cardinality(Busy(w)) \in Nat
  BY <1>2, <1>4, FS_CardinalityType
<1> QED BY <1>2, <1>4, <1>5 DEF Few

Losses == faults + restarts

\* A step that loses no row, and one that loses at most a worker's slots.
LosesNone == Orphans' \subseteq Orphans /\ Losses' \in {Losses, Losses + 1}
LosesSome ==
    /\ Losses' = Losses + 1
    /\ \E S \in SUBSET Job : Few(S, Concurrency) /\ Orphans' \subseteq Orphans \cup S

\* The database, new roots, claims, reports and calls lose none.
LEMMA QueueLosesNone ==
    ASSUME QInv,
           \/ \E j \in Job : EnqueueResolve(j) \/ Database(j)
           \/ \E w \in Worker : CommitClaim(w)
           \/ \E w \in Worker, g \in Goroutine : Report(w, g)
    PROVE  LosesNone
<1>0. TypeOK BY DEF QInv
<1>1. Losses' = Losses
  BY DEF Losses, EnqueueResolve, Database, CompleteResolve, FailResolve, CommitClaim, Report,
         ReportResult
<1>2. Losses' \in {Losses, Losses + 1} BY <1>1
<1>3. SUFFICES ASSUME NEW k \in Job, Orphan(k)' PROVE Orphan(k)
  BY <1>2 DEF LosesNone, Orphans
<1>4. CASE \E j \in Job : EnqueueResolve(j)
  BY <1>0, <1>3, <1>4 DEF TypeOK, Orphan, OnWire, EnqueueResolve
<1>5. ASSUME NEW m \in wire, CompleteResolve(m) \/ FailResolve(m) PROVE Orphan(k)
  <2>1. /\ wire' = wire \ {m} /\ tasks' = tasks
        /\ \E st \in {"complete", "failed"} : status' = [status EXCEPT ![m.job] = st]
    BY <1>5 DEF CompleteResolve, FailResolve, LeaveReady
  <2>2. k # m.job /\ status[k] = "resolving" BY <1>0, <1>3, <2>1 DEF TypeOK, Orphan
  <2> QED BY <1>3, <2>1, <2>2 DEF Orphan, OnWire
<1>6. ASSUME NEW w \in Worker, CommitClaim(w) PROVE Orphan(k)
  <2>1. /\ wire' = wire /\ status' = [status EXCEPT ![lock[w]] = "resolving"]
        /\ \E n \in Id : tasks' = [tasks EXCEPT ![w] = @ \cup {[job |-> lock[w], id |-> n]}]
    BY <1>6 DEF CommitClaim, LeaveReady, Unused
  <2>2. PICK n \in Id : tasks' = [tasks EXCEPT ![w] = @ \cup {[job |-> lock[w], id |-> n]}]
    BY <2>1
  <2>3. [job |-> lock[w], id |-> n] \in tasks'[w] BY <1>0, <2>2 DEF TypeOK
  <2>4. k # lock[w] BY <1>3, <2>3 DEF Orphan
  <2>5. \A v \in Worker : tasks[v] \subseteq tasks'[v] BY <1>0, <2>2 DEF TypeOK
  <2> QED BY <1>0, <1>3, <2>1, <2>4, <2>5 DEF Orphan, OnWire, TypeOK
<1>7. ASSUME NEW w \in Worker, NEW g \in Goroutine, NEW result \in Results,
             ReportResult(w, g, result)
      PROVE  Orphan(k)
  <2> DEFINE m == [from |-> w, job |-> g.job, id |-> g.id, result |-> result]
  <2>1. m \in wire' /\ m.job = g.job BY <1>7 DEF ReportResult
  <2>2. k # g.job BY <1>3, <2>1 DEF Orphan, OnWire
  <2>3. status' = status /\ wire \subseteq wire' /\ tasks' = [tasks EXCEPT ![w] = @ \ {g}]
    BY <1>7 DEF ReportResult
  <2>4. \A v \in Worker : tasks[v] \subseteq tasks'[v] \cup {g} BY <1>0, <2>3 DEF TypeOK
  <2> HIDE DEF m
  <2> QED BY <1>3, <2>2, <2>3, <2>4 DEF Orphan, OnWire
<1> QED BY <1>4, <1>5, <1>6, <1>7 DEF Database, Report

\* Neither does anything that leaves statuses, goroutines and requests alone.
LEMMA OthersLoseNone ==
    ASSUME QInv,
           \/ \E j \in Job : Notify(j) \/ RetryDue(j)
           \/ \E w \in Worker :
                 \/ Start(w) \/ WatchResolveJobs(w) \/ Tick(w) \/ Receive(w)
                 \/ (\E j \in Job : SelectOldest(w, j))
                 \/ SelectsNothing(w) \/ PassEnds(w) \/ AllSlotsBusy(w)
                 \/ (\E kept \in BOOLEAN : WatchBreaks(w, kept)) \/ ClaimRollsBack(w)
                 \/ (\E g \in Goroutine : CallReturns(w, g) \/ CallBreaks(w, g))
           \/ UNCHANGED vars
    PROVE  LosesNone
<1>1. status' = status /\ wire' = wire /\ tasks' = tasks
  BY DEF Notify, RetryDue, Start, WatchResolveJobs, Tick, Receive, SelectOldest, SelectsNothing,
         PassEnds, AllSlotsBusy, WatchBreaks, ClaimRollsBack, CallReturns, CallBreaks, vars
<1>2. restarts' = restarts /\ faults' \in {faults, faults + 1}
  BY DEF Notify, RetryDue, Start, WatchResolveJobs, Tick, Receive, SelectOldest, SelectsNothing,
         PassEnds, AllSlotsBusy, WatchBreaks, ClaimRollsBack, CallReturns, CallBreaks, vars, Fault
<1>3. Losses' \in {Losses, Losses + 1}
  <2>1. faults \in Nat /\ restarts \in Nat BY QueueAssumption DEF QInv, TypeOK
  <2>2. CASE faults' = faults BY <1>2, <2>1, <2>2 DEF Losses
  <2>3. CASE faults' = faults + 1
    <3>1. Losses' = (faults + 1) + restarts BY <1>2, <2>3 DEF Losses
    <3> QED BY <2>1, <3>1 DEF Losses
  <2> QED BY <1>2, <2>2, <2>3
<1>4. Orphans' = Orphans BY <1>1 DEF Orphans, Orphan, OnWire
<1> QED BY <1>3, <1>4 DEF LosesNone

\* A lost request loses its row, a lost answer the claimed one.
LEMMA CallLosesOne ==
    ASSUME QInv, (\E m \in wire : RequestFails(m)) \/ (\E w \in Worker : ClaimAnswerLost(w))
    PROVE  LosesSome
<1>0. TypeOK BY DEF QInv
<1>1. Losses' = Losses + 1 BY <1>0 DEF Losses, TypeOK, RequestFails, ClaimAnswerLost, Fault
<1>2. ASSUME NEW m \in wire, RequestFails(m) PROVE LosesSome
  <2>1. m.job \in Job BY <1>0 DEF TypeOK
  <2>2. wire' = wire \ {m} /\ tasks' = tasks /\ status' = status BY <1>2 DEF RequestFails
  <2>3. Orphans' \subseteq Orphans \cup {m.job} BY <2>2 DEF Orphans, Orphan, OnWire
  <2>4. {m.job} \in SUBSET Job /\ Few({m.job}, Concurrency) BY <2>1, FewOne
  <2> QED BY <1>1, <2>3, <2>4 DEF LosesSome
<1>3. ASSUME NEW w \in Worker, ClaimAnswerLost(w) PROVE LosesSome
  <2>1. lock[w] \in Job BY <1>0, <1>3 DEF ClaimAnswerLost, QInv, LockInv, TypeOK
  <2>2. wire' = wire /\ tasks' = tasks /\ status' = [status EXCEPT ![lock[w]] = "resolving"]
    BY <1>3 DEF ClaimAnswerLost, LeaveReady
  <2>3. Orphans' \subseteq Orphans \cup {lock[w]}
    BY <1>0, <2>1, <2>2 DEF Orphans, Orphan, OnWire, TypeOK
  <2>4. {lock[w]} \in SUBSET Job /\ Few({lock[w]}, Concurrency) BY <2>1, FewOne
  <2> QED BY <1>1, <2>3, <2>4 DEF LosesSome
<1> QED BY <1>2, <1>3

\* A process takes its tasks along and the row it is claiming, for which it
\* has kept a slot.
LEMMA EndLosesSome ==
    ASSUME QInv, Slots, NEW w \in Worker, Shutdown(w) \/ Crash(w)
    PROVE  LosesSome
<1>0. TypeOK /\ ProcessEnds(w) BY DEF QInv, Shutdown, Crash
<1>1. Losses' = Losses + 1 BY <1>0 DEF Losses, TypeOK, Shutdown, Crash, Fault
<1> DEFINE T == {g.job : g \in tasks[w]}
<1>2. T \in SUBSET Job BY <1>0 DEF TypeOK, Goroutine
<1>3. /\ IsFiniteSet(Busy(w)) /\ Cardinality(Busy(w)) <= Concurrency
      /\ loop[w] = "commit" => Cardinality(Busy(w)) < Concurrency
  BY DEF Slots, SlotInv
<1>4. wire' = wire /\ tasks' = [tasks EXCEPT ![w] = {}] BY <1>0 DEF ProcessEnds
<1>5. ASSUME NEW k \in Job, Orphan(k)', status[k] = "resolving" PROVE k \in Orphans \cup T
  <2>1. \A v \in Worker \ {w} : tasks'[v] = tasks[v] BY <1>0, <1>4 DEF TypeOK
  <2> QED BY <1>4, <1>5, <2>1 DEF Orphans, Orphan, OnWire
<1>6. CASE loop[w] = "commit" /\ LeaveReady(lock[w], "resolving")
  <2>1. lock[w] \in Job BY <1>0, <1>6 DEF QInv, LockInv, TypeOK
  <2>2. status' = [status EXCEPT ![lock[w]] = "resolving"] BY <1>6 DEF LeaveReady
  <2>3. \A k \in Job : Orphan(k)' => k = lock[w] \/ status[k] = "resolving"
    BY <1>0, <2>1, <2>2 DEF Orphan, TypeOK
  <2>4. Orphans' \subseteq Orphans \cup (T \cup {lock[w]}) BY <1>5, <2>3 DEF Orphans
  <2>5. Cardinality(Busy(w)) \in Nat BY <1>3, FS_CardinalityType
  <2>6. Concurrency - 1 \in Nat /\ Cardinality(Busy(w)) <= Concurrency - 1
    BY <1>3, <1>6, <2>5, QueueAssumption
  <2>7. Few(T, Concurrency - 1) BY <1>3, <2>6, RootsOfTasks
  <2>8. Few({lock[w]}, 1) BY FewOne
  <2> HIDE DEF T
  <2>9. Few(T \cup {lock[w]}, (Concurrency - 1) + 1) BY <2>6, <2>7, <2>8, FewUnion
  <2>10. (Concurrency - 1) + 1 = Concurrency BY QueueAssumption
  <2> QED BY <1>1, <1>2, <2>1, <2>4, <2>9, <2>10 DEF LosesSome
<1>7. CASE UNCHANGED queueVars
  <2>1. Orphans' \subseteq Orphans \cup T BY <1>5, <1>7 DEF Orphans, Orphan
  <2>2. Few(T, Concurrency) BY <1>3, RootsOfTasks, QueueAssumption
  <2> QED BY <1>1, <1>2, <2>1, <2>2 DEF LosesSome
<1> QED BY <1>0, <1>6, <1>7 DEF ProcessEnds

OrphanInv == Few(Orphans, Concurrency * Losses)

\* Every step that adds to the orphans adds a worker's slots to the bound.
LEMMA OrphanStep ==
    ASSUME QInv, OrphanInv, LosesNone \/ LosesSome
    PROVE  OrphanInv'
<1>1. Losses \in Nat /\ Concurrency \in Nat BY QueueAssumption DEF QInv, TypeOK, Losses
<1>2. Concurrency * Losses \in Nat /\ Concurrency * (Losses + 1) = Concurrency * Losses + Concurrency
  BY <1>1
<1>3. Few(Orphans, Concurrency * Losses) BY DEF OrphanInv
<1>4. Few({}, 0) /\ Few({}, Concurrency) BY <1>1, FS_EmptySet DEF Few
<1>5. CASE LosesNone
  <2>1. Orphans' \subseteq Orphans \cup {} BY <1>5 DEF LosesNone
  <2>2. Few(Orphans', Concurrency * Losses + 0) BY <1>2, <1>3, <1>4, <2>1, FewUnion
  <2>3. Few(Orphans', Concurrency * Losses + Concurrency) BY <1>1, <1>2, <1>3, <1>4, <2>1, FewUnion
  <2>4. Losses' = Losses \/ Losses' = Losses + 1 BY <1>5 DEF LosesNone
  <2> QED BY <1>2, <2>2, <2>3, <2>4 DEF OrphanInv
<1>6. CASE LosesSome
  <2>1. PICK S \in SUBSET Job : Few(S, Concurrency) /\ Orphans' \subseteq Orphans \cup S
    BY <1>6 DEF LosesSome
  <2>2. Few(Orphans', Concurrency * Losses + Concurrency) BY <1>1, <1>2, <1>3, <2>1, FewUnion
  <2>3. Losses' = Losses + 1 BY <1>6 DEF LosesSome
  <2> QED BY <1>2, <2>2, <2>3 DEF OrphanInv
<1> QED BY <1>5, <1>6

\* Rows are lost only to processes that end and to calls that fail: each of
\* them strands at most one worker's slots, and nothing else strands a row.
THEOREM OrphansAreBounded == Spec => []OrphansBounded
<1>1. Init => OrphanInv
  <2> SUFFICES ASSUME Init PROVE OrphanInv OBVIOUS
  <2>1. Orphans = {} BY DEF Init, Orphans, Orphan
  <2>2. Losses = 0 BY DEF Init, Losses
  <2>3. Concurrency * 0 = 0 BY QueueAssumption
  <2> QED BY <2>1, <2>2, <2>3, FS_EmptySet DEF OrphanInv, Few
<1>2. QInv /\ Slots /\ [Next]_vars => LosesNone \/ LosesSome
  BY QueueLosesNone, OthersLoseNone, CallLosesOne, EndLosesSome
  DEF Next, ClaimStep, Failures
<1>3. QInv /\ Slots /\ OrphanInv /\ [Next]_vars => OrphanInv' BY <1>2, OrphanStep
<1>4. OrphanInv => OrphansBounded BY DEF OrphanInv, OrphansBounded, Few, Losses
<1> QED BY <1>1, <1>3, <1>4, QueueInvariance, SlotsInvariance, PTL DEF Spec


-----------------------------------------------------------------------------
(* Wake-ups.                                                               *)

\* What w may have been left with: rows it could claim now.
Waiting(w) ==
    {j \in ready : InScope(w, j) /\ status[j] = "pending" /\ \A v \in Worker : lock[v] # j}

Quiet(w) ==
    /\ w \in subscribed /\ ~signal[w] /\ ~backlog[w]
    /\ loop[w] \in {"wait", "return"}

\* A locked row comes back only by a claim that gives it back, and then nobody
\* counts as quiet; a worker that is down is not subscribed.
WakeInv ==
    /\ \A w \in Worker : loop[w] = "down" => w \notin subscribed
    /\ \A w \in Worker : Quiet(w) => Waiting(w) \subseteq toNotify

\* A step that gives nobody a new row to wait for and quiets nobody.
LEMMA QuietStep ==
    ASSUME WakeInv, QInv,
           \A w \in Worker : loop'[w] = "down" => w \notin subscribed',
           \A w \in Worker : Quiet(w)' =>
               \/ Waiting(w)' \subseteq toNotify'
               \/ Quiet(w) /\ Waiting(w)' \subseteq Waiting(w) /\ toNotify \subseteq toNotify'
    PROVE  WakeInv'
BY DEF WakeInv

LEMMA WakeEnqueue ==
    ASSUME QInv, WakeInv, NEW j \in Job, EnqueueResolve(j) PROVE WakeInv'
<1>1. TypeOK BY DEF QInv
<1>2. /\ status' = [status EXCEPT ![j] = "pending"] /\ ready' = ready \cup {j}
      /\ toNotify' = toNotify \cup {j}
      /\ UNCHANGED <<loop, lock, subscribed, signal, backlog>>
  BY DEF EnqueueResolve, BecomeReady
<1>3. ASSUME NEW w \in Worker PROVE Waiting(w)' \subseteq Waiting(w) \cup {j}
  BY <1>1, <1>2 DEF Waiting, TypeOK
<1>4. \A w \in Worker : Quiet(w)' = Quiet(w) BY <1>2 DEF Quiet
<1>5. \A w \in Worker : Quiet(w)' => Waiting(w)' \subseteq toNotify'
  BY <1>2, <1>3, <1>4 DEF WakeInv
<1>6. \A w \in Worker : loop'[w] = "down" => w \notin subscribed'
  BY <1>2 DEF WakeInv
<1> QED BY <1>2, <1>5, <1>6, QuietStep

LEMMA WakeNotify ==
    ASSUME QInv, WakeInv, NEW j \in Job, Notify(j) PROVE WakeInv'
<1>1. TypeOK BY DEF QInv
<1>2. /\ toNotify' = toNotify \ {j}
      /\ signal' = [w \in Worker |-> signal[w] \/ (w \in subscribed /\ InScope(w, j))]
      /\ UNCHANGED <<status, ready, loop, lock, subscribed, backlog>>
  BY DEF Notify
<1>3. \A w \in Worker : Waiting(w)' = Waiting(w) BY <1>2 DEF Waiting
<1>4. \A w \in Worker : Quiet(w)' => Quiet(w) /\ ~InScope(w, j) BY <1>2 DEF Quiet
<1>5. \A w \in Worker : ~InScope(w, j) => j \notin Waiting(w) BY DEF Waiting
<1>6. \A w \in Worker : Quiet(w)' => Waiting(w)' \subseteq toNotify'
  BY <1>2, <1>3, <1>4, <1>5 DEF WakeInv
<1>7. \A w \in Worker : loop'[w] = "down" => w \notin subscribed'
  BY <1>2 DEF WakeInv
<1> QED BY <1>2, <1>6, <1>7, QuietStep

\* Rows leave the queue, or come back as failed ones.
LEMMA WakeQueue ==
    ASSUME QInv, WakeInv,
           \/ \E m \in wire : CompleteResolve(m) \/ FailResolve(m)
           \/ \E j \in Job : RetryDue(j)
    PROVE  WakeInv'
<1>1. TypeOK BY DEF QInv
<1>2. UNCHANGED <<loop, lock, subscribed, signal, backlog, toNotify>>
  BY DEF CompleteResolve, FailResolve, RetryDue
<1>3. ASSUME NEW w \in Worker PROVE Waiting(w)' \subseteq Waiting(w)
  <2>1. CASE \E m \in wire : CompleteResolve(m) \/ FailResolve(m)
    BY <1>1, <1>2, <2>1 DEF CompleteResolve, FailResolve, LeaveReady, Waiting, TypeOK
  <2>2. CASE \E j \in Job : RetryDue(j)
    BY <1>1, <1>2, <2>2 DEF RetryDue, BecomeReady, Waiting, TypeOK
  <2> QED BY <2>1, <2>2
<1>4. \A w \in Worker : Quiet(w)' = Quiet(w) BY <1>2 DEF Quiet
<1>5. \A w \in Worker : loop'[w] = "down" => w \notin subscribed'
  BY <1>2 DEF WakeInv
<1> QED BY <1>2, <1>3, <1>4, <1>5, QuietStep

\* A claim locks a row, and its commit takes the row away before the lock goes.
LEMMA WakeClaim ==
    ASSUME QInv, WakeInv, NEW w \in Worker, CommitClaim(w) \/ \E j \in Job : SelectOldest(w, j)
    PROVE  WakeInv'
<1>1. TypeOK BY DEF QInv
<1>2. /\ UNCHANGED <<subscribed, signal, backlog, toNotify>>
      /\ \E l \in {"claim", "commit"} : loop' = [loop EXCEPT ![w] = l]
      /\ loop[w] \in {"claim", "commit"}
  BY DEF CommitClaim, SelectOldest
<1>3. ASSUME NEW v \in Worker PROVE Waiting(v)' \subseteq Waiting(v)
  <2>1. CASE CommitClaim(w)
    <3>1. /\ ready' = ready \ {lock[w]} /\ status' = [status EXCEPT ![lock[w]] = "resolving"]
          /\ lock' = [lock EXCEPT ![w] = NoJob]
      BY <2>1 DEF CommitClaim, LeaveReady
    <3> QED BY <1>1, <3>1 DEF Waiting, TypeOK
  <2>2. ASSUME NEW j \in Job, SelectOldest(w, j) PROVE Waiting(v)' \subseteq Waiting(v)
    <3>1. ready' = ready /\ status' = status /\ lock' = [lock EXCEPT ![w] = j] /\ loop[w] = "claim"
      BY <2>2 DEF SelectOldest
    <3>2. lock[w] = NoJob BY <3>1 DEF QInv, LockInv
    <3> QED BY <1>1, <3>1, <3>2, QueueAssumption DEF Waiting, TypeOK
  <2> QED BY <2>1, <2>2
<1>4. \A v \in Worker : Quiet(v)' => Quiet(v) BY <1>1, <1>2 DEF Quiet, TypeOK
<1>5. \A v \in Worker : loop'[v] = "down" => v \notin subscribed'
  BY <1>1, <1>2 DEF WakeInv, TypeOK
<1> QED BY <1>2, <1>3, <1>4, <1>5, QuietStep

\* The steps of the Run loop, and the watch opening.
LEMMA WakeLoop ==
    ASSUME QInv, WakeInv, NEW w \in Worker,
           \/ Start(w) \/ Tick(w) \/ Receive(w) \/ PassEnds(w) \/ AllSlotsBusy(w)
           \/ WatchResolveJobs(w)
    PROVE  WakeInv'
<1> USE DEF Start, Tick, Receive, PassEnds, AllSlotsBusy, WatchResolveJobs
<1>1. TypeOK BY DEF QInv
<1>2. UNCHANGED <<status, ready, lock, toNotify>> OBVIOUS
<1>3. \A v \in Worker : Waiting(v)' = Waiting(v) BY <1>2 DEF Waiting
<1>4. \A v \in Worker : loop'[v] = "down" => v \notin subscribed'
  BY <1>1 DEF WakeInv, TypeOK
<1>5. ASSUME NEW v \in Worker, Quiet(v)' PROVE Quiet(v)
  <2>1. CASE v # w BY <1>1, <1>5, <2>1 DEF Quiet, TypeOK
  <2>2. CASE v = w
    <3>1. CASE Start(w)
      <4>1. w \notin subscribed BY <3>1 DEF WakeInv
      <4> QED BY <1>5, <2>2, <3>1, <4>1 DEF Quiet
    <3>2. CASE Tick(w) \/ Receive(w) BY <1>1, <1>5, <2>2, <3>2 DEF Quiet, TypeOK
    <3>3. CASE PassEnds(w) BY <1>1, <1>5, <2>2, <3>3 DEF Quiet, TypeOK
    <3>4. CASE AllSlotsBusy(w) \/ WatchResolveJobs(w)
      BY <1>1, <1>5, <2>2, <3>4 DEF Quiet, TypeOK
    <3> HIDE DEF Start, Tick, Receive, PassEnds, AllSlotsBusy, WatchResolveJobs
    <3> QED BY <3>1, <3>2, <3>3, <3>4
  <2> QED BY <2>1, <2>2
<1> QED BY <1>2, <1>3, <1>4, <1>5, QuietStep

\* A pass that finds nothing leaves nothing.
LEMMA WakeNothing ==
    ASSUME QInv, WakeInv, NEW w \in Worker, SelectsNothing(w) PROVE WakeInv'
<1>1. TypeOK BY DEF QInv
<1>2. /\ UNCHANGED <<status, ready, lock, toNotify, subscribed, signal>>
      /\ loop' = [loop EXCEPT ![w] = "return"] /\ backlog' = [backlog EXCEPT ![w] = FALSE]
      /\ Candidates(w) = {}
  BY DEF SelectsNothing
<1>3. \A v \in Worker : Waiting(v)' = Waiting(v) BY <1>2 DEF Waiting
<1>4. Waiting(w) = {} BY <1>2 DEF Waiting, Candidates, Locked
<1>5. \A v \in Worker \ {w} : Quiet(v)' = Quiet(v) BY <1>1, <1>2 DEF Quiet, TypeOK
<1>6. \A v \in Worker : loop'[v] = "down" => v \notin subscribed'
  BY <1>1, <1>2 DEF WakeInv, TypeOK
<1> QED BY <1>2, <1>3, <1>4, <1>5, <1>6, QuietStep

\* A claim that ends without its answer: a row that is given back makes nobody
\* quiet, a row that is lost is waited for by nobody.
LEMMA WakeGivenBack ==
    ASSUME QInv, WakeInv, NEW w \in Worker,
           \/ ClaimRollsBack(w) \/ ClaimAnswerLost(w) \/ Shutdown(w) \/ Crash(w)
    PROVE  WakeInv'
<1>1. TypeOK BY DEF QInv
<1>2. /\ toNotify' = toNotify /\ subscribed' \subseteq subscribed
      /\ lock' = [lock EXCEPT ![w] = NoJob]
      /\ \E l \in {"wait", "down"} : loop' = [loop EXCEPT ![w] = l]
      /\ loop'[w] = "down" => w \notin subscribed'
      /\ \A v \in Worker \ {w} : signal'[v] = signal[v]
  BY <1>1 DEF TypeOK, ClaimRollsBack, ClaimAnswerLost, Shutdown, Crash, ProcessEnds
<1>3. w \in subscribed' => backlog'[w]
  BY <1>1 DEF TypeOK, ClaimRollsBack, ClaimAnswerLost, Shutdown, Crash, ProcessEnds, GivesBack
<1>4. \A v \in Worker : backlog[v] => backlog'[v]
  BY <1>1 DEF TypeOK, ClaimRollsBack, ClaimAnswerLost, Shutdown, Crash, ProcessEnds, GivesBack
<1>5. \/ loop[w] = "commit" /\ LeaveReady(lock[w], "resolving")
      \/ UNCHANGED queueVars /\ GivesBack(w)
  BY DEF ClaimRollsBack, ClaimAnswerLost, Shutdown, Crash, ProcessEnds
<1>6. \A v \in Worker : loop'[v] = "down" => v \notin subscribed'
  BY <1>1, <1>2 DEF WakeInv, TypeOK
<1>7. ~Quiet(w)' BY <1>3 DEF Quiet
<1>8. ASSUME NEW v \in Worker \ {w}, Quiet(v)' PROVE Quiet(v) /\ Waiting(v)' \subseteq Waiting(v)
  <2>1. Quiet(v)
    <3>1. loop'[v] = loop[v] /\ signal'[v] = signal[v] BY <1>1, <1>2 DEF TypeOK
    <3> QED BY <1>2, <1>4, <1>8, <3>1 DEF Quiet
  <2>2. CASE loop[w] = "commit" /\ LeaveReady(lock[w], "resolving")
    <3>1. ready' = ready \ {lock[w]} /\ \A j \in Job : j # lock[w] => status'[j] = status[j]
      BY <1>1, <2>2 DEF TypeOK, LeaveReady
    <3>2. \A u \in Worker \ {w} : lock'[u] = lock[u] BY <1>1, <1>2 DEF TypeOK
    <3>3. lock'[w] = NoJob BY <1>1, <1>2 DEF TypeOK
    <3> QED BY <1>1, <2>1, <3>1, <3>2, <3>3 DEF Waiting, TypeOK
  <2>3. CASE UNCHANGED queueVars /\ GivesBack(w)
    <3>1. lock[w] = NoJob BY <1>1, <1>8, <2>3 DEF GivesBack, Quiet, TypeOK
    <3>2. \A u \in Worker : lock'[u] = lock[u] BY <1>1, <1>2, <3>1 DEF TypeOK
    <3> QED BY <2>1, <2>3, <3>2 DEF Waiting
  <2> QED BY <1>5, <2>1, <2>2, <2>3
<1>9. \A v \in Worker : Quiet(v)' =>
          Quiet(v) /\ Waiting(v)' \subseteq Waiting(v) /\ toNotify \subseteq toNotify'
  BY <1>2, <1>7, <1>8
<1> QED BY <1>6, <1>9, QuietStep

\* Goroutines and their calls do not matter here, and a worker whose watch
\* breaks is not quiet.
LEMMA WakeOthers ==
    ASSUME QInv, WakeInv,
           \/ \E w \in Worker, g \in Goroutine : Report(w, g) \/ CallReturns(w, g) \/ CallBreaks(w, g)
           \/ \E w \in Worker, kept \in BOOLEAN : WatchBreaks(w, kept)
           \/ \E m \in wire : RequestFails(m)
           \/ UNCHANGED vars
    PROVE  WakeInv'
<1>1. TypeOK BY DEF QInv
<1>2. /\ UNCHANGED <<status, ready, lock, loop, toNotify, backlog>>
      /\ subscribed' \subseteq subscribed
      /\ \A v \in Worker : v \in subscribed' => signal'[v] = signal[v]
  BY <1>1 DEF TypeOK, Report, ReportResult, CallReturns, CallBreaks, WatchBreaks, RequestFails, vars
<1>3. \A v \in Worker : Waiting(v)' = Waiting(v) BY <1>2 DEF Waiting
<1>4. \A v \in Worker : Quiet(v)' => Quiet(v) BY <1>2 DEF Quiet
<1>5. \A v \in Worker : loop'[v] = "down" => v \notin subscribed' BY <1>2 DEF WakeInv
<1> QED BY <1>2, <1>3, <1>4, <1>5, QuietStep

\* The one-slot channel and the subscription order of WatchResolveJobs: a
\* waiting worker that watches has been signalled for every new root it could
\* claim, but for the rows a claim has given back.
THEOREM WakeUpsAreNotLost == Spec => []NoLostWakeup
<1>1. Init => WakeInv BY DEF Init, WakeInv, Quiet
<1>2. QInv /\ WakeInv /\ [Next]_vars => WakeInv'
  BY WakeEnqueue, WakeNotify, WakeQueue, WakeClaim, WakeLoop, WakeNothing,
     WakeGivenBack, WakeOthers
  DEF Next, Database, ClaimStep, Failures
<1>3. WakeInv => NoLostWakeup
  <2> SUFFICES ASSUME WakeInv, NEW w \in Worker, loop[w] = "wait", w \in subscribed,
                      ~signal[w], ~backlog[w], NEW j \in Candidates(w), status[j] = "pending"
               PROVE  j \in toNotify
    BY DEF NoLostWakeup
  <2>1. Quiet(w) BY DEF Quiet
  <2>2. j \in Waiting(w) BY DEF Waiting, Candidates, Locked
  <2> QED BY <2>1, <2>2 DEF WakeInv
<1> QED BY <1>1, <1>2, <1>3, QueueInvariance, PTL DEF Spec
=============================================================================
