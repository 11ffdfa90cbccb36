-------------------------- MODULE DynamicScheduler --------------------------
(***************************************************************************)
(* The scheduling loop of src/scheduler/dynamic_scheduler.py, the worker   *)
(* pools it dispatches to (worker_pool.py) and the in-process part of the  *)
(* endpoint registry they share (resource_registry.py: try_hold, release). *)
(*                                                                         *)
(* Several schedulers (API executions of one process) run at once.  Each   *)
(* has a main thread (`run'), worker threads and their completion          *)
(* callbacks, and a controller (App.stop, App.pause, the route guard).     *)
(* The only state two schedulers share is the table of endpoint leases.    *)
(*                                                                         *)
(* A job is what one successful try_hold leads to: one plan of an INBAND   *)
(* endpoint, or all queued plans of a BMC endpoint.  It is named by its    *)
(* first plan, whose plan_id is the holder the lease records.              *)
(***************************************************************************)
EXTENDS Integers, Sequences, FiniteSets

(* A definition Bad... is a plausible mistake in the one that follows it;   *)
(* no action uses it.  Each is a mutation under which a property fails.     *)

CONSTANTS
  Scheds,       \* the scheduler instances
  Plans,        \* the task plans of all of them
  Endpoints,    \* the endpoint keys
  None,         \* no lease holder
  OwnerOf,      \* the scheduler a plan was given to
  EpOf,         \* plan.endpoint_key
  EpType,       \* the endpoint type of a key: "BMC" or "INBAND"
  Queue0,       \* plans grouped by endpoint, in plan order
  Ready0,       \* endpoints with plans left to dispatch
  Gated,        \* schedulers that found no Playwright runtime
  BaseWorkers,  \* base_bmc_workers, base_ssh_workers
  MaxWorkers,   \* max_bmc_workers, max_ssh_workers
  Scales,       \* resource scales the load can select, in percent
  StopReasons,  \* the reasons a controller may stop each scheduler with
  Pauses,       \* when the user may pause a scheduler: {"running", "stopping"}
  MayInterrupt, \* a KeyboardInterrupt reaches the main thread
  DrainExpires, \* workers may outlive the five minutes _drain waits
  SubmitFaults, \* how executor.submit may fail: subset of {"clean", "orphan"}
  MaxFaults     \* bound on failed submits, per scheduler

Pools == {"BMC", "INBAND"}

PlansAt(s, e) == {p \in Plans : OwnerOf[p] = s /\ EpOf[p] = e}

SeqRange(q) == {q[i] : i \in DOMAIN q}

ASSUME NoneAssumption == None \notin Plans \cup Endpoints
ASSUME PlanAssumption ==
  /\ OwnerOf \in [Plans -> Scheds]
  /\ EpOf \in [Plans -> Endpoints]
  /\ EpType \in [Endpoints -> Pools]
  /\ IsFiniteSet(Plans) /\ IsFiniteSet(Endpoints)
ASSUME QueueAssumption ==
  \A s \in Scheds, e \in Endpoints :
    /\ Queue0[s][e] \in Seq(PlansAt(s, e))
    /\ SeqRange(Queue0[s][e]) = PlansAt(s, e)
    /\ \A i, j \in DOMAIN Queue0[s][e] :
         Queue0[s][e][i] = Queue0[s][e][j] => i = j
ASSUME PoolAssumption ==
  /\ BaseWorkers \in [Pools -> Nat \ {0}]
  /\ MaxWorkers \in [Pools -> Nat \ {0}]
  /\ Scales \subseteq Nat
ASSUME SwitchAssumption ==
  /\ Gated \subseteq Scheds
  /\ StopReasons \in [Scheds -> SUBSET {"user_stop", "route_change"}]
  /\ Pauses \in [Scheds -> SUBSET {"running", "stopping"}]
  /\ MayInterrupt \in BOOLEAN
  /\ DrainExpires \in BOOLEAN
  /\ SubmitFaults \subseteq {"clean", "orphan"}
  /\ MaxFaults \in Nat

(***************************************************************************)
(* The queues `run' starts from: those of _build_endpoint_queues, less the *)
(* BMC ones when _gate_bmc_runtime_dependency finds no Playwright.         *)
(***************************************************************************)
Blocked(s, e) == s \in Gated /\ EpType[e] = "BMC"

InitialQueue(s, e) == IF Blocked(s, e) THEN <<>> ELSE Queue0[s][e]

ASSUME ReadyAssumption ==
  \A s \in Scheds :
    /\ Ready0[s] \in Seq(Endpoints)
    /\ SeqRange(Ready0[s]) = {e \in Endpoints : InitialQueue(s, e) # <<>>}
    /\ \A i, j \in DOMAIN Ready0[s] : Ready0[s][i] = Ready0[s][j] => i = j

VARIABLES
  pc,       \* where each main thread is
  pool,     \* the pool _dispatch is filling
  skipped,  \* endpoints _dispatch skipped since its last dispatch
  snap,     \* ready_snapshot
  hand,     \* the endpoint popped from the ready list
  take,     \* the plans popped for the job being dispatched
  queue,    \* _endpoint_queues
  ready,    \* _ready_endpoints
  target,   \* target size of each pool
  stop,     \* _stop_event
  unpaused, \* _pause_event (set: not paused)
  reason,   \* _stop_reason
  recorded, \* _stopped_at > 0
  drained,  \* what _drain returned
  ctl,      \* how far the controller's stop request is
  asked,    \* App._stop_reason: the reason the controller stopped with
  faults,   \* submits that failed
  late,     \* jobs submitted since the last stop or pause (history)
  lease,    \* ResourceRegistry._leases: endpoint -> job
  phase,    \* how far a job is
  group,    \* the plans of a job
  todo,     \* the plans of a job still to be executed
  outcome,  \* how a job's future ended
  active,   \* _active_futures of both pools, as jobs
  busy,     \* _running_resources of both pools
  ghost,    \* a job left on the executor's queue by a failed submit
  result,   \* the status recorded for a plan in _results
  report,   \* the status `run' returned for a plan
  runs      \* how often a plan was executed (history)

mainVars == <<pc, pool, skipped, snap, hand, take, target, drained>>
ctlVars  == <<stop, unpaused, reason, recorded, ctl, asked>>
jobVars  == <<phase, group, todo, outcome>>
poolVars == <<active, busy>>
vars == <<mainVars, ctlVars, jobVars, poolVars, queue, ready, faults, late,
          lease, ghost, result, report, runs>>

Skipped == {"EXEC_SKIPPED_STOPPED", "EXEC_SKIPPED_ROUTE_CHANGED"}
Executed == {"EXEC_DONE", "EXEC_ERROR"}   \* EXEC_DONE: any executor status
Status == Skipped \cup Executed \cup {"EXEC_BLOCKED"}

MainPcs == {"loop", "pausewait", "check", "pick", "submit", "finally",
            "drain", "cancel", "return", "returned"}

\* A job with a future whose completion callback has not finished.
InFlight == {"queued", "running", "finished", "claimed", "released", "appended"}
Phases == InFlight \cup {"none", "done", "lost"}

MainTypeOK ==
  /\ pc \in [Scheds -> MainPcs]
  /\ pool \in [Scheds -> Pools]
  /\ skipped \in [Scheds -> Nat]
  /\ snap \in [Scheds -> Nat]
  /\ hand \in [Scheds -> Endpoints \cup {None}]
  /\ take \in [Scheds -> Seq(Plans)]
  /\ target \in [Scheds -> [Pools -> Nat]]
  /\ drained \in [Scheds -> BOOLEAN]
  /\ faults \in [Scheds -> Nat]
  /\ late \in [Scheds -> Nat]

ControlTypeOK ==
  /\ stop \in [Scheds -> BOOLEAN]
  /\ unpaused \in [Scheds -> BOOLEAN]
  /\ reason \in [Scheds -> {"user_stop", "route_change",
                            "scheduler_stop", "user_interrupt"}]
  /\ recorded \in [Scheds -> BOOLEAN]
  /\ ctl \in [Scheds -> {"idle", "forwarding", "done"}]
  /\ asked \in [Scheds -> {"user_stop", "route_change", "none"}]
  /\ \A s \in Scheds : ctl[s] = "forwarding" => asked[s] # "none"

TableTypeOK ==
  /\ queue \in [Scheds -> [Endpoints -> Seq(Plans)]]
  /\ ready \in [Scheds -> Seq(Endpoints)]
  /\ lease \in [Endpoints -> Plans \cup {None}]
  /\ active \in [Scheds -> SUBSET Plans]
  /\ busy \in [Scheds -> SUBSET Endpoints]

JobTypeOK ==
  /\ phase \in [Plans -> Phases]
  /\ group \in [Plans -> Seq(Plans)]
  /\ todo \in [Plans -> Seq(Plans)]
  /\ outcome \in [Plans -> {"none", "ok", "error", "cancelled"}]
  /\ ghost \in [Plans -> {"none", "queued", "running", "ran"}]
  /\ runs \in [Plans -> Nat]

ResultTypeOK ==
  /\ result \in [Plans -> Status \cup {"none"}]
  /\ report \in [Plans -> Status \cup {"none"}]

TypeOK ==
  MainTypeOK /\ ControlTypeOK /\ TableTypeOK /\ JobTypeOK /\ ResultTypeOK

Init ==
  /\ pc = [s \in Scheds |-> "loop"]
  /\ pool = [s \in Scheds |-> "BMC"]
  /\ skipped = [s \in Scheds |-> 0]
  /\ snap = [s \in Scheds |-> 0]
  /\ hand = [s \in Scheds |-> None]
  /\ take = [s \in Scheds |-> <<>>]
  /\ queue = [s \in Scheds |-> [e \in Endpoints |-> InitialQueue(s, e)]]
  /\ ready = [s \in Scheds |-> Ready0[s]]
  /\ target = [s \in Scheds |-> BaseWorkers]
  /\ stop = [s \in Scheds |-> FALSE]
  /\ unpaused = [s \in Scheds |-> TRUE]
  /\ reason = [s \in Scheds |-> "scheduler_stop"]
  /\ recorded = [s \in Scheds |-> FALSE]
  /\ drained = [s \in Scheds |-> FALSE]
  /\ ctl = [s \in Scheds |-> "idle"]
  /\ asked = [s \in Scheds |-> "none"]
  /\ faults = [s \in Scheds |-> 0]
  /\ late = [s \in Scheds |-> 0]
  /\ lease = [e \in Endpoints |-> None]
  /\ phase = [p \in Plans |-> "none"]
  /\ group = [p \in Plans |-> <<>>]
  /\ todo = [p \in Plans |-> <<>>]
  /\ outcome = [p \in Plans |-> "none"]
  /\ active = [s \in Scheds |-> {}]
  /\ busy = [s \in Scheds |-> {}]
  /\ ghost = [p \in Plans |-> "none"]
  /\ result = [p \in Plans |-> IF Blocked(OwnerOf[p], EpOf[p])
                               THEN "EXEC_BLOCKED" ELSE "none"]
  /\ report = [p \in Plans |-> "none"]
  /\ runs = [p \in Plans |-> 0]

-----------------------------------------------------------------------------
(* Results: _append_result_once, one final result per plan.               *)

ResultPriority(st) ==
  CASE st \in Skipped  -> 10
    [] st \in Executed -> 100
    [] OTHER           -> 50

BadAccepts(old, new) == old = "none" \/ ResultPriority(new) >= ResultPriority(old)

\* A status is accepted when it is the first or outranks the recorded one.
Accepts(old, new) == old = "none" \/ ResultPriority(new) > ResultPriority(old)

AppendOnce(old, new) == IF Accepts(old, new) THEN new ELSE old

-----------------------------------------------------------------------------
(* The pools.                                                              *)

ActiveIn(s, pl) == {p \in active[s] : EpType[EpOf[p]] = pl}

HasIdle(s, pl) == Cardinality(ActiveIn(s, pl)) < target[s][pl]

HasRemainingWork(s) ==
  (\E e \in Endpoints : queue[s][e] # <<>>) \/ active[s] # {}

Least(a, b) == IF a < b THEN a ELSE b
Greatest(a, b) == IF a > b THEN a ELSE b

\* _compute_target_size; a scale is a percentage here.
TargetSize(base, max, demand, scale) ==
  IF scale >= 100
  THEN Least(max, Greatest(base, demand))
  ELSE Least(max, Least(Greatest(1, (max * scale) \div 100),
                        Greatest(1, demand)))

EndpointDemand(s, pl) ==
  Cardinality(ActiveIn(s, pl)) +
  Cardinality({e \in Endpoints : queue[s][e] # <<>> /\ EpType[e] = pl})

-----------------------------------------------------------------------------
(* The main thread: run.                                                   *)

BadContinues(s) == HasRemainingWork(s)

\* `while not stop_event.is_set() and _has_remaining_work()'
Continues(s) == ~stop[s] /\ HasRemainingWork(s)

LoopEnter(s) ==
  /\ pc[s] = "loop"
  /\ Continues(s)
  /\ pc' = [pc EXCEPT ![s] = "pausewait"]
  /\ UNCHANGED <<pool, skipped, snap, hand, take, target, drained, ctlVars,
                 jobVars, poolVars, queue, ready, faults, late, lease, ghost,
                 result, report, runs>>

LoopExit(s) ==
  /\ pc[s] = "loop"
  /\ ~Continues(s)
  /\ pc' = [pc EXCEPT ![s] = "finally"]
  /\ UNCHANGED <<pool, skipped, snap, hand, take, target, drained, ctlVars,
                 jobVars, poolVars, queue, ready, faults, late, lease, ghost,
                 result, report, runs>>

\* _pause_event.wait(), _adjust_pools, and into _dispatch's first pool.
AdjustPools(s) ==
  /\ pc[s] = "pausewait"
  /\ unpaused[s]
  /\ \E scale \in Scales :
       target' = [target EXCEPT ![s] = [pl \in Pools |->
                    TargetSize(BaseWorkers[pl], MaxWorkers[pl],
                               EndpointDemand(s, pl), scale)]]
  /\ pc' = [pc EXCEPT ![s] = "check"]
  /\ pool' = [pool EXCEPT ![s] = "BMC"]
  /\ skipped' = [skipped EXCEPT ![s] = 0]
  /\ snap' = [snap EXCEPT ![s] = Len(ready[s])]
  /\ UNCHANGED <<hand, take, drained, ctlVars, jobVars, poolVars, queue, ready,
                 faults, late, lease, ghost, result, report, runs>>

\* The for loop of _dispatch moves on: the INBAND pool, then back to run.
NextPool(s, rdy) ==
  IF pool[s] = "BMC"
  THEN /\ pool' = [pool EXCEPT ![s] = "INBAND"]
       /\ pc' = [pc EXCEPT ![s] = "check"]
       /\ skipped' = [skipped EXCEPT ![s] = 0]
       /\ snap' = [snap EXCEPT ![s] = Len(rdy)]
  ELSE /\ pc' = [pc EXCEPT ![s] = "loop"]
       /\ UNCHANGED <<pool, skipped, snap>>

BadHalted(s) == FALSE

\* "stop set - aborting dispatch loop", "paused - aborting dispatch loop"
Halted(s) == stop[s] \/ ~unpaused[s]

MayDispatch(s) == HasIdle(s, pool[s]) /\ ready[s] # <<>>

\* The pool is full, nothing is ready, or every ready endpoint was skipped.
PoolFilled(s) ==
  /\ pc[s] = "check"
  /\ MayDispatch(s) => ~Halted(s) /\ skipped[s] >= snap[s]
  /\ NextPool(s, ready[s])
  /\ UNCHANGED <<hand, take, target, drained, ctlVars, jobVars, poolVars,
                 queue, ready, faults, late, lease, ghost, result, report, runs>>

DispatchAborted(s) ==
  /\ pc[s] = "check"
  /\ MayDispatch(s)
  /\ Halted(s)
  /\ pc' = [pc EXCEPT ![s] = "loop"]
  /\ UNCHANGED <<pool, skipped, snap, hand, take, target, drained, ctlVars,
                 jobVars, poolVars, queue, ready, faults, late, lease, ghost,
                 result, report, runs>>

TakeReady(s) ==
  /\ pc[s] = "check"
  /\ MayDispatch(s)
  /\ ~Halted(s)
  /\ skipped[s] < snap[s]
  /\ hand' = [hand EXCEPT ![s] = Head(ready[s])]
  /\ ready' = [ready EXCEPT ![s] = Tail(@)]
  /\ pc' = [pc EXCEPT ![s] = "pick"]
  /\ UNCHANGED <<pool, skipped, snap, take, target, drained, ctlVars, jobVars,
                 poolVars, queue, faults, late, lease, ghost, result, report,
                 runs>>

BadCannotHold(s) ==
  \/ hand[s] \in busy[s]
  \/ EpType[hand[s]] # pool[s]

\* The endpoint in hand cannot be dispatched now: it runs in this pool, or
\* belongs to the other pool, or try_hold found a lease on it.
CannotHold(s) ==
  \/ hand[s] \in busy[s] /\ EpType[hand[s]] = pool[s]
  \/ EpType[hand[s]] # pool[s]
  \/ lease[hand[s]] # None

PutBack(s) ==
  /\ pc[s] = "pick"
  /\ CannotHold(s)
  /\ ready' = [ready EXCEPT ![s] = Append(@, hand[s])]
  /\ skipped' = [skipped EXCEPT ![s] = @ + 1]
  /\ hand' = [hand EXCEPT ![s] = None]
  /\ pc' = [pc EXCEPT ![s] = "check"]
  /\ UNCHANGED <<pool, snap, take, target, drained, ctlVars, jobVars, poolVars,
                 queue, faults, late, lease, ghost, result, report, runs>>

\* The plans of the next job of endpoint e: all of them, or the first.
Batch(s, e) ==
  IF EpType[e] = "BMC" THEN queue[s][e] ELSE <<Head(queue[s][e])>>

BadRest(s, e) == IF EpType[e] = "BMC" THEN <<>> ELSE queue[s][e]

Rest(s, e) == IF EpType[e] = "BMC" THEN <<>> ELSE Tail(queue[s][e])

\* try_hold succeeds; the plans of the job leave the queue.  (A ready endpoint
\* whose queue is empty, `if not q: continue', never occurs: NoStrandedEndpoint.)
TryHold(s) ==
  /\ pc[s] = "pick"
  /\ ~CannotHold(s)
  /\ queue[s][hand[s]] # <<>>
  /\ lease' = [lease EXCEPT ![hand[s]] = Head(queue[s][hand[s]])]
  /\ take' = [take EXCEPT ![s] = Batch(s, hand[s])]
  /\ queue' = [queue EXCEPT ![s][hand[s]] = Rest(s, hand[s])]
  /\ pc' = [pc EXCEPT ![s] = "submit"]
  /\ UNCHANGED <<pool, skipped, snap, hand, target, drained, ctlVars, jobVars,
                 poolVars, ready, faults, late, ghost, result, report, runs>>

\* WorkerPool.dispatch commits: the future is registered with its callback.
Submit(s) ==
  LET p == Head(take[s]) IN
  /\ pc[s] = "submit"
  /\ busy' = [busy EXCEPT ![s] = @ \cup {hand[s]}]
  /\ active' = [active EXCEPT ![s] = @ \cup {p}]
  /\ phase' = [phase EXCEPT ![p] = "queued"]
  /\ group' = [group EXCEPT ![p] = take[s]]
  /\ todo' = [todo EXCEPT ![p] = take[s]]
  /\ late' = [late EXCEPT ![s] = IF stop[s] \/ ~unpaused[s] THEN @ + 1 ELSE 0]
  /\ skipped' = [skipped EXCEPT ![s] = 0]
  /\ hand' = [hand EXCEPT ![s] = None]
  /\ take' = [take EXCEPT ![s] = <<>>]
  /\ pc' = [pc EXCEPT ![s] = "check"]
  /\ UNCHANGED <<pool, snap, target, drained, ctlVars, outcome, queue, ready,
                 faults, lease, ghost, result, report, runs>>

BadPutPlansBack(s) == queue[s][hand[s]] \o take[s]

\* appendleft of the popped plans, last first.
PutPlansBack(s) == take[s] \o queue[s][hand[s]]

BadFreed(e) == lease

\* registry.release(endpoint_key): whoever holds the lease, it is deleted.
Freed(e) == [lease EXCEPT ![e] = None]

\* DispatchNotCommittedError: release, put the plans back in front, requeue
\* the endpoint, leave this pool.  An "orphan" fault is a worker thread that
\* failed to start after executor.submit put the work item on its queue; one
\* such item of a plan is followed.
SubmitFails(s) ==
  LET p == Head(take[s])
      rdy == Append(ready[s], hand[s]) IN
  /\ pc[s] = "submit"
  /\ faults[s] < MaxFaults
  /\ \E f \in SubmitFaults :
       /\ f = "orphan" => ghost[p] = "none"
       /\ ghost' = IF f = "orphan" THEN [ghost EXCEPT ![p] = "queued"] ELSE ghost
  /\ faults' = [faults EXCEPT ![s] = @ + 1]
  /\ lease' = Freed(hand[s])
  /\ queue' = [queue EXCEPT ![s][hand[s]] = PutPlansBack(s)]
  /\ ready' = [ready EXCEPT ![s] = rdy]
  /\ NextPool(s, rdy)
  /\ hand' = [hand EXCEPT ![s] = None]
  /\ take' = [take EXCEPT ![s] = <<>>]
  /\ UNCHANGED <<target, drained, ctlVars, jobVars, poolVars, late, result,
                 report, runs>>

-----------------------------------------------------------------------------
(* The main thread: the finally block of run.                              *)

StopLabel(r) == IF r = "route_change" THEN "EXEC_SKIPPED_ROUTE_CHANGED"
                                      ELSE "EXEC_SKIPPED_STOPPED"

\* An external stop_event is recorded, then every queued plan is skipped.
SkipPending(s) ==
  /\ pc[s] = "finally"
  /\ recorded' = [recorded EXCEPT ![s] = @ \/ stop[s]]
  /\ result' = [p \in Plans |->
       IF \E e \in Endpoints : p \in SeqRange(queue[s][e])
       THEN AppendOnce(result[p], StopLabel(reason[s])) ELSE result[p]]
  /\ queue' = [queue EXCEPT ![s] = [e \in Endpoints |-> <<>>]]
  /\ pc' = [pc EXCEPT ![s] = "drain"]
  /\ UNCHANGED <<pool, skipped, snap, hand, take, target, drained, stop,
                 unpaused, reason, ctl, asked, jobVars, poolVars, ready, faults, late,
                 lease, ghost, report, runs>>

BadDrainResult(s) == TRUE

DrainResult(s) == active[s] = {}

\* _drain returns: no future is active, or the five minutes are over.
Drain(s) ==
  /\ pc[s] = "drain"
  /\ active[s] = {} \/ DrainExpires
  /\ drained' = [drained EXCEPT ![s] = DrainResult(s)]
  /\ pc' = [pc EXCEPT ![s] = "cancel"]
  /\ UNCHANGED <<pool, skipped, snap, hand, take, target, ctlVars, jobVars,
                 poolVars, queue, ready, faults, late, lease, ghost, result,
                 report, runs>>

Cancelling(s) ==
  \E p \in Plans : /\ OwnerOf[p] = s
                   /\ outcome[p] = "cancelled"
                   /\ phase[p] \in InFlight

QueuedJobs(s) == {p \in Plans : OwnerOf[p] = s /\ phase[p] = "queued"}

\* executor.shutdown(cancel_futures=True) cancels a queued future; its done
\* callback runs on the main thread, which goes on when it has returned.
CancelQueued(s) ==
  /\ pc[s] = "cancel"
  /\ ~Cancelling(s)
  /\ \E p \in QueuedJobs(s) :
       /\ phase' = [phase EXCEPT ![p] = "finished"]
       /\ outcome' = [outcome EXCEPT ![p] = "cancelled"]
  /\ UNCHANGED <<mainVars, ctlVars, group, todo, poolVars, queue, ready,
                 faults, late, lease, ghost, result, report, runs>>

\* The rest of WorkerPool.shutdown: with wait=False all tracking is dropped.
ShutdownPools(s) ==
  /\ pc[s] = "cancel"
  /\ ~Cancelling(s) /\ QueuedJobs(s) = {}
  /\ active' = [active EXCEPT ![s] = {}]
  /\ busy' = [busy EXCEPT ![s] = {}]
  /\ ghost' = [p \in Plans |-> IF OwnerOf[p] = s /\ ghost[p] = "queued"
                               THEN "none" ELSE ghost[p]]
  /\ pc' = [pc EXCEPT ![s] = "return"]
  /\ UNCHANGED <<pool, skipped, snap, hand, take, target, drained, ctlVars,
                 jobVars, queue, ready, faults, late, lease, result, report,
                 runs>>

\* `return self._results'; App._execute_dynamic copies the list at once.
Return(s) ==
  /\ pc[s] = "return"
  /\ report' = [p \in Plans |-> IF OwnerOf[p] = s THEN result[p] ELSE report[p]]
  /\ pc' = [pc EXCEPT ![s] = "returned"]
  /\ UNCHANGED <<pool, skipped, snap, hand, take, target, drained, ctlVars,
                 jobVars, poolVars, queue, ready, faults, late, lease, ghost,
                 result, runs>>

\* KeyboardInterrupt inside the try block: _record_stop("user_interrupt").
Interrupt(s) ==
  /\ MayInterrupt
  /\ pc[s] \in {"loop", "pausewait", "check", "pick", "submit"}
  /\ IF stop[s] /\ recorded[s]
     THEN UNCHANGED <<reason, recorded>>
     ELSE /\ reason' = [reason EXCEPT ![s] = "user_interrupt"]
          /\ recorded' = [recorded EXCEPT ![s] = TRUE]
  /\ pc' = [pc EXCEPT ![s] = "finally"]
  /\ UNCHANGED <<pool, skipped, snap, hand, take, target, drained, stop,
                 unpaused, ctl, asked, jobVars, poolVars, queue, ready, faults, late,
                 lease, ghost, result, report, runs>>

-----------------------------------------------------------------------------
(* Worker threads and completion callbacks of a job.                       *)

StartJob(p) ==
  /\ phase[p] = "queued"
  /\ phase' = [phase EXCEPT ![p] = "running"]
  /\ UNCHANGED <<mainVars, ctlVars, group, todo, outcome, poolVars, queue,
                 ready, faults, late, lease, ghost, result, report, runs>>

\* The executor is done with the next plan of the job.  A BMC session reports
\* it at once (_on_bmc_plan_in_group); an INBAND result waits for _on_plan_done.
ExecutePlan(p) ==
  LET r == Head(todo[p]) IN
  /\ phase[p] = "running"
  /\ todo[p] # <<>>
  /\ todo' = [todo EXCEPT ![p] = Tail(@)]
  /\ runs' = [runs EXCEPT ![r] = @ + 1]
  /\ result' = IF EpType[EpOf[p]] = "BMC"
               THEN [result EXCEPT ![r] = AppendOnce(@, "EXEC_DONE")]
               ELSE result
  /\ UNCHANGED <<mainVars, ctlVars, phase, group, outcome, poolVars, queue,
                 ready, faults, late, lease, ghost, report>>

FinishJob(p) ==
  /\ phase[p] = "running"
  /\ todo[p] = <<>>
  /\ phase' = [phase EXCEPT ![p] = "finished"]
  /\ outcome' = [outcome EXCEPT ![p] = "ok"]
  /\ UNCHANGED <<mainVars, ctlVars, group, todo, poolVars, queue, ready,
                 faults, late, lease, ghost, result, report, runs>>

\* An exception leaves the BMC session runner (_execute_plan catches its own).
CrashJob(p) ==
  /\ phase[p] = "running"
  /\ EpType[EpOf[p]] = "BMC"
  /\ phase' = [phase EXCEPT ![p] = "finished"]
  /\ outcome' = [outcome EXCEPT ![p] = "error"]
  /\ UNCHANGED <<mainVars, ctlVars, group, todo, poolVars, queue, ready,
                 faults, late, lease, ghost, result, report, runs>>

\* WorkerPool._on_done takes the future out of the tracking tables, or finds
\* that a shutdown already dropped it and returns.
OnDone(p) ==
  LET s == OwnerOf[p] IN
  /\ phase[p] = "finished"
  /\ IF p \in active[s]
     THEN /\ active' = [active EXCEPT ![s] = @ \ {p}]
          /\ busy' = [busy EXCEPT ![s] = @ \ {EpOf[p]}]
          /\ phase' = [phase EXCEPT ![p] = "claimed"]
     ELSE /\ phase' = [phase EXCEPT ![p] = "lost"]
          /\ UNCHANGED poolVars
  /\ UNCHANGED <<mainVars, ctlVars, group, todo, outcome, queue, ready, faults,
                 late, lease, ghost, result, report, runs>>

\* The callback of either kind of job releases the lease first.
ReleaseLease(p) ==
  /\ phase[p] = "claimed"
  /\ lease' = Freed(EpOf[p])
  /\ phase' = [phase EXCEPT ![p] = "released"]
  /\ UNCHANGED <<mainVars, ctlVars, group, todo, outcome, poolVars, queue,
                 ready, faults, late, ghost, result, report, runs>>

\* _on_plan_done appends its result; a rejected one ends the callback.
AppendInbandResult(p) ==
  LET st == IF outcome[p] = "ok" THEN "EXEC_DONE" ELSE "EXEC_ERROR" IN
  /\ phase[p] = "released"
  /\ EpType[EpOf[p]] = "INBAND"
  /\ result' = [result EXCEPT ![p] = AppendOnce(@, st)]
  /\ phase' = [phase EXCEPT ![p] =
                 IF Accepts(result[p], st) THEN "appended" ELSE "done"]
  /\ UNCHANGED <<mainVars, ctlVars, group, todo, outcome, poolVars, queue,
                 ready, faults, late, lease, ghost, report, runs>>

BadRecovered(p) == result

\* _recover_bmc_group_worker_failure: EXEC_ERROR for the unrecorded plans.
Recovered(p) ==
  [r \in Plans |-> IF r \in SeqRange(group[p]) /\ result[r] = "none"
                   THEN "EXEC_ERROR" ELSE result[r]]

\* _on_bmc_group_done: a crashed group gives EXEC_ERROR to every plan of it
\* that has no result.
GroupDone(p) ==
  /\ phase[p] = "released"
  /\ EpType[EpOf[p]] = "BMC"
  /\ result' = IF outcome[p] = "ok" THEN result ELSE Recovered(p)
  /\ phase' = [phase EXCEPT ![p] = "done"]
  /\ UNCHANGED <<mainVars, ctlVars, group, todo, outcome, poolVars, queue,
                 ready, faults, late, lease, ghost, report, runs>>

BadReadyAfter(s, e) == ready[s]

\* _on_plan_done: the endpoint is ready again if plans are left.
ReadyAfter(s, e) == IF queue[s][e] # <<>> THEN Append(ready[s], e) ELSE ready[s]

Requeue(p) ==
  /\ phase[p] = "appended"
  /\ ready' = [ready EXCEPT ![OwnerOf[p]] = ReadyAfter(OwnerOf[p], EpOf[p])]
  /\ phase' = [phase EXCEPT ![p] = "done"]
  /\ UNCHANGED <<mainVars, ctlVars, group, todo, outcome, poolVars, queue,
                 faults, late, lease, ghost, result, report, runs>>

\* A work item of a failed submit is run by some thread of the pool.  Nobody
\* holds its future: it has no callback and its return value is dropped.
GhostStarts(p) ==
  /\ ghost[p] = "queued"
  /\ ghost' = [ghost EXCEPT ![p] = "running"]
  /\ UNCHANGED <<mainVars, ctlVars, jobVars, poolVars, queue, ready, faults,
                 late, lease, result, report, runs>>

\* An INBAND ghost executes its plan; a BMC ghost runs the whole session.
GhostEnds(p) ==
  LET plans == IF EpType[EpOf[p]] = "BMC"
               THEN PlansAt(OwnerOf[p], EpOf[p]) ELSE {p} IN
  /\ ghost[p] = "running"
  /\ ghost' = [ghost EXCEPT ![p] = "ran"]
  /\ runs' = [r \in Plans |-> IF r \in plans THEN runs[r] + 1 ELSE runs[r]]
  /\ result' = IF EpType[EpOf[p]] = "BMC"
               THEN [r \in Plans |-> IF r \in plans
                       THEN AppendOnce(result[r], "EXEC_DONE") ELSE result[r]]
               ELSE result
  /\ UNCHANGED <<mainVars, ctlVars, jobVars, poolVars, queue, ready, faults,
                 late, lease, report>>

-----------------------------------------------------------------------------
(* The controller: App.stop, App._on_route_change, App.pause, App.resume.  *)

\* App sets the shared events first ...
AppStops(s) ==
  /\ ctl[s] = "idle"
  /\ pc[s] # "returned"
  /\ \E r \in StopReasons[s] : asked' = [asked EXCEPT ![s] = r]
  /\ ctl' = [ctl EXCEPT ![s] = "forwarding"]
  /\ stop' = [stop EXCEPT ![s] = TRUE]
  /\ unpaused' = [unpaused EXCEPT ![s] = TRUE]
  /\ late' = [late EXCEPT ![s] = 0]
  /\ UNCHANGED <<mainVars, reason, recorded, jobVars, poolVars, queue, ready,
                 faults, lease, ghost, result, report, runs>>

\* ... and then forwards the reason: DynamicScheduler.stop, _record_stop.
ForwardStop(s) ==
  /\ ctl[s] = "forwarding"
  /\ IF recorded[s]
     THEN UNCHANGED <<reason, recorded>>
     ELSE /\ reason' = [reason EXCEPT ![s] = asked[s]]
          /\ recorded' = [recorded EXCEPT ![s] = TRUE]
  /\ ctl' = [ctl EXCEPT ![s] = "done"]
  /\ unpaused' = [unpaused EXCEPT ![s] = TRUE]
  /\ UNCHANGED <<mainVars, stop, asked, jobVars, poolVars, queue, ready,
                 faults, late, lease, ghost, result, report, runs>>

Pause(s) ==
  /\ (IF stop[s] THEN "stopping" ELSE "running") \in Pauses[s]
  /\ unpaused[s] /\ pc[s] # "returned"
  /\ unpaused' = [unpaused EXCEPT ![s] = FALSE]
  /\ late' = [late EXCEPT ![s] = IF stop[s] THEN @ ELSE 0]
  /\ UNCHANGED <<mainVars, stop, reason, recorded, ctl, asked, jobVars, poolVars,
                 queue, ready, faults, lease, ghost, result, report, runs>>

Resume(s) ==
  /\ ~unpaused[s]
  /\ unpaused' = [unpaused EXCEPT ![s] = TRUE]
  /\ UNCHANGED <<mainVars, stop, reason, recorded, ctl, asked, jobVars, poolVars,
                 queue, ready, faults, late, lease, ghost, result, report, runs>>

-----------------------------------------------------------------------------

MainStep(s) ==
  \/ LoopEnter(s) \/ LoopExit(s) \/ AdjustPools(s)
  \/ PoolFilled(s) \/ DispatchAborted(s) \/ TakeReady(s)
  \/ PutBack(s) \/ TryHold(s) \/ Submit(s)
  \/ SkipPending(s) \/ Drain(s) \/ CancelQueued(s) \/ ShutdownPools(s)
  \/ Return(s)

WorkerStep(p) ==
  \/ StartJob(p) \/ ExecutePlan(p) \/ FinishJob(p)
  \/ OnDone(p) \/ ReleaseLease(p) \/ AppendInbandResult(p) \/ GroupDone(p)
  \/ Requeue(p)

GhostStep(p) == GhostStarts(p) \/ GhostEnds(p)

ControlStep(s) == AppStops(s) \/ ForwardStop(s) \/ Pause(s) \/ Resume(s)

FaultStep(s) == SubmitFails(s) \/ Interrupt(s)

Finished ==
  /\ \A s \in Scheds : pc[s] = "returned"
  /\ \A p \in Plans : phase[p] \notin InFlight /\ ghost[p] \in {"none", "ran"}

\* Everything has returned and every callback has run.
Terminated == Finished /\ UNCHANGED vars

Next ==
  \/ \E s \in Scheds : MainStep(s) \/ ControlStep(s) \/ FaultStep(s)
  \/ \E p \in Plans : WorkerStep(p) \/ CrashJob(p) \/ GhostStep(p)
  \/ Terminated

Spec == Init /\ [][Next]_vars

\* The operating system runs every thread, executors return (their own
\* timeouts see to it), and a stop request is forwarded by its caller.
Fairness ==
  /\ \A s \in Scheds : WF_vars(MainStep(s)) /\ WF_vars(ForwardStop(s))
  /\ \A p \in Plans : WF_vars(WorkerStep(p))

FairSpec == Spec /\ Fairness
-----------------------------------------------------------------------------
(* Properties.                                                             *)

\* A worker thread is driving the endpoint on behalf of job p.
Working(p) == phase[p] = "running"

\* Resource serialization: two jobs never work on one endpoint at the same
\* time, whichever schedulers they belong to.
JobsExclusive ==
  \A p, q \in Plans : Working(p) /\ Working(q) /\ EpOf[p] = EpOf[q] => p = q

\* Nor does a job work beside a ghost of a failed submit (scheduler
\* docstring: "max 1 task per endpoint at a time").
EndpointExclusive ==
  /\ JobsExclusive
  /\ \A p, q \in Plans : ghost[p] = "running" /\ EpOf[p] = EpOf[q] => ~Working(q)

\* Phases in which a job has the lease of its endpoint; a job whose future
\* was forgotten by a shutdown ("lost") keeps it for ever.
Leased == {"queued", "running", "finished", "claimed", "lost"}

\* The lease of an endpoint names the job that is on it, from try_hold to the
\* release in its callback, so that no second try_hold can succeed.
LeaseCoversJob ==
  /\ \A p \in Plans : phase[p] \in Leased => lease[EpOf[p]] = p
  /\ \A s \in Scheds : pc[s] = "submit" => lease[hand[s]] = Head(take[s])

\* What the main thread holds is consistent: queues keep their endpoint's
\* plans, and the job being submitted is not yet running.
DispatchConsistent ==
  \A s \in Scheds :
    /\ \A e \in Endpoints : queue[s][e] \in Seq(PlansAt(s, e))
    /\ pc[s] \in {"pick", "submit"} => hand[s] \in Endpoints
    /\ pc[s] = "submit" => /\ take[s] \in Seq(PlansAt(s, hand[s]))
                           /\ take[s] # <<>>
                           /\ phase[Head(take[s])] \notin Leased

\* The inductive invariant behind JobsExclusive.
IndInv == TypeOK /\ DispatchConsistent /\ LeaseCoversJob

\* No lost wakeup: while a scheduler dispatches, an endpoint with queued plans
\* is in the ready list once, or in the main thread's hand, or has a job
\* whose callback will requeue it; never two of these at once.
NoStrandedEndpoint ==
  \A s \in Scheds, e \in Endpoints :
    LET places == Cardinality({i \in DOMAIN ready[s] : ready[s][i] = e})
                  + (IF hand[s] = e THEN 1 ELSE 0)
                  + Cardinality({p \in PlansAt(s, e) : phase[p] \in InFlight})
    IN pc[s] \in {"loop", "pausewait", "check", "pick", "submit"} =>
         /\ places <= 1
         /\ queue[s][e] # <<>> => places = 1
         /\ pc[s] = "pick" /\ hand[s] = e => queue[s][e] # <<>>

\* Conservation of plans: a plan is queued, in the main thread's hand (where an
\* interrupt leaves it for good), in a job that will report it or was abandoned,
\* or has a result.
NoPlanLost ==
  \A p \in Plans :
    LET s == OwnerOf[p] IN
    \/ result[p] # "none"
    \/ p \in SeqRange(queue[s][EpOf[p]])
    \/ p \in SeqRange(take[s])
    \/ \E h \in Plans : /\ p \in SeqRange(group[h])
                        /\ phase[h] \in (InFlight \ {"appended"}) \cup {"lost"}

\* A plan is executed at most once, and one reported as skipped or blocked
\* was not executed at all (AUDIT-003: "plans that never got dispatched"),
\* unless the ghost of a failed submit ran on its endpoint.
AtMostOnce ==
  \A p \in Plans :
    (\A g \in PlansAt(OwnerOf[p], EpOf[p]) : ghost[g] # "ran") =>
      /\ runs[p] <= 1
      /\ result[p] \in Status \ Executed => runs[p] = 0

\* Plans of one endpoint are executed serially in FIFO order: when a plan
\* has been executed so have those before it, failed submits included.
FifoPerEndpoint ==
  \A s \in Scheds, e \in Endpoints :
    \A i, j \in DOMAIN Queue0[s][e] :
      i < j /\ runs[Queue0[s][e][j]] > 0 => runs[Queue0[s][e][i]] > 0

\* After a stop or a pause at most the job already in the main thread's hand
\* is still submitted (test_audit_003: "Pause should block dispatch").
AtMostOneLateDispatch == \A s \in Scheds : late[s] <= 1

\* A lease is taken away only by the callback of its own job or by the main
\* thread that just took it: `release' has no owner check, so this is what
\* keeps one scheduler from freeing an endpoint another one works on.
OnlyOwnerReleases ==
  [][\A e \in Endpoints : lease[e] # None /\ lease'[e] # lease[e] =>
       \/ phase[lease[e]] = "claimed" /\ phase'[lease[e]] = "released"
       \/ \E s \in Scheds : /\ pc[s] = "submit" /\ pc'[s] # "submit"
                            /\ hand[s] = e /\ Head(take[s]) = lease[e]]_vars

\* A result is replaced only by one that outranks it, and a plan that was
\* executed keeps an executed result: a stop never overwrites it.
ResultsOnlyUpgraded ==
  [][\A p \in Plans : result[p] # "none" /\ result'[p] # result[p] =>
       result[p] \in Skipped \cup {"EXEC_BLOCKED"} /\ result'[p] \in Executed]_vars

\* When `run' returns, a plan without a result is one whose callback is
\* running at that moment, one that _drain gave up on, or one that an interrupt
\* caught in the main thread's hand: nothing else is missing from what the
\* caller gets.
ReturnAccountsForPlans ==
  [][\A s \in Scheds : pc[s] = "return" /\ pc'[s] = "returned" =>
       \A p \in Plans : OwnerOf[p] = s /\ report'[p] = "none" =>
         \/ p \in SeqRange(take[s])
         \/ \E h \in Plans : /\ p \in SeqRange(group[h])
                             /\ \/ phase[h] \in {"claimed", "released"}
                                \/ /\ ~drained[s]
                                   /\ phase[h] \in {"running", "finished", "lost"}]_vars

\* Every scheduler returns, every plan gets a result and every endpoint is
\* free again, unless a user leaves a run paused.  (Without faults that
\* outlive a run.)
AllSettle ==
  (\A s \in Scheds : <>[]unpaused[s]) =>
    <>[](/\ \A s \in Scheds : pc[s] = "returned"
         /\ \A p \in Plans : result[p] # "none"
         /\ \A e \in Endpoints : lease[e] = None)

\* A stop request ends the run, also one that was paused when it came or is
\* waiting for an endpoint.  (Unless the user pauses it after the stop.)
StopEndsRun == \A s \in Scheds : stop[s] ~> pc[s] = "returned"

\* What the tests ask of `run' ("All plans must have results",
\* test_audit_003_full_control.py): every plan is in the returned list.
ReportComplete ==
  \A s \in Scheds : pc[s] = "returned" =>
    \A p \in Plans : OwnerOf[p] = s => report[p] # "none"

JobsAtWork == {<<p, EpOf[p]>> : p \in {q \in Plans : Working(q)}}

Leases ==
  INSTANCE EndpointLease
    WITH Users <- Plans, owner <- lease, using <- JobsAtWork

\* The schedulers implement the lease table: a job works on an endpoint only
\* under its own lease, which passes on only when the job has stopped.
ImplementsLeases == Leases!Spec
=============================================================================
