---------------------------------- MODULE App ----------------------------------
(***************************************************************************)
(* A batch from the command line (src/__main__.py): App (src/app.py) loads *)
(* a workbook, generates the plans, probes their endpoints, executes them, *)
(* writes the reports, and may run the failed ones once more               *)
(* (src/cli/failed_retry.py).  Meanwhile other threads stop, pause and     *)
(* resume it, and a route guard (src/connectivity/route_guard.py) stops it *)
(* when the routes of the machine change.                                  *)
(*                                                                         *)
(* In the mode "full" the plans are executed by DynamicScheduler, of which *)
(* only the outcome is here: any order, what a stop or an interrupt left   *)
(* over is skipped, and run may return before all it has dispatched is     *)
(* recorded (ReturnAccountsForPlans there says what is missing then).      *)
(*                                                                         *)
(* Every plan has a plan_id of its own, so the identity keys of            *)
(* failed_retry.py find a plan's results and nobody else's.  A preflight   *)
(* that is switched off is one in which all is well.                       *)
(***************************************************************************)
EXTENDS Integers, Sequences, FiniteSets, SequencesExt

CONSTANTS
  Workbooks,      \* [devices, tasks, valid]: two sequences, and validate's verdict
  Modes,          \* a subset of {"sequential", "full"}
  Routes,         \* the lines a route table may have
  ErrorLine,      \* the line a snapshot has instead if it cannot be taken
  StopThreshold,  \* route_guard_stop_threshold
  None,
  MaxChanges,     \* bound on the changes of the route table
  MaxControls,    \* bound on the calls of stop, pause and resume
  MaxFaults       \* bound on failing snapshots, writes, prints and executors,
                  \* interrupts and expiring joins

\* Groups, names and sequence numbers are compared only, and stand as integers.
ASSUME AppAssumption ==
  /\ \A w \in Workbooks :
       /\ w.devices \in Seq(ToSet(w.devices)) /\ w.tasks \in Seq(ToSet(w.tasks))
       /\ \A d \in ToSet(w.devices) : {d.group, d.name} \subseteq Int
       /\ \A t \in ToSet(w.tasks) : t.sequence \in Int
  /\ Modes \subseteq {"sequential", "full"}
  /\ ErrorLine \notin Routes
  /\ {StopThreshold, MaxChanges, MaxControls, MaxFaults} \subseteq Nat

VARIABLES
  workbook, mode,
  pc,        \* where the main thread is
  run,       \* 1, or 2 when failed plans are retried
  batch,     \* the plans of this run
  next,      \* the number of the next plan of the sequential executor
  probe,     \* what the preflight found at each endpoint
  readyPlans,  \* ready_plans: those of this run that the preflight has not skipped
  unreported,  \* those the scheduler had dispatched, and returned no result of
  results, original,  \* of this run, and of the first one when this is the second
  stop, go,           \* _stop_event and _pause_event
  reason, recorded,   \* _stop_reason, and whether _stopped_at is set
  told,      \* the active scheduler's stop reason; None without a scheduler
  error,     \* why there is nothing to do or to execute
  guard,     \* the route guard of each run
  routes,    \* the route table
  exit,      \* the exit code
  changes, controls, faults,
  lateStarts,  \* plans the sequential executor started after a stop
  latePause    \* the run was paused after it was stopped

batchVars == <<workbook, mode, run, batch, probe, readyPlans, original, error>>
resultVars == <<results, unreported>>
stopVars == <<stop, go, reason, recorded, told>>
world == <<routes, changes, controls, faults>>
ghosts == <<lateStarts, latePause>>
vars == <<batchVars, pc, next, resultVars, stopVars, guard, exit, world, ghosts>>

-----------------------------------------------------------------------------
(* Plans: pairs of a device and a task, by their rows.                     *)

Device(p) == workbook.devices[p[1]]
Task(p) == workbook.tasks[p[2]]

EnabledDevices == {i \in DOMAIN workbook.devices : workbook.devices[i].enabled}
EnabledTasks == {i \in DOMAIN workbook.tasks : workbook.tasks[i].enabled}

\* The groups of a task are those its match_group names; none stands for all.
Matches(device, task) == task.groups = {} \/ device.group \in task.groups

\* The sort of generate_plans is stable: rows break ties.
SortKey(p) == <<Device(p).group, Device(p).name, Task(p).sequence, p[1], p[2]>>

Precedes(p, q) ==
  \E k \in 1 .. 5 : /\ SortKey(p)[k] < SortKey(q)[k]
                    /\ \A l \in 1 .. k - 1 : SortKey(p)[l] = SortKey(q)[l]

GeneratePlans ==
  LET plans == {p \in EnabledDevices \X EnabledTasks : Matches(Device(p), Task(p))}
  IN  CHOOSE ps \in [1 .. Cardinality(plans) -> plans] :
        \A i, j \in DOMAIN ps : i < j => Precedes(ps[i], ps[j])

\* The elements of a sequence at the indices I, in their order.
Select(s, I) ==
  [k \in 1 .. Cardinality(I) |-> s[CHOOSE i \in I : Cardinality({j \in I : j <= i}) = k]]

Protocol(p) == IF Task(p).type \in {"SSH", "TELNET"} THEN "SSH"
               ELSE IF Task(p).type = "BMC" THEN "BMC" ELSE "UNKNOWN"

NoWork ==
  IF workbook.tasks = <<>> THEN "NO_TASKS"
  ELSE IF EnabledTasks = {} THEN "NO_ENABLED_TASKS"
  ELSE IF workbook.devices = <<>> THEN "NO_DEVICES"
  ELSE IF EnabledDevices = {} THEN "NO_ENABLED_DEVICES"
  ELSE "none"

-----------------------------------------------------------------------------
(* The preflight.                                                          *)

\* The host of a device: its column, or None where _resolve_host finds none.
Host(d, protocol) == IF protocol = "BMC" THEN d.bmc ELSE d.inband

\* The endpoints check_all probes for some devices, each once.
Endpoints(ds) == {<<protocol, Host(d[2], protocol)>> : protocol \in {"BMC", "SSH"}, d \in ds}

\* What _tcp_probe may answer; every failure but a blocked port is treated alike.
Probes(e) == IF e[2] = None THEN {"IP_EMPTY"} ELSE {"OK", "PORT_BLOCKED", "TIMEOUT"}

\* Endpoints are looked at in the order of the first device that has them.
FirstWith(ds, protocol, host) ==
  LET places == {d[1] : d \in {c \in ds : Host(c[2], protocol) = host}}
  IN  CHOOSE i \in places : \A j \in places : i <= j

\* The endpoint whose status a device's row of the report has: among those of
\* the devices of that name, the one looked at last.
ReportedHost(ds, protocol, n) ==
  LET hosts == {Host(d[2], protocol) : d \in {c \in ds : c[2].name = n}}
  IN  CHOOSE h \in hosts : \A g \in hosts : FirstWith(ds, protocol, g) <= FirstWith(ds, protocol, h)

\* The devices check_all is given, with their places: all enabled ones, or
\* those of the plans.
ProbedDevices ==
  IF run = 1 THEN {<<i, workbook.devices[i]>> : i \in EnabledDevices}
  ELSE {<<i, Device(batch[i])>> : i \in DOMAIN batch}

\* apply_preflight: the status of a plan under the probes f.
PlanStatus(p, f) ==
  IF Protocol(p) = "UNKNOWN" THEN "PENDING"
  ELSE LET found == f[<<Protocol(p), ReportedHost(ProbedDevices, Protocol(p), Device(p).name)>>]
       IN  CASE found = "OK" -> "PENDING"
             [] found = "PORT_BLOCKED" -> "EXEC_SKIPPED_PORT_BLOCKED"
             [] OTHER -> "EXEC_SKIPPED_PRECHECK_FAILED"

\* The places in the batch of the plans that are not skipped if f was found.
Ready(f) == {i \in DOMAIN batch : PlanStatus(batch[i], f) = "PENDING"}

-----------------------------------------------------------------------------
(* Results.                                                                *)

\* A result that is not good has failed, as what was executed may do by its
\* status, its rules or its checkpoints.
Result(p, status, good) == [plan |-> p, status |-> status, good |-> good]

Executed(p) ==
  IF Protocol(p) = "UNKNOWN" THEN {Result(p, "EXEC_FAILED", FALSE)}
  ELSE {Result(p, "EXEC_SUCCESS", TRUE), Result(p, "EXEC_SUCCESS", FALSE)}

\* is_failed_result
Failed(r) == r.status # "EXEC_SUCCESS" \/ ~r.good

\* is_retryable_failed_result
Retryable(r) ==
  /\ Failed(r)
  /\ r.status \notin {"EXEC_SKIPPED_PRECHECK_FAILED", "EXEC_SKIPPED_PORT_BLOCKED",
                      "EXEC_SKIPPED_ROUTE_CHANGED", "EXEC_SKIPPED_STOPPED"}

Plans(rs) == [i \in DOMAIN rs |-> rs[i].plan]

\* Of the places I of a list, those that are the first of their plan.
Firsts(rs, I) == {i \in I : \A j \in I : j < i => rs[j].plan # rs[i].plan}

\* failed_retry_candidates: each plan once, where it is seen first.
RetryPlans ==
  Plans(Select(results, Firsts(results, {i \in DOMAIN results : Retryable(results[i])})))

\* merge_retry_results: the first failed row of a plan gives way to the first
\* result of its retry.  A retry that brought no result leaves all as it was.
Merged ==
  LET failures == {i \in DOMAIN original : Failed(original[i])}
      retried(p) == {j \in Firsts(results, DOMAIN results) : results[j].plan = p}
  IN  [i \in DOMAIN original |->
         IF i \in Firsts(original, failures) /\ retried(original[i].plan) # {}
         THEN results[CHOOSE j \in retried(original[i].plan) : TRUE]
         ELSE original[i]]

FailedCount == Cardinality({i \in DOMAIN results : Failed(results[i])})

\* What __main__ exits with: a batch of which at most half has failed is a success.
ExitCode ==
  IF results = <<>>
  THEN IF error \in {"NO_TASKS", "NO_ENABLED_TASKS", "NO_DEVICES", "NO_ENABLED_DEVICES"}
       THEN 0 ELSE 1
  ELSE IF 2 * FailedCount > Len(results) THEN 1 ELSE 0

-----------------------------------------------------------------------------
(* The main thread.                                                        *)

Init ==
  /\ workbook \in Workbooks /\ mode \in Modes
  /\ pc = "idle" /\ run = 1 /\ batch = <<>> /\ next = 1
  /\ probe = <<>> /\ readyPlans = <<>> /\ results = <<>> /\ original = <<>>
  /\ unreported = {}
  /\ stop = FALSE /\ go = TRUE /\ reason = "scheduler_stop" /\ recorded = FALSE
  /\ told = None /\ error = "none"
  /\ guard = [g \in 1 .. 2 |-> None]
  /\ routes = Routes
  /\ exit = None
  /\ changes = 0 /\ controls = 0 /\ faults = 0
  /\ lateStarts = 0 /\ latePause = FALSE

\* A snapshot, write, print, executor or join of this step fails, or an
\* interrupt comes.
Fails == faults < MaxFaults /\ faults' = faults + 1

\* The devices check_auth_all knows: the first row of each name.
AuthDevices ==
  {i \in EnabledDevices :
     \A j \in EnabledDevices : workbook.devices[j].name = workbook.devices[i].name => i <= j}

\* Those that may be found to have a valid credential for this protocol.
Authentic(protocol) == SUBSET {i \in AuthDevices : Host(workbook.devices[i], protocol) # None}

\* --preflight-auth: check_auth_all tries both credentials of every device, and
\* the command succeeds if it counts at least as many valid ones as devices.
AuthCheck ==
  /\ pc = "idle" /\ run = 1 /\ pc' = "exit"
  /\ \E bmcOk \in Authentic("BMC"), sshOk \in Authentic("SSH") :
       exit' = IF Cardinality(bmcOk) + Cardinality(sshOk) < Cardinality(AuthDevices) THEN 1 ELSE 0
  /\ UNCHANGED <<batchVars, next, resultVars, stopVars, guard, world, ghosts>>

\* The two events are reset first, and what is recorded of a stop after that.
ClearEvents ==
  /\ pc \in {"idle", "retry"} /\ pc' = "cleared"
  /\ results' = <<>> /\ unreported' = {} /\ next' = 1
  /\ stop' = FALSE /\ go' = TRUE
  /\ lateStarts' = 0 /\ latePause' = FALSE
  /\ UNCHANGED <<batchVars, reason, recorded, told, guard, exit, world>>

ClearMetadata ==
  /\ pc = "cleared"
  /\ pc' = IF run = 1 THEN "load" ELSE "preflight"
  /\ reason' = "scheduler_stop" /\ recorded' = FALSE /\ error' = "none"
  /\ UNCHANGED <<workbook, mode, run, batch, probe, readyPlans, original, next, resultVars, stop,
                 go, told, guard, exit, world, ghosts>>

Load ==
  /\ pc = "load"
  /\ error' = IF NoWork # "none" THEN NoWork
              ELSE IF ~workbook.valid THEN "VALIDATION_FAILED"
              ELSE IF GeneratePlans = <<>> THEN "NO_EXECUTABLE_PLANS"
              ELSE "none"
  /\ IF error' = "none"
     THEN batch' = GeneratePlans /\ pc' = "preflight"
     ELSE UNCHANGED batch /\ pc' = "prompt"
  /\ UNCHANGED <<workbook, mode, run, probe, readyPlans, original, next, resultVars, stopVars,
                 guard, exit, world, ghosts>>

\* check_all and apply_preflight; the plans that are skipped have their results.
Preflight ==
  /\ pc = "preflight" /\ pc' = "guard"
  /\ \E f \in [Endpoints(ProbedDevices) -> {"OK", "PORT_BLOCKED", "TIMEOUT", "IP_EMPTY"}] :
       /\ \A e \in DOMAIN f : f[e] \in Probes(e)
       /\ probe' = f /\ readyPlans' = Select(batch, Ready(f))
       /\ LET skipped == Select(batch, DOMAIN batch \ Ready(f))
          IN  /\ results' = [i \in DOMAIN skipped |->
                               Result(skipped[i], PlanStatus(skipped[i], f), FALSE)]
              /\ error' = IF skipped = batch THEN "ALL_PLANS_PRECHECK_FAILED" ELSE error
  /\ UNCHANGED <<workbook, mode, run, batch, original, unreported, next, stopVars, guard, exit,
                 world, ghosts>>

\* What a snapshot of the route table shows.
Seen == {routes} \cup (IF faults < MaxFaults THEN {{ErrorLine}} ELSE {})

Sees(s) == faults' = IF ErrorLine \in s THEN faults + 1 ELSE faults

StartGuard ==
  /\ pc = "guard" /\ pc' = IF mode = "full" THEN "schedule" ELSE "loop"
  /\ \E s \in Seen :
       /\ Sees(s)
       /\ guard' = [guard EXCEPT ![run] =
            [at |-> "waiting", before |-> s, current |-> {}, last |-> {}, stopping |-> FALSE]]
  /\ told' = IF mode = "full" THEN "none" ELSE None
  /\ UNCHANGED <<batchVars, next, resultVars, stop, go, reason, recorded, exit, routes, changes,
                 controls, ghosts>>

\* Mistake: the plan the executor has just come to is left out.
BadRemaining == SubSeq(readyPlans, next + 1, Len(readyPlans))

\* The plans a stop leaves over.
Remaining == SubSeq(readyPlans, next, Len(readyPlans))

\* A skipped plan is labelled by the reason for the stop.
Skipped(p, why) ==
  Result(p, IF why = "route_change" THEN "EXEC_SKIPPED_ROUTE_CHANGED" ELSE "EXEC_SKIPPED_STOPPED",
         FALSE)

\* Mistake: a stop that comes after the batch has begun is not seen.
BadHeedsStop == stop /\ next = 1

HeedsStop == stop

\* The top of the loop of _execute_sequential.
LoopStep ==
  /\ pc = "loop"
  /\ \/ next > Len(readyPlans) /\ pc' = "stopGuard" /\ UNCHANGED <<results, recorded>>
     \/ /\ next <= Len(readyPlans) /\ HeedsStop
        /\ results' = results \o [i \in DOMAIN Remaining |-> Skipped(Remaining[i], reason)]
        /\ recorded' = TRUE /\ pc' = "stopGuard"
     \/ next <= Len(readyPlans) /\ ~HeedsStop /\ pc' = "wait" /\ UNCHANGED <<results, recorded>>
  /\ UNCHANGED <<batchVars, next, unreported, stop, go, reason, told, guard, exit, world, ghosts>>

\* _pause_event.wait: the stop is not looked at again.  No handler is around the
\* line START: if it cannot be printed, run raises.
StartPlan ==
  /\ pc = "wait" /\ go
  /\ \/ pc' = "executing" /\ UNCHANGED <<faults, exit>>
     \/ Fails /\ pc' = "exit" /\ exit' = 1
  /\ lateStarts' = lateStarts + (IF stop THEN 1 ELSE 0)
  /\ UNCHANGED <<batchVars, next, resultVars, stopVars, guard, routes, changes, controls,
                 latePause>>

\* execute_with_retry has returned, and its result is listed, or it has raised.
\* What comes after the listing may raise as well (the line OK or FAIL cannot be
\* printed): then the handler lists an EXEC_ERROR for the same plan.
EndPlan ==
  LET p == readyPlans[next]
      crash == Result(p, "EXEC_ERROR", FALSE)
  IN  /\ pc = "executing" /\ pc' = "loop" /\ next' = next + 1
      /\ \/ \E r \in Executed(p) : results' = Append(results, r) /\ UNCHANGED faults
         \/ Fails /\ results' = Append(results, crash)
         \/ Fails /\ \E r \in Executed(p) : results' = results \o <<r, crash>>
      /\ UNCHANGED <<batchVars, unreported, stopVars, guard, exit, routes, changes, controls,
                     ghosts>>

\* A KeyboardInterrupt is no Exception: nothing in App catches it, and main
\* returns 130 (src/cli/fatal.py).
Interrupted ==
  /\ pc \in {"wait", "executing"} /\ Fails
  /\ pc' = "exit" /\ exit' = 130
  /\ UNCHANGED <<batchVars, next, resultVars, stopVars, guard, routes, changes, controls, ghosts>>

\* The plans the scheduler has not come to.
Pending ==
  Select(readyPlans,
         {i \in DOMAIN readyPlans : readyPlans[i] \notin ToSet(Plans(results)) \cup unreported})

\* DynamicScheduler.run dispatches a plan.  Its result is recorded, or is not
\* there when run returns: the callback that brings it has not come so far, the
\* drain has given up, or an interrupt found the plan in run's hand.
Schedule ==
  /\ pc = "schedule" /\ go /\ ~stop
  /\ \E i \in DOMAIN Pending :
       \/ \E r \in Executed(Pending[i]) : results' = Append(results, r) /\ UNCHANGED unreported
       \/ unreported' = unreported \cup {Pending[i]} /\ UNCHANGED results
  /\ UNCHANGED <<batchVars, pc, next, stopVars, guard, exit, world, ghosts>>

\* run skips what a stop or an interrupt has left over and returns, and App
\* copies the results of that moment and what the scheduler recorded of the stop.
TakeResults ==
  /\ pc = "schedule" /\ pc' = "stopGuard"
  /\ \E interrupt \in BOOLEAN :
       LET why == IF told # "none" THEN told
                  ELSE IF interrupt THEN "user_interrupt" ELSE "scheduler_stop"
       IN  /\ IF interrupt THEN Fails ELSE (Pending = <<>> \/ stop) /\ UNCHANGED faults
           /\ results' = results \o [i \in DOMAIN Pending |-> Skipped(Pending[i], why)]
           /\ reason' = (IF stop \/ interrupt THEN why ELSE reason)
           /\ recorded' = (recorded \/ stop \/ interrupt)
  /\ told' = None
  /\ UNCHANGED <<batchVars, next, unreported, stop, go, guard, exit, routes, changes, controls,
                 ghosts>>

StopGuard ==
  /\ pc = "stopGuard" /\ pc' = "join"
  /\ guard' = [guard EXCEPT ![run].stopping = TRUE]
  /\ UNCHANGED <<batchVars, next, resultVars, stopVars, exit, world, ghosts>>

\* The join gives up after ten seconds, and the guard may still be at work.
JoinGuard ==
  /\ pc = "join" /\ pc' = "write"
  /\ \/ guard[run].at = "ended" /\ UNCHANGED faults
     \/ guard[run].at = "calling" /\ Fails
  /\ UNCHANGED <<batchVars, next, resultVars, stopVars, guard, exit, routes, changes, controls,
                 ghosts>>

\* The reports are written below the output directory or one of two others; if
\* none is writable, run raises.
Write ==
  /\ pc = "write"
  /\ \/ pc' = (IF run = 1 THEN "prompt" ELSE "merge") /\ UNCHANGED <<faults, exit>>
     \/ Fails /\ pc' = "exit" /\ exit' = 1
  /\ UNCHANGED <<batchVars, next, resultVars, stopVars, guard, routes, changes, controls, ghosts>>

\* prompt_retry_failed_tasks: whoever sits at the terminal may ask for a retry.
Prompt ==
  /\ pc = "prompt"
  /\ \/ pc' = "exit" /\ exit' = ExitCode /\ UNCHANGED <<run, batch, original>>
     \/ /\ RetryPlans # <<>>
        /\ pc' = "retry" /\ run' = 2 /\ batch' = RetryPlans /\ original' = results
        /\ UNCHANGED exit
  /\ UNCHANGED <<workbook, mode, probe, readyPlans, error, next, resultVars, stopVars, guard, world,
                 ghosts>>

\* The merged report is written below the output directory only.
Merge ==
  /\ pc = "merge"
  /\ results' = Merged
  /\ \/ /\ pc' = "merged" /\ UNCHANGED faults
        /\ exit' = IF 2 * Cardinality({i \in DOMAIN Merged : Failed(Merged[i])}) > Len(Merged)
                   THEN 1 ELSE 0
     \/ results # <<>> /\ Fails /\ pc' = "exit" /\ exit' = 1
  /\ UNCHANGED <<batchVars, next, unreported, stopVars, guard, routes, changes, controls, ghosts>>

-----------------------------------------------------------------------------
(* Stops, pauses and the route guard.                                      *)

\* Mistake: a run that is paused stays so.
BadUnpaused == go

\* A stop lets a paused run go on, so that it can take effect.
Unpaused == TRUE

\* App.stop and _on_route_change: the first reason counts, and an active
\* scheduler is told of it.
Stops(why) ==
  /\ stop' = TRUE /\ go' = Unpaused /\ recorded' = TRUE
  /\ reason' = IF recorded THEN reason ELSE why
  /\ told' = IF told = "none" THEN why ELSE told

\* The command has ended.
Over == pc \in {"exit", "merged"}

\* A call of App.stop, pause or resume from another thread.
Controls == controls < MaxControls /\ controls' = controls + 1

AppStop ==
  /\ Controls /\ ~Over /\ Stops("user_stop")
  /\ UNCHANGED <<batchVars, pc, next, resultVars, guard, exit, routes, changes, faults, ghosts>>

Pause ==
  /\ Controls /\ ~Over /\ go' = FALSE
  /\ latePause' = (latePause \/ stop)
  /\ UNCHANGED <<batchVars, pc, next, resultVars, stop, reason, recorded, told, guard, exit, routes,
                 changes, faults, lateStarts>>

Resume ==
  /\ Controls /\ ~Over /\ ~go /\ go' = TRUE
  /\ UNCHANGED <<batchVars, pc, next, resultVars, stop, reason, recorded, told, guard, exit, routes,
                 changes, faults, ghosts>>

\* What differs between two snapshots.
Diff(s, t) == (s \ t) \cup (t \ s)

\* One round of _monitor_loop: a snapshot, which may show that nothing has
\* changed, or the same change that has been reported.
GuardLooks(g) ==
  /\ guard[g] # None /\ guard[g].at = "waiting" /\ ~guard[g].stopping
  /\ \E s \in Seen :
       /\ Diff(guard[g].before, s) \notin {{}, guard[g].last}
       /\ Sees(s)
       /\ guard' = [guard EXCEPT ![g].at = "calling", ![g].current = s,
                                 ![g].last = Diff(guard[g].before, s)]
  /\ UNCHANGED <<batchVars, pc, next, resultVars, stopVars, exit, routes, changes, controls,
                 ghosts>>

\* on_change: enough changes at once stop the batch, whichever run it is in.
GuardCalls(g) ==
  /\ guard[g] # None /\ guard[g].at = "calling"
  /\ guard' = [guard EXCEPT ![g].at = "waiting", ![g].before = guard[g].current,
                            ![g].current = {}]
  /\ IF Cardinality(guard[g].last) >= StopThreshold
     THEN Stops("route_change") ELSE UNCHANGED stopVars
  /\ UNCHANGED <<batchVars, pc, next, resultVars, exit, world, ghosts>>

GuardEnds(g) ==
  /\ guard[g] # None /\ guard[g].at = "waiting" /\ guard[g].stopping
  /\ guard' = [guard EXCEPT ![g].at = "ended", ![g].before = {}, ![g].last = {}]
  /\ UNCHANGED <<batchVars, pc, next, resultVars, stopVars, exit, world, ghosts>>

RouteChange ==
  /\ changes < MaxChanges /\ changes' = changes + 1 /\ ~Over
  /\ \E s \in SUBSET Routes \ {routes} : routes' = s
  /\ UNCHANGED <<batchVars, pc, next, resultVars, stopVars, guard, exit, controls, faults, ghosts>>

MainStep ==
  \/ ClearEvents \/ ClearMetadata \/ Load \/ Preflight \/ StartGuard
  \/ LoopStep \/ StartPlan \/ EndPlan \/ Schedule \/ TakeResults
  \/ StopGuard \/ JoinGuard \/ Write \/ Prompt \/ Merge

\* The guard is a daemon thread: it ends with the command.
GuardStep(g) == ~Over /\ (GuardLooks(g) \/ GuardCalls(g) \/ GuardEnds(g))

Next ==
  \/ AuthCheck \/ MainStep \/ Interrupted
  \/ AppStop \/ Pause \/ Resume \/ RouteChange
  \/ \E g \in 1 .. 2 : GuardStep(g)

\* The main thread and the guards are scheduled; nobody need resume a pause.
Spec ==
  /\ Init /\ [][Next]_vars
  /\ WF_vars(MainStep)
  /\ \A g \in 1 .. 2 : WF_vars(~Over /\ (GuardCalls(g) \/ GuardEnds(g)))

-----------------------------------------------------------------------------
(* What a batch promises.                                                  *)

\* No plan has two results, but that the sequential executor may list an
\* EXEC_ERROR right after what it has listed for the plan.
NoneTwice(rs) ==
  \A i, j \in DOMAIN rs :
    i < j /\ rs[i].plan = rs[j].plan =>
      mode = "sequential" /\ j = i + 1 /\ rs[j].status = "EXEC_ERROR"

UniqueNames ==
  \A i, j \in EnabledDevices :
    workbook.devices[i].name = workbook.devices[j].name => i = j

\* The preflight has found the endpoint of a plan in order.
Reachable(p) ==
  Protocol(p) = "UNKNOWN" \/ probe[<<Protocol(p), Host(Device(p), Protocol(p))>>] = "OK"

\* However preflight, stops, pauses and failures fall, a run that is reported
\* has a result for every plan it was given, but for what the scheduler had
\* dispatched and returned nothing of, and for no other; none has two, but for
\* the EXEC_ERROR of NoneTwice.  The merged report has the rows of the first run,
\* the result of a retry only in place of a failure of the same plan ("original
\* totals preserved", merge_retry_results).  And unless devices share a name, a
\* plan is skipped by the preflight just when its endpoint was not in order.
BatchAccounted ==
  /\ pc \in {"prompt", "merge"} =>
       ToSet(Plans(results)) = ToSet(batch) \ unreported /\ NoneTwice(results)
  /\ pc = "merged" =>
       /\ Len(results) = Len(original)
       /\ \A i \in DOMAIN original :
            \/ results[i] = original[i]
            \/ Failed(original[i]) /\ results[i].plan = original[i].plan
  /\ pc = "prompt" /\ UniqueNames =>
       \A i \in DOMAIN results :
         Reachable(results[i].plan) <=>
           results[i].status \notin {"EXEC_SKIPPED_PORT_BLOCKED", "EXEC_SKIPPED_PRECHECK_FAILED"}

\* This does NOT hold: a run that is reported has one result for each plan it was
\* given.  The list that _execute_dynamic copies may lack some, and the list of
\* _execute_sequential may have two for a plan.
OneResultEach ==
  pc \in {"prompt", "merge"} =>
    Len(results) = Len(batch) /\ ToSet(Plans(results)) = ToSet(batch)

\* This does NOT hold: in the merged report a plan that has passed, at first or in
\* the retry, has no failed row.  Of two failed rows only the first is merged.
PassedOrFailed ==
  pc = "merged" =>
    \A i, j \in DOMAIN results :
      results[i].plan = results[j].plan => (Failed(results[i]) <=> Failed(results[j]))

\* After a stop the sequential executor starts at most the one plan it had
\* looked the stop up for (_execute_sequential tests the stop before it waits
\* for a pause to end).
AtMostOneLateStart == lateStarts <= 1

\* A stop ends the batch from wherever it is, also while it is paused ("Unblock
\* pause so stop can take effect", App.stop), unless it is paused again.
StopTakesEffect ==
  stop /\ pc \notin {"idle", "retry", "prompt", "exit", "merged"} ~>
    pc \in {"prompt", "merge", "exit"} \/ latePause
================================================================================
