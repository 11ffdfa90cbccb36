# BMC-Auto-Capture: TLA+ models, checks and proofs

BMC-Auto-Capture reads a workbook of devices and tasks, expands it into plans
(one task on one device) and executes them: web pages of baseboard management
controllers (BMC) through a browser, and in-band addresses through SSH or
Telnet. It runs from the command line, from a text interface, or as an executor
server that takes single jobs and whole plan runs over HTTP and reports back
with callbacks.

What must be right is who works on which device at a time, and that every plan
gets exactly one trustworthy end that somebody is told of, whatever stops,
raises, times out or crashes in between. These modules model that core, TLC
checks it on small instances, and TLAPS proves the most important part for
every value of the constants.

All paths below are relative to the repository, without its leading `src/`
where the package itself is named `src`: `src/scheduler/worker_pool.py` is the
file of that package.

- [1 Inventory](#1-inventory)
- [2 Modules and how they follow the code](#2-modules-and-how-they-follow-the-code)
- [3 Runs](#3-runs)
- [4 Fairness](#4-fairness)
- [5 Proofs](#5-proofs)
- [6 What the models showed](#6-what-the-models-showed)
- [7 What is not modelled](#7-what-is-not-modelled)
- [8 Plan](#8-plan)

## 1 Inventory

### Components

| Component | State | Operations | What makes it correct |
|---|---|---|---|
| Dynamic scheduler (`src/scheduler/dynamic_scheduler.py`) | queue of plans per endpoint, deque of ready endpoints, results, per-plan flags, stop and pause events | `run`, `_dispatch`, callbacks of tasks and of BMC groups, crash recovery, `stop`, `pause`, `_drain`, `_shutdown` | one job per endpoint; no plan lost, stranded or executed twice; FIFO per endpoint; a result only gets better; a stop ends the run |
| Worker pools (`worker_pool.py`) | active futures, target size | `submit`, `has_idle`, `resize`, completion callback, `shutdown` | never more jobs than the maximum; every completion reaches its callback |
| Resource monitor (`resource_monitor.py`) | last scale | `get_scale` | only throttles, never stops |
| Resource registry (`resource_registry.py`) | process-wide table of endpoint leases under one condition | `acquire`, `try_hold`, `wait_and_hold`, `release` | an endpoint has one holder; no lost wake-up; nobody frees another's lease |
| File lock (`file_lock.py`) | one lock file per endpoint | `endpoint_file_lock` | no lock outlives its holder |
| BMC session runner (`bmc_session_runner.py`) | page, login, loop index, attempt counter, results | `run` of a group of plans: login, checks, capture, retry, relogin, recovery, sweep, logout | reports each plan once, in order; bounded logins; no page left open |
| BMC executor with health checks, browser manager, retry (`src/executor`) | browser of a thread, page, evidence, attempts | `execute`: login, capture flow, evidence, rules, verdict | a pass rests on evidence that nothing failed for; credentials are submitted a bounded number of times |
| SSH executor (`src/executor/ssh_executor.py`) | connection, what is on the wire, outputs, flags | `execute` under three strategies | the output kept for a command is its own, unless its text comes up before its echo; a pass had every output whole |
| Job runner adapter (`src/job_runner_adapter`) | none | `run_job`, `run_bmc_session_group` | an answer per payload, in order |
| Plan run service (`src/plan_run_service/service.py`) with its state store | runs, current run of a plan, state files | `start_plan_run`, `_execute_run`, crash handler, load of the states at start-up | one run of a plan at a time; one run on a device; what was told is what is kept; no run RUNNING for ever |
| Callback delivery, outbox, client (`callback_delivery.py`, `src/callback_outbox`, `src/plan_item_status_callback_client`) | a file of callbacks per plan | `append`, `get_pending`, `mark_sent`, `mark_failed`, `send_batch`, `retry_pending` | a callback is delivered, or pending, or given up because it, or another of its batch, was refused or its attempts are used up; bounded posts |
| Resource lock manager (`src/resource_lock_manager`) | owner per lock URI | `acquire`, `release` | mutual exclusion by URI |
| Direct dispatch (`src/executor_api_server/service.py`, `src/direct_dispatch_store`) | jobs, FIFO of pending ones, background worker | `submit_job`, `run_pending_once`, callbacks | jobs neither lost nor doubled, each ends and its end is told or marked untold |
| Executor server (`src/cli/server.py`, `app.py`) | the two services above in one process | routes | one table of locks for both |
| Application (`src/app.py`, `src/__main__.py`, `src/cli/failed_retry.py`) | plans, results, stop and pause events, stop reason | `run`, `stop`, `pause`, sequential mode, retry of what failed | no plan is missing from the report but those the scheduler returned nothing of, none twice but for an EXEC_ERROR; a retry replaces only failures; a stop of the user or of the route guard ends the batch |
| Route guard, preflight (`src/connectivity`) | last snapshot, last difference; what was probed | watch loop, probes | stops a batch when the routes change; skips the plans it could not reach |
| Workbook store (`src/excel_config_store`) | workbooks by hash, `latest.json`, a lock | activate, migrate, read the latest | the latest workbook is a whole one; nothing stored that was refused |
| Plan items (`src/plan_run_service/builder.py`, `src/api_models/lock_uri.py`) | none | expand a workbook, derive endpoints and locks | who shares an address shares a lock |
| Rules, verdict, models | none | evaluate text, decide statuses | pure functions |
| Loader, plan catalog | none | read workbooks | out of scope |
| Output, secrets, utilities, command line, legacy front ends | files, text | writing, parsing | out of scope |

`PROJECT.json` lists every component with its files, what is modelled of it and
why the rest is not.

### How they interact

- `App.run` calls `DynamicScheduler.run` on the main thread. The scheduler takes
  an endpoint off its ready deque, asks the registry for the lease
  (`try_hold`) and submits a job to the INBAND or the BMC pool. A pool thread
  runs the executor, or the BMC session runner for all queued plans of the
  endpoint. The future's callback, on that thread, appends results, releases the
  lease and puts the endpoint back on the deque.
- Several schedulers may run in one process; the lease table is all they share.
- The session runner reports every plan through `on_plan_done` while it runs;
  when it raises, the scheduler fills in the plans it has not heard of.
- `PlanRunService` has a thread per run. Threads share the lock table and, in
  the service's memory, runs and their items; they save the state file and then
  append to the outbox at every change.
- The outbox is written by the run thread and by retries, which HTTP requests
  start, under a lock per plan; the posts happen outside of it.
- `App` takes a workbook through preflight, execution and report, alone on the
  main thread but for the route guard's thread and whoever calls `stop`,
  `pause` and `resume`. What failed may be run once more.
- `execute_with_retry` calls an executor until its result is final; attempts on
  one thread share its browser, and with it the cookies of a login.
- A start of a plan run takes the workbook that `latest.json` names; uploads
  replace that file on other threads.
- The server holds the direct dispatch service and the plan run service side by
  side; each makes a lock manager of its own.

### What is hard

Callbacks that run on pool threads beside the main loop; stop and pause between
a check and an act; futures forgotten by a shutdown that gives up waiting;
`executor.submit` failing halfway; sessions that raise in the middle of a group;
three recovery paths over one page; a capture flow that goes on after a failure;
late output on a shared channel; retries that race with the first delivery;
crashes between two writes; locks held over everything that may raise. Every
such place is a hazard in `PROJECT.json`, at its line, with the properties
that watch it or the reason why none does.

## 2 Modules and how they follow the code

A module keeps the source's names: a method is an action, an attribute a
variable. A definition `Bad...` is a plausible mistake in the definition that
follows it (a dropped guard, a missing reset, a swapped order); no action uses
it. Each is a mutation under which a stated property fails, which shows that
the property has something to say about the code.

| Module | Code | State and actions |
|---|---|---|
| `EndpointLease` | docstring of `resource_registry.py` | Abstract: a table of leases and who works under them. An endpoint is used under its lease only. |
| `DynamicScheduler` | `dynamic_scheduler.py`, `worker_pool.py`, stop and pause of `app.py` | Per scheduler: the position `pc` of the main thread, `queue`, `ready`, the endpoint and plans in its hand, pool targets, stop and pause flags. Per plan: the `phase` of the job it heads (queued, running, finished, claimed, released, appended; lost when a shutdown forgot it), its result and how often it ran. The main thread, each callback step, each worker and the controller interleave freely. Faults: a failing submit, clean or after the item was queued; a session that crashes; a drain that expires; a KeyboardInterrupt. |
| `PlanSession` | what `DynamicScheduler` relies on | Abstract: a session reports its plans in order and returns only with all of them reported, or raises. |
| `BMCSession` | `bmc_session_runner.py` | One coroutine: `pc`, loop index, page, attempt counter, results. Every awaited call may fail; a capture ends in one of its outcome classes. |
| `ResourceRegistry` | `resource_registry.py`, `file_lock.py` | Lease table, mutex and condition of each process, and the lock directory: a path names an inode, a flock belongs to an inode. One action per step that another thread or process can see. |
| `CallbackOutbox` | `callback_outbox/__init__.py`, `callback_delivery.py`, the callback client | The outbox file of a plan and its senders; a critical section of the outbox is one step, a post one step, `mark_sent` two. The server's answer may be lost. A batch is posted in chunks; `refused` has the items of refused chunks, `spoiled` the others of a batch that gets such an error. |
| `ResourceLockManager` | `lock_manager.py` | `Grants` and `Released` over a table of owners; used by the two services. |
| `PlanRun` | `plan_run_service/service.py`, `state_store.py`, `state_codec.py` | Per run: thread position, item statuses in memory, the state file, what the outbox was told. Restart loads the state files as the service does. |
| `DirectDispatch` | `executor_api_server/service.py`, `direct_dispatch_store` | Job statuses, the FIFO, the step each worker is at, the lock table, what the server heard. |
| `ExecutorServer` | `cli/server.py` | The two services composed as one process: `PlanRun` extended, `DirectDispatch` instantiated, a restart of both. |
| `PlanItems` | `builder.py`, `lock_uri.py`, `task_plan.py`, `job_payload.py` | Operators: the items a workbook expands to, with the endpoint, session and lock URI of each. |
| `JobRunner` | `job_runner_adapter/__init__.py` | Operators: what the adapter may answer for a payload or a group of them, and what the service makes of it. `PlanRun` is built on them. |
| `PageHealth` | `bmc_health_check.py` | Operators: the kinds of page the code tells apart, each gate, the gates of each stage, the status they make. |
| `TaskResult` | `verdict.py`, `execution_result.py`, `checkpoint_engine.py` | Operators: a result with its statuses and classes of reasons, its verdict, whether it may be retried. |
| `Retry` | `retry.py` | The attempts at one plan. |
| `BrowserManager` | `browser_manager.py` | The browser of a thread: reused, recycled, dropped, dead. |
| `BMCExecutor` | `bmc_executor.py`, `condition_evaluator.py` | One attempt: `pc` in the login, the capture flow, the evidence, the rules; the page, the result, what was submitted. A raise in a guarded stretch is an outcome of each of its steps. |
| `SSHExecutor` | `ssh_executor.py` | One attempt: connection, commands under a strategy, judgement. What a device prints is a sequence of tokens (echo, output, mark of a command) of which a read takes a prefix; the rest stays on the wire. A task says in which tokens the text of a command occurs, which is what the code looks for. |
| `PlanExecution` | the composition of the five above | One plan on one worker, with what happens to it: a session lost, a browser that dies. |
| `ExcelConfig` | `excel_config_store/__init__.py`, checks of a workbook in `service.py` | The directory of workbooks, `latest.json`, the lock of the store, the workbook in memory; per call where it is. One action per write that a crash or a failure can separate from the next. |
| `App` | `app.py`, `__main__.py`, `failed_retry.py`, `preflight.py`, `route_guard.py`, `plan_generator.py` | The main thread's `pc`, results, stop and pause events, stop reason, the plans of which the scheduler returned nothing, and a guard per run with its snapshot; the routes of the machine change beside it. |
| `..._proofs` | | Theorems of the module named; `ExecutorServer_proofs` has those of `PlanRun`, of `CallbackOutbox`, and of what holds of the process they share with `DirectDispatch`. |
| `MC...` | | Instances for TLC. |

The granularity follows what other threads can observe. What the code does
under one lock or on one thread with nobody able to see the middle is one
action; every place where another actor can come in between is a step boundary.
Some choices deserve a word:

- `DynamicScheduler`: the scale of the monitor is a percentage from a constant
  set; the shutdown of both pools is one step, for nothing but the callbacks
  already modelled happens between the two. Of the items that failed submits
  leave on a pool's queue one per plan is followed. The file lock is not part of it:
  `enable_file_lock` has no caller in the source.
- `ResourceRegistry`: POSIX flock. `wait_and_hold` has no caller in the source
  but is part of the interface and is checked as such. A lock file that cannot
  be opened and `is_locked` are left out.
- `CallbackOutbox`: `SENDING` is never set by the code. A write to the disk
  that fails is not modelled. The retry clock is modelled as any subset of the
  waiting items being due. A retry takes what is due in one order (`Ordered`:
  items before summaries, each in the order of the file), stated by positions.
  Each delivery builds a callback of its own, and one retry is at work at a
  time: the handler that starts it (`app.py:478`) is `async` and calls
  synchronous code, so it keeps the event loop to its end.
- `BMCSession`: `on_group_done` is never passed and is left out. A page lost
  when `new_page` itself is cancelled is not counted.
- `PlanRun`: HTTP handlers run one after the other on the event loop, so a start
  is one step; the files are replaced atomically; errors when a state file is
  written are swallowed by the code and not modelled. A group asks for one lock
  (the rollback of several is unreachable). `latest_run.json` is written and
  never read by this code. Report writing swallows its exceptions.
- `BMCExecutor`, `SSHExecutor`: one step per awaited call whose outcome decides
  what follows. Selectors, texts and file names are abstracted to the kinds of
  page and classes of reasons that the code branches on; the popups that are
  clicked away and do not change the flow are left out. What a rule finds is an
  outcome. The methods that nothing calls any more (`_run_bmc_url`,
  `_run_bmc_actions`, `_detect_target_blocker`) are not modelled.
- `SSHExecutor`: an interactive shell looks for the text of a command anywhere in
  what it has read (`cmd_stripped in clean_output`, line 1349) and for a prompt at
  its end. `task.shows` gives, for each command, the tokens its text occurs in: its
  own echo, and in two of the tasks more: a second command that is part of, or the same
  as, the first and occurs in its own output, and a first one that is the same as the
  command that disables paging. Left out: an output that looks like a prompt.
- `App`: of the dynamic mode it has what `DynamicScheduler` may return. `Schedule`
  dispatches a plan, and its result is recorded or, for one of the reasons that
  `ReturnAccountsForPlans` lists, not there when `run` returns (`unreported`);
  `TakeResults` is the return, after a stop or an interrupt with the rest skipped, and
  the copy of that list (`app.py:662`). The sequential executor is modelled plan by
  plan. What raises after a result was listed (the print at line 613; `EventBus.emit`
  swallows what subscribers raise) makes the handler list an EXEC_ERROR for the plan
  a second time. The print before the `try` (line 576) and an interrupt
  end the command, with 1 and 130. The guard is a daemon thread and ends with it. Of
  the route guard the snapshots that report something are steps.
- `ExcelConfig`: reading a workbook is one step with a verdict that belongs to
  the workbook. Seconds are the clock, since names are made of second and hash.
  The temporary file may stay where unlinking it fails, which the code swallows; only
  a start without a `latest.json` can notice.
- `DirectDispatch`: submit is one step for the same reason. `cancel` and
  `stop_background_worker` have no caller. Job ids are taken to be unique, see
  section 6. A callback reported unsent may have been received.

## 3 Runs

| Run | Instance | Question | Size |
|---|---|---|---|
| `SchedulerControl` | one scheduler; a BMC endpoint with 2 plans, an INBAND one with 2; one worker per pool; every stop and pause; every fault: a submit that fails, before or after its item was queued, a session that crashes, an expiring drain, a KeyboardInterrupt | Does every plan stay accounted for, run at most once and in order, with results that only get better, when control and faults interrupt dispatch at any point? | 1,942,000 states |
| `SchedulerShared` | two schedulers sharing an endpoint, one of them stopped and paused | Are their jobs exclusive, their leases an implementation of `EndpointLease`; does every run end, every plan get a result, every lease come back? | 84,000 states, temporal |
| `ReportRace` | one scheduler, no stop, no fault | Violation, see section 6. | found at once |
| `Registry` | two processes with three threads, two of one holder identity, a call each, file locks, four inodes, a crash, timeouts | Exclusion inside a process, refinement of the table, wake-ups; does a lock file stay locked by somebody who is gone? | 124,000 states, temporal |
| `SessionRecovery` | two plans, the second with two retries, every failure | Does the bookkeeping hold wherever the session is left; are logins bounded, pages closed, the promise of `PlanSession` kept? | 476,000 states |
| `OutboxDelivery` | a run thread with two callbacks and a retry beside it, chunks of one, two attempts, up to five retries, a crash | Is anything given up that need not be, but for another chunk of its batch; is anything posted without end? | 268,000 states |
| `PlanRuns` | two plans on workbooks expanded by `PlanItems`: two tasks on a BMC and one in-band, a device without an address, none; two runs, a crash, a raise | Exclusion, no zombie runs, told is kept. | 478,000 states |
| `DirectJobs` | three jobs, two on one lock, two workers (the server's one and another caller of the public `run_pending_once`), a crash | Lock discipline, conservation, told ends, progress. | 235,000 states, temporal |
| `ServerLocks` | one plan item and one job on the same BMC | Violation, see section 6. | found at once |
| `Executors` | fourteen tasks: BMC ones with and without target, actions, conditions, rules, checkpoints and retries; SSH ones of each strategy, one with a command whose text the one before contains, one with the command that disables paging; a session or browser lost once | Is a pass earned, are outputs of the right command, credentials submitted a bounded number of times; does every plan end? | 556,000 states, temporal |
| `ExcelConfig` | two threads with two requests each, two good workbooks and a bad one, two legacy files, two failing calls, damage from outside, a crash | Is the latest workbook whole, nothing left of a refused one, no run made of one? | 7,808,000 states |
| `App` | ten workbooks in both modes: devices that share a host, or a name; BMC and in-band tasks; each way of having nothing to do; two calls of stop, pause, resume; a route change; one fault: a failing snapshot, write, print or executor, an interrupt, a join that expires | Is every plan accounted for through preflight, stop, faults and retry; does a stop end the batch? | 361,000 states, temporal |

Why the bounds are enough to meet the hard cases:

- Two plans on one endpoint make queues, groups, FIFO order and requeueing
  matter; two endpoints of different types make both pools and the ready order
  matter; two schedulers on one endpoint are what leases are for. One worker
  makes the pools full, which is when endpoints are put back.
- A third thread with the holder identity of the first is what a reentrant
  `acquire` needs; two threads of one process and one of another are what file
  locks inside a registry need. Four inodes let a path be unlinked and
  recreated more often than there are holders.
- A group of two and a single item are the two kinds a plan run has; an item
  without a lock and an empty workbook are the two degenerate ones. Two runs
  meet on a device or restart one plan.
- Three jobs, two on one lock, make a job go to the end of the queue behind
  another. One crash and one raise at any step suffice to separate any two
  writes; a second adds repetition of the same recovery.

- A setup and two commands are what late output needs to be taken for a later
  command's; a task with a retry meets every state the first attempt may leave
  the thread's browser in. `MaxTasks = 2` makes a browser be recycled.
- Two calls at once, a second that passes or not, and a workbook that is
  activated twice are what the names of `by_hash` depend on.
- Two runs are all the code has: the first and the retry of what failed. A
  guard of the first run may still be alive in the second. One fault is enough for
  a plan with two results in the first run and a merge of both, or for a plan that
  the retry returns nothing of, which needs none.

`MaxRuns`, `MaxCrashes`, `MaxRaises`, `MaxFaults`, `MaxCalls`, `MaxRetries`,
`MaxLosses`, `MaxDeaths`, `MaxRequests`, `MaxSeconds`, `MaxChanges`, `MaxControls` are
the bounds on otherwise unbounded repetition; `MaxAttempts`, `ChunkSize`,
`MaxWorkers`, `MaxTasks`, `StopThreshold` are parameters of the code with
small values. Deadlock is checked except in the runs of services that may
really be idle for good (`OutboxDelivery`, `PlanRuns`, `DirectJobs`,
`ServerLocks`, `ExcelConfig`), and in `Executors` and `App`, which end and, for
`App`, may stay paused. The
scheduler and registry models have an explicit step for having finished, so
there a deadlock would be reported. `SYMMETRY` is used twice, over plans in
`PlanRuns` and over threads in `ExcelConfig`, runs with invariants only.

## 4 Fairness

- `DynamicScheduler`: weak fairness of every scheduler's main thread, of every
  worker and callback, and of the forwarding of a stop. Threads are scheduled
  by the operating system, executors have timeouts of their own, and the stop is
  forwarded by straight-line code. Nothing is assumed of users: a run left
  paused stays paused, which `AllSettle` takes as its premise. `StopEndsRun` is
  checked with a user who does not pause a run after stopping it.
- `ResourceRegistry`: weak fairness of every step of a thread that is already
  in a call, and of holders that finish. Timeouts and calls are not fair.
- `DirectDispatch`: weak fairness of each worker; `_bg_loop` survives what a job
  raises, and runners and callbacks have timeouts. Submits and crashes are not
  fair. `AcceptedEnds` is for finitely many jobs, those of the instance; whether
  submits without end can starve one is not asked.
- `PlanExecution`: weak fairness of the worker's thread, but not where a remote
  command keeps it (`AtMercy`): `recv_exit_status` waits for the end of the command
  (`ssh_executor.py:792`), `stdout.read()` after a command goes on as long as the
  device prints (line 1580), and so does that after the commands which disable paging
  (line 2009). `PlanEnds` says that a plan ends or stays in one of them for ever. Other
  reads, connecting and navigating have a limit; the Playwright calls that take none
  (`content`, `query_selector`) are taken to answer, or to raise as they do when the
  browser dies, and the waits inside the SSH library are taken to end. `PlanEnds`
  says nothing of a browser that hangs and lives.
- `App`: weak fairness of the main thread and of a guard that has something to
  report or has been told to end. Nobody need resume a pause; that is why
  `StopTakesEffect` excepts a pause that comes after the stop.
- No liveness is claimed for `ExcelConfig`: a call that waits for the store's
  lock may be overtaken, and requests stop.
- No liveness is claimed for `BMCSession`: the checks before a plan have no
  timeout, so a browser that never answers holds the session. None is claimed
  for the outbox: retries happen when somebody asks for them. None for
  `PlanRun` beyond `RunningHasThread`, which says that somebody is left to end a
  run.

## 5 Proofs

All theorems hold for every value of the constants that satisfies the
assumption named in the module (sets of plans, endpoints, threads and so on of
any size; queues that keep the plans of their endpoint; `None`, `Free` and the like not
among the values they stand beside; workbooks whose rows are lists; tasks with a
number of retries, and commands only where there is a shell to type them into;
callbacks that are delivered once, and one retry of them at a time).
TLC evaluates those assumptions for its instances.

| Theorem | Says | Argument |
|---|---|---|
| `DynamicScheduler_proofs!Invariance` | `Spec => []IndInv` | Exclusion is not inductive by itself. `IndInv` adds that the lease of an endpoint names the job on it from `try_hold` to the callback (`LeaseCoversJob`), and that what the main thread holds belongs to the endpoint in its hand (`DispatchConsistent`), so that a submit starts the job whose lease was taken. One lemma per group of actions and conjunct. |
| `TypeCorrect`, `LeaseSafety`, `JobExclusion` | type correctness; leases cover jobs; two jobs never work on one endpoint | Parts and consequences of `IndInv`: two jobs on one endpoint would both be named by its one lease. |
| `LateDispatch` | after a stop or a pause at most one more job is dispatched | Once the scheduler is halted its main thread takes no new endpoint, so only the one in its hand is left. |
| `Upgrades` | a recorded result is only replaced by a better one | Whoever appends compares priorities in the critical section, action by action. |
| `PlansKept` | no plan is lost | `PlanFlow`: plans go from queue to hand to job to result; those still queued are distinct and have no job yet, and what was popped is in the hand until it heads or follows a job. The property counts a plan that an interrupt left in the hand, or that an abandoned job has, as still there. |
| `ExecutedOnce` | a plan is executed at most once | `OnceInv`: a plan that waits, in a queue or for its turn in a group, has not run, and no two jobs share a plan. |
| `ReturnAccounts` | when `run` returns, a plan without a result was in the hand of an interrupted main thread, has its callback running, or is on a job the drain gave up on | The tracking tables hold the jobs that are out until their callback takes them off, the queues are empty once the main thread has left its loop for good, and a group stays together until its results are in. |
| `Stranded` | an endpoint with plans left is ready once, in the hand, or has a job | Each endpoint is in one place: the ready list, the hand, or a job on the tables whose callback has yet to put it back. An in-band plan is reported executed by its own callback and no earlier, so that callback is never turned away as late and always puts the endpoint back. |
| `FifoOrder` | the plans of an endpoint run in the order given | Queue, rest of a group and what is being put back are each in order and stand one behind the other; whatever comes before a plan that runs has run, or is a ghost's. |
| `Refinement` (scheduler) | `Spec => ImplementsLeases` | Every step takes, gives, starts or stops under a lease of `EndpointLease`, or stutters; `IndInv` supplies the owner. Every fault is included. |
| `ResourceRegistry_proofs!Invariance` | `Spec => []RegistryInv` | A lease names the thread that works under it and conversely; a thread at a lock file is inside its process's mutex and found the endpoint free; whoever still asks has acquired nothing. The middle part is needed because the lease is recorded only after the file was locked. |
| `HoldExclusion`, `Refinement` (registry) | one holder per process and endpoint; registries implement `EndpointLease` | From the invariant; a crash frees the leases of its process. |
| `NoFlockLeft` | a file is locked only while a thread of its process holds the endpoint or gives it back | `LocksTraced`: a locked file has a context that names it or a thread that is unlocking it, and a context has a thread that will take it away. |
| `BMCSession_proofs!Invariance` | `Spec => []SessionInv` | Results follow the plans, the position follows the results, the attempt counter follows the tries, and open pages are those in use or refused a close. |
| `PagesClosed`, `Refinement` (session) | no page left; a session keeps the promise of `PlanSession` | From the invariant: results grow by one, and the normal end is reached with all plans only. |
| `Logins` | logins stay within what plans, retries and recoveries allow | The count is bounded by position: what the plans so far were allowed, and what this attempt has used of its own. The bound is a recursive function; its equation is shown to have a solution, plan by plan, from the well-foundedness of the naturals. |
| `ExecutorServer_proofs!Invariance` | `Spec => []LockInv` | A run whose thread works is the current run of its plan, and whoever executes under a lock owns it. The first part is what makes the second inductive: the owner of a lock names plan and item, not the run, and the lock is reentrant, so two runs of one plan could share it. |
| `Exclusion`, `NoZombie` (plan runs) | no two runs work on one device; a RUNNING run has a thread | From `LockInv`; the types in it tie status and thread position. |
| `ExecutorServer_proofs!ItemsInvariance` | `Spec => []RunInv` | What is behind what: the server behind the outbox, the outbox behind the state file, the file behind memory, each by at most the step the thread is at, the position of which says what the items before it are. The crash handler and the load at start-up close what they find open. |
| `Truthful`, `Complete` | an end that was told is the end that is kept, in memory and on disk; a run is COMPLETED only with every end told or made up for by the load | Parts of `RunInv`. |
| `ExecutorServer_proofs!OutboxInvariance` | `OutboxSpec => []OutboxInv` | What the senders hold is in the file, a run thread holds the callback it delivered last, and the error of a sender says where its answers left its callbacks. On that rests an account of the posts, see below. |
| `Drop` | a callback is delivered, pending, without URL, out of attempts, or given up after its own chunk or another of its batch was refused for good | SENT is written only after posts that were all accepted, FAILED_FINAL only with the attempts used up or by a sender one of whose chunks was refused for good; a race of two senders can exchange the marks but not make one up. |
| `BoundedPosts` | a callback is posted at most `2 * MaxAttempts + deaths` times | From the account: the budget has never been spent beyond what it began with. |
| `DirectDispatch_proofs!Invariance` | `Spec => []DirectInv` | A job is in the FIFO once, or in the hands of one worker, or ended; whoever executes owns the lock of the job's URI, and a lock that is owned is executed under. |
| `Exclusion`, `Accounted`, `Heard` (direct jobs) | jobs of one URI never run at once and no lock leaks; the counts the service reports add up, a job runs once; an end was heard or is marked untold | From `DirectInv`. |
| `ExecutorServer_proofs!Composition` | `ServerSpec => Spec /\ Direct!Spec` | A step of one service leaves the variables of the other alone, and a restart is one of both. |
| `ServerKeeps`, `ServerKeepsJobs` | plan runs and direct jobs keep their promises in the process they share | From `Composition` and the theorems about each. That they also keep out of each other's way does not follow, and does not hold: `OneHolderPerUri`, section 6. |
| `ExcelConfig_proofs!Invariance` | `Spec => []ConfigInv` | Who writes holds the store's lock, so what a call remembers (`existed`: the name was there before) stays true until its rollback, and a name that was there had been committed. |
| `Whole`, `Tidy`, `Committed` | what `latest.json` names is whole; a refused workbook leaves nothing; a run asked for when there was a `latest.json` is of a workbook that was the latest | Parts and consequences of `ConfigInv`; the properties leave out damage from outside, crashes and a failing unlink where they say so. |
| `App_proofs!LateStarts` | after a stop at most one more plan starts in sequence | Only the plan that is waited for in a pause was come to before the stop; the next is refused. |
| `Accounted` (application) | a reported run has a result for each plan it was given, but for those the scheduler dispatched and returned nothing of, and no other; two only where an EXEC_ERROR follows the first; skipped is what the preflight found not in order; the merged report replaces only failures, by results of the same plan | `BatchInv`: the results are what the preflight skipped and the plans come to, each once but for that EXEC_ERROR, and the rest of the ready plans is what the loop or the scheduler has left or has not returned. That the list of plans exists, in the order of the sort and each once, is shown by counting ranks in that order; so is what a selection from a list keeps. |
| `PlanExecution_proofs!Invariance` | `Spec => []IInv` | Below, one conjunct per property and what it needs of where the attempt is. |
| `Earned` | a failure kept while the flow went on is still in the result; a pass has the page its conditions were evaluated on | Flaws are only added to the result from where the flow stumbled; the page evaluated is followed through every step that may leave it until the evidence is taken. |
| `Submissions`, `Refusal` | one submit per attempt and one more per lost session; none after a refusal | The form is come to a second time only through a lost session; a flow that was refused is on its way out, and the verdict it leaves is not retried. |
| `Own`, `WholeOutput` | a command whose text occurs in nothing printed before its echo, and every command until one fails if that goes for the first, has its own output and leaves none to later ones; a pass of an interactive shell has every command read to what the code takes for its prompt | What is on the wire is younger than the last such command that was read to its end, which every read, page limit and timeout keeps; until a command fails nothing older is ever on the wire. |

`EndpointLease` and `PlanSession` are how the proofs compose: the scheduler is
proved to use leases as the table promises, the registry is proved to keep that
promise with its mutex, condition and files, and the session is proved to keep
the promise the scheduler's model takes for granted when a BMC group returns.

The account of the posts. `PostsBounded` is not inductive: nothing in it keeps a
callback that has used up its posts from being taken once more. The attempts in the
file do not bound the posts by themselves either, since `mark_sent` writes back
an item it read earlier and may undo attempts that `mark_failed` counted in
between. `PostsOK` therefore distinguishes two phases in the life of a callback.
While its run thread has it in hand (`PostsLive`), only a retry has counted
attempts, so each post is a counted attempt, or is not marked yet, or led to SENT;
a retry has nothing stale to write back, as the run thread counts an attempt only
when it lets go. Afterwards (`PostsLeft`) at most one sender is left, for retries
come one at a time, and what is left of the budget covers the attempts that are
left. The step from the first to the second is where the factor two is spent: a
run thread that marks a callback last may reopen one that a retry had finished
(`FinalIsFinal`), or write back a count from before the retry. A crash forgets the
posts that were not marked, of a callback at most one by each sender; the one it
adds to the budget and what the first phase has left cover them. Both assumptions
of `OutboxConstants` on the feeds are used: with two retries at work at once the
bound would not follow.

Model-checked only: everything under fairness (`StopEndsRun`, `AllSettle`,
`StopTakesEffect`, `WaitersProceed`, `AcceptedEnds`, `PlanEnds`), outside this
prover's reach. Every other property of a passing run is proved. Selections from a
sequence are stated by the indices they keep (`Select` of the application, `Ordered`
of the outbox), since `SelectSeq` is recursive and opaque to the prover;
`GeneratePlans` is stated as the sorted list of its plans for the same reason.

## 6 What the models showed

Two statements of the repository do not hold of its code; each has a run that
shows how.

- `ReportRace`: `run` may return while a callback has not yet recorded its
  result, because a future leaves `_active_futures` before its callback is
  through (`worker_pool.py`, `_on_done`) and the main loop goes by that set. The
  returned list then misses a plan that was executed, where the tests ask that
  all plans have results. `ReturnAccountsForPlans` states exactly what may be
  missing and holds.
- `ServerLocks`: a direct job and a plan run can work on one BMC at a time. Both
  lock the same URI, in two tables, since neither service is given a lock
  manager (`cli/server.py`, `executor_api_server`), where the API design and
  the lock manager's own docstring promise one exclusive lock. A single job
  of a plan run is still kept apart from a direct one by the process-wide
  registry inside the standalone executors; a BMC session group of a plan run
  goes through no registry.

Other behaviour that a reader of the code may not expect. Each was seen in the
models, and is kept as a definition marked "does NOT hold" or behind a constant
that switches it on:

- A KeyboardInterrupt between the pop of plans and their submission leaves them
  in the main thread's hand for good, and the report without them
  (`dynamic_scheduler.py:202`); `NoPlanLost` and `ReturnAccountsForPlans` name
  the place.
- A submit that fails after the work item was queued leaves a job that runs
  later without a lease: with `"orphan"` in `SubmitFaults`, `EndpointExclusive`
  fails (`worker_pool.py:155`).
- The stop event is set before the stop reason is passed on, so pending plans
  can be labelled with the wrong reason (`app.py:502`).
- After an expired drain a job may go on working under its lease although `run`
  has returned; its endpoint is then never freed (phase `lost`).
- `acquire` ignores file locks, and a lease that `acquire` took may be given back
  by `release`, which asks for no owner; the scheduler never does so
  (`OnlyOwnerReleases` states it), other callers could (`resource_registry.py:92`, `:284`).
- `wait_and_hold` sleeps inside the registry's mutex while it waits for another
  process's file, so no lease of its process can be released meanwhile.
- A lock file is unlinked after it was unlocked, so two processes can lock two
  inodes under one name: `HeldOnceAcrossProcesses` fails under the constants of
  `Registry` (`file_lock.py:185`).
- `send_batch` keeps only the last error of a batch cut into chunks, and
  `process_outbox_result` applies it to every item: one whose own chunk failed
  retryably is `FAILED_FINAL` after one attempt when a later chunk is refused
  (`OnlyRefusedGivenUp`, `callback_delivery.py:234`).
- A late answer to the run thread can reopen a callback that a retry marked
  `FAILED_FINAL`: `FinalIsFinal` fails (`callback_delivery.py:284`).
- A success can be recorded for a page whose session is gone, for no gate runs
  at the stage `after_plan`: `SuccessOnLoadedPage` fails
  (`bmc_health_check.py:702`).
- After a recovery that could not open a new page the next plan starts on the
  closed one: `CaptureOnLivePage` fails (`bmc_session_runner.py:564`).
- If the outbox raises while the end of a group is being told, the ends not yet
  told never are: the crash handler skips items that have one
  (`plan_run_service/service.py:645`).
- Two direct commands with one job id overwrite each other in the store, which
  checks only the command id (`executor_api_server/service.py:194`).
- The echo of a command is found by substring, so a command that repeats one that
  timed out, or whose text the late output contains, is taken to have ended at the
  earlier one's prompt, and may pass with its output (`EchoIsOwn`,
  `ssh_executor.py:1349`).
- A login form is accepted by the check before the screenshot, although its
  docstring says "not login": only the gate AUTHENTICATED looks for one
  (`NoLoginAccepted`, `bmc_health_check.py:454`).
- A task in the mode `BMC`, which a workbook without a mode gets
  (`excel_reader.py:435`), is captured by nothing and passes without evidence
  (`PassHasEvidence`).
- `reset_thread` is reached on the loop it wants to run: the browser is
  forgotten, not closed (`orphans` of `BrowserManager`).
- Two devices of one in-band address but of two groups have two lock URIs, and
  a direct job may derive another URI than a plan run does for the same item
  (`LockUri` and `DirectUri` of `PlanItems`). TELNET items without a mode are
  refused in a plan run although the runner would execute them (`ExecuteReal`).
- A workbook whose activation was refused stays in the service's memory, and a
  start without a `latest.json` falls back to it while its file is there
  (`Snapshots`, `plan_run_service/service.py:409`).
- A pause after a stop puts the sequential executor to sleep for good
  (`app.py:447`); a stop during a pause lets one more plan start
  (`AtMostOneLateStart` bounds it).
- A run may have fewer results than plans (the list of the scheduler is copied when
  `run` returns, `app.py:662`) or two for one plan (a print that fails after the
  result was listed, `app.py:613`): `OneResultEach`. Of two failed rows
  of a plan the merge of a retry replaces the first only, so a plan whose retry
  passed may keep a failed row: `PassedOrFailed`.
- A route snapshot that fails differs from the one before in every line, which
  passes the threshold and stops the batch (`route_guard.py:70`). A guard of
  the first run that outlives its join may stop the retry run.
- Devices that share a name share one preflight status: a plan may be skipped
  for the other's endpoint (`BatchAccounted` is stated for unique names).
- The handler of the retry route is `async` and calls the synchronous delivery
  directly, so a slow callback server stops the event loop meanwhile.

## 7 What is not modelled

The texts, selectors and patterns by which pages and outputs are told apart,
image recognition, workbook parsing, report and log writing, HTTP transport: a
page is of a kind, an output a sequence of tokens, a callback a step that was
received or not. Within modelled parts: failing writes of state files and of
the outbox, `Thread.start` failing and the import failure of the real runner's
adapter (`service.py`), which leave a run RUNNING without a thread; the expiry
of resource locks, which no caller sets; the Windows file lock; the lease that
an executor without a scheduler takes for itself (the registry's `acquire` is
modelled, its use by an executor is not composed with it); popups that do not
change the flow. `RunDispatchService` is deprecated and reachable from tests
only, and the plan catalog is used by nothing else. In `DirectDispatch` the path
`DISPATCH_FLOW_CRASH` is unreachable with the runners the code has.
`PROJECT.json` gives the reason for every component left out.

## 8 Plan

Done, in this order, the most important behaviour first: the scheduler with the
lease table it implements; the registry behind the table; the callback outbox;
the BMC session behind the scheduler's group jobs; plan runs; direct dispatch;
their composition in the server; the executors with retry and browser; the job
runner and the items of a plan run, under `PlanRun`; the workbook store; the
application with its guard and retry.

Left, models: an abstract specification of what one `execute` promises to the
scheduler, implemented by `PlanExecution`; the extractors and the interface
status of the rules against reference definitions; the evidence audit of the
reports (`out/evidence_audit.py`).

Left, proofs: the contract of an `execute` as a refinement, once it is stated;
the bound of the outbox for retries that overlap, if the handler ever becomes
one that lets them.
