----------------------------- MODULE DirectDispatch ----------------------------
(***************************************************************************)
(* DirectDispatchService (src/executor_api_server/service.py) on its store  *)
(* (src/direct_dispatch_store): single jobs accepted over HTTP, queued, and *)
(* run by workers: the background thread, or whoever calls                 *)
(* run_pending_once.  A job whose lock is taken goes to the end of the     *)
(* queue.  Everything is in memory: a crash forgets it, and a server that  *)
(* has had no answer may send the command again.                           *)
(*                                                                         *)
(* A callback that is reported sent was received; one that is not may have *)
(* been received all the same.                                             *)
(***************************************************************************)
EXTENDS Integers, Sequences, FiniteSets, ResourceLockManager

(* A definition Bad... is a plausible mistake in the one that follows it;   *)
(* no action uses it.  Each is a mutation under which a property fails.     *)

CONSTANTS
  Jobs,     \* jobs, each with the command_id and the job_id of its own
  UriOf,    \* lock_uri of a job
  Workers,
  NoJob,    \* a worker has no job
  MaxCrashes

ASSUME DirectConstants ==
  /\ UriOf \in [Jobs -> Locks]
  /\ NoJob \notin Jobs /\ Free \notin Jobs
  /\ MaxCrashes \in Nat

Ended == {"SUCCEEDED", "FAILED"}
JobStoreStatus == Ended \cup {"ACCEPTED", "RUNNING", "CALLBACK_FAILED"}

VARIABLES
  status,  \* _jobs: of a job, "NOT_FOUND" if it has no record
  pending, \* _pending_queue
  at, job, \* where a worker is, and with which job
  table,   \* the lock table
  result,  \* JobResult.status of a job, "NONE" before it has one
  heard,   \* the ends of a job its server has heard of, in any life
  ran,     \* how often the job was run in this life of the process
  crashes

work == <<at, job>>
vars == <<status, pending, work, table, result, heard, ran, crashes>>

Init ==
  /\ status = [j \in Jobs |-> "NOT_FOUND"]
  /\ pending = <<>>
  /\ at = [w \in Workers |-> "idle"]
  /\ job = [w \in Workers |-> NoJob]
  /\ table = NewTable
  /\ result = [j \in Jobs |-> "NONE"]
  /\ heard = [j \in Jobs |-> {}]
  /\ ran = [j \in Jobs |-> 0]
  /\ crashes = 0

-----------------------------------------------------------------------------
(* submit_job.  Its handlers run one at a time on the event loop.          *)

BadFresh(j) == status[j] \in Ended \cup {"NOT_FOUND"}

\* create: a command_id that is known is a duplicate and changes nothing.
Fresh(j) == status[j] = "NOT_FOUND"

Submit(j) ==
  /\ Fresh(j)
  /\ status' = [status EXCEPT ![j] = "ACCEPTED"]
  /\ pending' = Append(pending, j)
  /\ UNCHANGED <<work, table, result, heard, ran, crashes>>

-----------------------------------------------------------------------------
(* A worker: run_pending_once and _execute_and_callback.                   *)

Go(w, there) == at' = [at EXCEPT ![w] = there]

Take(w) ==
  /\ at[w] = "idle" /\ pending # <<>>
  /\ job' = [job EXCEPT ![w] = Head(pending)]
  /\ pending' = Tail(pending)
  /\ Go(w, "lock")
  /\ UNCHANGED <<status, table, result, heard, ran, crashes>>

Lock(w) ==
  /\ at[w] = "lock"
  /\ Grants(table, UriOf[job[w]], job[w])
  /\ table' = Acquired(table, UriOf[job[w]], job[w])
  /\ Go(w, "start")
  /\ UNCHANGED <<status, pending, job, result, heard, ran, crashes>>

BadRequeued(q, j) == q

\* The lock is taken: the job is put back and stays ACCEPTED.
Requeued(q, j) == Append(q, j)

Requeue(w) ==
  /\ at[w] = "lock"
  /\ ~Grants(table, UriOf[job[w]], job[w])
  /\ pending' = Requeued(pending, job[w])
  /\ job' = [job EXCEPT ![w] = NoJob]
  /\ Go(w, "idle")
  /\ UNCHANGED <<status, table, result, heard, ran, crashes>>

\* mark_running; the callback of the start may fail or raise.
MarkRunning(w) ==
  /\ at[w] = "start"
  /\ status' = [status EXCEPT ![job[w]] = "RUNNING"]
  /\ Go(w, "run")
  /\ UNCHANGED <<pending, job, table, result, heard, ran, crashes>>

\* run_job has returned or raised.
RunJob(w) ==
  /\ at[w] = "run"
  /\ \E end \in Ended : result' = [result EXCEPT ![job[w]] = end]
  /\ ran' = [ran EXCEPT ![job[w]] = @ + 1]
  /\ Go(w, "finish")
  /\ UNCHANGED <<status, pending, job, table, heard, crashes>>

MarkFinished(w) ==
  /\ at[w] = "finish"
  /\ status' = [status EXCEPT ![job[w]] = result[job[w]]]
  /\ Go(w, "callback")
  /\ UNCHANGED <<pending, job, table, result, heard, ran, crashes>>

Received(j) == heard' = [heard EXCEPT ![j] = @ \cup {result[j]}]

BadAfter(sent) == "release"

\* Only a callback that was not sent is recorded.
After(sent) == IF sent THEN "release" ELSE "unsent"

\* callback_job_finished or callback_job_failed.
Callback(w) ==
  /\ at[w] = "callback"
  /\ \E sent \in BOOLEAN :
       /\ \/ Received(job[w])
          \/ ~sent /\ UNCHANGED heard
       /\ Go(w, After(sent))
  /\ UNCHANGED <<status, pending, job, table, result, ran, crashes>>

MarkCallbackFailed(w) ==
  /\ at[w] = "unsent"
  /\ status' = [status EXCEPT ![job[w]] = "CALLBACK_FAILED"]
  /\ Go(w, "release")
  /\ UNCHANGED <<pending, job, table, result, heard, ran, crashes>>

\* The finally clause.
Release(w) ==
  /\ at[w] = "release"
  /\ table' = Released(table, UriOf[job[w]], job[w])
  /\ job' = [job EXCEPT ![w] = NoJob]
  /\ Go(w, "idle")
  /\ UNCHANGED <<status, pending, result, heard, ran, crashes>>

WorkerStep(w) ==
  \/ Take(w) \/ Lock(w) \/ Requeue(w) \/ MarkRunning(w) \/ RunJob(w)
  \/ MarkFinished(w) \/ Callback(w) \/ MarkCallbackFailed(w) \/ Release(w)

\* The process dies and starts again with an empty store.
Crash ==
  /\ crashes < MaxCrashes
  /\ crashes' = crashes + 1
  /\ status' = [j \in Jobs |-> "NOT_FOUND"]
  /\ pending' = <<>>
  /\ at' = [w \in Workers |-> "idle"]
  /\ job' = [w \in Workers |-> NoJob]
  /\ table' = NewTable
  /\ result' = [j \in Jobs |-> "NONE"]
  /\ ran' = [j \in Jobs |-> 0]
  /\ UNCHANGED heard

Next ==
  \/ \E j \in Jobs : Submit(j)
  \/ \E w \in Workers : WorkerStep(w)
  \/ Crash

Spec == Init /\ [][Next]_vars

\* _bg_loop takes one pending job after the other and survives what it raises;
\* a runner or a callback gives up after its timeout.
FairSpec == Spec /\ \A w \in Workers : WF_vars(WorkerStep(w))
-----------------------------------------------------------------------------
(* Properties.                                                             *)

Queued == {pending[i] : i \in DOMAIN pending}
Taken == {job[w] : w \in Workers} \ {NoJob}
Executing(w) == at[w] \notin {"idle", "lock"}

TypeOK ==
  /\ status \in [Jobs -> JobStoreStatus \cup {"NOT_FOUND"}]
  /\ pending \in Seq(Jobs)
  /\ job \in [Workers -> Jobs \cup {NoJob}]
  /\ at \in [Workers -> {"idle", "lock", "start", "run", "finish", "callback",
                         "unsent", "release"}]
  /\ \A w \in Workers : at[w] = "idle" <=> job[w] = NoJob
  /\ table \in [Locks -> Jobs \cup {Free}]
  /\ result \in [Jobs -> Ended \cup {"NONE"}]
  /\ heard \in [Jobs -> SUBSET Ended]
  /\ ran \in [Jobs -> Nat] /\ crashes \in 0 .. MaxCrashes

\* _execute_and_callback: two workers never execute jobs on one lock URI, and a
\* lock has an owner only as long as its owner executes: no crash of a runner or
\* of a callback leaks one.
DirectExclusive ==
  /\ \A v, w \in Workers : v # w /\ Executing(v) /\ Executing(w) =>
       UriOf[job[v]] # UriOf[job[w]]
  /\ \A l \in Locks : table[l] # Free <=>
       \E w \in Workers : Executing(w) /\ UriOf[job[w]] = l /\ table[l] = job[w]

\* A job is in the queue or with a worker exactly until it has ended, and in one
\* place: submit_job and the requeue of a locked job neither lose nor double it.
JobsAccountedFor ==
  /\ Len(pending) = Cardinality(Queued) /\ Queued \cap Taken = {}
  /\ \A v, w \in Workers : v # w /\ job[v] # NoJob => job[v] # job[w]
  /\ \A j \in Jobs : status[j] \in {"ACCEPTED", "RUNNING"} => j \in Queued \cup Taken
  /\ \A j \in Jobs : ran[j] <= 1

\* mark_callback_failed: a job at rest whose status is an end was reported to the
\* server with that end; otherwise it is CALLBACK_FAILED.
EndWasHeard ==
  \A j \in Jobs \ Taken : status[j] \in Ended => status[j] \in heard[j]

\* run_pending_once: an accepted job ends, unless the process dies first: a job that is put back
\* for its lock does not wait for ever.
AcceptedEnds ==
  \A j \in Jobs : status[j] = "ACCEPTED" ~> status[j] \notin {"ACCEPTED", "RUNNING"}
=============================================================================
