--------------------------------- MODULE Retry ---------------------------------
(***************************************************************************)
(* execute_with_retry (src/executor/retry.py): the attempts at one plan.   *)
(*                                                                         *)
(* pc says what happens next: "idle" before an attempt, "call" when the    *)
(* executor is called, "attempted" when it has answered or raised, "done"  *)
(* when the result of the plan stands; an executor has its own values in   *)
(* between.  The delay between two attempts is not modelled.               *)
(*                                                                         *)
(* A definition Bad... is a plausible mistake in the one that follows it;  *)
(* the checks make sure that a property notices it.                        *)
(***************************************************************************)
EXTENDS TaskResult

VARIABLES
  task,     \* what the plan asks for: its device, its task, its options
  pc,       \* what happens next
  res,      \* the ExecutionResult of the attempt
  step,     \* the action or the command the executor is at
  attempt,  \* attempt_idx
  retries   \* max_retries

retryVars == <<task, pc, res, step, attempt, retries>>

RetryInit(Tasks) ==
  /\ task \in Tasks
  /\ pc = "idle"
  /\ res = NewResult /\ step = 1
  /\ attempt = 0
  /\ retries = task.retries

Goes(next, r) == pc' = next /\ res' = r

\* The next attempt, with a result of its own.
Begin ==
  /\ pc = "idle"
  /\ Goes("call", NewResult)
  /\ UNCHANGED <<task, step, attempt, retries>>

\* What the executor raises becomes a result.
Wrapped == Ends(NewResult, "EXEC_ERROR", "none")

\* A transient network failure buys one retry for a task that has none.
Allowed == IF Transient(res) /\ retries < 1 THEN 1 ELSE retries

\* Mistake: the failure of the last attempt is retried as well.
BadAgain == res.status # "EXEC_SUCCESS" /\ Retryable(res) /\ attempt <= Allowed

Again == res.status # "EXEC_SUCCESS" /\ Retryable(res) /\ attempt < Allowed

\* Mistake: the attempts are not counted.
BadNextAttempt == attempt

NextAttempt == attempt + 1

Decide ==
  /\ pc = "attempted"
  /\ retries' = IF res.status = "EXEC_SUCCESS" THEN retries ELSE Allowed
  /\ IF Again
     THEN pc' = "idle" /\ attempt' = NextAttempt
     ELSE pc' = "done" /\ UNCHANGED attempt
  /\ UNCHANGED <<task, res, step>>

================================================================================
