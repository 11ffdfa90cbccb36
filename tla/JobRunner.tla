------------------------------- MODULE JobRunner -------------------------------
(***************************************************************************)
(* RealRunnerAdapter (src/job_runner_adapter): what it answers for the     *)
(* payloads of a group of plan items, and what PlanRunService makes of it. *)
(* How a plan is executed is in PlanExecution and BMCSession; here it ends *)
(* with a status, or it raises.                                            *)
(***************************************************************************)
EXTENDS Naturals, Sequences

\* What an execution may end with, as far as the adapter looks at it.
Executions == {"EXEC_SUCCESS", "EXEC_PARTIAL", "EXEC_FAILED", "EXEC_TIMEOUT", "EXEC_ERROR"}

\* _execution_result_to_job_result: the rules, the checkpoints and the verdict
\* count for nothing.
JobStatus(execution) ==
  CASE execution = "EXEC_SUCCESS" -> "SUCCEEDED"
    [] execution = "EXEC_TIMEOUT" -> "TIMEOUT"
    [] OTHER                      -> "FAILED"

\* A status for what the executor returns, a failure for what it raises.
RunBMC == {JobStatus(e) : e \in Executions} \cup {"FAILED"}
RunSSH == {JobStatus(e) : e \in Executions} \cup {"FAILED"}

\* The plan made of the payload is run by its type and its execution mode.
RunJob(payload) ==
  CASE payload.mode \in {"BMC_URL", "BMC_ACTIONS"} \/ payload.type = "BMC" -> RunBMC
    [] payload.type \in {"SSH", "TELNET"} \/ payload.mode = "SSH_CMD"       -> RunSSH
    [] OTHER                                                               -> {"FAILED"}

\* run_bmc_session_group: an answer for each of n payloads in their order; a
\* session that raises is a failure of all of them, also of those it had executed.
RunGroup(n) ==
  [1 .. n -> {JobStatus(e) : e \in Executions}] \cup {[k \in 1 .. n |-> "FAILED"]}

-----------------------------------------------------------------------------
(* The calls of PlanRunService; no answer stands for a payload that cannot *)
(* be built and for a runner that raises.                                  *)

\* PlanRunJobPayloadBuilder.build: what the snapshots of device and task say of the
\* way they are executed.
Payload(it) == [type |-> it.type, mode |-> it.mode]

ExecuteReal(it) ==
  LET known == it.type \in {"BMC", "SSH"} \/ it.mode \in {"BMC_URL", "BMC_ACTIONS", "SSH_CMD"} IN
  {<<>>} \cup (IF known THEN {<<a>> : a \in RunJob(Payload(it))} ELSE {})

ExecuteRealGroup(n) == {<<>>} \cup RunGroup(n)

\* The item at place k of the group, by the answer at that place.
ApplyRealResult(answers, k) ==
  IF k \in DOMAIN answers /\ answers[k] = "SUCCEEDED" THEN "SUCCESS" ELSE "FAILED"
================================================================================
