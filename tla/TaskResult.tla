------------------------------- MODULE TaskResult -------------------------------
(***************************************************************************)
(* What an executor reports of a task (models/execution_result.py), the    *)
(* verdict and the retryability derived from it (models/verdict.py), and   *)
(* the roll-ups of the conditions, checkpoints and rules that enter it     *)
(* (src/rules).                                                            *)
(*                                                                         *)
(* A reason is the pattern a failure text is recognised by, "none" without     *)
(* one.  shot and html are the page, or the output, that was saved as a    *)
(* picture and as a text.                                                  *)
(*                                                                         *)
(* A definition Bad... is a plausible mistake in the one that follows it;  *)
(* the checks make sure that a property notices it.                        *)
(***************************************************************************)
EXTENDS Naturals, Sequences

Statuses ==
  {"EXEC_SUCCESS", "EXEC_FAILED", "EXEC_ERROR", "EXEC_TIMEOUT", "EXEC_PARTIAL",
   "EXEC_SKIPPED_PORT_BLOCKED", "EXEC_SKIPPED_PRECHECK_FAILED"}

\* NON_RETRYABLE_REASON_PATTERNS and TRANSIENT_RETRYABLE_REASON_PATTERNS.
FinalReasons ==
  {"IP_EMPTY", "REFUSED", "PREEMPTED", "COMMAND_MISSING", "COMMAND_OUTPUT_MISSING",
   "ONLY_LOGIN_BANNER", "RULES_FAILED", "AUTHENTICATION"}
TransientReasons == {"CONNECTION_RESET"}

\* An ExecutionResult as it is created.
NewResult ==
  [status   |-> "EXEC_SUCCESS",
   reason   |-> "none",
   ready    |-> "READY_UNKNOWN",
   artifact |-> "ARTIFACT_PENDING",
   check    |-> "CHECK_DISABLED",
   rule     |-> "RULE_DISABLED",
   shot     |-> "none",
   html     |-> "none"]

Ends(r, status, reason) == [r EXCEPT !.status = status, !.reason = reason]

NotReady(r) == [r EXCEPT !.ready = "READY_NOT_READY"]

-----------------------------------------------------------------------------
(* The verdict and the decision to retry.                                  *)

IsFailure(r) == r.status \in {"EXEC_FAILED", "EXEC_ERROR", "EXEC_TIMEOUT"}
IsSkipped(r) == r.status \in {"EXEC_SKIPPED_PORT_BLOCKED", "EXEC_SKIPPED_PRECHECK_FAILED"}

Verdict(r) ==
  CASE IsFailure(r) \/ r.artifact = "ARTIFACT_FAILED" \/ r.check = "CHECK_FAIL" -> "FAIL"
    [] OTHER ->
         IF IsSkipped(r) THEN "SKIPPED"
         ELSE IF \/ r.status = "EXEC_PARTIAL"
                 \/ r.ready = "READY_NOT_READY"
                 \/ r.check = "CHECK_WARN"
                 \/ r.artifact = "ARTIFACT_PARTIAL"
              THEN "WARN" ELSE "PASS"

Transient(r) == IsFailure(r) /\ r.reason \in TransientReasons

\* Mistake: the final reasons are looked up after the status.
BadRetryable(r) == Transient(r) \/ r.status \in {"EXEC_TIMEOUT", "EXEC_FAILED"}

\* is_retryable_failure.
Retryable(r) ==
  /\ r.reason \notin FinalReasons
  /\ Transient(r) \/ r.status \in {"EXEC_TIMEOUT", "EXEC_FAILED"}

-----------------------------------------------------------------------------
(* Conditions, checkpoints and rules.                                      *)

\* ConditionEvaluationResult.rollup.
RollUp(answers) ==
  CASE "FAIL" \in answers -> "FAIL"
    [] "WARN" \in answers /\ "FAIL" \notin answers -> "WARN"
    [] "PASS" \in answers /\ answers \cap {"FAIL", "WARN"} = {} -> "PASS"
    [] OTHER -> "SKIP"

\* CheckpointEvaluationResult.rollup_status, of the older checkpoints: passes and
\* skips together are no roll-up at all.
LegacyRollUp(answers) ==
  CASE "FAIL" \in answers -> "CHECK_FAIL"
    [] "WARN" \in answers /\ "FAIL" \notin answers -> "CHECK_WARN"
    [] answers = {"PASS"} -> "CHECK_PASS"
    [] answers = {"SKIP"} -> "CHECK_SKIP"
    [] answers \in {{}, {"PASS", "SKIP"}} -> "CHECK_DISABLED"

\* Whether a page is ready: the configured conditions replace the default ones.
ReadySpecs(conditions) ==
  IF conditions = {} THEN {"page_alive", "not_login_page"} ELSE conditions

\* What one condition may answer on a page: alive tells whether it is open, and
\* fields whether the fields of a login form may be visible on it.  A condition
\* that raises warns, and one that is unknown or empty is skipped.
ReadyAnswers(type, alive, fields) ==
  CASE type = "page_alive"     -> IF alive THEN {"PASS"} ELSE {"FAIL"}
    [] type = "not_login_page" -> {IF f THEN "FAIL" ELSE "PASS" : f \in fields}
    [] type = "url_contains"   -> {"PASS", "FAIL"}
    [] type = "text_contains"  -> IF alive THEN {"PASS", "FAIL", "WARN"} ELSE {"WARN"}
    [] type = "unknown"        -> {"SKIP"}

\* The roll-ups of the conditions; of these only "FAIL" counts.
ReadyOutcomes(conditions, alive, fields) ==
  LET specs == ReadySpecs(conditions)
      All == UNION {ReadyAnswers(t, alive, fields) : t \in specs} IN
  {RollUp({f[t] : t \in specs}) :
     f \in {g \in [specs -> All] : \A t \in specs : g[t] \in ReadyAnswers(t, alive, fields)}}

\* RuleEngine.evaluate for rules of these types: the first basic rule that fails
\* ends it and raises in the executor; the advanced ones are only recorded.
RuleOutcomes(rules) ==
  (IF "basic" \in rules THEN {"raises"} ELSE {})
    \cup (IF "advanced" \in rules THEN {"RULE_PASSED", "RULE_FAILED"} ELSE {"RULE_DISABLED"})

\* What an evidence checkpoint may answer when the evidence does not have what
\* it asks for: a severity of INFO passes, is skipped or warns, with its type.
Unmet(severity) ==
  CASE severity = "ERROR"   -> {"FAIL"}
    [] severity = "WARNING" -> {"WARN"}
    [] severity = "INFO"    -> {"PASS", "SKIP", "WARN"}

\* One evidence checkpoint: without content it is skipped, when it raises it
\* warns, and a file that is missing fails whatever the severity.
EvidenceAnswers(type, severity) ==
  {"PASS", "WARN"} \cup
    (IF type = "file_exists" THEN {"FAIL"} ELSE {"SKIP"} \cup Unmet(severity))

\* One of the older checkpoints: its severity is not looked at.
LegacyAnswers == {"PASS", "FAIL", "WARN", "SKIP"}

CheckStatus(answer) ==
  CASE answer = "FAIL" -> "CHECK_FAIL"
    [] answer = "WARN" -> "CHECK_WARN"
    [] answer = "PASS" -> "CHECK_PASS"
    [] answer = "SKIP" -> "CHECK_SKIP"

\* The checkpoints of a task: evidence holds <<type, severity>> pairs and hides
\* the older ones, of which legacy is the number.
CheckOutcomes(checks) ==
  IF checks.evidence # {}
  THEN {CheckStatus(RollUp({f[c] : c \in checks.evidence})) :
          f \in {g \in [checks.evidence -> LegacyAnswers] :
                   \A c \in checks.evidence : g[c] \in EvidenceAnswers(c[1], c[2])}}
  ELSE {LegacyRollUp({f[i] : i \in 1 .. checks.legacy}) :
          f \in [1 .. checks.legacy -> LegacyAnswers]}

================================================================================
