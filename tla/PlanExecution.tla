----------------------------- MODULE PlanExecution -----------------------------
(***************************************************************************)
(* One plan on one worker: execute_with_retry around the BMC executor or   *)
(* the SSH executor, from the first attempt to the result that stands.     *)
(*                                                                         *)
(* The executors are sequential; what acts besides them is the device (its *)
(* session and its output, SessionLost and what a step may read) and the   *)
(* clock (Expires).                                                        *)
(***************************************************************************)
EXTENDS BMCExecutor, SSHExecutor

CONSTANT Tasks   \* the tasks a plan may have

\* retries is retry_count, but not below 0 (retry.py:43).
ASSUME TasksAssumption ==
  \A t \in Tasks :
    /\ t.kind \in {"BMC", "SSH"} /\ t.retries \in Nat
    /\ t.kind = "SSH" => /\ t.strategy \in Shells \cup {"exec_command"}
                         /\ t.commands \in Seq({"setup", "context", "evidence"})

vars == <<retryVars, bmcVars, sshVars>>

Init ==
  /\ RetryInit(Tasks)
  /\ BMCInit
  /\ SSHInit

\* Between two attempts on the thread its browser may die, or be closed by the
\* recovery of the scheduler.
Between ==
  /\ pc = "idle" /\ losses < MaxLosses
  /\ losses' = losses + 1
  /\ BrowserDies \/ CloseCurrentThreadBrowser
  /\ UNCHANGED <<retryVars, page, caller, submits, refused, settled, stumbled>>

\* The steps of the worker's own thread.
Works ==
  \/ (Begin \/ Decide) /\ UNCHANGED <<bmcVars, sshVars>>
  \/ BMCStep /\ UNCHANGED sshVars
  \/ SSHStep /\ UNCHANGED bmcVars

\* What happens to it.
Happens == (SessionLost \/ Between) /\ UNCHANGED sshVars

Next == Works \/ Happens

\* The thread goes on as long as it can, but where a remote command keeps it, which
\* nothing limits.  A browser is taken to answer, or to raise as it does when it
\* dies, and so is the SSH library where it opens a channel.
Goings == Works /\ ~AtMercy

Spec == Init /\ [][Next]_vars /\ WF_vars(Goings)

--------------------------------------------------------------------------------
(* Safety.                                                                 *)

TypeOK ==
  /\ task \in Tasks /\ res.status \in Statuses
  /\ attempt \in Nat /\ retries \in Nat /\ step \in Nat \ {0}
  /\ page \in Pages /\ losses \in 0 .. MaxLosses
  /\ submits \in Nat /\ orphans \in Nat
  /\ browser.process \in {"none", "runs", "dead"}
  /\ {refused, settled, stumbled} \subseteq BOOLEAN

Final == pc = "done"

\* A task passes only if nothing its evidence depends on failed: the failures kept
\* in the result while the capture flow goes on (bmc_executor.py:1338) are never
\* overwritten on the way to EXEC_SUCCESS.  With the default conditions, and on the
\* page those were evaluated on, it passes only with a page of a user who is logged in.
PassIsEarned ==
  (Final /\ task.kind = "BMC" /\ task.mode \in Captured /\ Verdict(res) = "PASS") =>
    /\ "none" \notin {res.shot, res.html} /\ ~stumbled
    /\ (settled /\ task.conditions = {}) =>
         {res.shot, res.html} \subseteq {"target", "home", "password"}

\* The docstring of check_page_basic_health (bmc_health_check.py:454) says "not login",
\* but only the AUTHENTICATED gate looks for a form, and it is not asked for before the
\* screenshot: does NOT hold.
NoLoginAccepted ==
  [][(pc = "pre_shot" /\ pc' = "shot" /\ Verdict(res') = "PASS") => page' # "form"]_vars

\* A task that passes has a screenshot or an HTML (bmc_executor.py:1705, "Guaranteed
\* final evidence"): does NOT hold of a task in the mode "BMC", the default of
\* excel_reader.py:435, which no capture follows.
PassHasEvidence == Final /\ Verdict(res) = "PASS" => {res.shot, res.html} # {"none"}

\* An account locks after some wrong passwords: its credentials are submitted once
\* for each attempt, and once more for each time the session was lost, however the
\* login before the task, the one in the capture flow (bmc_executor.py:1385) and the
\* retries follow each other.
SubmitsBounded ==
  /\ attempt <= (IF task.retries > 1 THEN task.retries ELSE 1)
  /\ submits <= attempt + 1 + losses

\* After the BMC has refused the credentials they are not submitted again, unless
\* a limit has hidden the refusal (verdict.py:108, "密码错误" is final).
RefusalIsFinal == [][refused => submits' = submits]_vars

\* The command's text occurs in nothing the device prints before its echo.
Distinct(i) == task.strategy = "interactive_shell" => \A t \in task.shows[i] : t[2] >= i

HasOwn(i) ==
  /\ task.strategy = "interactive_shell" =>
       Has(outputs[i], "echo", i) /\ Last(outputs[i]) = <<"mark", i>>
  /\ \A j \in DOMAIN outputs : j > i => \A t \in ToSet(outputs[j]) : t[2] > i

\* A command taken to have ended has what the device printed for it, to its own
\* prompt, and no later command has any of it: late output of a command that timed
\* out is passed over by the search for the echo (ssh_executor.py:1299).  That much
\* holds of a command whose text occurs in nothing printed before its echo, and, if
\* that goes for the first command, of every command until one fails.
OutputIsOwn ==
  \A i \in ended \cap DOMAIN outputs :
    Distinct(i) \/ (Distinct(1) /\ ~failed) => HasOwn(i)

\* "wait for the command echo to appear first, then [...] the VRP prompt AFTER the
\* command echo" (ssh_executor.py:1299): does NOT hold of a command whose text occurs
\* in what is still on the wire, as when it is the same as one that timed out before.
EchoIsOwn == \A i \in ended \cap DOMAIN outputs : HasOwn(i)

\* An interactive shell whose plan passes has every command read to where the code
\* takes its prompt to be, but for one whose pages were too many, and those after it.
PassIsComplete ==
  (Final /\ task.kind = "SSH" /\ task.strategy = "interactive_shell" /\ Verdict(res) = "PASS") =>
    \A i \in Commands : i \in ended \/ (pager # 0 /\ i >= pager)

--------------------------------------------------------------------------------
(* Liveness.                                                               *)

\* Every plan has a result, whatever is lost and however often it is tried again,
\* unless a remote command keeps its thread for ever.
PlanEnds == <>Final \/ <>[]AtMercy

================================================================================
