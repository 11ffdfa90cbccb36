------------------------------- MODULE BMCSession -------------------------------
(***************************************************************************)
(* BMCEndpointSessionRunner (src/scheduler/bmc_session_runner.py): all     *)
(* plans of one BMC endpoint on one browser page and one login.            *)
(*                                                                         *)
(* The runner is one coroutine, so the steps below never interleave with   *)
(* each other; what makes it hard is that every call it awaits may fail    *)
(* (a page that cannot be opened or closed, a login that is refused, a     *)
(* capture that times out, raises or finds the session gone, a callback    *)
(* that raises) and that the three recovery paths share one page, one      *)
(* attempt counter and one list of results.                                *)
(*                                                                         *)
(* Abstracted: a plan is its index; a page is open, lost (open, but its    *)
(* session is gone) or closed; a capture is the class of its outcome; the  *)
(* files, the timings and the texts are left out.  on_group_done is left   *)
(* out, for no caller passes it.                                           *)
(*                                                                         *)
(* A definition Bad... is a plausible mistake in the one that follows it;  *)
(* the checks make sure that a property notices it.                        *)
(***************************************************************************)
EXTENDS Naturals, Sequences

CONSTANTS NPlans,       \* plans in the group
          RetryCount    \* max(0, task.retry_count) of each plan

ASSUME SessionAssumption ==
  /\ NPlans \in Nat \ {0}
  /\ RetryCount \in [1 .. NPlans -> Nat]

VARIABLES
  pc,          \* where _run_async is
  idx,         \* the plan its loop is at
  page,        \* the page in use: "none", "open", "lost" or "closed"
  pages,       \* pages of the browser that are not closed
  unclosed,    \* closes that failed
  logins,      \* calls of _do_login (login_count, with the first one)
  attempt,     \* attempt_idx
  recovered,   \* session_recovery_used
  last,        \* attempt_result
  tries,       \* attempt records of each plan
  status,      \* plan.status
  results,     \* the results, as plan and status
  fill,        \* the status the except clause gives to unfinished plans
  raising      \* an exception leaves _run_async

loopVars == <<idx, attempt, recovered, last, tries>>
pageVars == <<page, pages, unclosed, logins>>
endVars  == <<fill, raising>>
vars     == <<pc, loopVars, pageVars, status, results, endVars>>

Plans == 1 .. NPlans

Finished == {"SUCCESS", "EXEC_FAILED", "EXEC_ERROR", "EXEC_PARTIAL", "EXEC_TIMEOUT"}

-----------------------------------------------------------------------------
(* Pages.                                                                  *)

Alive(p) == p \in {"open", "lost"}

\* The gates of run_page_lifecycle_gates that look at the page in a stage: the
\* stage "after_plan" is in none of its lists.
Gates(stage) ==
  IF stage = "before_plan"
  THEN {"AUTHENTICATED", "PAGE_BASIC_HEALTH", "OPENED", "READY_FOR_CAPTURE"}
  ELSE {}

\* What check_bmc_page_health may say of a page in a stage.  Without gates it is
\* always healthy; a page may look worse than it is.
HealthyChoices(stage, p) ==
  IF Gates(stage) = {} THEN {TRUE}
  ELSE IF p = "open" THEN BOOLEAN ELSE {FALSE}

\* The four statuses that the loop answers with a relogin come from the text of
\* the page; the text of a closed page is empty (BMC_PAGE_EMPTY).
MayLookLost(stage) == FALSE \in HealthyChoices(stage, page) /\ page # "closed"

\* page.close(), which may fail or time out.
ClosePage(p, ok) ==
  [page     |-> IF ok THEN "closed" ELSE p,
   pages    |-> IF ok /\ Alive(p) THEN pages - 1 ELSE pages,
   unclosed |-> IF ok THEN unclosed ELSE unclosed + 1]

\* _recover_session: discard the page, open another, log in.  When no page can
\* be opened the discarded one is handed back.
RecoverSession(ok) ==
  \E closed, opened \in BOOLEAN :
    LET old == ClosePage(page, closed) IN
    /\ ok => opened
    /\ page' = IF opened THEN (IF ok THEN "open" ELSE "lost") ELSE old.page
    /\ pages' = IF opened THEN old.pages + 1 ELSE old.pages
    /\ unclosed' = old.unclosed
    /\ logins' = IF opened THEN logins + 1 ELSE logins

-----------------------------------------------------------------------------
(* Results.                                                                *)

\* plan.status is set, then append_result_once records the result.
Record(p, s) ==
  /\ status' = [status EXCEPT ![p] = s]
  /\ results' = IF \E i \in 1 .. Len(results) : results[i].plan = p
                THEN results
                ELSE Append(results, [plan |-> p, status |-> s])

\* The except clauses of the session (TimeoutError, any other Exception).
Handle(s) ==
  /\ pc' = "fill"
  /\ fill' = s
  /\ UNCHANGED raising

Handled == {"EXEC_TIMEOUT", "EXEC_ERROR"}

\* The step after a result: go on at next, unless on_plan_done raises.
GoOn(next) ==
  \/ pc' = next /\ UNCHANGED endVars
  \/ \E s \in Handled : Handle(s)

-----------------------------------------------------------------------------
(* Attempts.                                                               *)

\* What a capture attempt ends with: its status, whether the reason asks for a
\* session recovery, whether is_retryable_failure holds.
Outcomes ==
  {o \in [status : {"EXEC_SUCCESS", "EXEC_PARTIAL", "EXEC_FAILED", "EXEC_ERROR",
                    "EXEC_TIMEOUT"},
          lost : BOOLEAN, retry : BOOLEAN] :
     /\ o.status = "EXEC_SUCCESS" => ~o.lost
     /\ o.status \in {"EXEC_SUCCESS", "EXEC_PARTIAL"} => ~o.retry
     /\ o.status = "EXEC_TIMEOUT" => o.retry /\ ~o.lost}

NoAttempt == [status |-> "NONE", lost |-> FALSE, retry |-> FALSE]

\* Only a flow that did not fail is checked, and fails if the page is unhealthy.
CheckedAfter(o, p) ==
  IF o.status \notin {"EXEC_SUCCESS", "EXEC_PARTIAL"} THEN {o}
  ELSE UNION {IF healthy THEN {o}
              ELSE {[status |-> "EXEC_FAILED", lost |-> l, retry |-> TRUE] :
                      l \in BOOLEAN} : healthy \in HealthyChoices("after_plan", p)}

\* Mistake: a plan may recover its session any number of times.
BadWantsRecovery == last.lost

WantsRecovery == last.lost /\ recovered < 1
WantsRetry    == ~WantsRecovery /\ last.retry /\ attempt < RetryCount[idx]

-----------------------------------------------------------------------------
(* The session: page, login.                                               *)

Init ==
  /\ pc = "start"
  /\ idx = 1
  /\ attempt = 0 /\ recovered = 0 /\ last = NoAttempt
  /\ tries = [p \in Plans |-> 0]
  /\ page = "none" /\ pages = 0 /\ unclosed = 0 /\ logins = 0
  /\ status = [p \in Plans |-> "PENDING"]
  /\ results = <<>>
  /\ fill = "NONE" /\ raising = FALSE

OpenPage ==
  /\ pc = "start"
  /\ \/ /\ page' = "open"
        /\ pages' = pages + 1
        /\ pc' = "login"
        /\ UNCHANGED endVars
     \/ /\ \E s \in Handled : Handle(s)
        /\ UNCHANGED <<page, pages>>
  /\ UNCHANGED <<loopVars, unclosed, logins, status, results>>

Login ==
  /\ pc = "login"
  /\ logins' = logins + 1
  /\ \/ pc' = "before" /\ UNCHANGED page
     \/ pc' = "rejected" /\ page' = "lost"
  /\ UNCHANGED <<loopVars, pages, unclosed, status, results, endVars>>

\* The login was refused: every plan of the group fails.
RejectPlan ==
  /\ pc = "rejected"
  /\ idx \in Plans
  /\ Record(idx, "EXEC_FAILED")
  /\ idx' = idx + 1
  /\ GoOn("rejected")
  /\ UNCHANGED <<attempt, recovered, last, tries, pageVars>>

\* Mistake: only the first plan of the group gets a result.
BadEndRejection ==
  /\ pc = "rejected"
  /\ idx > 1
  /\ pc' = "close"
  /\ UNCHANGED <<loopVars, pageVars, status, results, endVars>>

EndRejection ==
  /\ pc = "rejected"
  /\ idx \notin Plans
  /\ pc' = "close"
  /\ UNCHANGED <<loopVars, pageVars, status, results, endVars>>

-----------------------------------------------------------------------------
(* The loop over the plans.                                                *)

StartAttempts ==
  /\ attempt' = 0
  /\ recovered' = 0
  /\ last' = NoAttempt

\* The page does not look as if the session were lost.
BeginPlan ==
  /\ pc = "before"
  /\ idx \in Plans
  /\ status' = [status EXCEPT ![idx] = "RUNNING"]
  /\ StartAttempts
  /\ pc' = "capture"
  /\ UNCHANGED <<idx, tries, pageVars, results, endVars>>

\* It does, and the relogin succeeds.
BeginAfterRelogin ==
  /\ pc = "before"
  /\ idx \in Plans
  /\ MayLookLost("before_plan")
  /\ RecoverSession(TRUE)
  /\ status' = [status EXCEPT ![idx] = "RUNNING"]
  /\ StartAttempts
  /\ pc' = "capture"
  /\ UNCHANGED <<idx, tries, results, endVars>>

\* It does, and the relogin fails: this plan has failed, the loop goes on.
ReloginFails ==
  /\ pc = "before"
  /\ idx \in Plans
  /\ MayLookLost("before_plan")
  /\ RecoverSession(FALSE)
  /\ Record(idx, "EXEC_FAILED")
  /\ idx' = idx + 1
  /\ GoOn("before")
  /\ UNCHANGED <<attempt, recovered, last, tries>>

\* An output directory cannot be made, of the plan or of one of its attempts.
OutputFails ==
  /\ pc \in {"before", "capture"}
  /\ idx \in Plans
  /\ status' = [status EXCEPT ![idx] = "RUNNING"]
  /\ \E s \in Handled : Handle(s)
  /\ UNCHANGED <<loopVars, pageVars, results>>

\* One capture flow under its timeout, and the health check after it.  The flow
\* logs in again by itself when it lands on the login page; on a closed page it
\* cannot succeed.
Capture ==
  /\ pc = "capture"
  /\ page' \in IF Alive(page) THEN {"open", "lost"} ELSE {page}
  /\ \E o \in Outcomes :
       /\ Alive(page) \/ o.status \notin {"EXEC_SUCCESS", "EXEC_PARTIAL"}
       /\ last' \in CheckedAfter(o, page')
  /\ tries' = [tries EXCEPT ![idx] = @ + 1]
  /\ pc' = "decide"
  /\ UNCHANGED <<idx, attempt, recovered, pages, unclosed, logins, status, results,
                 endVars>>

\* The attempt was the last one: it succeeded or nothing can be retried.
StopAttempts ==
  /\ pc = "decide"
  /\ last.status = "EXEC_SUCCESS" \/ (~WantsRecovery /\ ~WantsRetry)
  /\ pc' = "record"
  /\ UNCHANGED <<loopVars, pageVars, status, results, endVars>>

\* Relogin, then another attempt; without a login the plan ends as it is.
TryAgain ==
  /\ pc = "decide"
  /\ last.status # "EXEC_SUCCESS"
  /\ WantsRecovery \/ WantsRetry
  /\ recovered' = IF WantsRecovery THEN recovered + 1 ELSE recovered
  /\ \E ok \in BOOLEAN :
       /\ RecoverSession(ok)
       /\ attempt' = IF ok THEN attempt + 1 ELSE attempt
       /\ pc' = IF ok /\ attempt' <= RetryCount[idx] + recovered'
                THEN "capture" ELSE "record"
  /\ UNCHANGED <<idx, last, tries, status, results, endVars>>

RecordPlan ==
  /\ pc = "record"
  /\ Record(idx, IF last.status = "EXEC_SUCCESS" THEN "SUCCESS" ELSE last.status)
  /\ idx' = idx + 1
  /\ GoOn("before")
  /\ UNCHANGED <<attempt, recovered, last, tries, pageVars>>

\* Best effort: no failure of _do_logout leaves it.
Logout ==
  /\ pc = "before"
  /\ idx \notin Plans
  /\ pc' = "close"
  /\ UNCHANGED <<loopVars, pageVars, status, results, endVars>>

-----------------------------------------------------------------------------
(* The except and finally clauses.                                         *)

Unfinished == {p \in Plans : status[p] \notin Finished}

\* Give the first unfinished plan a result; on_plan_done may raise again, and
\* nothing catches that.
FillPlan ==
  /\ pc = "fill"
  /\ \E p \in Unfinished :
       /\ \A q \in Unfinished : p <= q
       /\ Record(p, fill)
  /\ \/ UNCHANGED <<pc, raising>>
     \/ pc' = "close" /\ raising' = TRUE
  /\ UNCHANGED <<loopVars, pageVars, fill>>

EndFill ==
  /\ pc = "fill"
  /\ Unfinished = {}
  /\ pc' = "close"
  /\ UNCHANGED <<loopVars, pageVars, status, results, endVars>>

ClosingPage ==
  /\ pc = "close"
  /\ pc' = IF raising THEN "raised" ELSE "returned"
  /\ IF page = "none" THEN UNCHANGED pageVars
     ELSE \E ok \in BOOLEAN :
            LET left == ClosePage(page, ok) IN
            /\ page' = left.page
            /\ pages' = left.pages
            /\ unclosed' = left.unclosed
            /\ UNCHANGED logins
  /\ UNCHANGED <<loopVars, status, results, endVars>>

Ended ==
  /\ pc \in {"returned", "raised"}
  /\ UNCHANGED vars

Next ==
  \/ OpenPage \/ Login \/ RejectPlan \/ EndRejection
  \/ BeginPlan \/ BeginAfterRelogin \/ ReloginFails \/ OutputFails
  \/ Capture \/ StopAttempts \/ TryAgain \/ RecordPlan \/ Logout
  \/ FillPlan \/ EndFill \/ ClosingPage \/ Ended

Spec == Init /\ [][Next]_vars

-----------------------------------------------------------------------------
(* Properties.                                                             *)

TypeOK ==
  /\ pc \in {"start", "login", "rejected", "before", "capture", "decide", "record",
             "fill", "close", "returned", "raised"}
  /\ idx \in 1 .. NPlans + 1
  /\ page \in {"none", "open", "lost", "closed"}
  /\ pages \in Nat /\ unclosed \in Nat /\ logins \in Nat
  /\ attempt \in Nat /\ recovered \in {0, 1}
  /\ last \in Outcomes \cup {NoAttempt}
  /\ tries \in [Plans -> Nat]
  /\ status \in [Plans -> Finished \cup {"PENDING", "RUNNING"}]
  /\ results \in Seq([plan : Plans, status : Finished])
  /\ fill \in Handled \cup {"NONE"}
  /\ raising \in BOOLEAN

Attempting == pc \in {"capture", "decide", "record"}
Closing    == pc \in {"close", "returned", "raised"}

\* The results are those of the first plans in their order, and exactly those
\* plans have a final status, wherever the session is interrupted.
ResultsFollowPlans ==
  /\ Len(results) <= NPlans
  /\ \A i \in 1 .. Len(results) : results[i] = [plan |-> i, status |-> status[i]]
  /\ \A p \in Plans : status[p] \in Finished <=> p <= Len(results)

\* Where the loop is, against what has been reported.
LoopPosition ==
  /\ pc \in {"start", "login"} => idx = 1 /\ results = <<>>
  /\ pc \in {"rejected", "before"} \/ Attempting => Len(results) = idx - 1
  /\ Attempting => idx \in Plans
  /\ pc \in {"decide", "record"} => last \in Outcomes
  /\ pc = "fill" => fill \in Handled
  /\ raising => pc \in {"close", "raised"}
  /\ pc = "raised" => raising
  /\ Closing /\ ~raising => Len(results) = NPlans

\* The attempt counter against the records of the plan it belongs to.
AttemptCount ==
  /\ Attempting => /\ attempt <= RetryCount[idx] + recovered
                   /\ tries[idx] = IF pc = "capture" THEN attempt ELSE attempt + 1
  /\ \A p \in Plans : tries[p] # 0 => p < idx \/ (p = idx /\ (Attempting \/ pc = "fill" \/ Closing))
  /\ \A p \in Plans : tries[p] <= RetryCount[p] + 2

\* Every page that is not in use was closed, or its close failed.
PageCount ==
  /\ page = "none" => pages = 0
  /\ pc = "start" => page = "none"
  /\ pc = "login" => page = "open"
  /\ pc \notin {"start", "fill"} /\ ~Closing => page # "none"
  /\ Alive(page) => pages > 0
  /\ pages <= unclosed + (IF Alive(page) THEN 1 ELSE 0)
  /\ pc \in {"returned", "raised"} => pages <= unclosed

\* The inductive invariant: the session may be left at any point, by a refused
\* login, a recovery that fails, a callback or a file system that raises, and
\* its bookkeeping still agrees (bmc_session_runner.py:92-525).
SessionInv ==
  TypeOK /\ ResultsFollowPlans /\ LoopPosition /\ AttemptCount /\ PageCount

\* Logins a plan can cost: one before it, one per retry, one session recovery.
LoginsUpTo[n \in 0 .. NPlans] ==
  IF n = 0 THEN 1 ELSE LoginsUpTo[n - 1] + RetryCount[n] + 2

\* A dead BMC is asked for a bounded number of logins (accounts lock), although
\* relogins happen at three places, one of which does not count as a retry.
LoginsBounded == logins <= LoginsUpTo[NPlans]

\* No page outlives the session unless the browser refused to close it: the
\* recovery replaces the page that the finally clause closes.
NoPageLeak == pc \in {"returned", "raised"} => pages <= unclosed

\* The session keeps the promise DynamicScheduler relies on: plans reported in
\* order and once, a normal return only with all of them reported.
Contract == INSTANCE PlanSession WITH
  reported <- Len(results),
  ending   <- IF pc \in {"returned", "raised"} THEN pc ELSE "running"

KeepsContract == Contract!Spec

\* "for each plan: ... health check (page loaded)", says the module's docstring
\* (bmc_session_runner.py:18): no success is recorded on a page without session.
\* This does NOT hold: no gate runs at the stage "after_plan".
SuccessOnLoadedPage ==
  pc = "record" /\ last.status = "EXEC_SUCCESS" => page # "lost"

\* "relogin failed ... current task fails only" (bmc_session_runner.py:375): the
\* task after one whose relogin failed gets a page it can use.  This does NOT
\* hold: _recover_session hands on the page it has closed.
CaptureOnLivePage == pc = "capture" => Alive(page)
================================================================================
