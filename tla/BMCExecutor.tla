------------------------------ MODULE BMCExecutor ------------------------------
(***************************************************************************)
(* One attempt of the BMC executor (src/executor/bmc_executor.py): the     *)
(* stages of _execute_async with the login, the capture flow, the actions  *)
(* before the capture, the ready conditions, the final capture, the rules  *)
(* and the checkpoints.                                                    *)
(*                                                                         *)
(* Between two steps the executor awaits: the session of the page can be   *)
(* lost there (SessionLost), the browser can die, and a limit can pass     *)
(* (Expires).  Popups other than session dialogs are left out.             *)
(***************************************************************************)
EXTENDS Retry, PageHealth, BrowserManager, FiniteSets

CONSTANT MaxLosses   \* bound on the sessions and browsers lost in a behaviour

ASSUME MaxLossesAssumption == MaxLosses \in Nat

VARIABLES
  page,      \* what the page of the attempt shows
  caller,    \* who called _bmc_login: "executor" or "flow"
  losses,    \* sessions and browsers lost so far
  submits,   \* login forms submitted for the plan
  refused,   \* the last submission was refused, and no limit passed since
  settled,   \* the page is the one the ready conditions were evaluated on
  stumbled   \* a step the evidence depends on failed in this attempt

bmcVars == <<page, caller, losses, submits, refused, settled, stumbled, browserVars>>
ghosts == <<refused, settled, stumbled>>

BMCInit ==
  /\ BrowserInit
  /\ page = "none" /\ caller = "executor"
  /\ losses = 0 /\ submits = 0
  /\ refused = FALSE /\ settled = FALSE /\ stumbled = FALSE

\* The steps that run under the limit of the task.
Stages ==
  {"context", "page", "login", "conflict", "form", "answer", "after_login", "target", "landed",
   "after_navigate", "blockers", "before_actions", "actions", "ready", "pre_shot",
   "shot", "html", "archive", "rules", "checkpoints", "complete"}

\* Those that work on a page.
OnPage == Stages \ {"context", "page"}

NoPageChange == UNCHANGED <<page, browser, orphans, losses>>

-----------------------------------------------------------------------------
(* The page.                                                               *)

\* What a navigation may show, by whether the BMC still knows the session.
Shows(want) ==
  IF browser.signedIn THEN {want, "home", "loading", "faulty", "blank", "broken"}
  ELSE {"form", "elsewhere", "blank", "broken"}

\* What is left when a navigation fails.
Stuck == {page, "broken"}

\* The session ends, with the page telling it or not, or the browser dies.
SessionLost ==
  /\ pc \in OnPage /\ losses < MaxLosses /\ page \in LivePages
  /\ losses' = losses + 1
  /\ settled' = FALSE
  /\ \/ /\ browser.signedIn
        /\ page' \in {page, "expired", "timeout", "elsewhere", "form"}
        /\ browser' = [browser EXCEPT !.signedIn = FALSE]
        /\ UNCHANGED orphans
     \/ page' = "closed" /\ BrowserDies
  /\ UNCHANGED <<task, pc, res, attempt, retries, caller, step, submits, refused, stumbled>>

\* A fault the step records in the result, and where it goes on.
Stumbles(next, r) ==
  /\ Goes(next, r) /\ stumbled' = TRUE
  /\ UNCHANGED <<refused, settled>>

Proceeds(next) == Goes(next, res) /\ UNCHANGED ghosts

Unhealthy(r) == Ends(r, "EXEC_FAILED", "BMC_PAGE_HEALTH_FAILED")

\* The page is another one than the ready conditions have seen.
Unsettles(next) ==
  /\ Goes(next, res) /\ settled' = FALSE
  /\ UNCHANGED <<refused, stumbled>>

\* The page after a reload, which may fail, and a navigation to the target.
Reloaded ==
  IF page \notin LivePages THEN {page}
  ELSE IF task.target = "own" THEN Shows("target") ELSE Shows("home") \cup Stuck

\* A check of the page and, when the page may recover, a reload with another
\* navigation and a second check (_recover_page_health_once).
Gated(stage, next) ==
  \E s \in Health(stage, page) :
    \/ s = "OK" /\ Proceeds(next) /\ UNCHANGED page
    \/ s \notin PageRecoverable \cup {"OK"} /\ Stumbles("shot", Unhealthy(res)) /\ UNCHANGED page
    \/ /\ s \in PageRecoverable
       /\ \/ /\ page' \in Reloaded
             /\ \/ "OK" \in Health(stage, page') /\ Unsettles(next)
                \/ Health(stage, page') # {"OK"} /\ Stumbles("shot", Unhealthy(res))
          \/ task.target = "own" /\ page' \in Stuck /\ Stumbles("shot", Unhealthy(res))

-----------------------------------------------------------------------------
(* The way to a page that is logged in.                                    *)

\* The checks before any browser is used.  Resolving or creating the output
\* directory may raise.
BMCCall ==
  /\ pc = "call" /\ task.kind = "BMC"
  /\ \/ ~task.ip /\ Goes("attempted", Ends(res, "EXEC_FAILED", "IP_EMPTY"))
     \/ task.ip /\ Goes("attempted", Wrapped)
     \/ task.ip /\ Goes("context", res)
  /\ page' = "none" /\ caller' = "executor" /\ step' = 1
  /\ settled' = FALSE /\ stumbled' = FALSE
  /\ UNCHANGED <<task, attempt, retries, browser, orphans, losses, submits, refused>>

AcquireContext ==
  /\ pc = "context"
  /\ GetContext
  /\ Proceeds("page")
  /\ UNCHANGED <<task, attempt, retries, page, caller, step, losses, submits>>

\* A dead browser has no new pages to give.
AcquirePage ==
  /\ pc = "page" /\ browser.process = "runs"
  /\ page' = "blank"
  /\ Proceeds("login")
  /\ UNCHANGED <<task, attempt, retries, browser, orphans, caller, step, losses, submits>>

\* What _bmc_login answers with goes to one of its two callers.
LoggedIn == IF caller = "executor" THEN "after_login" ELSE "after_navigate"

NotLoggedIn(reason) ==
  Stumbles(IF caller = "executor" THEN "close" ELSE "after_navigate",
           Ends(res, "EXEC_FAILED", reason))

\* The navigation of _bmc_login, to the URL of the task.
LoginGoto ==
  /\ pc = "login" /\ task.target # "foreign"
  /\ \/ page \in LivePages /\ page' \in Shows("home") /\ Proceeds("conflict")
     \/ page' \in Stuck /\ NotLoggedIn("BMC_PAGE_GOTO_TIMEOUT")
  /\ UNCHANGED <<task, attempt, retries, browser, orphans, caller, step, losses, submits>>

\* An account that is used elsewhere is navigated around, once.
AccountConflict ==
  /\ pc = "conflict"
  /\ page' \in IF page = "elsewhere" THEN Shows("home") ELSE {page}
  /\ Proceeds("form")
  /\ UNCHANGED <<task, attempt, retries, browser, orphans, caller, step, losses, submits>>

\* Without a form the user counts as logged in.
NoForm ==
  /\ pc = "form" /\ page # "form"
  /\ Proceeds(LoggedIn)
  /\ UNCHANGED <<task, attempt, retries, caller, step, submits>>
  /\ NoPageChange

\* With a window an operator has a time to solve a captcha, on any page that
\* seems to show one, and the limit of the login is shorter (Expires); without,
\* it ends the login of a form that is filled in.
Captcha ==
  /\ pc = "form" /\ page \in LivePages
  /\ NotLoggedIn("CAPTCHA")
  /\ UNCHANGED <<task, attempt, retries, caller, step, submits>>
  /\ NoPageChange

\* The credentials are filled in and submitted.
Submit ==
  /\ pc = "form" /\ page = "form"
  /\ submits' = submits + 1
  /\ \E in \in BOOLEAN :
       /\ browser' = [browser EXCEPT !.signedIn = in]
       /\ page' \in IF in THEN {"home", "loading", "password", "elsewhere", "form"}
                    ELSE {"form", "blank"}
  /\ Proceeds("answer")
  /\ UNCHANGED <<task, attempt, retries, orphans, caller, step, losses>>

\* A form that still shows is a refusal; a conflict is navigated around.
LoginAnswer ==
  /\ pc = "answer"
  /\ \/ /\ page = "form"
        /\ Goes(IF caller = "executor" THEN "close" ELSE "after_navigate",
                Ends(res, "EXEC_FAILED", "REFUSED"))
        /\ refused' = TRUE /\ stumbled' = TRUE
        /\ UNCHANGED <<page, settled>>
     \/ page = "elsewhere" /\ page' \in Shows("home") /\ Proceeds(LoggedIn)
     \/ page \notin {"form", "elsewhere"} /\ Proceeds(LoggedIn) /\ UNCHANGED page
  /\ UNCHANGED <<task, attempt, retries, browser, orphans, caller, step, losses, submits>>

\* Execution modes the capture flow is run for.
Captured == {"BMC_URL", "BMC_ACTIONS"}

AfterLogin ==
  /\ pc = "after_login"
  /\ \E s \in Health("after_login", page) :
       IF s = "OK" THEN Proceeds(IF task.mode \in Captured THEN "target" ELSE "complete")
       ELSE Stumbles("close", Unhealthy(res))
  /\ UNCHANGED <<task, attempt, retries, caller, step, submits>>
  /\ NoPageChange

-----------------------------------------------------------------------------
(* The capture flow.                                                       *)

\* The navigation to the target; its failure is kept for the evidence.
GotoTarget ==
  /\ pc = "target" /\ task.target = "own"
  /\ \/ page \in LivePages /\ page' \in Shows("target") /\ Proceeds("landed")
     \/ page' \in Stuck
        /\ Stumbles("landed", NotReady(Ends(res, "EXEC_FAILED", "BMC_PAGE_GOTO_TIMEOUT")))
  /\ UNCHANGED <<task, attempt, retries, browser, orphans, caller, step, losses, submits>>

NoTarget ==
  /\ pc = "target" /\ task.target = "none"
  /\ Stumbles("blockers", NotReady(res))
  /\ UNCHANGED <<task, attempt, retries, caller, step, submits>>
  /\ NoPageChange

\* The fields of a login form are visible; an expired page may have them.
OnLoginForm(p) == IF p = "expired" THEN BOOLEAN ELSE {p = "form"}

Landed ==
  /\ pc = "landed"
  /\ \/ FALSE \in OnLoginForm(page) /\ Proceeds("after_navigate") /\ UNCHANGED caller
     \/ /\ TRUE \in OnLoginForm(page) /\ ~Preempted(page)
        /\ Proceeds("login") /\ caller' = "flow"
  /\ UNCHANGED <<task, attempt, retries, step, submits>>
  /\ NoPageChange

AfterNavigate ==
  /\ pc = "after_navigate"
  /\ IF res.status = "EXEC_FAILED" THEN Proceeds("shot") /\ UNCHANGED page
     ELSE Gated("after_navigate", "blockers")
  /\ UNCHANGED <<task, attempt, retries, browser, orphans, caller, step, losses, submits>>

\* _dismiss_all_blockers before the actions: a session that is gone is final.
DismissBlockers ==
  /\ pc = "blockers"
  /\ IF Preempted(page) THEN Stumbles("shot", Ends(res, "EXEC_FAILED", "PREEMPTED"))
     ELSE Proceeds("before_actions")
  /\ UNCHANGED <<task, attempt, retries, caller, step, submits>>
  /\ NoPageChange

BeforeActions ==
  /\ pc = "before_actions"
  /\ Gated("before_actions", "actions")
  /\ UNCHANGED <<task, attempt, retries, browser, orphans, caller, step, losses, submits>>

-----------------------------------------------------------------------------
(* The actions before the capture: task.actions says which are required.   *)

NoMoreActions ==
  /\ pc = "actions" /\ step > Len(task.actions)
  /\ Proceeds("ready")
  /\ UNCHANGED <<task, attempt, retries, caller, step, submits>>
  /\ NoPageChange

AtAction == pc = "actions" /\ step <= Len(task.actions)

\* A timeout dialog is closed once, and is a failure all the same.
DialogClosed(p) == IF p = "timeout" THEN {"timeout", "target"} ELSE {p}

\* A session dialog is there before the action, or after it failed.
ActionBlocked ==
  /\ AtAction /\ SessionDialog(page) # "OK"
  /\ page' \in DialogClosed(page)
  /\ Stumbles("shot", NotReady(Unhealthy(res)))
  /\ UNCHANGED <<task, attempt, retries, browser, orphans, caller, step, losses, submits>>

\* The action works, at once or after the blockers were dismissed; its stage
\* has no gate.
ActionWorks ==
  /\ AtAction /\ SessionDialog(page) = "OK" /\ page \in LivePages
  /\ step' = step + 1
  /\ Proceeds("actions")
  /\ UNCHANGED <<task, attempt, retries, caller, submits>>
  /\ NoPageChange

\* The action fails, and so does what was tried to recover from it.
ActionFails ==
  /\ AtAction /\ SessionDialog(page) = "OK"
  /\ \/ ~task.actions[step] /\ step' = step + 1 /\ Proceeds("actions")
     \/ /\ task.actions[step] /\ UNCHANGED step
        /\ IF Preempted(page)
           THEN Stumbles("shot", NotReady(Ends(res, "EXEC_FAILED", "PREEMPTED")))
           ELSE Stumbles("ready", NotReady(Ends(res, "EXEC_PARTIAL", res.reason)))
  /\ UNCHANGED <<task, attempt, retries, caller, submits>>
  /\ NoPageChange

-----------------------------------------------------------------------------
(* The conditions, the evidence and what is evaluated on it.               *)

\* The page stays as it is when it is not ready.
EvaluateReady ==
  /\ pc = "ready"
  /\ \E answer \in ReadyOutcomes(task.conditions, page \in LivePages, OnLoginForm(page)) :
       Goes("pre_shot", IF answer = "FAIL" THEN NotReady(res) ELSE res)
  /\ settled' = TRUE
  /\ UNCHANGED <<task, attempt, retries, caller, step, submits, refused, stumbled>>
  /\ NoPageChange

PreShot ==
  /\ pc = "pre_shot"
  /\ IF SessionDialog(page) # "OK"
     THEN page' \in DialogClosed(page) /\ Stumbles("shot", Unhealthy(res))
     ELSE Gated("before_screenshot", "shot")
  /\ UNCHANGED <<task, attempt, retries, browser, orphans, caller, step, losses, submits>>

\* After a failure the rules and the checkpoints are skipped.
AfterCapture == IF res.status = "EXEC_FAILED" THEN "complete" ELSE "rules"

\* What is left of a picture of p: with an address bar on top, or without one when
\* it cannot be drawn, which counts the same; or nothing.
Shots(p) == {p, "none"}

\* The final capture runs after a failure as well.  It resizes the page to its
\* content, takes the screenshot and crops it.
TakeScreenshot ==
  /\ pc = "shot"
  /\ IF page \notin LivePages
     THEN Goes(AfterCapture, [res EXCEPT !.artifact = "ARTIFACT_FAILED"])
     ELSE \E shot \in Shots(page) : Goes("html", [res EXCEPT !.shot = shot])
  /\ UNCHANGED ghosts
  /\ UNCHANGED <<task, attempt, retries, caller, step, submits>>
  /\ NoPageChange

\* What was saved decides on the artifact; the path of a screenshot that failed
\* is still set, so that the artifact is partial rather than failed.
Artifact(r) ==
  IF "none" \in {r.shot, r.html} THEN "ARTIFACT_PARTIAL" ELSE "ARTIFACT_SAVED"

\* The HTML is saved, or not.  With the artifact profile "fast", of the task or of the
\* executor, nothing else is.
SaveHtml ==
  /\ pc = "html"
  /\ \E html \in (IF page \in LivePages THEN {page} ELSE {}) \cup {"none"} :
       LET saved == [res EXCEPT !.html = html] IN
       \/ Goes("archive", saved)
       \/ Goes(AfterCapture, [saved EXCEPT !.artifact = Artifact(saved)])
  /\ UNCHANGED ghosts
  /\ UNCHANGED <<task, attempt, retries, caller, step, submits>>
  /\ NoPageChange

\* The state and the archive of the page count for nothing, but the artifact is
\* decided on only after them: a limit that passes here leaves it pending.
Archive ==
  /\ pc = "archive"
  /\ Goes(AfterCapture, [res EXCEPT !.artifact = Artifact(res)])
  /\ UNCHANGED ghosts
  /\ UNCHANGED <<task, attempt, retries, caller, step, submits>>
  /\ NoPageChange

\* A basic rule that fails raises (Raises).
EvaluateRules ==
  /\ pc = "rules"
  /\ \E rule \in RuleOutcomes(task.rules) \ {"raises"} :
       Goes("checkpoints", [res EXCEPT !.rule = rule])
  /\ UNCHANGED ghosts
  /\ UNCHANGED <<task, attempt, retries, caller, step, submits>>
  /\ NoPageChange

EvaluateCheckpoints ==
  /\ pc = "checkpoints"
  /\ \E check \in CheckOutcomes(task.checks) : Goes("complete", [res EXCEPT !.check = check])
  /\ UNCHANGED ghosts
  /\ UNCHANGED <<task, attempt, retries, caller, step, submits>>
  /\ NoPageChange

Completed(r) ==
  IF r.status \in {"EXEC_FAILED", "EXEC_PARTIAL"} THEN r
  ELSE [r EXCEPT !.status = "EXEC_SUCCESS"]

\* The stage before_complete has no gate: nothing is checked here.
Complete ==
  /\ pc = "complete"
  /\ Goes("close", Completed(res))
  /\ UNCHANGED ghosts
  /\ UNCHANGED <<task, attempt, retries, caller, step, submits>>
  /\ NoPageChange

-----------------------------------------------------------------------------
(* The handlers of _execute_async.                                         *)

\* A limit passes: that of the stage, or that of the task.  Getting the context
\* may have started a browser by then.
Expires ==
  /\ pc \in Stages
  /\ Goes("close", Ends(res, "EXEC_TIMEOUT", "none"))
  /\ ResetThread
  /\ refused' = FALSE
  /\ UNCHANGED <<task, attempt, retries, page, caller, step, losses, submits, settled, stumbled>>

\* What a stage may raise that nothing in it catches.
MayRaise ==
  \/ pc \in {"context", "page", "shot"}
  \/ pc \in {"conflict", "answer"} /\ page = "elsewhere"
  \/ pc = "form" /\ page \in {"form", "closed"}
  \/ pc \in {"login", "target"} /\ task.target = "foreign"
  \/ pc = "landed" /\ TRUE \in OnLoginForm(page) /\ Preempted(page)
  \/ pc = "rules" /\ "raises" \in RuleOutcomes(task.rules)

RaisedReasons ==
  CASE pc = "landed"              -> {"PREEMPTED"}
    [] pc \in {"context", "page"} -> {"none", "CONNECTION_RESET"}
    [] OTHER                      -> {"none"}

Raises ==
  /\ pc \in Stages /\ MayRaise
  /\ \E reason \in RaisedReasons : Goes("close", Ends(res, "EXEC_ERROR", reason))
  /\ IF pc \in {"context", "page"} THEN ResetThread ELSE UNCHANGED <<browser, orphans>>
  /\ UNCHANGED ghosts
  /\ UNCHANGED <<task, attempt, retries, page, caller, step, losses, submits>>

\* The page is closed whatever happened, within a limit of its own.
ClosePage ==
  /\ pc = "close"
  /\ page' = "none"
  /\ Proceeds("attempted")
  /\ UNCHANGED <<task, attempt, retries, browser, orphans, caller, step, losses, submits>>

BMCStep ==
  \/ BMCCall \/ AcquireContext \/ AcquirePage
  \/ LoginGoto \/ AccountConflict \/ NoForm \/ Captcha \/ Submit \/ LoginAnswer \/ AfterLogin
  \/ GotoTarget \/ NoTarget \/ Landed \/ AfterNavigate \/ DismissBlockers \/ BeforeActions
  \/ NoMoreActions \/ ActionBlocked \/ ActionWorks \/ ActionFails
  \/ EvaluateReady \/ PreShot \/ TakeScreenshot \/ SaveHtml \/ Archive
  \/ EvaluateRules \/ EvaluateCheckpoints \/ Complete \/ Expires \/ Raises \/ ClosePage

================================================================================
