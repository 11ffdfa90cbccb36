------------------------------- MODULE PageHealth -------------------------------
(***************************************************************************)
(* The page gates of src/executor/bmc_health_check.py, and what the        *)
(* executor makes of their answer.                                         *)
(*                                                                         *)
(* A page is the class of what the browser shows; a gate maps it to the    *)
(* statuses it may report, "OK" among them.  Texts, selectors, sizes and   *)
(* the polling of the gates are abstracted into these sets.                *)
(*                                                                         *)
(* A definition Bad... is a plausible mistake in the one that follows it;  *)
(* the checks make sure that a property notices it.                        *)
(***************************************************************************)
EXTENDS Naturals, Sequences

\* What a page may show.
LivePages ==
  {"target",      \* the page the task asked for
   "home",        \* another page of the logged-in user
   "loading",     \* a visible loading mask
   "faulty",      \* a visible error text or an overlay
   "blank",       \* nothing yet
   "broken",      \* the browser's or the server's error page
   "password",    \* the password has expired
   "form",        \* the login form
   "expired",     \* a text that says the session has expired
   "timeout",     \* the custom dialog of a session timeout
   "elsewhere"}   \* the account was logged in elsewhere

Pages == LivePages \cup {"none", "closed"}

\* PageState: reading a page never raises; one that is gone reads as empty.
Seen(p) == IF p \in LivePages THEN p ELSE "blank"

-----------------------------------------------------------------------------
(* The gates.                                                              *)

\* The texts every gate but OPENED looks for first.
SessionTexts(p) ==
  CASE p = "elsewhere" -> {"BMC_ACCOUNT_LOGGED_IN_ELSEWHERE"}
    [] p = "expired"   -> {"BMC_SESSION_EXPIRED"}
    [] p = "timeout"   -> {"BMC_TIMEOUT_DIALOG"}
    [] OTHER           -> {"OK"}

Opened(p) ==
  CASE p = "blank"  -> {"BMC_EMPTY_DOM", "BMC_BROWSER_ERROR_PAGE"}
    [] p = "broken" -> {"BMC_BROWSER_ERROR_PAGE", "BMC_HTTP_ERROR"}
    [] OTHER        -> {"OK"}

\* A login form is noticed by its URL and a visible field, or by two of its texts.
Authenticated(p) ==
  CASE p = "password" -> {"BMC_PASSWORD_EXPIRED"}
    [] p = "form"     -> {"BMC_LOGIN_FORM_STILL_VISIBLE", "BMC_LOGIN_PAGE_RETURNED", "OK"}
    [] OTHER          -> SessionTexts(p)

BasicHealth(p) ==
  CASE p = "blank"  -> {"BMC_PAGE_EMPTY"}
    [] p = "faulty" -> {"BMC_GLOBAL_ERROR_VISIBLE", "BMC_PAGE_ERROR_VISIBLE"}
    [] OTHER        -> SessionTexts(p)

\* Three samples of one length within the time, and nothing that covers them.
ReadyForCapture(p) ==
  CASE p = "loading" -> {"BMC_PAGE_STILL_LOADING_VISIBLE"}
    [] p = "faulty"  -> {"BMC_PAGE_ERROR_VISIBLE", "BMC_OVERLAY_BLOCKING"}
    [] OTHER         -> {"OK", "BMC_DOM_NOT_STABLE"}

Gate(name, p) ==
  CASE name = "OPENED"            -> Opened(p)
    [] name = "AUTHENTICATED"     -> Authenticated(p)
    [] name = "PAGE_BASIC_HEALTH" -> BasicHealth(p)
    [] name = "READY_FOR_CAPTURE" -> ReadyForCapture(p)

Opening == <<"OPENED", "PAGE_BASIC_HEALTH", "READY_FOR_CAPTURE">>

\* Mistake: the gates before the screenshot are forgotten as well.
BadStageGates(stage) ==
  CASE stage \in {"after_login", "before_plan"} ->
         <<"AUTHENTICATED", "PAGE_BASIC_HEALTH">> \o Opening
    [] stage \in {"after_navigate", "before_actions"} -> Opening
    [] OTHER -> <<>>

\* run_page_lifecycle_gates.  No caller in src passes a screenshot, so that the
\* stages before_complete and after_capture have no gate; nor have after_plan
\* and the stages named after an action.
StageGates(stage) ==
  CASE stage \in {"after_login", "before_plan"} ->
         <<"AUTHENTICATED", "PAGE_BASIC_HEALTH">> \o Opening
    [] stage \in {"after_navigate", "before_screenshot", "before_actions"} -> Opening
    [] OTHER -> <<>>

\* What check_bmc_page_health may answer: the failure of the first gate that
\* fails, or that the page is healthy.
Health(stage, p) ==
  LET gates == StageGates(stage)
      May(i, s) == s \in Gate(gates[i], Seen(p)) IN
  UNION {{s \in Gate(gates[i], Seen(p)) \ {"OK"} : \A j \in 1 .. i - 1 : May(j, "OK")} :
           i \in DOMAIN gates}
    \cup (IF \A i \in DOMAIN gates : May(i, "OK") THEN {"OK"} ELSE {})

-----------------------------------------------------------------------------
(* What the executor does about an answer.                                 *)

\* is_page_recoverable_status; a session that is lost is left to a login.
PageRecoverable ==
  {"BMC_PAGE_STILL_LOADING_VISIBLE", "BMC_PAGE_EMPTY", "BMC_EMPTY_DOM",
   "BMC_DOM_NOT_STABLE"}

\* _precheck_session_dialog: the status of a dialog on the page, "OK" without.
SessionDialog(p) ==
  CASE p = "timeout" -> "BMC_TIMEOUT_DIALOG"
    [] p = "expired" -> "BMC_SESSION_EXPIRED"
    [] OTHER         -> "OK"

\* _dismiss_all_blockers raises BMC_SESSION_PREEMPTED on these texts.
Preempted(p) == p \in {"elsewhere", "expired"}

================================================================================
