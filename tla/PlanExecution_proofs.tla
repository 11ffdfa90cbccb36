-------------------------- MODULE PlanExecution_proofs --------------------------
(***************************************************************************)
(* Theorems about PlanExecution, for every set of tasks, any number of     *)
(* retries and of sessions and browsers lost.                              *)
(***************************************************************************)
EXTENDS PlanExecution, SequenceTheorems, TLAPS

(* The inductive invariant.                                                *)

Reasons ==
  FinalReasons \cup TransientReasons \cup
    {"none", "BMC_PAGE_HEALTH_FAILED", "BMC_PAGE_GOTO_TIMEOUT", "CAPTCHA"}
Readiness == {"READY_UNKNOWN", "READY_NOT_READY"}
Artifacts == {"ARTIFACT_PENDING", "ARTIFACT_FAILED", "ARTIFACT_PARTIAL", "ARTIFACT_SAVED"}
Checks == {"CHECK_DISABLED", "CHECK_FAIL", "CHECK_WARN", "CHECK_PASS", "CHECK_SKIP"}
RuleStates == {"RULE_DISABLED", "RULE_PASSED", "RULE_FAILED"}
Evidences == Pages \cup {"output"}

Results ==
  [status : Statuses, reason : Reasons, ready : Readiness, artifact : Artifacts,
   check : Checks, rule : RuleStates, shot : Evidences, html : Evidences]

SSHStages == Guarded \cup {"disconnect"}

Tokens == {"echo", "output", "mark"} \X Nat

Types ==
  /\ task \in Tasks /\ res \in Results
  /\ pc \in {"idle", "call", "attempted", "done", "close"} \cup Stages \cup SSHStages
  /\ pc \in Stages \cup {"close"} => task.kind = "BMC"
  /\ pc \in SSHStages => task.kind = "SSH"
  /\ attempt \in Nat /\ retries \in Nat /\ step \in Nat \ {0}
  /\ page \in Pages /\ losses \in 0 .. MaxLosses
  /\ submits \in Nat /\ orphans \in Nat
  /\ browser \in [process : {"none", "runs", "dead"}, tasks : Nat, signedIn : BOOLEAN]
  /\ refused \in BOOLEAN /\ settled \in BOOLEAN /\ stumbled \in BOOLEAN
  /\ caller \in {"executor", "flow"}
  /\ pc \in {"after_login", "target", "landed"} => caller = "executor"
  /\ wire \in Seq(Tokens) /\ outputs \in Seq(Seq(Tokens))
  /\ failed \in BOOLEAN /\ late \in BOOLEAN
  /\ ended \subseteq Nat /\ pager \in Nat

(* The attempts stay within those the task may have.                       *)
AttemptsOK ==
  /\ attempt <= retries
  /\ retries <= (IF task.retries > 1 THEN task.retries ELSE 1)

(* The attempt has a submission left.                                      *)
Unspent == submits <= attempt + losses

(* A login form is come to again only after a session was lost: a user who *)
(* is signed in gets none, and an attempt to sign in that failed without a *)
(* form leaves a blank page, on which the flow does not go on.             *)
SubmitsOK ==
  /\ submits <= attempt + 1 + losses
  /\ pc \in {"idle", "call", "context", "page"} => Unspent
  /\ pc \in {"login", "conflict", "form"} /\ (caller = "executor" \/ ~browser.signedIn)
       => Unspent
  /\ pc \in {"conflict", "form"} /\ page = "form" => ~browser.signedIn
  /\ pc = "answer" /\ ~browser.signedIn => Unspent \/ page \in {"form", "blank"}
  /\ pc = "after_login" /\ ~browser.signedIn => Unspent \/ page = "blank"
  /\ pc \in {"target", "landed"} /\ ~browser.signedIn => Unspent

(* The flow after a refusal is on its way out, with a result that is not   *)
(* tried again.                                                            *)
RefusedOK ==
  refused =>
    \/ /\ pc \in {"after_navigate", "shot", "html", "archive", "complete",
                  "close", "attempted", "done"}
       /\ res.status = "EXEC_FAILED" /\ res.reason = "REFUSED"
    \/ /\ pc \in {"close", "attempted", "done"}
       /\ res.status = "EXEC_ERROR" /\ res.reason = "none"

(* A result that does not pass, whatever the capture flow adds to it.      *)
Flawed(r) == r.status # "EXEC_SUCCESS" \/ r.ready = "READY_NOT_READY"

BMCEnds == {"close", "attempted", "done"}

StumbledOK ==
  /\ pc \in Stages => res.status \in {"EXEC_SUCCESS", "EXEC_FAILED", "EXEC_PARTIAL"}
  /\ stumbled /\ pc \notin {"idle", "call"} => Flawed(res)
  /\ pc = "call" => res = NewResult
  /\ task.kind = "SSH" => ~stumbled

ArtifactOK ==
  /\ task.kind = "BMC" /\ task.mode \in Captured
  /\ \/ pc \in {"rules", "checkpoints", "complete"}
     \/ pc \in BMCEnds /\ res.status = "EXEC_SUCCESS"
  => res.artifact \in {"ARTIFACT_FAILED", Artifact(res)}

GoodPages == {"target", "home", "password"}

(* The page the conditions were evaluated on is followed to the evidence.  *)
SettledOK ==
  /\ task.kind = "SSH" => ~settled
  /\ settled => pc \in {"pre_shot", "shot", "html", "archive", "rules", "checkpoints",
                        "complete", "close", "attempted", "done", "idle", "call"}
  /\ settled /\ task.conditions = {} /\ ~Flawed(res) =>
       /\ pc = "pre_shot" => page \in LivePages \ {"form"}
       /\ pc \in {"shot", "html"} => page \in GoodPages
       /\ pc \in {"html", "archive", "rules", "checkpoints", "complete"} \cup BMCEnds
            => res.shot \in GoodPages \cup {"none"}
       /\ pc \in {"archive", "rules", "checkpoints", "complete"} \cup BMCEnds
            => res.html \in GoodPages \cup {"none"}

BMCInv == SubmitsOK /\ RefusedOK /\ StumbledOK /\ ArtifactOK /\ SettledOK

(* The commands an interactive shell has read to their end.                *)
Whole(i) == i \in ended \/ (pager # 0 /\ i >= pager)

CommandsOK ==
  /\ pc \in SSHStages \ {"disconnect"} =>
       /\ step <= Len(task.commands) + 1
       /\ pc \in {"connect", "session"} => step = 1
       /\ pc \in {"judge", "patterns", "save", "assertions"} => step = Len(task.commands) + 1
       /\ pc \in {"drain", "status"} =>
            step <= Len(task.commands) /\ task.strategy = "exec_command"
       /\ Len(outputs) = IF pc = "status" THEN step ELSE step - 1
       /\ ended \subseteq 1 .. step - 1
       /\ pager < step
       /\ pager # 0 => task.strategy = "interactive_shell" /\ \A i \in ended : i < pager
  /\ pc \in {"idle", "call", "attempted", "done"} \cup Stages \cup {"close"} => outputs = <<>>

(* A command whose text is not mistaken for another: no earlier output      *)
(* contains it, or there is none left when nothing has failed.             *)
Sure(i) == Distinct(i) \/ (Distinct(1) /\ ~failed)

(* What is on the wire is late, and later than what ended.                 *)
WireOK ==
  pc \in SSHStages \ {"disconnect"} =>
    /\ pc = "connect" => wire = <<>>
    /\ task.strategy = "exec_command" => wire = <<>>
    /\ \A k \in 1 .. Len(wire) : wire[k][2] < step /\ \A i \in ended : Sure(i) => i < wire[k][2]
    /\ pager # 0 => \A k \in 1 .. Len(wire) : wire[k][1] # "mark"
    /\ pc = "command" /\ step > 1 /\ task.strategy = "interactive_shell"
         /\ Distinct(1) /\ ~failed => wire = <<>>

(* The output of command i, from its echo to its mark.                     *)
FromEcho(buf, i) ==
  /\ \E k \in 1 .. Len(buf) : buf[k] = <<"echo", i>>
  /\ Len(buf) > 0 /\ buf[Len(buf)] = <<"mark", i>>

OwnOK ==
  \A i \in ended \cap (1 .. Len(outputs)) : Sure(i) =>
    /\ task.strategy = "interactive_shell" => FromEcho(outputs[i], i)
    /\ \A j \in i + 1 .. Len(outputs) : \A k \in 1 .. Len(outputs[j]) : i < outputs[j][k][2]

WholeOK ==
  task.kind = "SSH" /\ task.strategy = "interactive_shell" =>
    /\ pc \in {"command", "judge"} => failed \/ \A i \in 1 .. step - 1 : Whole(i)
    /\ pc \in {"patterns", "save", "assertions", "disconnect", "attempted", "done"} =>
         res.status # "EXEC_SUCCESS" \/ \A i \in DOMAIN task.commands : Whole(i)

SSHInv == CommandsOK /\ WireOK /\ OwnOK /\ WholeOK

IInv == Types /\ AttemptsOK /\ BMCInv /\ SSHInv

-----------------------------------------------------------------------------
(* What the operators return.                                              *)

LEMMA EndsIs ==
  ASSUME NEW r \in Results, NEW status \in Statuses, NEW reason \in Reasons
  PROVE  /\ Ends(r, status, reason) \in Results
         /\ Ends(r, status, reason).status = status
         /\ Ends(r, status, reason).reason = reason
BY DEF Ends, Results

LEMMA NotReadyIs ==
  ASSUME NEW r \in Results
  PROVE  /\ NotReady(r) \in Results
         /\ NotReady(r).status = r.status /\ NotReady(r).reason = r.reason
         /\ NotReady(r).ready = "READY_NOT_READY"
BY DEF NotReady, Results, Readiness

LEMMA NewResultIs ==
  /\ NewResult \in Results
  /\ NewResult.status = "EXEC_SUCCESS" /\ NewResult.reason = "none"
BY DEF NewResult, Results, Statuses, Reasons, Readiness, Artifacts, Checks, RuleStates,
       Evidences, Pages

LEMMA WrappedIs ==
  Wrapped \in Results /\ Wrapped.status = "EXEC_ERROR"
<1> DEFINE r == NewResult
<1>1. r \in Results /\ "EXEC_ERROR" \in Statuses /\ "none" \in Reasons
  BY NewResultIs DEF Statuses, Reasons
<1>2. Wrapped = Ends(r, "EXEC_ERROR", "none")  BY DEF Wrapped
<1> HIDE DEF r
<1> QED  BY <1>1, <1>2 DEF Ends, Results

LEMMA UnhealthyIs ==
  ASSUME NEW r \in Results
  PROVE  /\ Unhealthy(r) \in Results
         /\ Unhealthy(r).status = "EXEC_FAILED"
<1>1. "EXEC_FAILED" \in Statuses /\ "BMC_PAGE_HEALTH_FAILED" \in Reasons
  BY DEF Statuses, Reasons
<1> QED  BY <1>1, EndsIs DEF Unhealthy

(* Every combination of answers of the older checkpoints has a roll-up but *)
(* those LegacyRollUp names.                                               *)
LEMMA ChecksOK ==
  ASSUME NEW checks
  PROVE  CheckOutcomes(checks) \subseteq Checks
<1>1. ASSUME NEW answers PROVE CheckStatus(RollUp(answers)) \in Checks
  <2>1. RollUp(answers) \in {"FAIL", "WARN", "PASS", "SKIP"}  BY DEF RollUp
  <2> QED  BY <2>1 DEF CheckStatus, Checks
<1>2. ASSUME NEW f \in [1 .. checks.legacy -> LegacyAnswers]
      PROVE  LegacyRollUp({f[i] : i \in 1 .. checks.legacy}) \in Checks
  <2> DEFINE A == {f[i] : i \in 1 .. checks.legacy}
  <2> SUFFICES LegacyRollUp(A) \in Checks  OBVIOUS
  <2>1. A \subseteq {"PASS", "FAIL", "WARN", "SKIP"}  BY DEF LegacyAnswers
  <2> HIDE DEF A
  <2>2. CASE "FAIL" \in A \/ "WARN" \in A
    <3>1. A # {"PASS"} /\ A # {"SKIP"} /\ A # {} /\ A # {"PASS", "SKIP"}  BY <2>2
    <3> QED  BY <2>2, <3>1 DEF LegacyRollUp, Checks
  <2>4. CASE A \subseteq {"PASS", "SKIP"}
    <3>1. A \in {{}, {"PASS"}, {"SKIP"}, {"PASS", "SKIP"}}  BY <2>4
    <3>2. "FAIL" \notin A /\ "WARN" \notin A  BY <2>4
    <3>3. CASE A = {"PASS"}  BY <3>2, <3>3 DEF LegacyRollUp, Checks
    <3>4. CASE A = {"SKIP"}  BY <3>2, <3>4 DEF LegacyRollUp, Checks
    <3>5. CASE A \in {{}, {"PASS", "SKIP"}}  BY <3>2, <3>5 DEF LegacyRollUp, Checks
    <3> QED  BY <3>1, <3>3, <3>4, <3>5
  <2> QED  BY <2>1, <2>2, <2>4
<1> QED  BY <1>1, <1>2 DEF CheckOutcomes

(* A stage finds a page healthy only if each of its gates may.             *)
LEMMA HealthyIs ==
  ASSUME NEW stage, NEW p, "OK" \in Health(stage, p)
  PROVE  \A i \in DOMAIN StageGates(stage) : "OK" \in Gate(StageGates(stage)[i], Seen(p))
BY DEF Health

LEMMA HealthyPage ==
  ASSUME NEW p
  PROVE  /\ "OK" \in Health("before_screenshot", p) => p \in GoodPages \cup {"form"}
         /\ "OK" \notin Health("after_login", "blank")
<1>1. ASSUME "OK" \in Health("before_screenshot", p) PROVE p \in GoodPages \cup {"form"}
  <2>1. StageGates("before_screenshot") = Opening  BY DEF StageGates
  <2>2. /\ DOMAIN Opening = 1 .. 3 /\ Opening[1] = "OPENED"
        /\ Opening[2] = "PAGE_BASIC_HEALTH" /\ Opening[3] = "READY_FOR_CAPTURE"
    BY DEF Opening
  <2>3. /\ "OK" \in Opened(Seen(p)) /\ "OK" \in BasicHealth(Seen(p))
        /\ "OK" \in ReadyForCapture(Seen(p))
    <3>1. \A i \in 1 .. 3 : "OK" \in Gate(Opening[i], Seen(p))
      BY <1>1, <2>1, <2>2, HealthyIs
    <3>2. /\ "OK" \in Gate("OPENED", Seen(p))
          /\ "OK" \in Gate("PAGE_BASIC_HEALTH", Seen(p))
          /\ "OK" \in Gate("READY_FOR_CAPTURE", Seen(p))
      BY <2>2, <3>1
    <3> QED  BY <3>2 DEF Gate
  <2>4. Seen(p) \notin {"blank", "broken"}  BY <2>3 DEF Opened
  <2>5. Seen(p) \notin {"faulty", "elsewhere", "expired", "timeout"}
    BY <2>3 DEF BasicHealth, SessionTexts
  <2>6. Seen(p) # "loading"  BY <2>3 DEF ReadyForCapture
  <2> QED  BY <2>4, <2>5, <2>6 DEF Seen, LivePages, GoodPages
<1>2. ASSUME "OK" \in Health("after_login", "blank") PROVE FALSE
  <2> DEFINE gates == StageGates("after_login")
  <2>1. 3 \in DOMAIN gates /\ gates[3] = "OPENED"  BY DEF StageGates, Opening
  <2>2. "OK" \in Gate("OPENED", Seen("blank"))  BY <1>2, <2>1, HealthyIs
  <2> QED  BY <2>2 DEF Gate, Seen, Opened, LivePages
<1> QED  BY <1>1, <1>2

(* The default conditions are met only on a page without a login form.     *)
LEMMA ReadyIs ==
  ASSUME NEW p, NEW answer \in ReadyOutcomes({}, p \in LivePages, OnLoginForm(p)),
         answer # "FAIL"
  PROVE  p \in LivePages \ {"form"}
<1> DEFINE specs == {"page_alive", "not_login_page"}
           Answers(t) == ReadyAnswers(t, p \in LivePages, OnLoginForm(p))
<1>1. ReadySpecs({}) = specs  BY DEF ReadySpecs
<1>2. PICK f : /\ \A t \in specs : f[t] \in Answers(t)
               /\ answer = RollUp({f[t] : t \in specs})
  BY <1>1 DEF ReadyOutcomes
<1>3. "FAIL" \notin {f[t] : t \in specs}  BY <1>2 DEF RollUp
<1>4. f["page_alive"] # "FAIL" /\ f["not_login_page"] # "FAIL"  BY <1>3
<1>5. f["page_alive"] \in Answers("page_alive") /\ f["not_login_page"] \in Answers("not_login_page")
  BY <1>2
<1>6. p \in LivePages  BY <1>4, <1>5 DEF ReadyAnswers
<1>7. p # "form"
  <2>1. f["not_login_page"] \in {IF g THEN "FAIL" ELSE "PASS" : g \in OnLoginForm(p)}
    BY <1>5 DEF ReadyAnswers
  <2> QED  BY <1>4, <2>1 DEF OnLoginForm
<1> QED  BY <1>6, <1>7

(* The pages a navigation may show.                                        *)
LEMMA PagesShown ==
  ASSUME Types
  PROVE  /\ Shows("home") \subseteq LivePages /\ Shows("target") \subseteq LivePages
         /\ browser.signedIn => "form" \notin Shows("home") \cup Shows("target")
         /\ Stuck \subseteq Pages /\ Reloaded \subseteq Pages
         /\ \A p \in Pages : DialogClosed(p) \subseteq Pages /\ Shots(p) \subseteq Evidences
BY DEF Types, Shows, Stuck, Reloaded, DialogClosed, Shots, Pages, LivePages, Evidences

(* A gate lets the flow go on, after a reload perhaps, or ends it.         *)
LEMMA GatedIs ==
  ASSUME Types, NEW stage, NEW next, Gated(stage, next)
  PROVE  /\ page' \in Pages
         /\ \/ Proceeds(next) /\ page' = page /\ "OK" \in Health(stage, page)
            \/ Unsettles(next)
            \/ Stumbles("shot", Unhealthy(res))
<1>1. page \in Pages  BY DEF Types
<1> QED  BY <1>1, PagesShown DEF Gated

-----------------------------------------------------------------------------
(* The steps of the BMC executor.                                          *)

(* What a step of it leaves alone, and the types of the rest.              *)
BMCPart ==
  /\ UNCHANGED <<task, attempt, retries, sshVars>>
  /\ step' \in Nat \ {0}
  /\ page' \in Pages /\ losses' \in 0 .. MaxLosses
  /\ submits' \in Nat /\ orphans' \in Nat
  /\ browser' \in [process : {"none", "runs", "dead"}, tasks : Nat, signedIn : BOOLEAN]
  /\ caller' \in {"executor", "flow"}
  /\ pc' \in {"after_login", "target", "landed"} => caller' = "executor"

ResultOK == RefusedOK /\ StumbledOK /\ ArtifactOK /\ SettledOK

(* What is left to show of a step of it.                                   *)
LEMMA BMCFrame ==
  ASSUME IInv, BMCPart,
         task.kind = "BMC", pc \in {"call"} \cup Stages \cup {"close"},
         pc' \in Stages \cup {"close", "attempted"},
         res' \in Results, refused' \in BOOLEAN, settled' \in BOOLEAN, stumbled' \in BOOLEAN,
         SubmitsOK', ResultOK'
  PROVE  IInv'
<1>1. Types'
  <2>1. pc' \notin SSHStages  BY DEF SSHStages, Guarded, Stages
  <2> QED  BY <2>1 DEF IInv, Types, BMCPart, sshVars
<1>2. AttemptsOK'  BY DEF IInv, AttemptsOK, BMCPart
<1>3. outputs' = <<>>  BY DEF IInv, SSHInv, CommandsOK, BMCPart, sshVars
<1>4. pc' \notin SSHStages  BY DEF SSHStages, Guarded, Stages
<1>5. CommandsOK' /\ WireOK' /\ WholeOK'
  BY <1>3, <1>4 DEF CommandsOK, WireOK, WholeOK, BMCPart
<1>6. OwnOK'
  <2>1. Len(outputs') = 0  BY <1>3
  <2> QED  BY <2>1 DEF OwnOK
<1> QED  BY <1>1, <1>2, <1>5, <1>6 DEF IInv, BMCInv, SSHInv, ResultOK

(* The stages before the conditions have been evaluated.                   *)
Early == {"context", "page", "login", "conflict", "form", "answer", "after_login", "target",
          "landed", "after_navigate", "blockers", "before_actions", "actions", "ready"}

LEMMA EarlyIs ==
  /\ Early \subseteq Stages
  /\ Early \cap ({"rules", "checkpoints", "complete", "pre_shot", "shot", "html", "archive",
                  "idle", "call"} \cup BMCEnds) = {}
BY DEF Early, Stages, BMCEnds

(* Such a stage goes on to another one.                                    *)
LEMMA GoesOn ==
  ASSUME IInv, BMCPart, task.kind = "BMC", pc \in Early, ~refused,
         pc' \in Early, res' = res, UNCHANGED <<refused, stumbled>>, settled' \in {FALSE, settled},
         SubmitsOK'
  PROVE  IInv'
<1>1. ~settled /\ settled' = FALSE
  BY EarlyIs DEF IInv, Types, BMCInv, SettledOK, BMCEnds
<1>2. ResultOK'
  BY <1>1, EarlyIs DEF IInv, BMCInv, ResultOK, RefusedOK, StumbledOK, ArtifactOK, SettledOK,
                       Flawed, BMCEnds, BMCPart
<1> QED
  BY <1>1, <1>2, EarlyIs, BMCFrame DEF IInv, Types

LEMMA NotRefused ==
  ASSUME IInv, pc \in Early, pc = "after_navigate" => res.status # "EXEC_FAILED"
  PROVE  ~refused
BY EarlyIs DEF IInv, BMCInv, RefusedOK, BMCEnds

(* A fault is kept in the result, on the way to the evidence or to the end. *)
LEMMA GoesWrong ==
  ASSUME IInv, BMCPart, task.kind = "BMC", pc \in Early \cup {"pre_shot"}, ~refused,
         NEW next, NEW r \in Results, Stumbles(next, r), Flawed(r),
         \/ next \in {"shot", "landed", "after_navigate", "blockers", "ready"}
            /\ r.status \in {"EXEC_SUCCESS", "EXEC_FAILED", "EXEC_PARTIAL"}
         \/ next = "close" /\ r.status = "EXEC_FAILED",
         pc = "pre_shot" => next = "shot",
         SubmitsOK'
  PROVE  IInv'
<1>1. /\ pc' = next /\ res' = r /\ ~refused' /\ stumbled' /\ settled' = settled
      /\ refused' \in BOOLEAN /\ stumbled' \in BOOLEAN
  BY DEF Stumbles, Goes, IInv, Types
<1>2. settled => pc' = "shot"
  BY <1>1, EarlyIs DEF IInv, BMCInv, SettledOK, BMCEnds
<1>3. pc' \in Stages \cup {"close"} /\ pc \in Stages  BY <1>1, EarlyIs DEF Stages
<1>4. ResultOK'
  BY <1>1, <1>2, <1>3 DEF IInv, BMCInv, ResultOK, RefusedOK, StumbledOK, ArtifactOK, SettledOK,
                       Flawed, BMCEnds, BMCPart, Stages
<1> QED
  BY <1>1, <1>3, <1>4, BMCFrame DEF IInv, Types

(* _bmc_login fails.                                                       *)
LEMMA LoginFails ==
  ASSUME IInv, BMCPart, task.kind = "BMC", pc \in Early, ~refused,
         NEW reason \in Reasons, NotLoggedIn(reason), SubmitsOK'
  PROVE  IInv'
<1> DEFINE next == IF caller = "executor" THEN "close" ELSE "after_navigate"
           r == Ends(res, "EXEC_FAILED", reason)
<1>1. r \in Results /\ r.status = "EXEC_FAILED"
  BY EndsIs DEF IInv, Types, Statuses
<1>2. Stumbles(next, r)  BY DEF NotLoggedIn
<1>3. Flawed(r)  BY <1>1 DEF Flawed
<1>4. next \in {"close", "after_navigate"}  OBVIOUS
<1>5. pc # "pre_shot"  BY EarlyIs
<1> HIDE DEF next, r
<1> QED  BY <1>1, <1>2, <1>3, <1>4, <1>5, GoesWrong

LEMMA LoginGotoOK ==
  ASSUME IInv, LoginGoto, UNCHANGED sshVars
  PROVE  IInv'
<1>1. pc = "login" /\ task.kind = "BMC" /\ pc \in Early /\ ~refused
  BY NotRefused DEF LoginGoto, IInv, Types, Stages, Early
<1>2. BMCPart
  BY PagesShown DEF IInv, Types, BMCPart, LoginGoto, Proceeds, NotLoggedIn, Stumbles, Goes, Pages
<1>3. SubmitsOK'
  BY PagesShown DEF IInv, Types, BMCInv, SubmitsOK, Unspent, LoginGoto, Proceeds,
     NotLoggedIn, Stumbles, Goes
<1>4. CASE Proceeds("conflict")
  BY <1>1, <1>2, <1>3, <1>4, GoesOn DEF Proceeds, Goes, ghosts, Early
<1>5. CASE NotLoggedIn("BMC_PAGE_GOTO_TIMEOUT")
  BY <1>1, <1>2, <1>3, <1>5, LoginFails DEF Reasons
<1> QED  BY <1>4, <1>5 DEF LoginGoto

LEMMA AcquireOK ==
  ASSUME IInv, AcquireContext \/ AcquirePage, UNCHANGED sshVars
  PROVE  IInv'
<1>1. pc \in {"context", "page"} /\ task.kind = "BMC" /\ pc \in Early /\ ~refused
  BY NotRefused DEF AcquireContext, AcquirePage, IInv, Types, Stages, Early
<1>2. pc' \in {"page", "login"} /\ res' = res /\ UNCHANGED <<refused, settled, stumbled>>
  BY DEF AcquireContext, AcquirePage, Proceeds, Goes, ghosts
<1>3. /\ browser' \in [process : {"none", "runs", "dead"}, tasks : Nat, signedIn : BOOLEAN]
      /\ orphans' = orphans
  <2>1. NewBrowser \in [process : {"none", "runs", "dead"}, tasks : Nat, signedIn : BOOLEAN]
    BY DEF NewBrowser
  <2>2. CASE AcquireContext
    <3>1. browser' = NewBrowser \/ browser' = [browser EXCEPT !.tasks = @ + 1]
      BY <2>2 DEF AcquireContext, GetContext
    <3>2. orphans' = orphans  BY <2>2 DEF AcquireContext, GetContext
    <3> QED  BY <2>1, <3>1, <3>2 DEF IInv, Types
  <2>3. CASE AcquirePage  BY <2>3 DEF AcquirePage, IInv, Types
  <2> QED  BY <2>2, <2>3
<1>4. BMCPart
  BY <1>2, <1>3 DEF IInv, Types, BMCPart, AcquireContext, AcquirePage, Pages, LivePages
<1>5. SubmitsOK'
  BY <1>1, <1>2 DEF IInv, BMCInv, SubmitsOK, Unspent, AcquireContext, AcquirePage
<1> QED  BY <1>1, <1>2, <1>4, <1>5, GoesOn DEF Early

LEMMA AccountConflictOK ==
  ASSUME IInv, AccountConflict, UNCHANGED sshVars
  PROVE  IInv'
<1>1. pc = "conflict" /\ task.kind = "BMC" /\ pc \in Early /\ ~refused
  BY NotRefused DEF AccountConflict, IInv, Types, Stages, Early
<1>2. pc' = "form" /\ res' = res /\ UNCHANGED <<refused, settled, stumbled>>
  BY DEF AccountConflict, Proceeds, Goes, ghosts
<1>3. BMCPart
  BY <1>2, PagesShown DEF IInv, Types, BMCPart, AccountConflict, Pages
<1>4. SubmitsOK'
  BY <1>1, <1>2, PagesShown DEF IInv, Types, BMCInv, SubmitsOK, Unspent, AccountConflict
<1> QED  BY <1>1, <1>2, <1>3, <1>4, GoesOn DEF Early

LEMMA FormOK ==
  ASSUME IInv, NoForm \/ Captcha, UNCHANGED sshVars
  PROVE  IInv'
<1>1. pc = "form" /\ task.kind = "BMC" /\ pc \in Early /\ ~refused
  BY NotRefused DEF NoForm, Captcha, IInv, Types, Stages, Early
<1>2. CASE NoForm
  <2>1. /\ pc' = LoggedIn /\ res' = res /\ UNCHANGED <<refused, settled, stumbled>>
        /\ UNCHANGED <<task, attempt, retries, caller, step, submits, page, browser,
                      orphans, losses>>
    BY <1>2 DEF NoForm, Proceeds, Goes, ghosts, NoPageChange
  <2>2. BMCPart  BY <2>1 DEF IInv, Types, BMCPart, LoggedIn
  <2>3. SubmitsOK'
    BY <1>1, <2>1 DEF IInv, Types, BMCInv, SubmitsOK, Unspent, LoggedIn
  <2> QED  BY <1>1, <2>1, <2>2, <2>3, GoesOn DEF Early, LoggedIn
<1>3. CASE Captcha
  <2>1. /\ NotLoggedIn("CAPTCHA") /\ pc' \in {"close", "after_navigate"}
        /\ UNCHANGED <<task, attempt, retries, caller, step, submits, page, browser,
                      orphans, losses>>
    BY <1>3 DEF Captcha, NotLoggedIn, Stumbles, Goes, NoPageChange
  <2>2. BMCPart  BY <2>1 DEF IInv, Types, BMCPart
  <2>3. SubmitsOK'
    BY <1>1, <2>1 DEF IInv, Types, BMCInv, SubmitsOK, Unspent
  <2> QED  BY <1>1, <2>1, <2>2, <2>3, LoginFails DEF Reasons
<1> QED  BY <1>2, <1>3

(* A form shows only to a user who is not signed in.                       *)
LEMMA SubmitOK ==
  ASSUME IInv, Submit, UNCHANGED sshVars
  PROVE  IInv'
<1>1. pc = "form" /\ task.kind = "BMC" /\ pc \in Early /\ ~refused
  BY NotRefused DEF Submit, IInv, Types, Stages, Early
<1>2. /\ pc' = "answer" /\ res' = res /\ UNCHANGED <<refused, settled, stumbled>>
      /\ UNCHANGED <<task, attempt, retries, orphans, caller, step, losses>>
      /\ submits' = submits + 1
  BY DEF Submit, Proceeds, Goes, ghosts
<1>3. PICK in \in BOOLEAN :
        /\ browser' = [browser EXCEPT !.signedIn = in]
        /\ page' \in IF in THEN {"home", "loading", "password", "elsewhere", "form"}
                     ELSE {"form", "blank"}
  BY DEF Submit
<1>4. BMCPart
  BY <1>2, <1>3 DEF IInv, Types, BMCPart, Pages, LivePages
<1>5. Unspent  BY <1>1 DEF IInv, BMCInv, SubmitsOK, Submit
<1>6. SubmitsOK'
  BY <1>2, <1>3, <1>5 DEF IInv, Types, SubmitsOK, Unspent
<1> QED  BY <1>1, <1>2, <1>4, <1>6, GoesOn DEF Early

LEMMA LoginAnswerOK ==
  ASSUME IInv, LoginAnswer, UNCHANGED sshVars
  PROVE  IInv'
<1>1. pc = "answer" /\ task.kind = "BMC" /\ pc \in Early /\ ~refused
  BY NotRefused DEF LoginAnswer, IInv, Types, Stages, Early
<1>2. /\ UNCHANGED <<task, attempt, retries, browser, orphans, caller, step, losses, submits>>
      /\ page' \in Pages /\ pc' \in {"close", "after_navigate", LoggedIn}
  BY PagesShown DEF LoginAnswer, IInv, Types, Proceeds, Goes, Pages
<1>3. BMCPart
  BY <1>2 DEF IInv, Types, BMCPart, LoggedIn
<1>4. SubmitsOK'
  <2>1. page \in {"form", "elsewhere"} \/ page' = page  BY DEF LoginAnswer
  <2>2. page = "form" => pc' \in {"close", "after_navigate"}  BY DEF LoginAnswer, Goes
  <2> QED
    BY <1>1, <1>2, <2>1, <2>2 DEF IInv, Types, BMCInv, SubmitsOK, Unspent, LoggedIn
<1>5. CASE page # "form"
  <2>1. pc' = LoggedIn /\ res' = res /\ UNCHANGED <<refused, settled, stumbled>>
    BY <1>5 DEF LoginAnswer, Proceeds, Goes, ghosts
  <2> QED  BY <1>1, <1>3, <1>4, <2>1, GoesOn DEF Early, LoggedIn
<1>6. CASE page = "form"
  <2>1. /\ res' = Ends(res, "EXEC_FAILED", "REFUSED") /\ refused' = TRUE /\ stumbled' = TRUE
        /\ settled' = settled /\ pc' \in {"close", "after_navigate"}
    BY <1>6 DEF LoginAnswer, Proceeds, Goes
  <2>2. res' \in Results /\ res'.status = "EXEC_FAILED" /\ res'.reason = "REFUSED"
    <3>1. "EXEC_FAILED" \in Statuses /\ "REFUSED" \in Reasons
      BY DEF Statuses, Reasons, FinalReasons
    <3> QED  BY <2>1, <3>1, EndsIs DEF IInv, Types
  <2>3. ~settled  BY <1>1 DEF IInv, BMCInv, SettledOK
  <2>4. ResultOK'
    BY <1>1, <1>2, <2>1, <2>2, <2>3 DEF ResultOK, RefusedOK, StumbledOK, ArtifactOK, SettledOK,
      BMCEnds, Flawed, IInv, Types
  <2> QED
    BY <1>1, <1>3, <1>4, <2>1, <2>2, <2>3, <2>4, EarlyIs, BMCFrame DEF IInv, Types, Stages
<1> QED  BY <1>5, <1>6

LEMMA AfterLoginOK ==
  ASSUME IInv, AfterLogin, UNCHANGED sshVars
  PROVE  IInv'
<1>1. pc = "after_login" /\ task.kind = "BMC" /\ pc \in Early /\ ~refused
  BY NotRefused DEF AfterLogin, IInv, Types, Stages, Early
<1>2. /\ UNCHANGED <<task, attempt, retries, caller, step, submits, page, browser, orphans, losses>>
      /\ pc' \in {"target", "complete", "close"}
  BY DEF AfterLogin, Proceeds, Stumbles, Goes, NoPageChange
<1>3. BMCPart  BY <1>1, <1>2 DEF IInv, Types, BMCPart
<1>4. PICK s \in Health("after_login", page) :
        IF s = "OK" THEN Proceeds(IF task.mode \in Captured THEN "target" ELSE "complete")
        ELSE Stumbles("close", Unhealthy(res))
  BY DEF AfterLogin
<1>5. SubmitsOK'
  <2>1. pc' = "target" => page # "blank"
    BY <1>4, HealthyPage DEF Stumbles, Goes
  <2> QED  BY <1>1, <1>2, <2>1 DEF IInv, Types, BMCInv, SubmitsOK, Unspent
<1>6. CASE s = "OK" /\ task.mode \in Captured
  BY <1>1, <1>3, <1>4, <1>5, <1>6, GoesOn DEF Proceeds, Goes, ghosts, Early
<1>7. CASE s = "OK" /\ task.mode \notin Captured
  <2>1. pc' = "complete" /\ res' = res /\ UNCHANGED <<refused, settled, stumbled>>
    BY <1>4, <1>7 DEF Proceeds, Goes, ghosts
  <2>2. ~settled  BY <1>1 DEF IInv, BMCInv, SettledOK
  <2>3. ResultOK'
    BY <1>1, <1>2, <1>7, <2>1, <2>2 DEF ResultOK, RefusedOK, StumbledOK, ArtifactOK, SettledOK,
      BMCEnds, Flawed, IInv, Types, BMCInv, Stages
  <2> QED
    BY <1>1, <1>3, <1>5, <2>1, <2>3, EarlyIs, BMCFrame DEF IInv, Types, Stages
<1>8. CASE s # "OK"
  <2>1. Unhealthy(res) \in Results /\ Unhealthy(res).status = "EXEC_FAILED"
    BY UnhealthyIs DEF IInv, Types
  <2> QED  BY <1>1, <1>3, <1>4, <1>5, <1>8, <2>1, GoesWrong, EarlyIs DEF Flawed
<1> QED  BY <1>6, <1>7, <1>8

LEMMA TargetOK ==
  ASSUME IInv, GotoTarget \/ NoTarget, UNCHANGED sshVars
  PROVE  IInv'
<1>1. pc = "target" /\ task.kind = "BMC" /\ pc \in Early /\ ~refused
  BY NotRefused DEF GotoTarget, NoTarget, IInv, Types, Stages, Early
<1>2. /\ UNCHANGED <<task, attempt, retries, caller, step, submits, browser, orphans, losses>>
      /\ page' \in Pages /\ pc' \in {"landed", "blockers"}
  BY PagesShown DEF GotoTarget, NoTarget, Proceeds, Stumbles, Goes, NoPageChange, IInv, Types, Pages
<1>3. BMCPart  BY <1>1, <1>2 DEF IInv, Types, BMCPart
<1>4. SubmitsOK'  BY <1>1, <1>2 DEF IInv, Types, BMCInv, SubmitsOK, Unspent
<1>5. CASE Proceeds("landed")
  BY <1>1, <1>3, <1>4, <1>5, GoesOn DEF Proceeds, Goes, ghosts, Early
<1> DEFINE r == Ends(res, "EXEC_FAILED", "BMC_PAGE_GOTO_TIMEOUT")
<1>6. /\ r \in Results /\ r.status = "EXEC_FAILED"
      /\ NotReady(r) \in Results /\ Flawed(NotReady(r)) /\ NotReady(r).status = "EXEC_FAILED"
  <2>1. "EXEC_FAILED" \in Statuses /\ "BMC_PAGE_GOTO_TIMEOUT" \in Reasons
    BY DEF Statuses, Reasons
  <2>2. r \in Results /\ r.status = "EXEC_FAILED"  BY <2>1, EndsIs DEF IInv, Types
  <2> HIDE DEF r
  <2> QED  BY <2>2, NotReadyIs DEF Flawed
<1>7. CASE Stumbles("landed", NotReady(r))
  <2> HIDE DEF r
  <2> QED  BY <1>1, <1>3, <1>4, <1>6, <1>7, EarlyIs, GoesWrong
<1>8. CASE Stumbles("blockers", NotReady(res))
  <2>1. NotReady(res) \in Results /\ NotReady(res).status = res.status /\ Flawed(NotReady(res))
    BY NotReadyIs DEF IInv, Types, Flawed
  <2>2. res.status \in {"EXEC_SUCCESS", "EXEC_FAILED", "EXEC_PARTIAL"}
    BY <1>1, EarlyIs DEF IInv, BMCInv, StumbledOK
  <2> QED  BY <1>1, <1>3, <1>4, <1>8, <2>1, <2>2, EarlyIs, GoesWrong
<1> QED  BY <1>5, <1>7, <1>8 DEF GotoTarget, NoTarget

(* The login of the capture flow.                                          *)
LEMMA LandedOK ==
  ASSUME IInv, Landed, UNCHANGED sshVars
  PROVE  IInv'
<1>1. pc = "landed" /\ task.kind = "BMC" /\ pc \in Early /\ ~refused
  BY NotRefused DEF Landed, IInv, Types, Stages, Early
<1>2. /\ UNCHANGED <<task, attempt, retries, step, submits, page, browser, orphans, losses>>
      /\ \/ pc' = "after_navigate" /\ caller' = caller
         \/ pc' = "login" /\ caller' = "flow"
      /\ res' = res /\ UNCHANGED <<refused, settled, stumbled>>
  BY DEF Landed, Proceeds, Goes, NoPageChange, ghosts
<1>3. BMCPart  BY <1>1, <1>2 DEF IInv, Types, BMCPart
<1>4. SubmitsOK'  BY <1>1, <1>2 DEF IInv, Types, BMCInv, SubmitsOK, Unspent
<1> QED  BY <1>1, <1>2, <1>3, <1>4, GoesOn DEF Early

(* A gate before the conditions.                                           *)
LEMMA GateKeeps ==
  ASSUME IInv, NEW stage, NEW next \in Early, Gated(stage, next),
         pc \in {"after_navigate", "before_actions"}, ~refused, next \in {"blockers", "actions"},
         UNCHANGED <<task, attempt, retries, browser, orphans, caller, step, losses, submits>>,
         UNCHANGED sshVars
  PROVE  IInv'
<1>1. task.kind = "BMC" /\ pc \in Early  BY DEF IInv, Types, Stages, Early
<1>2. /\ page' \in Pages
      /\ \/ Proceeds(next) \/ Unsettles(next) \/ Stumbles("shot", Unhealthy(res))
  BY GatedIs DEF IInv
<1>3. pc' \in {next, "shot"}  BY <1>2 DEF Proceeds, Unsettles, Stumbles, Goes
<1>4. BMCPart  BY <1>2, <1>3 DEF IInv, Types, BMCPart
<1>5. SubmitsOK'  BY <1>3 DEF IInv, BMCInv, SubmitsOK, Unspent
<1>6. CASE Proceeds(next) \/ Unsettles(next)
  BY <1>1, <1>4, <1>5, <1>6, GoesOn DEF Proceeds, Unsettles, Goes, ghosts
<1>7. CASE Stumbles("shot", Unhealthy(res))
  <2>1. Unhealthy(res) \in Results /\ Unhealthy(res).status = "EXEC_FAILED"
    BY UnhealthyIs DEF IInv, Types
  <2> QED  BY <1>1, <1>4, <1>5, <1>7, <2>1, GoesWrong, EarlyIs DEF Flawed
<1> QED  BY <1>2, <1>6, <1>7

LEMMA GatesOK ==
  ASSUME IInv, AfterNavigate \/ BeforeActions, UNCHANGED sshVars
  PROVE  IInv'
<1>1. task.kind = "BMC" /\ pc \in Early
  BY DEF AfterNavigate, BeforeActions, IInv, Types, Stages, Early
<1>2. UNCHANGED <<task, attempt, retries, browser, orphans, caller, step, losses, submits>>
  BY DEF AfterNavigate, BeforeActions
<1>3. CASE pc = "after_navigate" /\ res.status = "EXEC_FAILED"
  <2>1. /\ pc' = "shot" /\ res' = res /\ UNCHANGED <<refused, settled, stumbled, page>>
    BY <1>3 DEF AfterNavigate, BeforeActions, Proceeds, Goes, ghosts
  <2>2. BMCPart  BY <1>2, <2>1 DEF IInv, Types, BMCPart
  <2>3. SubmitsOK'  BY <1>2, <2>1 DEF IInv, BMCInv, SubmitsOK, Unspent
  <2>4. ResultOK'
    BY <1>1, <1>2, <1>3, <2>1 DEF ResultOK, RefusedOK, StumbledOK, ArtifactOK, SettledOK,
      BMCEnds, Flawed, IInv, BMCInv, Stages
  <2> QED  BY <1>1, <2>1, <2>2, <2>3, <2>4, EarlyIs, BMCFrame DEF IInv, Types, Stages
<1>4. CASE ~(pc = "after_navigate" /\ res.status = "EXEC_FAILED")
  <2>1. \/ pc = "after_navigate" /\ Gated("after_navigate", "blockers")
        \/ pc = "before_actions" /\ Gated("before_actions", "actions")
    BY <1>4 DEF AfterNavigate, BeforeActions
  <2> QED  BY <1>1, <1>2, <1>4, <2>1, NotRefused, GateKeeps DEF Early
<1> QED  BY <1>3, <1>4

(* A step of a stage between the landing and the conditions that does not  *)
(* touch the browser.                                                      *)
LEMMA MiddleStep ==
  ASSUME IInv, UNCHANGED sshVars, pc \in {"blockers", "actions"},
         UNCHANGED <<task, attempt, retries, caller, submits, browser, orphans, losses>>,
         page' \in Pages, step' \in Nat \ {0},
         \/ pc' \in {"before_actions", "actions", "ready"} /\ Proceeds(pc')
         \/ \E r \in Results, next \in {"shot", "ready"} :
              /\ Stumbles(next, r) /\ Flawed(r)
              /\ r.status \in {"EXEC_SUCCESS", "EXEC_FAILED", "EXEC_PARTIAL"}
  PROVE  IInv'
<1>1. task.kind = "BMC" /\ pc \in Early /\ ~refused
  BY NotRefused DEF IInv, Types, Stages, Early
<1>2. pc' \in {"before_actions", "actions", "ready", "shot"}
  BY DEF Stumbles, Goes
<1>3. BMCPart  BY <1>2 DEF IInv, Types, BMCPart
<1>4. SubmitsOK'  BY <1>2 DEF IInv, BMCInv, SubmitsOK, Unspent
<1>5. CASE pc' \in {"before_actions", "actions", "ready"} /\ Proceeds(pc')
  BY <1>1, <1>3, <1>4, <1>5, GoesOn DEF Proceeds, Goes, ghosts, Early
<1>6. ASSUME NEW r \in Results, NEW next \in {"shot", "ready"}, Stumbles(next, r), Flawed(r),
             r.status \in {"EXEC_SUCCESS", "EXEC_FAILED", "EXEC_PARTIAL"}
      PROVE  IInv'
  BY <1>1, <1>3, <1>4, <1>6, EarlyIs, GoesWrong
<1> QED  BY <1>5, <1>6

LEMMA MiddleOK ==
  ASSUME IInv, UNCHANGED sshVars,
         DismissBlockers \/ NoMoreActions \/ ActionBlocked \/ ActionWorks \/ ActionFails
  PROVE  IInv'
<1>1. pc \in {"blockers", "actions"} /\ res \in Results /\ page \in Pages /\ step \in Nat \ {0}
  BY DEF DismissBlockers, NoMoreActions, ActionBlocked, ActionWorks, ActionFails, AtAction,
         IInv, Types
<1>2. /\ UNCHANGED <<task, attempt, retries, caller, submits, browser, orphans, losses>>
      /\ page' \in Pages /\ step' \in Nat \ {0}
  BY <1>1, PagesShown DEF DismissBlockers, NoMoreActions, ActionBlocked, ActionWorks,
     ActionFails, AtAction, NoPageChange, IInv
<1>3. /\ "EXEC_FAILED" \in Statuses /\ "EXEC_PARTIAL" \in Statuses
      /\ "PREEMPTED" \in Reasons /\ res.reason \in Reasons
  BY <1>1 DEF Statuses, Reasons, FinalReasons, Results
<1> DEFINE Preempt == Ends(res, "EXEC_FAILED", "PREEMPTED")
           Partial == Ends(res, "EXEC_PARTIAL", res.reason)
<1>4. /\ Preempt \in Results /\ Preempt.status = "EXEC_FAILED"
      /\ Partial \in Results /\ Partial.status = "EXEC_PARTIAL"
      /\ Unhealthy(res) \in Results /\ Unhealthy(res).status = "EXEC_FAILED"
  BY <1>1, <1>3, EndsIs, UnhealthyIs
<1> HIDE DEF Preempt, Partial
<1>5. ASSUME NEW r \in {Preempt, Partial, Unhealthy(res)}
      PROVE  /\ r \in Results /\ Flawed(r) /\ r.status \in
                {"EXEC_SUCCESS", "EXEC_FAILED", "EXEC_PARTIAL"}
             /\ NotReady(r) \in Results /\ Flawed(NotReady(r))
             /\ NotReady(r).status \in {"EXEC_SUCCESS", "EXEC_FAILED", "EXEC_PARTIAL"}
  BY <1>4, NotReadyIs DEF Flawed
<1>6. CASE DismissBlockers
  BY <1>1, <1>2, <1>5, <1>6, MiddleStep DEF DismissBlockers, Proceeds, Goes, Preempt
<1>7. CASE NoMoreActions \/ ActionWorks
  BY <1>1, <1>2, <1>7, MiddleStep DEF NoMoreActions, ActionWorks, Proceeds, Goes
<1>8. CASE ActionBlocked
  BY <1>1, <1>2, <1>5, <1>8, MiddleStep DEF ActionBlocked
<1>9. CASE ActionFails
  <2>1. \/ Proceeds("actions")
        \/ Stumbles("shot", NotReady(Preempt)) \/ Stumbles("ready", NotReady(Partial))
    BY <1>9 DEF ActionFails, Preempt, Partial
  <2> QED  BY <1>1, <1>2, <1>5, <2>1, MiddleStep DEF ActionFails, AtAction, Proceeds, Goes
<1> QED  BY <1>6, <1>7, <1>8, <1>9

(* The default conditions exclude the login form.                          *)
LEMMA EvaluateReadyOK ==
  ASSUME IInv, EvaluateReady, UNCHANGED sshVars
  PROVE  IInv'
<1>1. pc = "ready" /\ task.kind = "BMC" /\ pc \in Early /\ ~refused
  BY NotRefused DEF EvaluateReady, IInv, Types, Stages, Early
<1>2. /\ UNCHANGED <<task, attempt, retries, caller, step, submits, page, browser, orphans, losses>>
      /\ UNCHANGED <<refused, stumbled>> /\ settled' = TRUE /\ pc' = "pre_shot"
  BY DEF EvaluateReady, Goes, NoPageChange
<1>3. PICK answer \in ReadyOutcomes(task.conditions, page \in LivePages, OnLoginForm(page)) :
        res' = IF answer = "FAIL" THEN NotReady(res) ELSE res
  BY DEF EvaluateReady, Goes
<1>4. BMCPart  BY <1>1, <1>2 DEF IInv, Types, BMCPart
<1>5. SubmitsOK'  BY <1>2 DEF IInv, BMCInv, SubmitsOK, Unspent
<1>6. /\ NotReady(res) \in Results /\ NotReady(res).status = res.status
      /\ Flawed(NotReady(res)) /\ res \in Results
  BY NotReadyIs DEF IInv, Types, Flawed
<1>7. task.conditions = {} /\ ~Flawed(res') => page' \in LivePages \ {"form"}
  <2> SUFFICES ASSUME task.conditions = {}, ~Flawed(res') PROVE page \in LivePages \ {"form"}
    BY <1>2
  <2>1. answer # "FAIL"  BY <1>3, <1>6
  <2> QED  BY <2>1, ReadyIs
<1>8. res.status \in {"EXEC_SUCCESS", "EXEC_FAILED", "EXEC_PARTIAL"} /\ (stumbled => Flawed(res))
  BY <1>1, EarlyIs DEF IInv, BMCInv, StumbledOK
<1>9. ResultOK'
  BY <1>1, <1>2, <1>3, <1>6, <1>7, <1>8 DEF ResultOK, RefusedOK, StumbledOK, ArtifactOK, SettledOK,
     BMCEnds,
     Stages
<1>10. res' \in Results  BY <1>3, <1>6
<1> QED  BY <1>1, <1>2, <1>4, <1>5, <1>9, <1>10, BMCFrame, EarlyIs DEF IInv, Types, Stages

(* A page that passes the gates before the screenshot is a form at worst,  *)
(* and the default conditions have excluded that.                          *)
LEMMA PreShotOK ==
  ASSUME IInv, PreShot, UNCHANGED sshVars
  PROVE  IInv'
<1>1. pc = "pre_shot" /\ task.kind = "BMC" /\ ~refused
  BY DEF PreShot, IInv, Types, Stages, BMCInv, RefusedOK
<1>2. UNCHANGED <<task, attempt, retries, browser, orphans, caller, step, losses, submits>>
  BY DEF PreShot
<1>3. \/ Proceeds("shot") /\ page' = page /\ "OK" \in Health("before_screenshot", page)
      \/ Unsettles("shot") /\ page' \in Pages
      \/ Stumbles("shot", Unhealthy(res)) /\ page' \in Pages
  <2>1. CASE SessionDialog(page) # "OK"
    BY <2>1, PagesShown DEF PreShot, IInv, Types
  <2>2. CASE SessionDialog(page) = "OK"
    BY <2>2, GatedIs DEF PreShot, IInv
  <2> QED  BY <2>1, <2>2
<1>4. pc' = "shot" /\ page' \in Pages
  BY <1>3 DEF Proceeds, Unsettles, Stumbles, Goes, IInv, Types
<1>5. BMCPart  BY <1>2, <1>4 DEF IInv, Types, BMCPart
<1>6. SubmitsOK'  BY <1>2, <1>4 DEF IInv, BMCInv, SubmitsOK, Unspent
<1>7. CASE Stumbles("shot", Unhealthy(res))
  <2>1. Unhealthy(res) \in Results /\ Unhealthy(res).status = "EXEC_FAILED"
    BY UnhealthyIs DEF IInv, Types
  <2> QED  BY <1>1, <1>5, <1>6, <1>7, <2>1, GoesWrong DEF Flawed
<1>8. ASSUME \/ Proceeds("shot") /\ page' = page /\ "OK" \in Health("before_screenshot", page)
             \/ Unsettles("shot")
      PROVE  IInv'
  <2>1. /\ res' = res /\ UNCHANGED <<refused, stumbled>> /\ settled' \in BOOLEAN
        /\ settled' => (settled /\ page' = page /\ page \in GoodPages \cup {"form"})
    <3>1. CASE Unsettles("shot")  BY <3>1 DEF Unsettles, Goes
    <3>2. CASE Proceeds("shot") /\ page' = page /\ "OK" \in Health("before_screenshot", page)
      <4>1. res' = res /\ UNCHANGED <<refused, settled, stumbled>>
        BY <3>2 DEF Proceeds, Goes, ghosts
      <4>2. page \in GoodPages \cup {"form"}  BY <3>2, HealthyPage
      <4> QED  BY <3>2, <4>1, <4>2 DEF IInv, Types
    <3> QED  BY <1>8, <3>1, <3>2
  <2>2. ResultOK'
    BY <1>1, <1>2, <1>4, <2>1 DEF ResultOK, RefusedOK, StumbledOK, ArtifactOK, SettledOK, BMCEnds,
       Stages, IInv, BMCInv, GoodPages, LivePages
  <2> QED  BY <1>1, <1>4, <1>5, <1>6, <2>1, <2>2, BMCFrame DEF IInv, Types, Stages
<1> QED  BY <1>3, <1>7, <1>8

(* The stages that follow the screenshot leave the page alone.             *)
LEMMA LateStep ==
  ASSUME IInv, UNCHANGED sshVars, UNCHANGED ghosts,
         UNCHANGED <<task, attempt, retries, caller, step, submits, page, browser, orphans,
                     losses>>,
         pc \in {"shot", "html", "archive", "rules", "checkpoints", "complete"},
         pc' \in {"html", "archive", "rules", "checkpoints", "complete", "close"},
         res' \in Results, ResultOK'
  PROVE  IInv'
<1>1. BMCPart  BY DEF IInv, Types, BMCPart
<1>2. SubmitsOK'  BY DEF IInv, BMCInv, SubmitsOK, Unspent
<1> QED  BY <1>1, <1>2, BMCFrame DEF IInv, Types, Stages, ghosts

LEMMA AfterCaptureIs ==
  /\ AfterCapture \in {"complete", "rules"}
  /\ res.status = "EXEC_FAILED" => AfterCapture = "complete"
BY DEF AfterCapture

LEMMA TakeScreenshotOK ==
  ASSUME IInv, TakeScreenshot, UNCHANGED sshVars
  PROVE  IInv'
<1>1. /\ pc = "shot" /\ task.kind = "BMC" /\ res \in Results /\ page \in Pages
      /\ UNCHANGED ghosts
      /\ UNCHANGED <<task, attempt, retries, caller, step, submits, page, browser, orphans, losses>>
  BY DEF TakeScreenshot, IInv, Types, Stages, NoPageChange
<1>2. CASE page \notin LivePages
  <2>1. pc' = AfterCapture /\ res' = [res EXCEPT !.artifact = "ARTIFACT_FAILED"]
    BY <1>2 DEF TakeScreenshot, Goes
  <2>2. /\ res' \in Results /\ res'.artifact = "ARTIFACT_FAILED"
        /\ res'.status = res.status /\ res'.reason = res.reason /\ res'.ready = res.ready
        /\ res'.shot = res.shot /\ res'.html = res.html
    BY <1>1, <2>1 DEF Results, Artifacts
  <2>3. page \notin GoodPages  BY <1>2 DEF GoodPages, LivePages
  <2>4. ResultOK'
    BY <1>1, <2>1, <2>2, <2>3, AfterCaptureIs DEF ResultOK, RefusedOK, StumbledOK, ArtifactOK,
       SettledOK, Flawed, BMCEnds, IInv, BMCInv, ghosts, Stages
  <2> QED  BY <1>1, <2>1, <2>2, <2>4, AfterCaptureIs, LateStep
<1>3. CASE page \in LivePages
  <2>1. PICK shot \in Shots(page) : pc' = "html" /\ res' = [res EXCEPT !.shot = shot]
    BY <1>3 DEF TakeScreenshot, Goes
  <2>2. shot \in {page, "none"} /\ shot \in Evidences  BY <1>1 DEF Shots, Evidences, Pages
  <2>3. /\ res' \in Results /\ res'.shot = shot
        /\ res'.status = res.status /\ res'.reason = res.reason /\ res'.ready = res.ready
    BY <1>1, <2>1, <2>2 DEF Results
  <2>4. ResultOK'
    BY <1>1, <2>1, <2>2, <2>3 DEF ResultOK, RefusedOK, StumbledOK, ArtifactOK,
       SettledOK, Flawed, BMCEnds, IInv, BMCInv, ghosts, Stages
  <2> QED  BY <1>1, <2>1, <2>3, <2>4, LateStep
<1> QED  BY <1>2, <1>3

LEMMA ArtifactIs ==
  ASSUME NEW r \in Results
  PROVE  /\ Artifact(r) \in Artifacts
         /\ [r EXCEPT !.artifact = Artifact(r)] \in Results
         /\ Artifact([r EXCEPT !.artifact = Artifact(r)]) = Artifact(r)
BY DEF Artifact, Artifacts, Results

LEMMA SaveHtmlOK ==
  ASSUME IInv, SaveHtml, UNCHANGED sshVars
  PROVE  IInv'
<1>1. /\ pc = "html" /\ task.kind = "BMC" /\ res \in Results /\ page \in Pages
      /\ UNCHANGED ghosts
      /\ UNCHANGED <<task, attempt, retries, caller, step, submits, page, browser, orphans, losses>>
  BY DEF SaveHtml, IInv, Types, Stages, NoPageChange
<1>2. PICK html \in (IF page \in LivePages THEN {page} ELSE {}) \cup {"none"} :
        LET saved == [res EXCEPT !.html = html] IN
        \/ Goes("archive", saved)
        \/ Goes(AfterCapture, [saved EXCEPT !.artifact = Artifact(saved)])
  BY DEF SaveHtml
<1> DEFINE saved == [res EXCEPT !.html = html]
           judged == [saved EXCEPT !.artifact = Artifact(saved)]
<1>3. html \in {page, "none"} /\ html \in Evidences  BY <1>1, <1>2 DEF Evidences, Pages
<1>4. /\ saved \in Results /\ saved.html = html
      /\ saved.status = res.status /\ saved.reason = res.reason /\ saved.ready = res.ready
      /\ saved.shot = res.shot
  BY <1>1, <1>3 DEF Results
<1>5. /\ judged \in Results /\ judged.html = html /\ judged.artifact = Artifact(judged)
      /\ judged.status = res.status /\ judged.reason = res.reason /\ judged.ready = res.ready
      /\ judged.shot = res.shot
  <2> HIDE DEF saved
  <2>1. judged \in Results /\ Artifact(judged) = Artifact(saved)  BY <1>4, ArtifactIs
  <2>2. /\ judged.artifact = Artifact(saved) /\ judged.html = saved.html
        /\ judged.status = saved.status /\ judged.reason = saved.reason
        /\ judged.ready = saved.ready /\ judged.shot = saved.shot
    BY <1>4 DEF Results
  <2> QED  BY <1>4, <2>1, <2>2
<1>6. \/ pc' = "archive" /\ res' = saved
      \/ pc' = AfterCapture /\ res' = judged
  BY <1>2 DEF Goes
<1> HIDE DEF saved, judged
<1>7. ResultOK'
  BY <1>1, <1>3, <1>4, <1>5, <1>6, AfterCaptureIs DEF ResultOK, RefusedOK, StumbledOK, ArtifactOK,
     SettledOK, Flawed, BMCEnds, IInv, BMCInv, ghosts, Stages
<1> QED  BY <1>1, <1>4, <1>5, <1>6, <1>7, AfterCaptureIs, LateStep

LEMMA ArchiveOK ==
  ASSUME IInv, Archive, UNCHANGED sshVars
  PROVE  IInv'
<1>1. /\ pc = "archive" /\ task.kind = "BMC" /\ res \in Results
      /\ UNCHANGED ghosts
      /\ UNCHANGED <<task, attempt, retries, caller, step, submits, page, browser, orphans, losses>>
      /\ pc' = AfterCapture /\ res' = [res EXCEPT !.artifact = Artifact(res)]
  BY DEF Archive, IInv, Types, Stages, NoPageChange, Goes
<1>2. /\ res' \in Results /\ res'.artifact = Artifact(res')
      /\ res'.status = res.status /\ res'.reason = res.reason /\ res'.ready = res.ready
      /\ res'.shot = res.shot /\ res'.html = res.html
  <2>1. res' \in Results /\ Artifact(res') = Artifact(res)  BY <1>1, ArtifactIs
  <2> QED  BY <1>1, <2>1 DEF Results
<1>3. ResultOK'
  BY <1>1, <1>2, AfterCaptureIs DEF ResultOK, RefusedOK, StumbledOK, ArtifactOK,
     SettledOK, Flawed, BMCEnds, IInv, BMCInv, ghosts, Stages
<1> QED  BY <1>1, <1>2, <1>3, AfterCaptureIs, LateStep

(* Rules, checkpoints and the last stage add to the result.                *)
LEMMA EvaluationsOK ==
  ASSUME IInv, EvaluateRules \/ EvaluateCheckpoints \/ Complete, UNCHANGED sshVars
  PROVE  IInv'
<1>1. /\ pc \in {"rules", "checkpoints", "complete"} /\ task.kind = "BMC" /\ res \in Results
      /\ UNCHANGED ghosts
      /\ UNCHANGED <<task, attempt, retries, caller, step, submits, page, browser, orphans, losses>>
  BY DEF EvaluateRules, EvaluateCheckpoints, Complete, IInv, Types, Stages, NoPageChange
<1>2. \/ /\ pc = "rules" /\ pc' = "checkpoints"
         /\ \E rule \in RuleStates : res' = [res EXCEPT !.rule = rule]
      \/ /\ pc = "checkpoints" /\ pc' = "complete"
         /\ \E check \in Checks : res' = [res EXCEPT !.check = check]
      \/ /\ pc = "complete" /\ pc' = "close"
         /\ \/ res' = res
            \/ /\ res' = [res EXCEPT !.status = "EXEC_SUCCESS"]
               /\ res.status \notin {"EXEC_FAILED", "EXEC_PARTIAL"}
  <2>1. CASE EvaluateRules
    BY <2>1 DEF EvaluateRules, Goes, RuleOutcomes, RuleStates
  <2>2. CASE EvaluateCheckpoints
    BY <2>2, ChecksOK DEF EvaluateCheckpoints, Goes
  <2>3. CASE Complete
    BY <2>3 DEF Complete, Completed, Goes
  <2> QED  BY <2>1, <2>2, <2>3
<1>3. /\ res.status \in {"EXEC_SUCCESS", "EXEC_FAILED", "EXEC_PARTIAL"}
  BY <1>1 DEF IInv, BMCInv, StumbledOK, Stages
<1>4. /\ res' \in Results /\ res'.artifact = res.artifact /\ Artifact(res') = Artifact(res)
      /\ res'.status = res.status /\ res'.reason = res.reason /\ res'.ready = res.ready
      /\ res'.shot = res.shot /\ res'.html = res.html
  BY <1>1, <1>2, <1>3 DEF Results, Artifact
<1>5. pc' \in {"checkpoints", "complete", "close"}  BY <1>2
<1>6. refused => pc = "complete" /\ pc' = "close"
  BY <1>1, <1>2 DEF IInv, BMCInv, RefusedOK
<1>7. ResultOK'
  BY <1>1, <1>3, <1>4, <1>5, <1>6 DEF ResultOK, RefusedOK, StumbledOK, ArtifactOK,
     SettledOK, Flawed, BMCEnds, IInv, BMCInv, ghosts, Stages
<1> QED  BY <1>1, <1>4, <1>5, <1>7, LateStep

(* A limit passes, or a stage raises: the result fails, and stays so.      *)
LEMMA HandlersOK ==
  ASSUME IInv, Expires \/ Raises, UNCHANGED sshVars
  PROVE  IInv'
<1>1. /\ pc \in Stages /\ task.kind = "BMC" /\ pc' = "close" /\ res \in Results
      /\ UNCHANGED <<task, attempt, retries, page, caller, step, losses, submits, settled,
                      stumbled>>
  BY DEF Expires, Raises, IInv, Types, Goes, ghosts
<1>2. /\ browser' \in [process : {"none", "runs", "dead"}, tasks : Nat, signedIn : BOOLEAN]
      /\ orphans' \in Nat
  <2>1. NoBrowser \in [process : {"none", "runs", "dead"}, tasks : Nat, signedIn : BOOLEAN]
    BY DEF NoBrowser
  <2>2. ResetThread \/ UNCHANGED <<browser, orphans>>  BY DEF Expires, Raises
  <2> QED  BY <2>1, <2>2 DEF ResetThread, Running, IInv, Types
<1>3. BMCPart  BY <1>1, <1>2 DEF IInv, Types, BMCPart
<1>4. SubmitsOK'  BY <1>1 DEF IInv, BMCInv, SubmitsOK, Unspent
<1>5. /\ res' \in Results /\ res'.status \in {"EXEC_TIMEOUT", "EXEC_ERROR"}
      /\ refused' \in BOOLEAN
      /\ refused' => res'.status = "EXEC_ERROR" /\ res'.reason = "none"
  <2>1. CASE Expires
    <3>1. "EXEC_TIMEOUT" \in Statuses /\ "none" \in Reasons  BY DEF Statuses, Reasons
    <3>2. res' = Ends(res, "EXEC_TIMEOUT", "none") /\ refused' = FALSE  BY <2>1 DEF Expires, Goes
    <3>3. /\ Ends(res, "EXEC_TIMEOUT", "none") \in Results
         /\ Ends(res, "EXEC_TIMEOUT", "none").status = "EXEC_TIMEOUT"
      BY <1>1, <3>1, EndsIs
    <3> QED  BY <3>2, <3>3
  <2>2. CASE Raises
    <3>1. PICK reason \in RaisedReasons : res' = Ends(res, "EXEC_ERROR", reason)
      BY <2>2 DEF Raises, Goes
    <3>2. /\ "EXEC_ERROR" \in Statuses /\ reason \in Reasons
          /\ pc \notin {"landed", "context", "page"} => reason = "none"
      BY <3>1 DEF Statuses, Reasons, FinalReasons, TransientReasons, RaisedReasons
    <3>3. refused' = refused  BY <2>2 DEF Raises, ghosts
    <3>4. refused => pc \notin {"landed", "context", "page"}
      BY DEF IInv, BMCInv, RefusedOK
    <3> DEFINE r == Ends(res, "EXEC_ERROR", reason)
    <3>5. r \in Results /\ r.status = "EXEC_ERROR" /\ r.reason = reason
      <4>1. res \in Results /\ "EXEC_ERROR" \in Statuses /\ reason \in Reasons  BY <1>1, <3>2
      <4> QED  BY <4>1, EndsIs
    <3>6. refused \in BOOLEAN  BY DEF IInv, Types
    <3>7. res' = r  BY <3>1
    <3> HIDE DEF r
    <3> QED  BY <3>2, <3>3, <3>4, <3>5, <3>6, <3>7
  <2> QED  BY <2>1, <2>2
<1>6. settled => pc \in {"pre_shot", "shot", "html", "archive", "rules", "checkpoints", "complete"}
  BY <1>1 DEF IInv, BMCInv, SettledOK, Stages
<1>7. ResultOK'
  BY <1>1, <1>5, <1>6 DEF ResultOK, RefusedOK, StumbledOK, ArtifactOK, SettledOK, Flawed,
     BMCEnds, Stages
<1> QED  BY <1>1, <1>3, <1>4, <1>5, <1>7, BMCFrame DEF IInv, Types

LEMMA BMCCallOK ==
  ASSUME IInv, BMCCall, UNCHANGED sshVars
  PROVE  IInv'
<1>1. /\ pc = "call" /\ task.kind = "BMC" /\ pc' \in {"attempted", "context"}
      /\ res = NewResult /\ res \in Results
      /\ page' = "none" /\ caller' = "executor" /\ step' = 1 /\ ~settled' /\ ~stumbled'
      /\ settled' \in BOOLEAN /\ stumbled' \in BOOLEAN
      /\ UNCHANGED <<task, attempt, retries, browser, orphans, losses, submits, refused>>
  BY DEF BMCCall, Goes, IInv, Types, BMCInv, StumbledOK
<1>2. BMCPart  BY <1>1 DEF IInv, Types, BMCPart, Pages
<1>3. SubmitsOK'  BY <1>1 DEF IInv, Types, BMCInv, SubmitsOK, Unspent
<1>4. ~refused  BY <1>1 DEF IInv, BMCInv, RefusedOK
<1>5. /\ res' \in Results
      /\ pc' = "context" => res' = res
      /\ pc' = "attempted" => res'.status \in {"EXEC_FAILED", "EXEC_ERROR"}
  <2>1. /\ "EXEC_FAILED" \in Statuses /\ "EXEC_ERROR" \in Statuses
        /\ "IP_EMPTY" \in Reasons /\ "none" \in Reasons
    BY DEF Statuses, Reasons, FinalReasons
  <2>2. CASE pc' = "attempted" /\ res' = Ends(res, "EXEC_FAILED", "IP_EMPTY")
    <3>1. /\ Ends(res, "EXEC_FAILED", "IP_EMPTY") \in Results
          /\ Ends(res, "EXEC_FAILED", "IP_EMPTY").status = "EXEC_FAILED"
      <4>1. res \in Results /\ "EXEC_FAILED" \in Statuses /\ "IP_EMPTY" \in Reasons
        BY <1>1, <2>1
      <4> QED  BY <4>1, EndsIs
    <3> QED  BY <2>2, <3>1
  <2>3. CASE pc' = "attempted" /\ res' = Wrapped
    BY <2>3, WrappedIs
  <2>4. CASE pc' = "context" /\ res' = res
    BY <1>1, <2>4
  <2> QED  BY <2>2, <2>3, <2>4 DEF BMCCall, Goes
<1>6. res.status = "EXEC_SUCCESS"  BY <1>1, NewResultIs
<1>7. ResultOK'
  BY <1>1, <1>4, <1>5, <1>6 DEF ResultOK, RefusedOK, StumbledOK, ArtifactOK, SettledOK, Flawed,
     BMCEnds, Stages
<1> QED  BY <1>1, <1>2, <1>3, <1>5, <1>7, BMCFrame DEF IInv, Types, Stages

LEMMA ClosePageOK ==
  ASSUME IInv, ClosePage, UNCHANGED sshVars
  PROVE  IInv'
<1>1. /\ pc = "close" /\ task.kind = "BMC" /\ pc' = "attempted" /\ res' = res
      /\ page' = "none" /\ UNCHANGED <<refused, settled, stumbled>>
      /\ UNCHANGED <<task, attempt, retries, browser, orphans, caller, step, losses, submits>>
  BY DEF ClosePage, Goes, Proceeds, ghosts, IInv, Types
<1>2. BMCPart  BY <1>1 DEF IInv, Types, BMCPart, Pages
<1>3. SubmitsOK'  BY <1>1 DEF IInv, BMCInv, SubmitsOK, Unspent
<1>4. ResultOK'
  BY <1>1 DEF IInv, BMCInv, ResultOK, RefusedOK, StumbledOK, ArtifactOK, SettledOK, Flawed,
    BMCEnds, Stages
<1> QED  BY <1>1, <1>2, <1>3, <1>4, BMCFrame DEF IInv, Types, Stages

(* The session lost is one submission more that is allowed.                *)
LEMMA SessionLostOK ==
  ASSUME IInv, SessionLost, UNCHANGED sshVars
  PROVE  IInv'
<1>1. /\ pc \in Stages /\ task.kind = "BMC" /\ losses < MaxLosses
      /\ losses' = losses + 1 /\ settled' = FALSE
      /\ UNCHANGED <<task, pc, res, attempt, retries, caller, step, submits, refused, stumbled>>
  BY DEF SessionLost, OnPage, IInv, Types
<1>2. /\ page' \in Pages /\ orphans' = orphans
      /\ browser' \in [process : {"none", "runs", "dead"}, tasks : Nat, signedIn : BOOLEAN]
      /\ page' = "form" => page = "form" \/ ~browser'.signedIn
      /\ browser'.signedIn => page' = "closed" /\ browser.signedIn
    <2>1. CASE page' = "closed" /\ BrowserDies
      BY <2>1 DEF BrowserDies, IInv, Types, Pages, LivePages
    <2>2. CASE /\ page' \in {page, "expired", "timeout", "elsewhere", "form"}
               /\ browser' = [browser EXCEPT !.signedIn = FALSE]
               /\ UNCHANGED orphans
      BY <2>2 DEF IInv, Types, Pages, LivePages
    <2> QED  BY <2>1, <2>2 DEF SessionLost
<1>3. losses' \in 0 .. MaxLosses
  BY <1>1, MaxLossesAssumption DEF IInv, Types
<1>4. BMCPart  BY <1>1, <1>2, <1>3 DEF IInv, Types, BMCPart
<1>5. SubmitsOK'
  <2>1. submits' <= attempt' + losses'  BY <1>1 DEF IInv, Types, BMCInv, SubmitsOK
  <2>2. submits' <= attempt' + 1 + losses'  BY <1>1, <2>1, <1>3 DEF IInv, Types
  <2> QED  BY <1>2, <2>1, <2>2 DEF SubmitsOK, Unspent
<1>6. ResultOK'
  BY <1>1 DEF IInv, BMCInv, ResultOK, RefusedOK, StumbledOK, ArtifactOK, SettledOK, Flawed,
    BMCEnds, Stages
<1> QED  BY <1>1, <1>2, <1>4, <1>5, <1>6, BMCFrame DEF IInv, Types

LEMMA BMCStepKeeps ==
  ASSUME IInv, BMCStep, UNCHANGED sshVars
  PROVE  IInv'
BY BMCCallOK, AcquireOK, LoginGotoOK, AccountConflictOK, FormOK, SubmitOK, LoginAnswerOK,
   AfterLoginOK, TargetOK, LandedOK, GatesOK, MiddleOK, EvaluateReadyOK, PreShotOK,
   TakeScreenshotOK, SaveHtmlOK, ArchiveOK, EvaluationsOK, HandlersOK, ClosePageOK DEF BMCStep

-----------------------------------------------------------------------------
(* The steps of execute_with_retry.                                        *)

(* A step between two attempts, or after the last one.                     *)
LEMMA OutsideFrame ==
  ASSUME IInv, UNCHANGED <<task, step, caller, submits, refused, settled, sshVars>>,
         \/ pc = "idle" /\ pc' = "idle" /\ UNCHANGED <<res, stumbled>>
         \/ pc = "idle" /\ pc' = "call" /\ res' = NewResult /\ UNCHANGED stumbled
         \/ pc = "attempted" /\ pc' = "idle" /\ UNCHANGED <<res, stumbled>> /\ ~refused
         \/ pc = "attempted" /\ pc' = "done" /\ UNCHANGED <<res, stumbled>>,
         page' \in Pages, losses' \in 0 .. MaxLosses, orphans' \in Nat,
         browser' \in [process : {"none", "runs", "dead"}, tasks : Nat, signedIn : BOOLEAN],
         attempt' \in Nat, retries' \in Nat,
         AttemptsOK', SubmitsOK'
  PROVE  IInv'
<1>1. pc \in {"idle", "attempted"} /\ pc' \in {"idle", "call", "done"}  OBVIOUS
<1>2. pc' \notin Stages \cup SSHStages  BY <1>1 DEF Stages, SSHStages, Guarded
<1>3. Types'
  BY <1>1, <1>2, NewResultIs DEF IInv, Types, sshVars
<1>4. refused => pc = "attempted" /\ pc' = "done"  BY DEF IInv, BMCInv, RefusedOK
<1>5. RefusedOK'  BY <1>4 DEF IInv, BMCInv, RefusedOK
<1>6. StumbledOK' /\ ArtifactOK'
  BY <1>2 DEF IInv, BMCInv, StumbledOK, ArtifactOK, BMCEnds, Flawed
<1>7. SettledOK'
  <2>1. settled' = settled /\ task' = task  OBVIOUS
  <2>2. CASE pc' \in {"idle", "call"}
    BY <2>1, <2>2 DEF IInv, BMCInv, SettledOK, BMCEnds
  <2>3. CASE pc' = "done"
    BY <2>1, <2>3 DEF IInv, BMCInv, SettledOK, BMCEnds, Flawed
  <2> QED  BY <1>1, <2>2, <2>3
<1>8. outputs' = <<>>  BY <1>1 DEF IInv, SSHInv, CommandsOK, sshVars
<1>9. CommandsOK' /\ WireOK' /\ OwnOK'
  <2>1. Len(outputs') = 0  BY <1>8
  <2> QED  BY <1>2, <1>8, <2>1 DEF CommandsOK, WireOK, OwnOK
<1>10. WholeOK'
  BY <1>1 DEF IInv, SSHInv, WholeOK, Whole, sshVars
<1> QED  BY <1>3, <1>5, <1>6, <1>7, <1>9, <1>10 DEF IInv, BMCInv, SSHInv

LEMMA BeginOK ==
  ASSUME IInv, Begin, UNCHANGED <<bmcVars, sshVars>>
  PROVE  IInv'
<1> USE DEF bmcVars, browserVars
<1>1. AttemptsOK' /\ SubmitsOK'
  BY DEF IInv, AttemptsOK, BMCInv, SubmitsOK, Unspent, Begin, Goes
<1> QED  BY <1>1, OutsideFrame DEF IInv, Types, Begin, Goes

LEMMA BetweenOK ==
  ASSUME IInv, Between, UNCHANGED sshVars
  PROVE  IInv'
<1>1. losses' \in 0 .. MaxLosses /\ losses' = losses + 1
  BY MaxLossesAssumption DEF Between, IInv, Types
<1>2. /\ browser' \in [process : {"none", "runs", "dead"}, tasks : Nat, signedIn : BOOLEAN]
      /\ orphans' = orphans
  <2>1. CASE BrowserDies  BY <2>1 DEF BrowserDies, IInv, Types
  <2>2. CASE CloseCurrentThreadBrowser
    BY <2>2 DEF CloseCurrentThreadBrowser, NoBrowser, IInv, Types
  <2> QED  BY <2>1, <2>2 DEF Between
<1>3. AttemptsOK' /\ SubmitsOK'
  BY <1>1 DEF IInv, Types, AttemptsOK, BMCInv, SubmitsOK, Unspent, Between, retryVars
<1> QED  BY <1>1, <1>2, <1>3, OutsideFrame DEF IInv, Types, Between, retryVars

(* Another attempt has another submission; a refusal is not tried again.   *)
LEMMA DecideOK ==
  ASSUME IInv, Decide, UNCHANGED <<bmcVars, sshVars>>
  PROVE  IInv'
<1>1. /\ pc = "attempted" /\ pc' \in {"idle", "done"} /\ UNCHANGED <<task, res, step>>
      /\ UNCHANGED <<page, caller, losses, submits, refused, settled, stumbled, browser, orphans>>
      /\ task \in Tasks /\ task.retries \in Nat
      /\ attempt \in Nat /\ retries \in Nat
  BY TasksAssumption DEF Decide, bmcVars, browserVars, IInv, Types
<1>2. pc' = "idle" => ~refused
  <2>1. refused => ~Retryable(res)
    BY <1>1 DEF IInv, BMCInv, RefusedOK, Retryable, Transient, FinalReasons, TransientReasons
  <2> QED  BY <2>1 DEF Decide, Again
<1>3. Allowed \in {retries, 1} /\ Allowed >= retries
  BY <1>1 DEF Allowed
<1>4. /\ retries' \in {retries, Allowed}
      /\ \/ pc' = "idle" /\ attempt < Allowed /\ attempt' = attempt + 1 /\ retries' = Allowed
         \/ pc' = "done" /\ attempt' = attempt
  BY DEF Decide, Again, NextAttempt
<1>5. attempt' \in Nat /\ retries' \in Nat  BY <1>1, <1>3, <1>4
<1>6. AttemptsOK'
  BY <1>1, <1>3, <1>4 DEF IInv, AttemptsOK
<1>7. SubmitsOK'
  BY <1>1, <1>4 DEF IInv, Types, BMCInv, SubmitsOK, Unspent
<1> QED  BY <1>1, <1>2, <1>4, <1>5, <1>6, <1>7, OutsideFrame DEF IInv, Types

-----------------------------------------------------------------------------
(* The steps of the SSH executor.                                          *)

(* What is left to show of a step of it.                                   *)
LEMMA SSHFrame ==
  ASSUME IInv, UNCHANGED <<task, attempt, retries, bmcVars>>,
         task.kind = "SSH", pc \in {"call"} \cup SSHStages, pc' \in SSHStages \cup {"attempted"},
         step' \in Nat \ {0}, res' \in Results,
         wire' \in Seq(Tokens), outputs' \in Seq(Seq(Tokens)),
         failed' \in BOOLEAN, late' \in BOOLEAN, ended' \subseteq Nat, pager' \in Nat,
         SSHInv'
  PROVE  IInv'
<1> USE DEF bmcVars, browserVars
<1>1. pc' \notin Stages /\ pc' \notin {"idle", "call", "close", "done"}
  BY DEF Stages, SSHStages, Guarded
<1>2. Types'  BY <1>1 DEF IInv, Types, Stages
<1>3. AttemptsOK'  BY DEF IInv, AttemptsOK
<1>4. ~refused /\ ~settled /\ ~stumbled
  BY DEF IInv, BMCInv, RefusedOK, SettledOK, StumbledOK, SSHStages, Guarded
<1>5. SubmitsOK'
  BY <1>1 DEF IInv, BMCInv, SubmitsOK, Unspent, Stages
<1>6. RefusedOK' /\ StumbledOK' /\ ArtifactOK' /\ SettledOK'
  BY <1>1, <1>4 DEF RefusedOK, StumbledOK, ArtifactOK, SettledOK
<1> QED  BY <1>2, <1>3, <1>5, <1>6 DEF IInv, BMCInv

(* The task of an SSH stage, and where its commands are.                   *)
LEMMA SSHFacts ==
  ASSUME IInv, pc \in {"call"} \cup SSHStages, task.kind = "SSH"
  PROVE  /\ task.strategy \in Shells \cup {"exec_command"}
         /\ task.commands \in Seq({"setup", "context", "evidence"})
         /\ Len(task.commands) \in Nat /\ DOMAIN task.commands = 1 .. Len(task.commands)
         /\ step \in Nat \ {0} /\ res \in Results /\ wire \in Seq(Tokens)
         /\ outputs \in Seq(Seq(Tokens)) /\ failed \in BOOLEAN /\ late \in BOOLEAN
         /\ ended \subseteq Nat /\ pager \in Nat /\ Len(outputs) \in Nat
<1>1. task \in Tasks /\ outputs \in Seq(Seq(Tokens))  BY DEF IInv, Types
<1>2. /\ task.strategy \in Shells \cup {"exec_command"}
      /\ task.commands \in Seq({"setup", "context", "evidence"})
  BY <1>1, TasksAssumption
<1>3. Len(task.commands) \in Nat /\ DOMAIN task.commands = 1 .. Len(task.commands)
  BY <1>2
<1>4. Len(outputs) \in Nat  BY <1>1
<1> QED  BY <1>1, <1>2, <1>3, <1>4 DEF IInv, Types

LEMMA SSHCallOK ==
  ASSUME IInv, SSHCall, UNCHANGED bmcVars
  PROVE  IInv'
<1>1. /\ pc = "call" /\ task.kind = "SSH" /\ pc' \in {"attempted", "connect"}
      /\ step' = 1 /\ UNCHANGED <<task, attempt, retries>>
      /\ wire' = <<>> /\ outputs' = <<>> /\ failed' = FALSE /\ late' = FALSE
      /\ ended' = {} /\ pager' = 0
  BY DEF SSHCall, Cleared, Goes
<1>2. res' \in Results /\ (pc' = "attempted" => res'.status # "EXEC_SUCCESS")
  <2>1. /\ "EXEC_FAILED" \in Statuses /\ "EXEC_ERROR" \in Statuses
        /\ "IP_EMPTY" \in Reasons /\ "none" \in Reasons /\ "COMMAND_MISSING" \in Reasons
    BY DEF Statuses, Reasons, FinalReasons
  <2>2. res \in Results /\ NewResult \in Results  BY NewResultIs DEF IInv, Types
  <2>3. ASSUME NEW reason \in {"IP_EMPTY", "COMMAND_MISSING"}
        PROVE  /\ Ends(res, "EXEC_FAILED", reason) \in Results
               /\ Ends(res, "EXEC_FAILED", reason).status = "EXEC_FAILED"
    <3>1. reason \in Reasons /\ "EXEC_FAILED" \in Statuses  BY <2>1
    <3>2. res \in Results  BY <2>2
    <3> QED  BY <3>1, <3>2, EndsIs
  <2> QED  BY <2>2, <2>3, WrappedIs DEF SSHCall, Goes
<1>3. Len(outputs') = 0 /\ Len(wire') = 0 /\ Len(task.commands) \in Nat
  BY <1>1, SSHFacts
<1>4. CommandsOK' /\ WireOK' /\ OwnOK'
  BY <1>1, <1>3 DEF CommandsOK, WireOK, OwnOK, SSHStages, Guarded
<1>5. WholeOK'  BY <1>1, <1>2 DEF WholeOK
<1>6. /\ wire' \in Seq(Tokens) /\ outputs' \in Seq(Seq(Tokens))
      /\ failed' \in BOOLEAN /\ late' \in BOOLEAN /\ ended' \subseteq Nat /\ pager' \in Nat
      /\ step' \in Nat \ {0} /\ pc' \in SSHStages \cup {"attempted"}
  <2>1. wire' \in Seq(Tokens) /\ outputs' \in Seq(Seq(Tokens))  BY <1>1
  <2>2. pc' \in SSHStages \cup {"attempted"}  BY <1>1 DEF SSHStages, Guarded
  <2>3. failed' \in BOOLEAN /\ late' \in BOOLEAN  BY <1>1
  <2>4. ended' \subseteq Nat /\ pager' \in Nat /\ step' \in Nat \ {0}  BY <1>1
  <2> QED  BY <2>1, <2>2, <2>3, <2>4
<1> QED
  BY <1>1, <1>2, <1>4, <1>5, <1>6, SSHFrame DEF SSHInv

(* A step that keeps what was read, and leaves the commands alone.         *)
LEMMA QuietStep ==
  ASSUME IInv, UNCHANGED <<task, attempt, retries, step, bmcVars>>, UNCHANGED sshVars,
         res' \in Results,
         \/ pc = "connect" /\ pc' = "session"
         \/ pc \in Guarded /\ pc' = "disconnect" /\ res'.status # "EXEC_SUCCESS"
         \/ /\ \/ pc = "judge" /\ pc' = "patterns"
               \/ pc = "patterns" /\ pc' = "save"
               \/ pc = "save" /\ pc' = "assertions"
               \/ pc = "assertions" /\ pc' = "disconnect"
            /\ WholeOK'
  PROVE  IInv'
<1>1. task.kind = "SSH" /\ pc \in SSHStages /\ pc' \in SSHStages /\ pc # "disconnect"
  BY DEF IInv, Types, SSHStages, Guarded
<1>2. CommandsOK'
  BY <1>1 DEF IInv, SSHInv, CommandsOK, sshVars, SSHStages, Guarded, Stages
<1>3. WireOK'
  BY <1>1 DEF IInv, SSHInv, WireOK, Sure, Distinct, CommandsOK, sshVars, SSHStages, Guarded
<1>4. OwnOK'  BY DEF IInv, SSHInv, OwnOK, Sure, Distinct, sshVars
<1>5. WholeOK'
  BY <1>1 DEF IInv, SSHInv, WholeOK, Whole, sshVars, SSHStages, Guarded
<1> QED  BY <1>1, <1>2, <1>3, <1>4, <1>5, SSHFrame, SSHFacts DEF SSHInv, sshVars

LEMMA ConnectOK ==
  ASSUME IInv, Connect, UNCHANGED bmcVars
  PROVE  IInv'
BY QuietStep DEF Connect, Moves, Goes, IInv, Types

LEMMA SSHRaisesOK ==
  ASSUME IInv, SSHRaises, UNCHANGED bmcVars
  PROVE  IInv'
<1>1. /\ pc \in Guarded /\ pc' = "disconnect"
      /\ UNCHANGED <<task, attempt, retries, step>> /\ UNCHANGED sshVars
  BY DEF SSHRaises, Moves, Goes
<1>2. PICK h \in HandledAt(pc) : res' = Ends(res, h[1], h[2])
  BY DEF SSHRaises, Moves, Goes
<1>3. h \in Handled  BY <1>1, <1>2 DEF HandledAt, Handled, Guarded
<1>4. /\ h[1] \in Statuses /\ h[2] \in Reasons /\ h[1] # "EXEC_SUCCESS"
  <2>1. /\ {"EXEC_TIMEOUT", "EXEC_ERROR", "EXEC_FAILED", "EXEC_SKIPPED_PORT_BLOCKED",
            "EXEC_SKIPPED_PRECHECK_FAILED"} \subseteq Statuses
        /\ {"none", "CONNECTION_RESET", "AUTHENTICATION"} \subseteq Reasons
    BY DEF Statuses, Reasons, FinalReasons, TransientReasons
  <2>2. /\ h[1] \in {"EXEC_TIMEOUT", "EXEC_ERROR", "EXEC_FAILED", "EXEC_SKIPPED_PORT_BLOCKED",
                   "EXEC_SKIPPED_PRECHECK_FAILED"}
        /\ h[2] \in {"none", "CONNECTION_RESET", "AUTHENTICATION"}
    BY <1>3 DEF Handled
  <2> QED  BY <2>1, <2>2
<1>5. res' \in Results /\ res'.status # "EXEC_SUCCESS"
  <2>1. res \in Results  BY DEF IInv, Types
  <2> QED  BY <1>2, <1>4, <2>1, EndsIs
<1> QED  BY <1>1, <1>5, QuietStep

(* A result is lowered, or left alone when nothing failed.                 *)
LEMMA JudgeOK ==
  ASSUME IInv, Judge, UNCHANGED bmcVars
  PROVE  IInv'
<1>1. /\ pc = "judge" /\ pc' = "patterns" /\ res \in Results /\ task.kind = "SSH"
      /\ UNCHANGED <<task, attempt, retries, step>> /\ UNCHANGED sshVars
      /\ res' \in Judgements
  BY DEF Judge, Moves, Goes, IInv, Types, SSHStages, Guarded
<1> DEFINE Bad == Statuses \ {"EXEC_SUCCESS"}
<1>2. ASSUME NEW status \in Bad, NEW reason \in Reasons
      PROVE  /\ Ends(res, status, reason) \in Results
             /\ Ends(res, status, reason).status # "EXEC_SUCCESS"
  <2>1. status \in Statuses  OBVIOUS
  <2> QED  BY <1>1, <1>2, <2>1, EndsIs
<1>3. /\ {"EXEC_TIMEOUT", "EXEC_FAILED", "EXEC_PARTIAL"} \subseteq Bad
      /\ {"none", "CONNECTION_RESET", "COMMAND_OUTPUT_MISSING", "ONLY_LOGIN_BANNER"}
           \subseteq Reasons
  BY DEF Statuses, Reasons, FinalReasons, TransientReasons
<1>4. ASSUME NEW reason \in Reasons
      PROVE  Lowered(reason) \in Results /\ Lowered(reason).status # "EXEC_SUCCESS"
  BY <1>2, <1>3 DEF Lowered
<1> HIDE DEF Bad
<1>5. /\ res' \in Results
      /\ res'.status # "EXEC_SUCCESS" \/ (res' = res /\ ~late /\ ~failed)
  <2>1. CASE late
    BY <1>1, <1>2, <1>3, <2>1 DEF Judgements
  <2>2. CASE failed /\ ~late
    BY <1>1, <1>3, <1>4, <2>2 DEF Judgements
  <2>3. CASE ~late /\ ~failed
    <3>1. /\ Lowered("none") \in Results /\ Lowered("none").status # "EXEC_SUCCESS"
      BY <1>3, <1>4
    <3>2. ASSUME NEW reason \in {"COMMAND_OUTPUT_MISSING", "ONLY_LOGIN_BANNER"}
          PROVE  /\ Ends(res, "EXEC_FAILED", reason) \in Results
                 /\ Ends(res, "EXEC_FAILED", reason).status # "EXEC_SUCCESS"
      BY <1>2, <1>3
    <3>3. \/ res' \in {res, Lowered("none")}
          \/ \E reason \in {"COMMAND_OUTPUT_MISSING", "ONLY_LOGIN_BANNER"} :
                res' = Ends(res, "EXEC_FAILED", reason)
      BY <1>1, <2>3 DEF Judgements
    <3> QED  BY <1>1, <2>3, <3>1, <3>2, <3>3
  <2> QED  BY <2>1, <2>2, <2>3
<1>6. WholeOK'
  <2> SUFFICES ASSUME task.strategy = "interactive_shell", res'.status = "EXEC_SUCCESS"
               PROVE  \A i \in DOMAIN task.commands : Whole(i)'
    BY <1>1 DEF WholeOK
  <2>1. ~failed  BY <1>5
  <2>2. step = Len(task.commands) + 1
    BY <1>1 DEF IInv, SSHInv, CommandsOK, SSHStages, Guarded
  <2>3. \A i \in 1 .. step - 1 : Whole(i)
    BY <1>1, <2>1 DEF IInv, SSHInv, WholeOK
  <2>4. /\ DOMAIN task.commands = 1 .. Len(task.commands) /\ Len(task.commands) \in Nat
    BY <1>1, SSHFacts DEF SSHStages, Guarded
  <2> QED  BY <1>1, <2>2, <2>3, <2>4 DEF Whole, sshVars
<1> QED  BY <1>1, <1>5, <1>6, QuietStep

(* The rules, the evidence and the checkpoints never raise a status.       *)
LEMMA ConcludeOK ==
  ASSUME IInv, JudgeRules \/ SaveEvidence \/ SSHCheckpoints, UNCHANGED bmcVars
  PROVE  IInv'
<1>1. /\ \/ pc = "patterns" /\ pc' = "save"
         \/ pc = "save" /\ pc' = "assertions"
         \/ pc = "assertions" /\ pc' = "disconnect"
      /\ res \in Results /\ task.kind = "SSH"
      /\ UNCHANGED <<task, attempt, retries, step>> /\ UNCHANGED sshVars
  BY DEF JudgeRules, SaveEvidence, SSHCheckpoints, Moves, Goes, IInv, Types, SSHStages, Guarded
<1>2. res' \in Results /\ (res'.status = "EXEC_SUCCESS" => res.status = "EXEC_SUCCESS")
  <2>1. CASE JudgeRules
    <3> DEFINE r == IF res.status = "EXEC_SUCCESS" THEN Ends(res, "EXEC_PARTIAL", "none") ELSE res
    <3>1. r \in Results /\ r.status # "EXEC_SUCCESS"
      <4>1. "EXEC_PARTIAL" \in Statuses /\ "none" \in Reasons /\ res \in Results
        BY <1>1 DEF Statuses, Reasons
      <4>2. ASSUME NEW reason \in Reasons
            PROVE  /\ Ends(res, "EXEC_PARTIAL", reason) \in Results
                   /\ Ends(res, "EXEC_PARTIAL", reason).status = "EXEC_PARTIAL"
        BY <4>1, EndsIs
      <4> QED  BY <4>1, <4>2
    <3>2. "RULES_FAILED" \in Reasons /\ {"RULE_PASSED", "RULE_FAILED"} \subseteq RuleStates
      BY DEF Reasons, FinalReasons, RuleStates
    <3>3. \/ res' = res \/ res' = [res EXCEPT !.rule = "RULE_PASSED"]
          \/ res' = [r EXCEPT !.rule = "RULE_FAILED", !.reason = "RULES_FAILED"]
      BY <2>1 DEF JudgeRules, Moves, Goes
    <3> HIDE DEF r
    <3> QED  BY <1>1, <3>1, <3>2, <3>3 DEF Results
  <2>2. CASE SaveEvidence
    <3>1. /\ "ARTIFACT_SAVED" \in Artifacts /\ "output" \in Evidences
      BY DEF Artifacts, Evidences
    <3> QED  BY <1>1, <2>2, <3>1 DEF SaveEvidence, Moves, Goes, Results
  <2>3. CASE SSHCheckpoints
    <3>1. res' = res \/ \E check \in Checks : res' = [res EXCEPT !.check = check]
      BY <2>3, ChecksOK DEF SSHCheckpoints, Moves, Goes
    <3> QED  BY <1>1, <3>1 DEF Results
  <2> QED  BY <2>1, <2>2, <2>3
<1>3. WholeOK'
  BY <1>1, <1>2 DEF IInv, SSHInv, WholeOK, Whole, sshVars
<1> QED  BY <1>1, <1>2, <1>3, QuietStep

(* What the device prints before the first command belongs to none.        *)
LEMMA OpenSessionOK ==
  ASSUME IInv, OpenSession, UNCHANGED bmcVars
  PROVE  IInv'
<1>1. /\ pc = "session" /\ pc' = "command" /\ task.kind = "SSH"
      /\ res' = res /\ UNCHANGED <<task, attempt, retries, step>>
      /\ UNCHANGED <<outputs, failed, late, ended, pager>>
  BY DEF OpenSession, Moves, Goes, IInv, Types, SSHStages, Guarded
<1>2. PICK n \in 0 .. Len(Banner) : wire' = SubSeq(Banner, n + 1, Len(Banner))
  BY DEF OpenSession
<1>3. /\ Banner \in Seq(Tokens) /\ \A k \in 1 .. Len(Banner) : Banner[k][2] = 0
      /\ task.strategy = "exec_command" => Banner = <<>>
  <2>1. CASE task.strategy = "interactive_shell"
    <3> DEFINE b == <<<<"mark", 0>>, <<"echo", 0>>, <<"mark", 0>>>>
    <3>1. <<"mark", 0>> \in Tokens /\ <<"echo", 0>> \in Tokens  BY DEF Tokens
    <3>2. b \in Seq(Tokens) /\ Len(b) = 3  BY <3>1
    <3>3. b[1] = <<"mark", 0>> /\ b[2] = <<"echo", 0>> /\ b[3] = <<"mark", 0>>  OBVIOUS
    <3>4. Banner = b  BY <2>1 DEF Banner
    <3> HIDE DEF b
    <3>5. \A k \in 1 .. 3 : k = 1 \/ k = 2 \/ k = 3  OBVIOUS
    <3>6. \A k \in 1 .. 3 : b[k][2] = 0
      <4> SUFFICES ASSUME NEW k \in 1 .. 3 PROVE b[k][2] = 0  OBVIOUS
      <4>1. b[k] = <<"mark", 0>> \/ b[k] = <<"echo", 0>>  BY <3>3, <3>5
      <4> QED  BY <4>1
    <3>7. task.strategy # "exec_command"  BY <2>1
    <3> QED  BY <3>2, <3>4, <3>6, <3>7
  <2>2. CASE task.strategy # "interactive_shell"
    <3>1. Banner = <<>>  BY <2>2 DEF Banner
    <3> QED  BY <3>1
  <2> QED  BY <2>1, <2>2
<1> HIDE DEF Banner
<1>4. wire' \in Seq(Tokens) /\ \A k \in 1 .. Len(wire') : wire'[k][2] = 0
  BY <1>2, <1>3
<1>5. task.strategy = "exec_command" => wire' = <<>>
  BY <1>2, <1>3
<1>6. /\ step = 1 /\ ended \subseteq 1 .. step - 1 /\ pager < step /\ Len(outputs) = 0
      /\ step <= Len(task.commands) + 1
      /\ pager # 0 => task.strategy = "interactive_shell" /\ \A i \in ended : i < pager
  BY <1>1 DEF IInv, SSHInv, CommandsOK, SSHStages, Guarded
<1>7. ended = {}  BY <1>6
<1>8. CommandsOK'  BY <1>1, <1>6 DEF CommandsOK, SSHStages, Guarded, Stages
<1>9. WireOK'
  <2>1. pager = 0  BY <1>1, <1>6, SSHFacts DEF SSHStages, Guarded
  <2> QED  BY <1>1, <1>4, <1>5, <1>6, <1>7, <2>1 DEF WireOK
<1>10. OwnOK' /\ WholeOK'  BY <1>1, <1>6, <1>7 DEF OwnOK, WholeOK
<1>11. pc \in SSHStages /\ pc' \in SSHStages  BY <1>1 DEF SSHStages, Guarded
<1> QED
  BY <1>1, <1>4, <1>8, <1>9, <1>10, <1>11, SSHFrame, SSHFacts DEF SSHInv

(* What is known when a command is read or skipped.                        *)
LEMMA CommandFacts ==
  ASSUME IInv, pc \in {"command", "drain", "status"}
  PROVE  /\ task.kind = "SSH" /\ pc \in SSHStages
         /\ task.strategy \in Shells \cup {"exec_command"}
         /\ Len(task.commands) \in Nat /\ step \in Nat \ {0} /\ res \in Results
         /\ wire \in Seq(Tokens) /\ outputs \in Seq(Seq(Tokens))
         /\ failed \in BOOLEAN /\ late \in BOOLEAN /\ pager \in Nat
         /\ Len(outputs) = IF pc = "status" THEN step ELSE step - 1
         /\ ended \subseteq 1 .. step - 1 /\ pager < step
         /\ pager # 0 => task.strategy = "interactive_shell" /\ \A i \in ended : i < pager
         /\ task.strategy = "exec_command" => wire = <<>>
         /\ \A k \in 1 .. Len(wire) :
              wire[k][2] < step /\ \A i \in ended : Sure(i) => i < wire[k][2]
         /\ pager # 0 => \A k \in 1 .. Len(wire) : wire[k][1] # "mark"
         /\ pc = "command" /\ step > 1 /\ task.strategy = "interactive_shell"
              /\ Distinct(1) /\ ~failed => wire = <<>>
<1>1. pc \in SSHStages /\ task.kind = "SSH" /\ pc \in SSHStages \ {"disconnect"}
  BY DEF IInv, Types, SSHStages, Guarded
<1>2. CommandsOK /\ WireOK  BY DEF IInv, SSHInv
<1> QED  BY <1>1, <1>2, SSHFacts DEF CommandsOK, WireOK

(* The output of a command is logged: nothing in it is of a command that   *)
(* has ended, and a command that ends with it, and is not mistaken, has it *)
(* from its echo to its mark and leaves nothing on the wire.               *)
LEMMA LogStep ==
  ASSUME IInv, UNCHANGED bmcVars, pc = "command", step <= Len(task.commands),
         NEW buf \in Seq(Tokens), NEW status, Logs(buf, status),
         \A k \in 1 .. Len(buf) : \A i \in ended : Sure(i) => i < buf[k][2],
         wire' \in Seq(Tokens), task.strategy = "exec_command" => wire' = <<>>,
         \A k \in 1 .. Len(wire') :
            wire'[k][2] <= step /\ \A i \in ended : Sure(i) => i < wire'[k][2],
         pager' # 0 => \A k \in 1 .. Len(wire') : wire'[k][1] # "mark",
         \/ ended' = ended
         \/ /\ ended' = ended \cup {step} /\ pager = 0
            /\ Sure(step) =>
                 /\ wire' = <<>>
                 /\ task.strategy = "interactive_shell" => FromEcho(buf, step),
         \/ pager' = pager
         \/ pager = 0 /\ pager' = step /\ task.strategy = "interactive_shell" /\ ended' = ended,
         status = "SUCCESS" /\ task.strategy = "interactive_shell" =>
            step \in ended' \/ pager' = step,
         task.strategy = "interactive_shell" /\ Distinct(1) /\ ~failed /\ status = "SUCCESS" =>
            wire' = <<>>
  PROVE  IInv'
<1>1. /\ outputs' = Append(outputs, buf) /\ step' = step + 1 /\ pc' = "command" /\ res' = res
      /\ failed' = (failed \/ status # "SUCCESS") /\ late' = (late \/ status = "TIMEOUT")
      /\ UNCHANGED <<task, attempt, retries>>
  BY DEF Logs, Notes, Goes
<1> DEFINE Facts ==
         /\ task.kind = "SSH" /\ pc \in SSHStages
         /\ task.strategy \in Shells \cup {"exec_command"}
         /\ Len(task.commands) \in Nat /\ step \in Nat \ {0} /\ res \in Results
         /\ wire \in Seq(Tokens) /\ outputs \in Seq(Seq(Tokens))
         /\ pager \in Nat /\ Len(outputs) = step - 1
         /\ ended \subseteq 1 .. step - 1 /\ pager < step
         /\ pager # 0 => task.strategy = "interactive_shell" /\ \A i \in ended : i < pager
<1>2. Facts  BY CommandFacts
<1>3. /\ outputs' \in Seq(Seq(Tokens)) /\ Len(outputs') = step
      /\ \A j \in 1 .. step - 1 : outputs'[j] = outputs[j]
      /\ outputs'[step] = buf
  BY <1>1, <1>2
<1>4. /\ ended' \subseteq 1 .. step /\ pager' \in Nat /\ pager' < step + 1
      /\ pager' # 0 => task.strategy = "interactive_shell" /\ \A i \in ended' : i < pager'
  <2>1. \A i \in ended : i \in Nat /\ i < step  BY <1>2
  <2>2. CASE pager' = pager
    <3>1. pager # 0 => ended' = ended  OBVIOUS
    <3>2. ended' \subseteq 1 .. step
      <4>1. \A i \in 1 .. step - 1 : i \in 1 .. step  BY <1>2
      <4>2. step \in 1 .. step /\ ended \subseteq 1 .. step - 1  BY <1>2
      <4>3. ended' \subseteq ended \cup {step}  OBVIOUS
      <4> QED  BY ONLY <4>1, <4>2, <4>3
    <3> QED  BY <1>2, <2>2, <3>1, <3>2
  <2>3. CASE pager' = step /\ task.strategy = "interactive_shell" /\ ended' = ended
    BY <1>2, <2>1, <2>3
  <2> QED  BY <2>2, <2>3
<1>5. CommandsOK'
  BY <1>1, <1>2, <1>3, <1>4 DEF CommandsOK, SSHStages, Guarded, Stages
<1>10. ASSUME NEW i, Sure(i)' PROVE Sure(i)
  <2>1. Distinct(i)' = Distinct(i) /\ Distinct(1)' = Distinct(1)  BY <1>1 DEF Distinct
  <2>2. failed => failed'  BY <1>1
  <2> QED  BY <1>10, <2>1, <2>2 DEF Sure
<1>6. WireOK'
  <2>1. \A k \in 1 .. Len(wire') : wire'[k][2] \in Nat  BY DEF Tokens
  <2>2. ASSUME NEW k \in 1 .. Len(wire')
        PROVE  wire'[k][2] < step + 1 /\ \A i \in ended' : Sure(i)' => i < wire'[k][2]
    <3>1. wire' # <<>>  BY <2>2
    <3>2. \A i \in ended' : Sure(i) => i \in ended  BY <3>1
    <3>3. ASSUME NEW i \in ended', Sure(i)' PROVE i < wire'[k][2]
      <4>1. Sure(i)  BY <1>10, <3>3
      <4>2. i \in ended  BY <3>2, <3>3, <4>1
      <4> QED  BY <2>2, <4>1, <4>2
    <3>4. wire'[k][2] < step + 1  BY <1>2, <2>1, <2>2
    <3> QED  BY <3>3, <3>4
  <2>3. task'.strategy = "interactive_shell" /\ Distinct(1)' /\ ~failed' => wire' = <<>>
    <3>1. Distinct(1)' = Distinct(1)  BY <1>1 DEF Distinct
    <3> QED  BY <1>1, <3>1
  <2> QED  BY <1>1, <2>2, <2>3 DEF WireOK
<1>7. OwnOK'
  <2> SUFFICES ASSUME NEW i \in ended', i \in 1 .. step, Sure(i)'
               PROVE  /\ task.strategy = "interactive_shell" => FromEcho(outputs'[i], i)
                      /\ \A j \in i + 1 .. step :
                            \A k \in 1 .. Len(outputs'[j]) : i < outputs'[j][k][2]
    BY <1>1, <1>3 DEF OwnOK, FromEcho
  <2>0. Sure(i)  BY <1>10
  <2>1. CASE i \in ended
    <3>1. i \in 1 .. step - 1  BY <1>2, <2>1
    <3>2. /\ task.strategy = "interactive_shell" => FromEcho(outputs[i], i)
          /\ \A j \in i + 1 .. step - 1 :
                \A k \in 1 .. Len(outputs[j]) : i < outputs[j][k][2]
      BY <1>2, <2>0, <2>1, <3>1 DEF IInv, SSHInv, OwnOK
    <3>3. ASSUME NEW j \in i + 1 .. step, NEW k \in 1 .. Len(outputs'[j])
          PROVE  i < outputs'[j][k][2]
      <4>1. CASE j = step
        <5>1. outputs'[j] = buf /\ k \in 1 .. Len(buf)  BY <1>3, <4>1
        <5> QED  BY <2>0, <2>1, <5>1
      <4>2. CASE j # step
        <5>1. j \in i + 1 .. step - 1 /\ j \in 1 .. step - 1  BY <1>2, <3>1, <4>2
        <5> QED  BY <1>3, <3>2, <5>1
      <4> QED  BY <4>1, <4>2
    <3> QED  BY <1>3, <3>1, <3>2, <3>3
  <2>2. CASE i = step /\ ended' # ended
    <3>1. task.strategy = "interactive_shell" => FromEcho(buf, i)  BY <2>0, <2>2
    <3> QED  BY <1>2, <1>3, <2>2, <3>1
  <2> QED  BY <2>1, <2>2
<1>8. WholeOK'
  <2> SUFFICES ASSUME task.strategy = "interactive_shell", ~failed', NEW i \in 1 .. step
               PROVE  Whole(i)'
    BY <1>1, <1>2 DEF WholeOK
  <2>1. ~failed /\ status = "SUCCESS"  BY <1>1
  <2>2. CASE i = step
    <3>1. step \in ended' \/ pager' = step  BY <2>1
    <3> QED  BY <1>2, <2>2, <3>1 DEF Whole
  <2>3. CASE i # step
    <3>1. Whole(i)  BY <1>2, <2>1, <2>3 DEF IInv, SSHInv, WholeOK
    <3>2. ended \subseteq ended' /\ (pager # 0 => pager' = pager)  BY <1>2
    <3> QED  BY <3>1, <3>2 DEF Whole
  <2> QED  BY <2>2, <2>3
<1>9. /\ failed' \in BOOLEAN /\ late' \in BOOLEAN /\ ended' \subseteq Nat
      /\ step' \in Nat \ {0} /\ pc' \in SSHStages
  BY <1>1, <1>2, <1>4, CommandFacts DEF SSHStages, Guarded
<1> QED
  BY <1>1, <1>2, <1>3, <1>4, <1>5, <1>6, <1>7, <1>8, <1>9, SSHFrame DEF SSHInv

(* A read that ends at the mark of its own command has read everything.    *)
LEMMA ReadIs ==
  ASSUME IInv, pc = "command", task.strategy \in Shells,
         NEW reply \in Replies, NEW all, all = wire \o reply, NEW n \in 0 .. Len(all),
         NEW buf, buf = SubSeq(all, 1, n), NEW rest, rest = SubSeq(all, n + 1, Len(all))
  PROVE  /\ buf \in Seq(Tokens) /\ rest \in Seq(Tokens)
         /\ \A k \in 1 .. Len(buf) : \A i \in ended : Sure(i) => i < buf[k][2]
         /\ \A k \in 1 .. Len(rest) :
              rest[k][2] <= step /\ \A i \in ended : Sure(i) => i < rest[k][2]
         /\ pager # 0 => \A k \in 1 .. Len(rest) : rest[k][1] # "mark"
         /\ Stops(buf, step) => pager = 0
         /\ Stops(buf, step) /\ Sure(step) =>
              /\ rest = <<>>
              /\ task.strategy = "interactive_shell" => FromEcho(buf, step)
<1> DEFINE w == Len(wire)
           m == Len(reply)
<1>1. /\ step \in Nat \ {0} /\ wire \in Seq(Tokens) /\ pager \in Nat /\ w \in Nat
      /\ ended \subseteq 1 .. step - 1 /\ pager < step
      /\ pager # 0 => task.strategy = "interactive_shell" /\ \A i \in ended : i < pager
      /\ \A k \in 1 .. w : wire[k][2] < step /\ \A i \in ended : Sure(i) => i < wire[k][2]
      /\ pager # 0 => \A k \in 1 .. w : wire[k][1] # "mark"
      /\ step > 1 /\ task.strategy = "interactive_shell" /\ Distinct(1) /\ ~failed => wire = <<>>
  BY CommandFacts
<1>2. /\ reply \in Seq(Tokens) /\ m \in Nat \ {0}
      /\ \A k \in 1 .. m : reply[k][2] <= step /\ \A i \in ended : i < reply[k][2]
      /\ pager # 0 => m = 1 /\ reply[1][1] = "output"
      /\ pager = 0 =>
           /\ \A k \in 1 .. m : reply[k][1] = "mark" => k = m
           /\ reply[1] = <<"echo", step>> /\ reply[m] = <<"mark", step>>
  <2>1. CASE pager # 0
    <3>1. reply = <<<<"output", pager>>>>  BY <2>1 DEF Replies
    <3>2. <<"output", pager>> \in Tokens  BY <1>1 DEF Tokens
    <3> QED  BY <1>1, <2>1, <3>1, <3>2
  <2>2. CASE pager = 0
    <3>1. /\ <<"echo", step>> \in Tokens /\ <<"output", step>> \in Tokens
          /\ <<"mark", step>> \in Tokens
      BY <1>1 DEF Tokens
    <3>2. CASE reply = <<<<"echo", step>>, <<"mark", step>>>>
      <4>1. m = 2 /\ reply[1] = <<"echo", step>> /\ reply[2] = <<"mark", step>>  BY <3>2
      <4>2. reply \in Seq(Tokens)  BY <3>1, <3>2
      <4> QED  BY <1>1, <2>2, <4>1, <4>2
    <3>3. CASE reply = <<<<"echo", step>>, <<"output", step>>, <<"mark", step>>>>
      <4>1. m = 3 /\ reply[1] = <<"echo", step>> /\ reply[2] = <<"output", step>>
            /\ reply[3] = <<"mark", step>>
        BY <3>3
      <4>2. reply \in Seq(Tokens)  BY <3>1, <3>3
      <4> QED  BY <1>1, <2>2, <4>1, <4>2
    <3> QED  BY <2>2, <3>2, <3>3 DEF Replies
  <2> QED  BY <2>1, <2>2
<1>3. /\ all \in Seq(Tokens) /\ Len(all) = w + m
      /\ \A k \in 1 .. w : all[k] = wire[k]
      /\ \A k \in w + 1 .. w + m : all[k] = reply[k - w] /\ k - w \in 1 .. m
  BY <1>1, <1>2
<1>4. \A k \in 1 .. Len(all) :
        /\ all[k][2] <= step /\ \A i \in ended : Sure(i) => i < all[k][2]
        /\ pager # 0 => all[k][1] # "mark"
  <2> SUFFICES ASSUME NEW k \in 1 .. Len(all)
               PROVE  /\ all[k][2] <= step /\ \A i \in ended : Sure(i) => i < all[k][2]
                      /\ pager # 0 => all[k][1] # "mark"
    OBVIOUS
  <2>1. CASE k \in 1 .. w
    <3>1. wire[k][2] \in Nat  BY <1>1, <2>1 DEF Tokens
    <3> QED  BY <1>1, <1>3, <2>1, <3>1
  <2>2. CASE k \in w + 1 .. w + m
    <3>1. k - w \in 1 .. m /\ all[k] = reply[k - w]  BY <1>3, <2>2
    <3>2. pager # 0 => reply[k - w][1] # "mark"
      <4>1. ASSUME pager # 0 PROVE k - w = 1
        <5>1. m = 1  BY <1>2, <4>1
        <5>2. k - w \in 1 .. 1  BY <3>1, <5>1
        <5> HIDE DEF w, m
        <5> QED  BY <5>2
      <4> QED  BY <1>2, <4>1
    <3> QED  BY <1>2, <3>1, <3>2
  <2> QED  BY <1>1, <1>2, <1>3, <2>1, <2>2
<1>5. /\ buf \in Seq(Tokens) /\ Len(buf) = n /\ \A k \in 1 .. n : buf[k] = all[k]
  BY <1>3
<1>6. /\ rest \in Seq(Tokens) /\ Len(rest) = Len(all) - n
      /\ \A k \in 1 .. Len(rest) : rest[k] = all[n + k] /\ n + k \in 1 .. Len(all)
  <2> HIDE DEF w, m
  <2> DEFINE z == Len(all)
  <2>1. z \in Nat /\ n \in 0 .. z /\ all \in Seq(Tokens)  BY <1>3
  <2>2. rest = SubSeq(all, n + 1, z)  OBVIOUS
  <2> HIDE DEF z
  <2>3. \A k \in n + 1 .. z : k \in 1 .. Len(all)  BY <2>1 DEF z
  <2>4. rest \in Seq(Tokens)  BY <2>1, <2>2, <2>3
  <2>5. Len(rest) = z - n
    <3>1. \A i \in n + 1 .. z : all[i] \in Tokens  BY <2>1, <2>3
    <3>2. n + 1 \in Int /\ z \in Int  BY <2>1
    <3>3. Len(SubSeq(all, n + 1, z)) = IF n + 1 <= z THEN z - (n + 1) + 1 ELSE 0
      BY ONLY <3>1, <3>2, SubSeqProperties
    <3>4. Len(rest) = IF n + 1 <= z THEN z - (n + 1) + 1 ELSE 0
      BY ONLY <2>2, <3>3, Zenon
    <3> QED  BY ONLY <2>1, <3>4
  <2>6. \A k \in 1 .. z - n : rest[k] = all[n + k] /\ n + k \in 1 .. z  BY <2>1, <2>2
  <2> QED  BY <2>4, <2>5, <2>6 DEF z
<1>10. ASSUME Stops(buf, step)
       PROVE  /\ n \in 1 .. Len(all) /\ buf[Len(buf)] = all[n] /\ Len(buf) > 0
              /\ pager = 0
              /\ task.strategy # "interactive_shell" => all[n] = <<"mark", step>>
  <2>1. n \in 1 .. Len(all) /\ Last(buf) = all[n] /\ Len(buf) > 0 /\ buf[Len(buf)] = Last(buf)
    <3>1. buf # <<>>  BY <1>10 DEF Stops
    <3>2. n # 0  BY <1>5, <3>1
    <3> QED  BY <1>3, <1>5, <3>2 DEF Last
  <2>2. Last(buf)[1] = "mark"
    <3>1. CASE task.strategy = "interactive_shell"  BY <1>10, <3>1 DEF Stops
    <3>2. CASE task.strategy # "interactive_shell"  BY <1>10, <3>2 DEF Stops
    <3> QED  BY <3>1, <3>2
  <2>3. pager = 0  BY <1>4, <2>1, <2>2
  <2>4. task.strategy # "interactive_shell" => Last(buf) = <<"mark", step>>  BY <1>10 DEF Stops
  <2> QED  BY <2>1, <2>3, <2>4
<1>7. ASSUME Stops(buf, step), Sure(step)
      PROVE  /\ rest = <<>>
             /\ task.strategy = "interactive_shell" => FromEcho(buf, step)
  <2> HIDE DEF w, m
  <2> SUFFICES /\ n = w + m
               /\ task.strategy = "interactive_shell" => FromEcho(buf, step)
    <3>1. ASSUME n = w + m PROVE rest = <<>>
      <4>1. Len(rest) = 0  BY <1>1, <1>2, <1>3, <1>6, <3>1 DEF w, m
      <4> QED  BY <1>6, <4>1
    <3> QED  BY <3>1
  <2>1. n \in 1 .. Len(all) /\ buf[Len(buf)] = all[n] /\ Len(buf) > 0 /\ pager = 0
    BY <1>7, <1>10
  <2>2. CASE task.strategy = "interactive_shell"
    <3>1. PICK k \in 1 .. Len(buf) : buf[k] \in task.shows[step]
      <4>1. Echoed(buf, step)  BY <1>7, <2>2 DEF Stops
      <4>2. DOMAIN buf = 1 .. Len(buf)  BY <1>5
      <4> QED  BY <4>1, <4>2 DEF Echoed
    <3>2. k \in 1 .. n /\ buf[k] = all[k] /\ k \in 1 .. w + m
      <4>1. k \in 1 .. n /\ buf[k] = all[k]  BY <1>5, <3>1
      <4>2. n <= w + m /\ n \in Nat /\ w + m \in Nat  BY <1>1, <1>2, <1>3, <2>1 DEF w, m
      <4> QED  BY <4>1, <4>2
    <3>3. k \notin 1 .. w
      <4>1. CASE Distinct(step)
        <5>1. all[k][2] >= step  BY <2>2, <3>1, <3>2, <4>1 DEF Distinct
        <5>2. ASSUME k \in 1 .. w PROVE FALSE
          <6>1. wire[k][2] < step /\ wire[k] = all[k]  BY <1>1, <1>3, <5>2 DEF w
          <6>2. wire[k][2] \in Nat  BY <1>1, <5>2 DEF w, Tokens
          <6> QED  BY <1>1, <5>1, <6>1, <6>2
        <5> QED  BY <5>2
      <4>2. CASE ~Distinct(step)
        <5>1. Distinct(1) /\ ~failed /\ step # 1  BY <1>7, <4>2 DEF Sure
        <5>2. wire = <<>>  BY <1>1, <2>2, <5>1
        <5>3. w = 0  BY <5>2 DEF w
        <5> QED  BY <5>3
      <4> QED  BY <4>1, <4>2
    <3>4. n \in w + 1 .. w + m  BY <1>1, <1>2, <1>3, <2>1, <3>2, <3>3 DEF w, m
    <3>5. all[n] = reply[n - w] /\ n - w \in 1 .. m /\ all[n][1] = "mark"
      <4>1. Last(buf)[1] = "mark"  BY <1>7, <2>2 DEF Stops
      <4>2. Last(buf) = all[n]  BY <2>1 DEF Last
      <4> QED  BY <1>3, <3>4, <4>1, <4>2
    <3>6. n - w = m  BY <1>2, <2>1, <3>5
    <3>7. n = w + m  BY <1>1, <1>2, <3>4, <3>6 DEF w, m
    <3>8. buf[w + 1] = <<"echo", step>> /\ w + 1 \in 1 .. Len(buf)
      <4>1. w + 1 \in w + 1 .. w + m /\ w + 1 \in 1 .. n  BY <1>1, <1>2, <3>7 DEF w, m
      <4>2. all[w + 1] = reply[(w + 1) - w]  BY <1>3, <4>1
      <4>3. (w + 1) - w = 1  BY <1>1 DEF w
      <4> QED  BY <1>2, <1>5, <2>1, <4>1, <4>2, <4>3
    <3>9. buf[Len(buf)] = <<"mark", step>>  BY <1>2, <2>1, <3>5, <3>6
    <3> QED  BY <2>1, <3>7, <3>8, <3>9 DEF FromEcho
  <2>3. CASE task.strategy # "interactive_shell"
    <3>1. all[n] = <<"mark", step>>  BY <1>7, <1>10, <2>3
    <3>3. n \notin 1 .. w
      <4>1. ASSUME n \in 1 .. w PROVE FALSE
        <5>1. wire[n][2] < step /\ wire[n] = <<"mark", step>>  BY <1>1, <1>3, <3>1, <4>1 DEF w
        <5> QED  BY <1>1, <5>1
      <4> QED  BY <4>1
    <3>4. n \in w + 1 .. w + m /\ n - w \in 1 .. m /\ reply[n - w] = <<"mark", step>>
      BY <1>1, <1>2, <1>3, <2>1, <3>1, <3>3 DEF w, m
    <3>5. reply[n - w][1] = "mark"  BY <3>4
    <3>6. n - w = m  BY <1>2, <2>1, <3>4, <3>5
    <3>7. n = w + m  BY <1>1, <1>2, <3>4, <3>6 DEF w, m
    <3> QED  BY <2>3, <3>7
  <2> QED  BY <2>2, <2>3
<1> HIDE DEF w, m
<1>8. \A k \in 1 .. Len(buf) : \A i \in ended : Sure(i) => i < buf[k][2]
  <2>1. Len(all) \in Nat  BY <1>3
  <2>2. \A k \in 1 .. n : k \in 1 .. Len(all)  BY <2>1
  <2> QED  BY <1>4, <1>5, <2>2
<1>9. \A k \in 1 .. Len(rest) :
        /\ rest[k][2] <= step /\ \A i \in ended : Sure(i) => i < rest[k][2]
        /\ pager # 0 => rest[k][1] # "mark"
  BY <1>4, <1>6
<1> QED  BY <1>5, <1>6, <1>7, <1>8, <1>9, <1>10

(* A shell command: it succeeds in an interactive shell only if its read   *)
(* ended at its own mark.                                                  *)
LEMMA ReadCommandOK ==
  ASSUME IInv, ShellCommand \/ TerminalCommand, UNCHANGED bmcVars
  PROVE  IInv'
<1>1. /\ pc = "command" /\ step <= Len(task.commands) /\ task.strategy \in Shells
      /\ ReadCommand
  BY DEF ShellCommand, TerminalCommand, AtCommand, Shells
<1>2. PICK reply \in Replies :
        \E n \in 0 .. Len(wire \o reply) :
          LET all == wire \o reply
              buf == SubSeq(all, 1, n) IN
          /\ wire' = SubSeq(all, n + 1, Len(all))
          /\ \E status \in IF task.strategy = "interactive_shell"
                           THEN ShellStatus(buf, step) ELSE TerminalStatus : Logs(buf, status)
          /\ ended' = IF Stops(buf, step) THEN ended \cup {step} ELSE ended
          /\ UNCHANGED pager
  BY <1>1 DEF ReadCommand
<1> DEFINE all == wire \o reply
<1>3. PICK n \in 0 .. Len(all) :
        /\ wire' = SubSeq(all, n + 1, Len(all))
        /\ \E status \in IF task.strategy = "interactive_shell"
                         THEN ShellStatus(SubSeq(all, 1, n), step)
                         ELSE TerminalStatus : Logs(SubSeq(all, 1, n), status)
        /\ ended' = IF Stops(SubSeq(all, 1, n), step) THEN ended \cup {step} ELSE ended
        /\ UNCHANGED pager
  BY <1>2, Zenon
<1> DEFINE buf == SubSeq(all, 1, n)
           rest == SubSeq(all, n + 1, Len(all))
<1>4. /\ wire' = rest /\ pager' = pager
      /\ ended' = IF Stops(buf, step) THEN ended \cup {step} ELSE ended
  BY <1>3
<1>11. PICK status \in IF task.strategy = "interactive_shell"
                      THEN ShellStatus(buf, step) ELSE TerminalStatus : Logs(buf, status)
  BY <1>3
<1>5. /\ buf \in Seq(Tokens) /\ rest \in Seq(Tokens)
      /\ \A k \in 1 .. Len(buf) : \A i \in ended : Sure(i) => i < buf[k][2]
      /\ \A k \in 1 .. Len(rest) :
           rest[k][2] <= step /\ \A i \in ended : Sure(i) => i < rest[k][2]
      /\ pager # 0 => \A k \in 1 .. Len(rest) : rest[k][1] # "mark"
      /\ Stops(buf, step) => pager = 0
      /\ Stops(buf, step) /\ Sure(step) =>
           /\ rest = <<>>
           /\ task.strategy = "interactive_shell" => FromEcho(buf, step)
  BY <1>1, ReadIs
<1> HIDE DEF all, buf, rest
<1>6. status = "SUCCESS" /\ task.strategy = "interactive_shell" => Stops(buf, step)
  BY <1>11 DEF ShellStatus
<1>7. task.strategy # "exec_command"  BY <1>1 DEF Shells
<1>8. \/ ended' = ended
      \/ /\ ended' = ended \cup {step} /\ pager = 0
         /\ Sure(step) =>
              /\ wire' = <<>>
              /\ task.strategy = "interactive_shell" => FromEcho(buf, step)
  BY <1>4, <1>5
<1>9. status = "SUCCESS" /\ task.strategy = "interactive_shell" =>
         step \in ended' \/ pager' = step
  BY <1>4, <1>6
<1>10. /\ wire' \in Seq(Tokens)
       /\ \A k \in 1 .. Len(wire') :
            wire'[k][2] <= step /\ \A i \in ended : Sure(i) => i < wire'[k][2]
       /\ pager' # 0 => \A k \in 1 .. Len(wire') : wire'[k][1] # "mark"
  BY <1>4, <1>5
<1>12. task.strategy = "interactive_shell" /\ Distinct(1) /\ ~failed /\ status = "SUCCESS" =>
          wire' = <<>>
  BY <1>4, <1>5, <1>6 DEF Sure
<1> QED
  BY <1>1, <1>5, <1>7, <1>8, <1>9, <1>10, <1>11, <1>12, <1>4, LogStep

(* The pager that stays on belongs to the command whose pages were too     *)
(* many: what it shows later is later than all that ended.                 *)
LEMMA TooManyPagesOK ==
  ASSUME IInv, TooManyPages, UNCHANGED bmcVars
  PROVE  IInv'
<1> DEFINE more == <<<<"echo", step>>, <<"output", step>>>>
           buf == wire \o more
<1>1. /\ pc = "command" /\ step <= Len(task.commands) /\ task.strategy = "interactive_shell"
      /\ pager = 0 /\ Logs(buf, "SUCCESS") /\ wire' = <<>> /\ pager' = step /\ ended' = ended
  BY DEF TooManyPages, AtCommand
<1>2. /\ step \in Nat \ {0} /\ wire \in Seq(Tokens) /\ ended \subseteq 1 .. step - 1
      /\ \A k \in 1 .. Len(wire) : wire[k][2] < step /\ \A i \in ended : Sure(i) => i < wire[k][2]
  BY <1>1, CommandFacts
<1>3. more \in Seq(Tokens) /\ Len(more) = 2
  <2>1. <<"echo", step>> \in Tokens /\ <<"output", step>> \in Tokens  BY <1>2 DEF Tokens
  <2> QED  BY <2>1
<1>4. \A k \in 1 .. 2 : more[k][2] = step
  <2> SUFFICES ASSUME NEW k \in 1 .. 2 PROVE more[k][2] = step  OBVIOUS
  <2>1. more[1] = <<"echo", step>> /\ more[2] = <<"output", step>>  OBVIOUS
  <2>2. k = 1 \/ k = 2  OBVIOUS
  <2>3. more[k] = <<"echo", step>> \/ more[k] = <<"output", step>>  BY <2>1, <2>2
  <2> QED  BY <2>3
<1> HIDE DEF more
<1>5. buf \in Seq(Tokens) /\ \A k \in 1 .. Len(buf) : \A i \in ended : Sure(i) => i < buf[k][2]
  <2>1. buf \in Seq(Tokens) /\ Len(buf) = Len(wire) + 2 /\ Len(wire) \in Nat
    <3>1. Len(wire) \in Nat  BY <1>2
    <3>2. buf \in Seq(Tokens)  BY <1>2, <1>3
    <3>3. wire \in Seq(Tokens) /\ more \in Seq(Tokens)  BY <1>2, <1>3
    <3>4. Len(buf) = Len(wire) + Len(more)  BY ONLY <3>3, ConcatProperties
    <3> QED  BY <1>3, <3>1, <3>2, <3>4
  <2>2. ASSUME NEW k \in 1 .. Len(buf), NEW i \in ended, Sure(i) PROVE i < buf[k][2]
    <3>1. CASE k \in 1 .. Len(wire)
      <4>1. buf[k] = wire[k]  BY <1>2, <1>3, <3>1
      <4> QED  BY <1>2, <2>2, <3>1, <4>1
    <3>2. CASE k - Len(wire) \in 1 .. 2
      <4>1. buf[k] = more[k - Len(wire)]  BY <1>2, <1>3, <2>1, <3>2
      <4>2. more[k - Len(wire)][2] = step  BY <1>4, <3>2
      <4>3. i < step  BY <1>2
      <4> QED  BY <4>1, <4>2, <4>3
    <3> QED  BY <2>1, <2>2, <3>1, <3>2
  <2> QED  BY <2>1, <2>2
<1> HIDE DEF buf
<1>6. wire' \in Seq(Tokens) /\ Len(wire') = 0  BY <1>1
<1>7. task.strategy # "exec_command"  BY <1>1
<1> QED  BY <1>1, <1>5, <1>6, <1>7, LogStep

LEMMA SkipCommandOK ==
  ASSUME IInv, SkipCommand, UNCHANGED bmcVars
  PROVE  IInv'
<1>1. /\ pc = "command" /\ step <= Len(task.commands)
      /\ wire' = wire /\ ended' = ended /\ pager' = pager
  BY DEF SkipCommand, AtCommand
<1>2. PICK status \in {"FAILED", "TIMEOUT"} : Logs(<<>>, status)
  BY DEF SkipCommand
<1>3. /\ step \in Nat \ {0} /\ wire \in Seq(Tokens)
      /\ task.strategy = "exec_command" => wire = <<>>
      /\ pager # 0 => \A k \in 1 .. Len(wire) : wire[k][1] # "mark"
      /\ \A k \in 1 .. Len(wire) : wire[k][2] < step /\ \A i \in ended : Sure(i) => i < wire[k][2]
  BY <1>1, CommandFacts
<1>4. \A k \in 1 .. Len(wire) : wire[k][2] <= step
  <2>1. \A k \in 1 .. Len(wire) : wire[k][2] \in Nat  BY <1>3 DEF Tokens
  <2> QED  BY <1>3, <2>1
<1> DEFINE buf == <<>>
<1>5. buf \in Seq(Tokens) /\ Len(buf) = 0 /\ Logs(buf, status)  BY <1>2
<1> HIDE DEF buf
<1>6. \A k \in 1 .. Len(buf) : \A i \in ended : Sure(i) => i < buf[k][2]  BY <1>5
<1>7. /\ wire' \in Seq(Tokens)
      /\ task.strategy = "exec_command" => wire' = <<>>
      /\ pager' # 0 => \A k \in 1 .. Len(wire') : wire'[k][1] # "mark"
      /\ \A k \in 1 .. Len(wire') : wire'[k][2] <= step /\ \A i \in ended : Sure(i) => i < wire'[k][2]
  BY <1>1, <1>3, <1>4
<1>8. status # "SUCCESS"  BY <1>2
<1> QED  BY <1>1, <1>5, <1>6, <1>7, <1>8, LogStep

(* A command of exec_command, with a channel of its own.                   *)
LEMMA ExecCommandOK ==
  ASSUME IInv, ExecCommand, UNCHANGED bmcVars
  PROVE  IInv'
<1>1. /\ pc = "command" /\ pc' = "drain" /\ step <= Len(task.commands)
      /\ task.strategy = "exec_command" /\ res' = res
      /\ UNCHANGED <<task, attempt, retries, step>> /\ UNCHANGED sshVars
  BY DEF ExecCommand, AtCommand, Moves, Goes
<1>2. pc \in SSHStages /\ pc' \in SSHStages /\ task.kind = "SSH"
  BY <1>1, CommandFacts DEF SSHStages, Guarded
<1>3. CommandsOK'
  BY <1>1, <1>2 DEF IInv, SSHInv, CommandsOK, sshVars, SSHStages, Guarded, Stages
<1>4. WireOK'
  BY <1>1, <1>2 DEF IInv, SSHInv, WireOK, Sure, Distinct, sshVars, SSHStages, Guarded
<1>5. OwnOK'  BY <1>1 DEF IInv, SSHInv, OwnOK, Sure, Distinct, sshVars
<1>6. WholeOK'  BY <1>1 DEF WholeOK
<1> QED
  BY <1>1, <1>2, <1>3, <1>4, <1>5, <1>6, SSHFrame, SSHFacts DEF SSHInv, sshVars

(* Its reading.                                                            *)
LEMMA DrainOK ==
  ASSUME IInv, Drain, UNCHANGED bmcVars
  PROVE  IInv'
<1>0. pc = "drain"  BY DEF Drain
<1>1. /\ pc' = "status" /\ step <= Len(task.commands)
      /\ task.strategy = "exec_command" /\ res' = res
      /\ UNCHANGED <<task, attempt, retries, step>>
      /\ UNCHANGED <<wire, failed, late, ended, pager>>
  <2>1. step <= Len(task.commands) /\ task.strategy = "exec_command"
    BY <1>0 DEF IInv, SSHInv, CommandsOK, SSHStages, Guarded
  <2> QED  BY <2>1 DEF Drain, Moves, Goes
<1>2. PICK buf \in {<<>>, <<<<"output", step>>>>} : outputs' = Append(outputs, buf)
  BY DEF Drain
<1>3. /\ task.kind = "SSH" /\ pc \in SSHStages
      /\ Len(task.commands) \in Nat /\ step \in Nat \ {0} /\ res \in Results
      /\ wire \in Seq(Tokens) /\ outputs \in Seq(Seq(Tokens))
      /\ failed \in BOOLEAN /\ late \in BOOLEAN /\ pager \in Nat /\ Len(outputs) = step - 1
      /\ ended \subseteq 1 .. step - 1 /\ pager < step /\ wire = <<>>
      /\ pager # 0 => task.strategy = "interactive_shell" /\ \A i \in ended : i < pager
  BY <1>0, <1>1, CommandFacts
<1>4. buf \in Seq(Tokens) /\ \A k \in 1 .. Len(buf) : buf[k][2] = step
  <2>1. CASE buf = <<>>  BY <2>1
  <2>2. CASE buf = <<<<"output", step>>>>
    <3>1. <<"output", step>> \in Tokens  BY <1>3 DEF Tokens
    <3>2. Len(buf) = 1 /\ buf[1] = <<"output", step>> /\ buf \in Seq(Tokens)  BY <2>2, <3>1
    <3> QED  BY <3>2
  <2> QED  BY <1>2, <2>1, <2>2
<1>5. /\ outputs' \in Seq(Seq(Tokens)) /\ Len(outputs') = step
      /\ \A j \in 1 .. step - 1 : outputs'[j] = outputs[j]
      /\ outputs'[step] = buf
  BY <1>2, <1>3, <1>4
<1>6. CommandsOK'
  BY <1>1, <1>3, <1>5 DEF CommandsOK, SSHStages, Guarded, Stages
<1>7. WireOK'
  <2>1. Len(wire') = 0  BY <1>1, <1>3
  <2> QED  BY <1>1, <1>3, <2>1 DEF WireOK
<1>8. OwnOK'
  <2>0. \A i : Sure(i)' => Sure(i)  BY <1>1 DEF Sure, Distinct
  <2> SUFFICES ASSUME NEW i \in ended, i \in 1 .. step, Sure(i), NEW j \in i + 1 .. step,
                      NEW k \in 1 .. Len(outputs'[j])
               PROVE  i < outputs'[j][k][2]
    BY <1>1, <1>5, <2>0 DEF OwnOK
  <2>1. CASE j = step  BY <1>3, <1>4, <1>5, <2>1
  <2>2. CASE j # step
    <3>1. j \in i + 1 .. step - 1 /\ j \in 1 .. step - 1 /\ i \in 1 .. step - 1
      BY <1>3, <2>2
    <3>2. outputs'[j] = outputs[j]  BY <1>5, <3>1
    <3> QED  BY <1>3, <3>1, <3>2 DEF IInv, SSHInv, OwnOK
  <2> QED  BY <2>1, <2>2
<1>9. WholeOK'  BY <1>1 DEF WholeOK
<1>10. pc' \in SSHStages  BY <1>1 DEF SSHStages, Guarded
<1> QED
  BY <1>1, <1>3, <1>5, <1>6, <1>7, <1>8, <1>9, <1>10, SSHFrame DEF SSHInv, IInv, Types

(* Its end, whose output was read before.                                  *)
LEMMA ExitStatusOK ==
  ASSUME IInv, ExitStatus, UNCHANGED bmcVars
  PROVE  IInv'
<1>1. /\ pc = "status" /\ pc' = "command" /\ step' = step + 1 /\ res' = res
      /\ UNCHANGED <<task, attempt, retries, wire, outputs, pager>>
      /\ ended' \in {ended, ended \cup {step}}
      /\ \E status \in {"SUCCESS", "FAILED", "TIMEOUT"} : Notes(status)
  BY DEF ExitStatus, Goes
<1>2. /\ task.kind = "SSH" /\ pc \in SSHStages
      /\ Len(task.commands) \in Nat /\ step \in Nat \ {0} /\ res \in Results
      /\ wire \in Seq(Tokens) /\ outputs \in Seq(Seq(Tokens))
      /\ failed \in BOOLEAN /\ late \in BOOLEAN /\ pager \in Nat /\ Len(outputs) = step
      /\ ended \subseteq 1 .. step - 1 /\ pager < step
      /\ pager # 0 => task.strategy = "interactive_shell" /\ \A i \in ended : i < pager
      /\ task.strategy = "exec_command" => wire = <<>>
  BY <1>1, CommandFacts
<1>3. step <= Len(task.commands) /\ task.strategy = "exec_command"
  BY <1>1, <1>2 DEF IInv, SSHInv, CommandsOK, SSHStages, Guarded
<1>4. failed' \in BOOLEAN /\ late' \in BOOLEAN  BY <1>1, <1>2 DEF Notes
<1>5. ended' \subseteq 1 .. step /\ ended' \subseteq Nat  BY <1>1, <1>2
<1>6. CommandsOK'
  BY <1>1, <1>2, <1>3, <1>5 DEF CommandsOK, SSHStages, Guarded, Stages
<1>7. WireOK'
  <2>1. wire' = <<>> /\ Len(wire') = 0  BY <1>1, <1>2, <1>3
  <2> QED  BY <1>1, <2>1 DEF WireOK
<1>8. OwnOK'
  <2>0. \A i : Sure(i)' => Sure(i)
    <3>1. failed => failed'  BY <1>1, <1>2 DEF Notes
    <3>2. \A i : Distinct(i)' = Distinct(i)  BY <1>1 DEF Distinct
    <3> QED  BY <3>1, <3>2 DEF Sure
  <2> SUFFICES ASSUME NEW i \in ended', i \in 1 .. step, Sure(i), NEW j \in i + 1 .. step,
                      NEW k \in 1 .. Len(outputs[j])
               PROVE  i < outputs[j][k][2]
    BY <1>1, <1>2, <1>3, <2>0 DEF OwnOK
  <2>1. i # step  BY <1>2
  <2>2. i \in ended  BY <1>1, <2>1
  <2> QED  BY <1>2, <2>2 DEF IInv, SSHInv, OwnOK
<1>9. WholeOK'  BY <1>1, <1>3 DEF WholeOK
<1>10. pc' \in SSHStages /\ step' \in Nat \ {0}  BY <1>1, <1>2 DEF SSHStages, Guarded
<1> QED
  BY <1>1, <1>2, <1>4, <1>5, <1>6, <1>7, <1>8, <1>9, <1>10, SSHFrame DEF SSHInv

LEMMA NoMoreCommandsOK ==
  ASSUME IInv, NoMoreCommands, UNCHANGED bmcVars
  PROVE  IInv'
<1>1. /\ pc = "command" /\ pc' = "judge" /\ step > Len(task.commands) /\ res' = res
      /\ wire' = <<>> /\ UNCHANGED <<task, attempt, retries, step>>
      /\ UNCHANGED <<outputs, failed, late, ended, pager>>
  BY DEF NoMoreCommands, Moves, Goes
<1>2. task.kind = "SSH" /\ pc \in SSHStages /\ Len(task.commands) \in Nat /\ step \in Nat
  BY <1>1, CommandFacts
<1>3. CommandsOK'
  <2>1. step <= Len(task.commands) + 1
    BY <1>1 DEF IInv, SSHInv, CommandsOK, SSHStages, Guarded
  <2>2. step = Len(task.commands) + 1  BY <1>1, <1>2, <2>1
  <2> QED  BY <1>1, <2>2 DEF IInv, SSHInv, CommandsOK, SSHStages, Guarded, Stages
<1>4. wire' \in Seq(Tokens) /\ Len(wire') = 0  BY <1>1
<1>5. WireOK'  BY <1>1, <1>4 DEF WireOK
<1>6. OwnOK' /\ WholeOK'
  BY <1>1 DEF IInv, SSHInv, OwnOK, Sure, Distinct, WholeOK, Whole
<1>7. pc' \in SSHStages  BY <1>1 DEF SSHStages, Guarded
<1> QED
  BY <1>1, <1>2, <1>3, <1>4, <1>5, <1>6, <1>7, SSHFrame, SSHFacts DEF SSHInv

LEMMA DisconnectOK ==
  ASSUME IInv, Disconnect, UNCHANGED bmcVars
  PROVE  IInv'
<1>1. /\ pc = "disconnect" /\ pc' = "attempted" /\ wire' = <<>> /\ outputs' = <<>>
      /\ UNCHANGED <<task, attempt, retries, step>> /\ UNCHANGED <<failed, late, ended, pager>>
      /\ res' \in {res, [res EXCEPT !.artifact = "ARTIFACT_FAILED"]}
  BY DEF Disconnect, Moves, Goes
<1>2. task.kind = "SSH" /\ pc \in SSHStages /\ pc' \notin SSHStages /\ res \in Results
  BY <1>1 DEF IInv, Types, SSHStages, Guarded
<1>3. res' \in Results /\ res'.status = res.status
  <2>1. "ARTIFACT_FAILED" \in Artifacts  BY DEF Artifacts
  <2> QED  BY <1>1, <1>2, <2>1 DEF Results
<1>4. /\ wire' \in Seq(Tokens) /\ outputs' \in Seq(Seq(Tokens)) /\ Len(outputs') = 0
  BY <1>1
<1>5. CommandsOK' /\ WireOK' /\ OwnOK'
  BY <1>1, <1>2, <1>4 DEF CommandsOK, WireOK, OwnOK
<1>6. WholeOK'  BY <1>1, <1>3 DEF IInv, SSHInv, WholeOK, Whole
<1> QED
  BY <1>1, <1>2, <1>3, <1>4, <1>5, <1>6, SSHFrame, SSHFacts DEF SSHInv

LEMMA SSHStepKeeps ==
  ASSUME IInv, SSHStep, UNCHANGED bmcVars
  PROVE  IInv'
BY SSHCallOK, ConnectOK, OpenSessionOK, SSHRaisesOK, ReadCommandOK, TooManyPagesOK,
   SkipCommandOK, ExecCommandOK, DrainOK, ExitStatusOK, NoMoreCommandsOK, JudgeOK, ConcludeOK,
   DisconnectOK
   DEF SSHStep

-----------------------------------------------------------------------------
(* The theorems.                                                           *)

LEMMA InitKeeps ==
  ASSUME Init
  PROVE  IInv
<1>1. /\ task \in Tasks /\ pc = "idle" /\ res = NewResult /\ step = 1 /\ attempt = 0
      /\ retries = task.retries /\ page = "none" /\ caller = "executor"
      /\ losses = 0 /\ submits = 0 /\ refused = FALSE /\ settled = FALSE /\ stumbled = FALSE
      /\ browser = NoBrowser /\ orphans = 0
      /\ wire = <<>> /\ outputs = <<>> /\ failed = FALSE /\ late = FALSE
      /\ ended = {} /\ pager = 0
  BY DEF Init, RetryInit, BMCInit, BrowserInit, SSHInit
<1>2. task.retries \in Nat  BY <1>1, TasksAssumption
<1>3. pc \notin Stages \cup SSHStages \cup {"close", "attempted", "done"}
  BY <1>1 DEF Stages, SSHStages, Guarded
<1>4. wire \in Seq(Tokens) /\ outputs \in Seq(Seq(Tokens)) /\ Len(outputs) = 0
  BY <1>1
<1>5. Types
  <2>1. res \in Results  BY <1>1, NewResultIs
  <2>2. losses \in 0 .. MaxLosses  BY <1>1, MaxLossesAssumption
  <2>3. browser \in [process : {"none", "runs", "dead"}, tasks : Nat, signedIn : BOOLEAN]
    BY <1>1 DEF NoBrowser
  <2>4. page \in Pages  BY <1>1 DEF Pages
  <2>5. /\ step \in Nat \ {0} /\ attempt \in Nat /\ retries \in Nat
        /\ submits \in Nat /\ orphans \in Nat /\ pager \in Nat /\ ended \subseteq Nat
    BY <1>1, <1>2
  <2>6. /\ refused \in BOOLEAN /\ settled \in BOOLEAN /\ stumbled \in BOOLEAN
        /\ failed \in BOOLEAN /\ late \in BOOLEAN
    BY <1>1
  <2>7. pc \in {"idle", "call", "attempted", "done", "close"} /\ caller \in {"executor", "flow"}
        /\ caller = "executor"
    BY <1>1
  <2> QED
    BY <1>1, <1>3, <1>4, <2>1, <2>2, <2>3, <2>4, <2>5, <2>6, <2>7 DEF Types
<1>6. AttemptsOK  BY <1>1, <1>2 DEF AttemptsOK
<1>7. BMCInv
  BY <1>1, <1>3
     DEF BMCInv, SubmitsOK, Unspent, RefusedOK, StumbledOK, ArtifactOK, SettledOK, BMCEnds
<1>8. SSHInv
  BY <1>1, <1>3, <1>4 DEF SSHInv, CommandsOK, WireOK, OwnOK, WholeOK
<1> QED  BY <1>5, <1>6, <1>7, <1>8 DEF IInv

LEMMA StepKeeps ==
  ASSUME IInv, [Next]_vars
  PROVE  IInv'
<1>1. CASE Begin /\ UNCHANGED <<bmcVars, sshVars>>  BY <1>1, BeginOK
<1>2. CASE Decide /\ UNCHANGED <<bmcVars, sshVars>>  BY <1>2, DecideOK
<1>3. CASE BMCStep /\ UNCHANGED sshVars  BY <1>3, BMCStepKeeps
<1>4. CASE SSHStep /\ UNCHANGED bmcVars  BY <1>4, SSHStepKeeps
<1>5. CASE SessionLost /\ UNCHANGED sshVars  BY <1>5, SessionLostOK
<1>6. CASE Between /\ UNCHANGED sshVars  BY <1>6, BetweenOK
<1>7. CASE UNCHANGED vars
  <2> USE DEF vars, retryVars, bmcVars, browserVars, sshVars
  <2>1. Types' /\ AttemptsOK'  BY <1>7 DEF IInv, Types, AttemptsOK
  <2>2. BMCInv'
    BY <1>7 DEF IInv, BMCInv, SubmitsOK, Unspent, RefusedOK, StumbledOK, ArtifactOK,
                SettledOK, Flawed
  <2>3. CommandsOK' /\ WholeOK'  BY <1>7 DEF IInv, SSHInv, CommandsOK, WholeOK, Whole
  <2>4. WireOK'  BY <1>7 DEF IInv, SSHInv, WireOK, Sure, Distinct
  <2>5. OwnOK'  BY <1>7 DEF IInv, SSHInv, OwnOK, Sure, Distinct
  <2> QED  BY <2>1, <2>2, <2>3, <2>4, <2>5 DEF IInv, SSHInv
<1> QED
  BY <1>1, <1>2, <1>3, <1>4, <1>5, <1>6, <1>7 DEF Next, Works, Happens

(* The inductive invariant holds in every behaviour.                       *)
THEOREM Invariance == Spec => []IInv
<1>1. Init => IInv  BY InitKeeps
<1>2. IInv /\ [Next]_vars => IInv'  BY StepKeeps
<1> QED  BY <1>1, <1>2, PTL DEF Spec

(* Every variable of an execution keeps its type.                          *)
THEOREM TypeCorrect == Spec => []TypeOK
<1>1. IInv => TypeOK
  <2> SUFFICES ASSUME IInv PROVE TypeOK  OBVIOUS
  <2>1. res.status \in Statuses  BY DEF IInv, Types, Results
  <2>2. browser.process \in {"none", "runs", "dead"}  BY DEF IInv, Types
  <2> QED  BY <2>1, <2>2 DEF IInv, Types, TypeOK
<1> QED  BY <1>1, Invariance, PTL

(* A failure that was kept while the capture flow went on is still in the  *)
(* result when the plan ends, and a plan that passes has the page its      *)
(* conditions were evaluated on in its evidence (bmc_executor.py:1338).    *)
THEOREM Earned == Spec => []PassIsEarned
<1>1. IInv => PassIsEarned
  <2> SUFFICES ASSUME IInv, pc = "done", task.kind = "BMC", task.mode \in Captured,
                      Verdict(res) = "PASS"
               PROVE  /\ "none" \notin {res.shot, res.html} /\ ~stumbled
                      /\ (settled /\ task.conditions = {}) =>
                           {res.shot, res.html} \subseteq {"target", "home", "password"}
    BY DEF PassIsEarned, Final
  <2>1. res.status = "EXEC_SUCCESS" /\ res.ready # "READY_NOT_READY"
    <3>1. /\ ~IsFailure(res) /\ ~IsSkipped(res) /\ res.status # "EXEC_PARTIAL"
          /\ res.ready # "READY_NOT_READY"
      BY DEF Verdict
    <3>2. res.status \in Statuses  BY DEF IInv, Types, Results
    <3> QED  BY <3>1, <3>2 DEF Statuses, IsFailure, IsSkipped
  <2>2. res.artifact \notin {"ARTIFACT_FAILED", "ARTIFACT_PARTIAL"}
    BY DEF Verdict
  <2>3. ~Flawed(res)  BY <2>1 DEF Flawed
  <2>4. "none" \notin {res.shot, res.html}
    <3>1. res.artifact \in {"ARTIFACT_FAILED", Artifact(res)}
      BY <2>1 DEF IInv, BMCInv, ArtifactOK, BMCEnds
    <3> QED  BY <2>2, <3>1 DEF Artifact
  <2>5. ~stumbled  BY <2>3 DEF IInv, BMCInv, StumbledOK, Types
  <2>6. ASSUME settled, task.conditions = {}
        PROVE  {res.shot, res.html} \subseteq GoodPages
    <3>1. res.shot \in GoodPages \cup {"none"} /\ res.html \in GoodPages \cup {"none"}
      BY <2>3, <2>6 DEF IInv, BMCInv, SettledOK, BMCEnds
    <3> QED  BY <2>4, <3>1
  <2> QED  BY <2>4, <2>5, <2>6 DEF GoodPages
<1> QED  BY <1>1, Invariance, PTL

(* The credentials are submitted once for each attempt, and once more for  *)
(* each time the session was lost (bmc_executor.py:1385).                  *)
THEOREM Submissions == Spec => []SubmitsBounded
<1>1. IInv => SubmitsBounded
  <2> SUFFICES ASSUME IInv PROVE SubmitsBounded  OBVIOUS
  <2>1. task.retries \in Nat  BY TasksAssumption DEF IInv, Types
  <2>2. attempt <= (IF task.retries > 1 THEN task.retries ELSE 1)
    BY <2>1 DEF IInv, Types, AttemptsOK
  <2> QED  BY <2>2 DEF IInv, BMCInv, SubmitsOK, SubmitsBounded
<1> QED  BY <1>1, Invariance, PTL

(* A step that submits the credentials is none after a refusal.            *)
LEMMA SubmitsOnlyForm ==
  ASSUME [Next]_vars, submits' # submits
  PROVE  pc = "form"
<1>1. ~(UNCHANGED vars)  BY DEF vars, bmcVars
<1>2. ~UNCHANGED bmcVars  BY DEF bmcVars
<1>3. CASE BMCStep
  <2> USE DEF NoPageChange
  <2>1. CASE BMCCall  BY <2>1 DEF BMCCall
  <2>2. CASE AcquireContext \/ AcquirePage  BY <2>2 DEF AcquireContext, AcquirePage
  <2>3. CASE LoginGoto \/ AccountConflict \/ NoForm \/ Captcha
    BY <2>3 DEF LoginGoto, AccountConflict, NoForm, Captcha
  <2>4. CASE Submit  BY <2>4 DEF Submit
  <2>5. CASE LoginAnswer \/ AfterLogin  BY <2>5 DEF LoginAnswer, AfterLogin
  <2>6. CASE GotoTarget \/ NoTarget \/ Landed
    BY <2>6 DEF GotoTarget, NoTarget, Landed
  <2>7. CASE AfterNavigate \/ DismissBlockers \/ BeforeActions \/ NoMoreActions
    BY <2>7 DEF AfterNavigate, DismissBlockers, BeforeActions, NoMoreActions
  <2>8. CASE ActionBlocked \/ ActionWorks \/ ActionFails
    BY <2>8 DEF ActionBlocked, ActionWorks, ActionFails
  <2>9. CASE EvaluateReady \/ PreShot \/ TakeScreenshot \/ SaveHtml \/ Archive
    BY <2>9 DEF EvaluateReady, PreShot, TakeScreenshot, SaveHtml, Archive
  <2>10. CASE EvaluateRules \/ EvaluateCheckpoints \/ Complete
    BY <2>10 DEF EvaluateRules, EvaluateCheckpoints, Complete
  <2>11. CASE Expires \/ Raises \/ ClosePage
    BY <2>11 DEF Expires, Raises, ClosePage
  <2> QED
    BY <1>3, <2>1, <2>2, <2>3, <2>4, <2>5, <2>6, <2>7, <2>8, <2>9, <2>10, <2>11 DEF BMCStep
<1>4. CASE SessionLost  BY <1>4 DEF SessionLost
<1>5. CASE Between  BY <1>5 DEF Between
<1> QED  BY <1>1, <1>2, <1>3, <1>4, <1>5 DEF Next, Works, Happens

(* After the BMC has refused the credentials they are not submitted again: *)
(* the flow is on its way out, and the refusal is not tried again          *)
(* (verdict.py:108).                                                       *)
THEOREM Refusal == Spec => RefusalIsFinal
<1>1. IInv /\ [Next]_vars => [refused => submits' = submits]_vars
  <2> SUFFICES ASSUME IInv, [Next]_vars, refused, submits' # submits
               PROVE  FALSE
    OBVIOUS
  <2>1. pc = "form"  BY SubmitsOnlyForm
  <2> QED  BY <2>1 DEF IInv, BMCInv, RefusedOK
<1> QED  BY <1>1, Invariance, PTL DEF Spec, RefusalIsFinal

(* A command taken to have ended has its own output, and no later command  *)
(* any of it, if its text occurs in nothing printed before its echo, or    *)
(* nothing failed and that goes for the first command                      *)
(* (ssh_executor.py:1299).                                                 *)
THEOREM Own == Spec => []OutputIsOwn
<1>1. IInv => OutputIsOwn
  <2> SUFFICES ASSUME IInv, NEW i \in ended \cap DOMAIN outputs, Sure(i)
               PROVE  HasOwn(i)
    BY DEF OutputIsOwn, Sure
  <2>1. /\ outputs \in Seq(Seq(Tokens)) /\ DOMAIN outputs = 1 .. Len(outputs)
        /\ Len(outputs) \in Nat
    <3>1. outputs \in Seq(Seq(Tokens))  BY DEF IInv, Types
    <3> QED  BY <3>1
  <2>2. \A j \in DOMAIN outputs : DOMAIN outputs[j] = 1 .. Len(outputs[j])
    <3> SUFFICES ASSUME NEW j \in DOMAIN outputs
                 PROVE  DOMAIN outputs[j] = 1 .. Len(outputs[j])
      OBVIOUS
    <3>1. outputs[j] \in Seq(Tokens)  BY <2>1
    <3> QED  BY <3>1
  <2>3. i \in ended \cap (1 .. Len(outputs)) /\ i \in 1 .. Len(outputs)  BY <2>1
  <2>4. /\ task.strategy = "interactive_shell" => FromEcho(outputs[i], i)
        /\ \A j \in i + 1 .. Len(outputs) :
             \A k \in 1 .. Len(outputs[j]) : i < outputs[j][k][2]
    BY <2>3 DEF IInv, SSHInv, OwnOK
  <2>5. task.strategy = "interactive_shell" =>
          Has(outputs[i], "echo", i) /\ Last(outputs[i]) = <<"mark", i>>
    BY <2>1, <2>2, <2>3, <2>4 DEF FromEcho, Has, ToSet, Last
  <2>6. ASSUME NEW j \in DOMAIN outputs, j > i, NEW t \in ToSet(outputs[j])
        PROVE  t[2] > i
    <3>1. j \in i + 1 .. Len(outputs)  BY <2>1, <2>3, <2>6
    <3>2. PICK k \in 1 .. Len(outputs[j]) : t = outputs[j][k]  BY <2>2, <2>6 DEF ToSet
    <3>3. i < t[2]  BY <2>4, <3>1, <3>2
    <3>4. t \in Tokens
      <4>1. outputs[j] \in Seq(Tokens)  BY <2>1
      <4> QED  BY <3>2, <4>1
    <3>5. t[2] \in Nat  BY <3>4 DEF Tokens
    <3> QED  BY <2>3, <3>3, <3>5
  <2> QED  BY <2>5, <2>6 DEF HasOwn
<1> QED  BY <1>1, Invariance, PTL

(* An interactive shell whose plan passes has read every command to its    *)
(* prompt, up to the one whose pages were too many.                        *)
THEOREM WholeOutput == Spec => []PassIsComplete
<1>1. IInv => PassIsComplete
  <2> SUFFICES ASSUME IInv, pc = "done", task.kind = "SSH",
                      task.strategy = "interactive_shell", Verdict(res) = "PASS"
               PROVE  \A i \in DOMAIN task.commands : Whole(i)
    BY DEF PassIsComplete, Final, Commands, Whole
  <2>1. res.status = "EXEC_SUCCESS"
    <3>1. ~IsFailure(res) /\ ~IsSkipped(res) /\ res.status # "EXEC_PARTIAL"  BY DEF Verdict
    <3>2. res.status \in Statuses  BY DEF IInv, Types, Results
    <3> QED  BY <3>1, <3>2 DEF Statuses, IsFailure, IsSkipped
  <2> QED  BY <2>1 DEF IInv, SSHInv, WholeOK
<1> QED  BY <1>1, Invariance, PTL

================================================================================
