------------------------------ MODULE SSHExecutor ------------------------------
(***************************************************************************)
(* One attempt of the SSH executor (src/executor/ssh_executor.py): the     *)
(* connection, the commands under one of three strategies, the judgement   *)
(* of what they printed, the rules and the evidence.                       *)
(*                                                                         *)
(* What a device prints is a sequence of tokens <<what, command>>, command *)
(* 0 being the one that disables paging: the echo of a command, its        *)
(* output, and the mark at its end (the prompt of an interactive shell,    *)
(* the sentinel of a terminal session).  A device prints them in order and *)
(* as late as it likes: a read ends with some prefix of them, and the rest *)
(* stays on the wire.  Of the texts it matters only which contain that of  *)
(* a command: task.shows[i] are the tokens in which the text of command i  *)
(* occurs, its own echo and whatever else happens to contain it.  Patterns *)
(* and sizes are abstracted, and no output is taken for a prompt.          *)
(*                                                                         *)
(* A definition Bad... is a plausible mistake in the one that follows it;  *)
(* the checks make sure that a property notices it.                        *)
(***************************************************************************)
EXTENDS Retry, SequencesExt

VARIABLES
  wire,     \* printed and not read yet
  outputs,  \* what was read for each command
  failed,   \* has_failure: a command did not succeed
  late,     \* has_timeout: a command ran into its limit
  ended,    \* the commands whose reading ended where the code takes their end to be
  pager     \* the command whose pages were too many: its pager is still on

sshVars == <<wire, outputs, failed, late, ended, pager>>

Cleared ==
  /\ wire' = <<>> /\ outputs' = <<>>
  /\ failed' = FALSE /\ late' = FALSE
  /\ ended' = {} /\ pager' = 0

SSHInit ==
  /\ wire = <<>> /\ outputs = <<>>
  /\ failed = FALSE /\ late = FALSE
  /\ ended = {} /\ pager = 0

\* The steps inside the try block of _execute_impl.
Guarded ==
  {"connect", "session", "command", "drain", "status", "judge", "patterns", "save", "assertions"}

Shells == {"interactive_shell", "terminal_session"}

Moves(next, r) == Goes(next, r) /\ UNCHANGED <<task, attempt, retries, step>>

-----------------------------------------------------------------------------
(* The connection.                                                         *)

\* The checks before the connection; the output directory and the options may
\* raise there.
SSHCall ==
  /\ pc = "call" /\ task.kind = "SSH"
  /\ \/ ~task.ip /\ Goes("attempted", Ends(res, "EXEC_FAILED", "IP_EMPTY"))
     \/ task.ip /\ Goes("attempted", Wrapped)
     \/ task.ip /\ task.commands = <<>>
          /\ Goes("attempted", Ends(res, "EXEC_FAILED", "COMMAND_MISSING"))
     \/ task.ip /\ task.commands # <<>> /\ Goes("connect", res)
  /\ step' = 1
  /\ Cleared
  /\ UNCHANGED <<task, attempt, retries>>

\* What the except clauses make of an exception: a limit, a socket that is reset
\* or refused or unreachable, an authentication, a protocol error, another one.
Handled ==
  {<<"EXEC_TIMEOUT", "none">>, <<"EXEC_ERROR", "CONNECTION_RESET">>,
   <<"EXEC_SKIPPED_PORT_BLOCKED", "none">>, <<"EXEC_SKIPPED_PRECHECK_FAILED", "none">>,
   <<"EXEC_FAILED", "AUTHENTICATION">>, <<"EXEC_FAILED", "none">>, <<"EXEC_ERROR", "none">>}

\* Exceptions in the judgement of an output are programming or file errors.
HandledAt(at) ==
  CASE at = "connect" -> Handled
    [] at \in {"session", "command"} -> {h \in Handled : h[2] # "AUTHENTICATION"}
    [] OTHER -> {<<"EXEC_ERROR", "none">>}

\* The commands of an exec_command or an interactive shell catch what they raise.
Unguarded ==
  \/ pc \in {"connect", "session", "patterns", "save"}
  \/ pc = "command" /\ task.strategy = "terminal_session"
  \/ pc = "assertions" /\ task.checks.legacy > 0 /\ task.thread = "worker"

SSHRaises ==
  /\ pc \in Guarded /\ Unguarded
  /\ pc = "session" => task.strategy \in Shells
  /\ \E h \in HandledAt(pc) : Moves("disconnect", Ends(res, h[1], h[2]))
  /\ UNCHANGED sshVars

Connect ==
  /\ pc = "connect"
  /\ Moves("session", res)
  /\ UNCHANGED sshVars

\* What an interactive shell prints before the first command: its prompt, and
\* what the command that disables paging prints.  exec_command has paging disabled
\* by commands with channels of their own.
Banner ==
  IF task.strategy = "interactive_shell"
  THEN <<<<"mark", 0>>, <<"echo", 0>>, <<"mark", 0>>>> ELSE <<>>

\* The reads of the banner may end before the prompt was there.
OpenSession ==
  /\ pc = "session"
  /\ \E n \in 0 .. Len(Banner) : wire' = SubSeq(Banner, n + 1, Len(Banner))
  /\ Moves("command", res)
  /\ UNCHANGED <<outputs, failed, late, ended, pager>>

-----------------------------------------------------------------------------
(* The commands.                                                           *)

AtCommand(strategy) ==
  pc = "command" /\ step <= Len(task.commands) /\ task.strategy = strategy

\* What the device will print for the next command.  A pager that is still on
\* takes the command for a key and shows a little more of the earlier output.
Replies ==
  IF pager # 0 THEN {<<<<"output", pager>>>>}
  ELSE {<<<<"echo", step>>, <<"mark", step>>>>,
        <<<<"echo", step>>, <<"output", step>>, <<"mark", step>>>>}

Has(buf, what, i) == <<what, i>> \in ToSet(buf)

\* What was read contains the text of the command, wherever: the search is for a
\* substring, and knows nothing of who printed it.
Echoed(buf, i) == \E k \in DOMAIN buf : buf[k] \in task.shows[i]

\* Mistake: any prompt at the end of what was read ends the command.
BadStops(buf, i) == buf # <<>> /\ Last(buf)[1] = "mark"

\* An interactive shell waits for the text of the command and a prompt at the end,
\* a terminal session for the sentinel of the command, which no other has.
Stops(buf, i) ==
  /\ buf # <<>>
  /\ IF task.strategy = "interactive_shell"
     THEN Echoed(buf, i) /\ Last(buf)[1] = "mark"
     ELSE Last(buf) = <<"mark", i>>

\* Whether there was something after the last place where the text of the command
\* occurs: its echo has nothing else on its line, what else contains it may.
Contents(buf, i) ==
  LET last == Max({0} \cup {k \in DOMAIN buf : buf[k] \in task.shows[i]}) IN
  CASE last + 1 < Len(buf) -> {TRUE}
    [] last + 1 >= Len(buf) /\ last > 0 /\ buf[last] = <<"echo", i>> -> {FALSE}
    [] OTHER -> BOOLEAN

\* The status of a command of an interactive shell, whose output ended with a
\* prompt, or with the silence of the device, the limit of the command or an error.
ShellStatus(buf, i) ==
  IF Stops(buf, i)
  THEN {IF content \/ task.commands[i] \in {"setup", "context"} THEN "SUCCESS" ELSE "FAILED" :
          content \in Contents(buf, i)}
  ELSE {"FAILED", "TIMEOUT"} \cup (IF buf # <<>> THEN {"PARTIAL"} ELSE {})

\* A terminal session: the exit code and the patterns of the command decide, and
\* the limit; a device that falls silent before the sentinel counts as a success.
TerminalStatus == {"SUCCESS", "FAILED", "TIMEOUT"}

\* Mistake: an output that was cut is no failure.
BadNotes(status) ==
  /\ failed' = (failed \/ status \in {"FAILED", "TIMEOUT"})
  /\ late' = (late \/ status = "TIMEOUT")

\* What a status adds to the flags of the execution.
Notes(status) ==
  /\ failed' = (failed \/ status # "SUCCESS")
  /\ late' = (late \/ status = "TIMEOUT")

Logs(buf, status) ==
  /\ outputs' = Append(outputs, buf)
  /\ Notes(status)
  /\ step' = step + 1
  /\ Goes("command", res)
  /\ UNCHANGED <<task, attempt, retries>>

\* Reads some prefix of what the device has printed, or will for the command.
ReadCommand ==
  \E reply \in Replies : \E n \in 0 .. Len(wire \o reply) :
    LET all == wire \o reply
        buf == SubSeq(all, 1, n) IN
    /\ wire' = SubSeq(all, n + 1, Len(all))
    /\ \E status \in IF task.strategy = "interactive_shell"
                     THEN ShellStatus(buf, step) ELSE TerminalStatus : Logs(buf, status)
    /\ ended' = IF Stops(buf, step) THEN ended \cup {step} ELSE ended
    /\ UNCHANGED pager

ShellCommand == AtCommand("interactive_shell") /\ ReadCommand

\* The limit of pages is reached before a prompt: with some output that counts
\* as a success.
TooManyPages ==
  /\ AtCommand("interactive_shell") /\ pager = 0
  /\ Logs(wire \o <<<<"echo", step>>, <<"output", step>>>>, "SUCCESS")
  /\ wire' = <<>> /\ pager' = step
  /\ UNCHANGED ended

\* The time of the task is over, or the transport is gone: nothing is sent.
SkipCommand ==
  /\ AtCommand("interactive_shell") \/ AtCommand("exec_command")
  /\ \E status \in {"FAILED", "TIMEOUT"} : Logs(<<>>, status)
  /\ UNCHANGED <<wire, ended, pager>>

TerminalCommand == AtCommand("terminal_session") /\ ReadCommand

\* exec_command has a channel of its own for each command.
ExecCommand ==
  /\ AtCommand("exec_command")
  /\ Moves("drain", res)
  /\ UNCHANGED sshVars

\* Its reading ends with the command, or with its silence or limit, when the output
\* is cut; then what is left is read, for as long as the device prints.
Drain ==
  /\ pc = "drain"
  /\ \E buf \in {<<>>, <<<<"output", step>>>>} : outputs' = Append(outputs, buf)
  /\ Moves("status", res)
  /\ UNCHANGED <<wire, failed, late, ended, pager>>

\* recv_exit_status waits for the end of the command, however long it takes.
ExitStatus ==
  /\ pc = "status"
  /\ \E status \in {"SUCCESS", "FAILED", "TIMEOUT"} : Notes(status)
  /\ ended' = IF Last(outputs) # <<>> THEN ended \cup {step} ELSE ended
  /\ step' = step + 1
  /\ Goes("command", res)
  /\ UNCHANGED <<task, attempt, retries, wire, outputs, pager>>

\* Where a remote command keeps the thread as long as it likes: the reads without a
\* limit, after a command and after those that disable paging, and the wait for the
\* exit status.
AtMercy ==
  pc \in {"drain", "status"} \/ (pc = "session" /\ task.strategy = "exec_command")

\* The channel is closed, with what is still on the wire.
NoMoreCommands ==
  /\ pc = "command" /\ step > Len(task.commands)
  /\ wire' = <<>>
  /\ Moves("judge", res)
  /\ UNCHANGED <<outputs, failed, late, ended, pager>>

-----------------------------------------------------------------------------
(* The judgement.                                                          *)

\* The commands that were parsed from the task, each with its role.
Commands == DOMAIN task.commands

Lowered(reason) ==
  Ends(res, IF task.strategy = "interactive_shell" THEN "EXEC_PARTIAL" ELSE "EXEC_FAILED", reason)

\* _evidence_output_failure: an evidence command must have printed something; the
\* prompt of a terminal session is taken for it.
EvidenceShown ==
  \E i \in Commands : task.commands[i] = "evidence" /\ "output" \in {t[1] : t \in ToSet(outputs[i])}
MayShowEvidence ==
  {EvidenceShown} \cup
    (IF task.strategy = "terminal_session" /\ "evidence" \in ToSet(task.commands) THEN {TRUE} ELSE {})

Judgements ==
  CASE late -> {Ends(res, "EXEC_TIMEOUT", "none")}
    [] failed /\ ~late -> {Lowered("none"), Lowered("CONNECTION_RESET")}
    [] OTHER ->
         {Ends(res, "EXEC_FAILED", "COMMAND_OUTPUT_MISSING")}
           \cup (IF task.strategy \in Shells
                 THEN {Ends(res, "EXEC_FAILED", "ONLY_LOGIN_BANNER")} ELSE {})
           \cup {IF shown THEN res ELSE Lowered("none") : shown \in MayShowEvidence}

Judge ==
  /\ pc = "judge"
  /\ \E r \in Judgements : Moves("patterns", r)
  /\ UNCHANGED sshVars

\* A rule that fails is final for the plan.
JudgeRules ==
  /\ pc = "patterns"
  /\ \/ task.rules = {} /\ Moves("save", res)
     \/ task.rules # {} /\ Moves("save", [res EXCEPT !.rule = "RULE_PASSED"])
     \/ /\ task.rules # {}
        /\ LET r == IF res.status = "EXEC_SUCCESS" THEN Ends(res, "EXEC_PARTIAL", "none") ELSE res IN
           Moves("save", [r EXCEPT !.rule = "RULE_FAILED", !.reason = "RULES_FAILED"])
  /\ UNCHANGED sshVars

SaveEvidence ==
  /\ pc = "save"
  /\ Moves("assertions", [res EXCEPT !.artifact = "ARTIFACT_SAVED", !.html = "output", !.shot = "output"])
  /\ UNCHANGED sshVars

\* Without a loop of its own a worker thread cannot run them (SSHRaises).
SSHCheckpoints ==
  /\ pc = "assertions"
  /\ \/ task.checks.legacy = 0 /\ Moves("disconnect", res)
     \/ /\ task.checks.legacy > 0 /\ task.thread = "main"
        /\ \E check \in CheckOutcomes(task.checks) : Moves("disconnect", [res EXCEPT !.check = check])
  /\ UNCHANGED sshVars

\* The finally block; what was not saved by then is a failed artifact.
Disconnect ==
  /\ pc = "disconnect"
  /\ wire' = <<>> /\ outputs' = <<>>
  /\ Moves("attempted",
           IF res.shot = "none" THEN [res EXCEPT !.artifact = "ARTIFACT_FAILED"] ELSE res)
  /\ UNCHANGED <<failed, late, ended, pager>>

SSHStep ==
  \/ SSHCall \/ Connect \/ OpenSession \/ SSHRaises
  \/ ShellCommand \/ TooManyPages \/ SkipCommand \/ TerminalCommand
  \/ ExecCommand \/ Drain \/ ExitStatus \/ NoMoreCommands
  \/ Judge \/ JudgeRules \/ SaveEvidence \/ SSHCheckpoints \/ Disconnect

================================================================================
