---------------------------- MODULE MCPlanExecution ----------------------------
(* PlanExecution for TLC. *)
EXTENDS PlanExecution

NoChecks == [evidence |-> {}, legacy |-> 0]

BMC(target, actions, conditions, rules, checks, again) ==
  [kind |-> "BMC", ip |-> TRUE, target |-> target, mode |-> "BMC_URL", actions |-> actions,
   conditions |-> conditions, rules |-> rules, checks |-> checks, retries |-> again]

\* Each command's text occurs in its own echo only.
SSH(strategy, commands, rules, checks, thread, again) ==
  [kind |-> "SSH", ip |-> TRUE, strategy |-> strategy, commands |-> commands,
   shows |-> [i \in DOMAIN commands |-> {<<"echo", i>>}],
   rules |-> rules, checks |-> checks, thread |-> thread, retries |-> again]

\* The text of one command occurs in some more tokens.
Showing(t, i, tokens) == [t EXCEPT !.shows[i] = @ \cup tokens]

BMCTasks ==
  {BMC("own", <<TRUE>>, {}, {"basic", "advanced"}, NoChecks, 1),
   BMC("own", <<>>, {"text_contains", "url_contains", "unknown"}, {},
       [evidence |-> {<<"file_exists", "WARNING">>, <<"text_contains", "INFO">>}, legacy |-> 0], 0),
   BMC("none", <<FALSE>>, {}, {"basic"}, [evidence |-> {}, legacy |-> 1], 0),
   BMC("foreign", <<>>, {}, {}, NoChecks, 1),
   [BMC("own", <<>>, {}, {}, NoChecks, 1) EXCEPT !.ip = FALSE],
   [BMC("own", <<>>, {}, {}, NoChecks, 1) EXCEPT !.mode = "BMC"]}

Plain == SSH("interactive_shell", <<"setup", "evidence", "evidence">>, {}, NoChecks, "worker", 0)
Short == SSH("interactive_shell", <<"evidence", "evidence">>, {}, NoChecks, "worker", 0)

\* A command that is part of the one before it and occurs in its own output, and one
\* that is the same as the command that disables paging.
SSHTasks ==
  {Plain, Showing(Short, 2, {<<"echo", 1>>, <<"output", 2>>}), Showing(Short, 1, {<<"echo", 0>>}),
   SSH("interactive_shell", <<"evidence">>, {"required_patterns"}, [evidence |-> {}, legacy |-> 1], "worker", 1),
   SSH("terminal_session", <<"evidence", "evidence">>, {"required_patterns"}, NoChecks, "worker", 0),
   SSH("exec_command", <<"evidence", "evidence">>, {}, [evidence |-> {}, legacy |-> 1], "main", 0),
   SSH("exec_command", <<>>, {}, NoChecks, "main", 0),
   [SSH("exec_command", <<"evidence">>, {}, NoChecks, "main", 0) EXCEPT !.ip = FALSE]}

AllTasks == BMCTasks \cup SSHTasks
================================================================================
