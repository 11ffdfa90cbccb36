----------------------------- MODULE BrowserManager -----------------------------
(***************************************************************************)
(* The browser of one worker thread (src/executor/browser_manager.py).     *)
(* The entry of the thread and its _ThreadLocalBrowser are one record, and *)
(* signedIn stands for the cookies of the browser's only context, which    *)
(* the attempts on the thread share.  The playwright driver starts and     *)
(* stops with the browser.                                                 *)
(***************************************************************************)
EXTENDS Naturals

CONSTANT MaxTasks   \* tasks a browser serves before it is replaced

ASSUME MaxTasksAssumption == MaxTasks \in Nat \ {0}

VARIABLES
  browser,  \* what the thread's entry refers to
  orphans   \* browsers that run and that nothing refers to any more

browserVars == <<browser, orphans>>

\* process: whether there is a browser, and whether its process still runs.
NoBrowser == [process |-> "none", tasks |-> 0, signedIn |-> FALSE]
NewBrowser == [process |-> "runs", tasks |-> 1, signedIn |-> FALSE]

Running(b) == IF b.process = "runs" THEN 1 ELSE 0

BrowserInit == browser = NoBrowser /\ orphans = 0

\* _should_recycle: by the number of tasks, or by age.
Recycles(aged) == browser.process # "none" /\ (browser.tasks >= MaxTasks \/ aged)

\* get_context.  A browser that is replaced is closed first, on its own loop.
GetContext ==
  \E aged \in BOOLEAN :
    /\ browser' = IF browser.process = "none" \/ Recycles(aged)
                  THEN NewBrowser ELSE [browser EXCEPT !.tasks = @ + 1]
    /\ UNCHANGED orphans

\* reset_thread, as both of its callers in the executor reach it: on the loop of
\* the thread while that loop runs.  run_until_complete raises, the references
\* are dropped and the browser is not closed.
ResetThread ==
  /\ browser' = NoBrowser
  /\ orphans' = orphans + Running(browser)

\* close_current_thread_browser, which the scheduler submits to the worker.
CloseCurrentThreadBrowser ==
  /\ browser' = NoBrowser
  /\ UNCHANGED orphans

\* The process of the browser dies; the references to it stay.
BrowserDies ==
  /\ browser.process = "runs"
  /\ browser' = [browser EXCEPT !.process = "dead"]
  /\ UNCHANGED orphans

================================================================================
