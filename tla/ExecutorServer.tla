---------------------------- MODULE ExecutorServer -----------------------------
(***************************************************************************)
(* The executor API server as src/cli/server.py puts it together: one      *)
(* process with a DirectDispatchService and its background worker, and a   *)
(* PlanRunService with a thread for every run.  Neither is given a lock    *)
(* manager, so each makes its own: the lock URIs are the same, the tables  *)
(* are two (owner of PlanRun, table of DirectDispatch).                    *)
(***************************************************************************)
EXTENDS PlanRun

CONSTANTS Jobs, UriOf, Workers, NoJob

VARIABLES jobStatus, pending, workerAt, job, table, result, heard, ran

Direct == INSTANCE DirectDispatch WITH status <- jobStatus, at <- workerAt

directVars == <<jobStatus, pending, workerAt, job, table, result, heard, ran>>
serverVars == <<vars, directVars>>

ServerInit == Init /\ Direct!Init

\* A step of either service leaves the other alone.
PlanStep ==
  /\ \/ \E p \in Plans, s \in Sheets, m \in BOOLEAN : Start(p, s, m)
     \/ \E r \in Runs : RunStep(r)
  /\ UNCHANGED directVars

DirectStep ==
  /\ \/ \E j \in Jobs : Direct!Submit(j)
     \/ \E w \in Workers : Direct!WorkerStep(w)
  /\ UNCHANGED vars

\* They live in one process.
ServerRestart == Restart /\ Direct!Crash

ServerNext == PlanStep \/ DirectStep \/ ServerRestart

ServerSpec == ServerInit /\ [][ServerNext]_serverVars
-----------------------------------------------------------------------------
\* A lock URI is executed under by one job at a time: one of POST
\* /executor/v1/jobs and one of a plan run never work on one device together.
OneHolderPerUri ==
  \A w \in Workers, r \in Runs :
    Direct!Executing(w) /\ Executing(r) => UriOf[job[w]] # LockOf(r)
=============================================================================
