--------------------------- MODULE MCDirectDispatch ----------------------------
(* DirectDispatch for TLC: three jobs, two of them on one lock URI; the     *)
(* background worker and one caller of run_pending_once.                   *)
EXTENDS DirectDispatch, TLC

CONSTANTS j1, j2, j3, bmc, ssh

ThreeJobs == {j1, j2, j3}
TwoLocks == {bmc, ssh}
SharedUri == j1 :> bmc @@ j2 :> bmc @@ j3 :> ssh
=============================================================================
