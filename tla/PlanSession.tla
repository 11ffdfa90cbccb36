------------------------------ MODULE PlanSession ------------------------------
(***************************************************************************)
(* What a BMC session promises to the scheduler that runs it as one job:   *)
(* the plans of the group are reported in their order and each once; the   *)
(* session returns normally only when it has reported every plan; if it    *)
(* raises instead, the plans it has reported are still a prefix of the     *)
(* group, so the scheduler can fill in exactly the others.                 *)
(*                                                                         *)
(* DynamicScheduler relies on this promise: a BMC job there pops its plans *)
(* in order, finishes only with none left, and may crash at any time.      *)
(***************************************************************************)
EXTENDS Naturals

CONSTANT NPlans   \* plans in the group

VARIABLES reported,  \* how many plans, counted from the first, have a result
          ending     \* "running", "returned" or "raised"

vars == <<reported, ending>>

Init ==
  /\ reported = 0
  /\ ending = "running"

ReportNext ==
  /\ ending = "running"
  /\ reported < NPlans
  /\ reported' = reported + 1
  /\ UNCHANGED ending

Return ==
  /\ ending = "running"
  /\ reported = NPlans
  /\ ending' = "returned"
  /\ UNCHANGED reported

Raise ==
  /\ ending = "running"
  /\ ending' = "raised"
  /\ UNCHANGED reported

Next == ReportNext \/ Return \/ Raise

Spec == Init /\ [][Next]_vars
================================================================================
