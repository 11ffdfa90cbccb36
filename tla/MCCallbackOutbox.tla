--------------------------- MODULE MCCallbackOutbox ---------------------------
(* Instances of CallbackOutbox for TLC: the run thread of a plan delivers two *)
(* statuses, and a retry runs beside it.                                      *)
EXTENDS CallbackOutbox

PlanSenders == {"run", "retry"}
PlanItems == {"started", "finished"}
PlanFeed == [t \in PlanSenders |->
               IF t = "run" THEN <<"started", "finished">> ELSE <<>>]
=============================================================================
