--------------------------- MODULE MCExecutorServer ----------------------------
(* ExecutorServer for TLC: one plan with one BMC item, and one direct job   *)
(* for the BMC of that item.                                               *)
EXTENDS ExecutorServer, TLC

CONSTANTS p, a, bmc, j1

Payloads == INSTANCE PlanItems

Device == [name |-> a, group |-> "A", bmc |-> bmc, inband |-> None, enabled |-> TRUE]
Task == [type |-> "BMC", mode |-> "BMC_URL", groups |-> {}, enabled |-> TRUE]

OnePlan == {p}
OneJob == {j1}
OneUri == {<<"bmc", bmc>>}
OneSession == {<<"BMC", bmc, 443>>}
BmcUri == j1 :> Payloads!DirectUri(Device, Task)
OneItem == {Payloads!BuildItems(<<Device>>, <<Task>>)}
=============================================================================
