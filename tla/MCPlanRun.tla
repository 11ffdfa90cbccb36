------------------------------- MODULE MCPlanRun -------------------------------
(* PlanRun for TLC: two plans on one workbook, whose items share a BMC     *)
(* session, use an in-band address or have none and are refused; or on an  *)
(* empty one.                                                              *)
EXTENDS PlanRun, TLC

CONSTANTS p, q, a, b, bmc, ssh

Workbook == INSTANCE PlanItems

\* The second device has no address, and only it has the tasks of its group.
Device(n, group, out, in) ==
  [name |-> n, group |-> group, bmc |-> out, inband |-> in, enabled |-> TRUE]
Devices == <<Device(a, "A", bmc, ssh), Device(b, "L1", None, None)>>

Task(t, m, groups) == [type |-> t, mode |-> m, groups |-> groups, enabled |-> TRUE]
Tasks ==
  <<Task("BMC", "BMC_URL", {"A"}), Task("BMC", "BMC_ACTIONS", {"A", "B"}),
    Task("SSH", "SSH_CMD", {"A"})>>
Plain == <<Task("TELNET", "TELNET", {"L1"}), [Task("SSH", "SSH_CMD", {}) EXCEPT !.enabled = FALSE]>>

OnePlan == {p}
TwoPlans == {p, q}
TwoLocks == {<<"bmc", bmc>>, <<"ssh-linux", ssh>>}
OneSession == {<<"BMC", bmc, 443>>}
Workbooks == {Workbook!BuildItems(Devices, ts) : ts \in {Tasks, Plain, <<>>}}

Symmetric == Permutations(TwoPlans)
=============================================================================
