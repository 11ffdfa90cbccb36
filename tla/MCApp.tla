--------------------------------- MODULE MCApp ---------------------------------
(***************************************************************************)
(* Batches: of two devices that share a BMC host, of one device with a BMC *)
(* and an in-band task and no BMC host, of two devices that share a name,  *)
(* of a task that nobody can execute; and one for each way of having       *)
(* nothing to do.                                                          *)
(***************************************************************************)
EXTENDS App

CONSTANTS h1, h2, h3, route, line

Dev(n, g, on, bmc, inband) ==
  [name |-> n, group |-> g, enabled |-> on, bmc |-> bmc, inband |-> inband]

Job(groups, on, type, sequence) ==
  [groups |-> groups, enabled |-> on, type |-> type, sequence |-> sequence]

Book(devices, tasks, valid) == [devices |-> devices, tasks |-> tasks, valid |-> valid]

One == Dev(1, 1, TRUE, h1, h2)
Half == Dev(1, 1, TRUE, None, h2)
Two == Dev(2, 2, TRUE, h1, None)
Three == Dev(3, 1, TRUE, h1, None)
Off == Dev(4, 1, FALSE, h3, h3)
Namesake == Dev(2, 1, TRUE, None, None)

Screens == Job({}, TRUE, "BMC", 2)
Commands == Job({1}, TRUE, "SSH", 1)
Strange == Job({2}, TRUE, "SNMP", 3)
Disabled == Job({}, FALSE, "BMC", 4)

AllWorkbooks ==
  {Book(<<Two, Off, Three>>, <<Screens, Disabled>>, TRUE),
   Book(<<Half>>, <<Screens, Commands>>, TRUE),
   Book(<<Two, Namesake>>, <<Screens>>, TRUE),
   Book(<<Two>>, <<Strange>>, TRUE),
   Book(<<One>>, <<Screens>>, FALSE), Book(<<One>>, <<Strange>>, TRUE),
   Book(<<One>>, <<>>, TRUE), Book(<<One>>, <<Disabled>>, TRUE),
   Book(<<>>, <<Screens>>, TRUE), Book(<<Off>>, <<Screens>>, TRUE)}

BothModes == {"sequential", "full"}
OneRoute == {route}
================================================================================
