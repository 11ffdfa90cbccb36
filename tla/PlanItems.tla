------------------------------- MODULE PlanItems -------------------------------
(***************************************************************************)
(* What a plan run is made of, and what it locks: the items a workbook     *)
(* expands to (src/plan_run_service/builder.py), the endpoint of an item   *)
(* (src/models/task_plan.py), and the lock URI of an item or of a direct   *)
(* job (src/api_models/lock_uri.py, src/executor_api_server/service.py).   *)
(*                                                                         *)
(* A URI is the pair of a scheme and an address.                           *)
(***************************************************************************)
EXTENDS Sequences
LOCAL INSTANCE SequencesExt

CONSTANT None   \* no address, no URI, no endpoint

\* A device is [name, group, bmc, inband, enabled], a task is [type, mode, groups,
\* enabled]; groups is match_group, {} for all of them.  The types the code tells
\* apart are "BMC", "SSH" and "TELNET"; where no mode is given it is the type.
BMCModes == {"BMC_URL", "BMC_ACTIONS"}

OnBMC(t) == t.type = "BMC" \/ t.mode \in BMCModes
InBand(t) == ~OnBMC(t) /\ (t.type \in {"SSH", "TELNET"} \/ t.mode = "SSH_CMD")

Uri(scheme, address) == IF address = None THEN None ELSE <<scheme, address>>

\* Device.ssh_type, and the same test in the builder and the dispatch service.
Shell(group) == IF group \in {"L1", "L2"} THEN "ssh-vrp" ELSE "ssh-linux"

\* derive_lock_uri of the builder.
LockUri(d, t) ==
  CASE OnBMC(t)  -> Uri("bmc", d.bmc)
    [] InBand(t) -> Uri(Shell(d.group), d.inband)
    [] OTHER     -> None

\* derive_lock_uri of api_models: an execution mode, or a task type in its place;
\* no caller gives it a lock_type.
DerivedUri(d, mode, shell) ==
  CASE mode \in BMCModes \cup {"BMC"} -> Uri("bmc", d.bmc)
    [] mode = "SSH_CMD"               -> Uri(shell, d.inband)
    [] mode \in {"SSH", "TELNET"}     -> Uri("ssh", d.inband)
    [] OTHER                          -> None

\* _derive_lock_uri_from_payload, for a request that names no lock itself.  For tasks
\* of an in-band address it may be another URI than that of the same item in a plan
\* run, and two devices of one address but of two groups have two.
DirectUri(d, t) == DerivedUri(d, t.mode, Shell(d.group))

\* TaskPlan.endpoint_key: a device without an address is one by its name.
EndpointKey(d, t) ==
  LET Of(address) == IF address = None THEN d.name ELSE address IN
  CASE t.type = "BMC"    -> <<"BMC", Of(d.bmc), 443>>
    [] t.type = "SSH"    -> <<"INBAND", Of(d.inband), 22>>
    [] t.type = "TELNET" -> <<"INBAND", Of(d.inband), 23>>
    [] OTHER             -> <<"UNKNOWN", d.name>>

\* _bmc_endpoint_key.
SessionKey(d, t) == IF OnBMC(t) THEN EndpointKey(d, t) ELSE None

Matches(d, t) == d.enabled /\ t.enabled /\ (t.groups = {} \/ d.group \in t.groups)

Item(d, t) ==
  [type |-> t.type, mode |-> t.mode, lock |-> LockUri(d, t), session |-> SessionKey(d, t)]

\* build_items: device after device, for each the tasks of its group.
BuildItems(devices, tasks) ==
  LET Of(d) == SelectSeq(tasks, LAMBDA t : Matches(d, t)) IN
  FlattenSeq([i \in DOMAIN devices |->
                [k \in DOMAIN Of(devices[i]) |-> Item(devices[i], Of(devices[i])[k])]])
================================================================================
