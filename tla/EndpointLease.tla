---------------------------- MODULE EndpointLease ----------------------------
(***************************************************************************)
(* What a table of endpoint leases promises (the docstring of              *)
(* src/scheduler/resource_registry.py: "the same endpoint_key is never     *)
(* held by more than one holder at a time"): an endpoint is used only by   *)
(* the user its lease names, and the lease changes hands only when that    *)
(* user has stopped.                                                       *)
(***************************************************************************)
CONSTANTS Users, Endpoints, None

VARIABLES
  owner,  \* endpoint -> the user that holds its lease
  using   \* pairs <<user, endpoint>> of users at work

leaseVars == <<owner, using>>

Init ==
  /\ owner = [e \in Endpoints |-> None]
  /\ using = {}

Take(u, e) ==
  /\ owner[e] = None
  /\ owner' = [owner EXCEPT ![e] = u]
  /\ using' \in {using, using \cup {<<u, e>>}}

Start(u, e) ==
  /\ owner[e] = u
  /\ using' = using \cup {<<u, e>>}
  /\ UNCHANGED owner

Stop(u, e) ==
  /\ using' = using \ {<<u, e>>}
  /\ UNCHANGED owner

Give(u, e) ==
  /\ owner[e] = u
  /\ owner' = [owner EXCEPT ![e] = None]
  /\ using' = using \ {<<u, e>>}

\* The process that keeps the leases of D dies, and its users with it.
Die(D) ==
  /\ owner' = [e \in Endpoints |-> IF e \in D THEN None ELSE owner[e]]
  /\ using' = {x \in using : x[2] \notin D}

Next ==
  \/ \E u \in Users, e \in Endpoints :
       Take(u, e) \/ Start(u, e) \/ Stop(u, e) \/ Give(u, e)
  \/ \E D \in SUBSET Endpoints : Die(D)

Spec == Init /\ [][Next]_leaseVars

\* Two users never work on one endpoint.
Exclusive ==
  \A x, y \in using : x[2] = y[2] => x = y
=============================================================================
