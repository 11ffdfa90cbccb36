------------------------ MODULE MCDynamicScheduler ------------------------
(* Instances of DynamicScheduler for TLC.                                   *)
EXTENDS DynamicScheduler

\* One scheduler: a BMC endpoint with two plans, an INBAND endpoint with two.
OneScheds == {"s"}
OneEndpoints == {"B", "I"}
OnePlans == {"b1", "b2", "i1", "i2"}
OneOwnerOf == [p \in OnePlans |-> "s"]
OneEpOf == [p \in OnePlans |-> IF p \in {"b1", "b2"} THEN "B" ELSE "I"]
OneEpType == [e \in OneEndpoints |-> IF e = "B" THEN "BMC" ELSE "INBAND"]
OneQueue0 == [s \in OneScheds |-> [e \in OneEndpoints |->
                IF e = "B" THEN <<"b1", "b2">> ELSE <<"i1", "i2">>]]
OneReady0 == [s \in OneScheds |-> <<"I", "B">>]

\* Two schedulers with a plan each for a shared INBAND endpoint.  The second
\* runs without Playwright and has a BMC plan too, which is blocked.  Small
\* enough for liveness.
PairScheds == {"s", "t"}
PairEndpoints == {"B", "I"}
PairPlans == {"si", "tb", "ti"}
PairOwnerOf == [p \in PairPlans |-> IF p = "si" THEN "s" ELSE "t"]
PairEpOf == [p \in PairPlans |-> IF p = "tb" THEN "B" ELSE "I"]
PairEpType == [e \in PairEndpoints |-> IF e = "B" THEN "BMC" ELSE "INBAND"]
PairQueue0 ==
  [s \in PairScheds |-> [e \in PairEndpoints |->
     CASE s = "s" /\ e = "B" -> <<>>
       [] s = "s" /\ e = "I" -> <<"si">>
       [] s = "t" /\ e = "B" -> <<"tb">>
       [] s = "t" /\ e = "I" -> <<"ti">>]]
PairReady0 == [s \in PairScheds |-> <<"I">>]

\* What the controller may do.
NoStops == [s \in Scheds |-> {}]
RouteStops == [s \in Scheds |-> {"route_change"}]
NoPauses == [s \in Scheds |-> {}]
AllPauses == [s \in Scheds |-> {"running", "stopping"}]

\* Only the first of a pair is stopped or paused, and it is not paused again
\* once it was stopped.
PairStops == [s \in Scheds |-> IF s = "s" THEN {"user_stop"} ELSE {}]
PairPauses == [s \in Scheds |-> IF s = "s" THEN {"running"} ELSE {}]

OneWorker == [pl \in Pools |-> 1]
=============================================================================
