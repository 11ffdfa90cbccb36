----------------------- MODULE DynamicScheduler_proofs -----------------------
(***************************************************************************)
(* Theorems about DynamicScheduler, for every set of schedulers, plans and *)
(* endpoints, every pool size and every combination of faults.             *)
(***************************************************************************)
EXTENDS DynamicScheduler, FiniteSetTheorems, SequenceTheorems, TLAPS

(* A demand counts the members of finite sets, so it is a natural number.  *)
LEMMA DemandType ==
  ASSUME TypeOK, NEW s \in Scheds, NEW pl \in Pools
  PROVE  EndpointDemand(s, pl) \in Nat
<1>1. IsFiniteSet(ActiveIn(s, pl))
  <2>1. ActiveIn(s, pl) \subseteq Plans  BY DEF ActiveIn, TypeOK, TableTypeOK
  <2> QED  BY <2>1, FS_Subset, PlanAssumption
<1>2. IsFiniteSet({e \in Endpoints : queue[s][e] # <<>> /\ EpType[e] = pl})
  BY FS_Subset, PlanAssumption
<1> QED  BY <1>1, <1>2, FS_CardinalityType DEF EndpointDemand

(* A pool's target size is a natural number, whatever the load.            *)
LEMMA TargetType ==
  ASSUME NEW base \in Nat, NEW max \in Nat, NEW demand \in Nat, NEW scale \in Nat
  PROVE  TargetSize(base, max, demand, scale) \in Nat
<1>1. (max * scale) \div 100 \in Nat
  <2>1. max * scale \in Nat  OBVIOUS
  <2> QED  BY <2>1
<1> QED  BY <1>1 DEF TargetSize, Least, Greatest

(* A recorded status stays a status.                                       *)
LEMMA AppendOnceType ==
  ASSUME NEW old \in Status \cup {"none"}, NEW new \in Status
  PROVE  AppendOnce(old, new) \in Status \cup {"none"}
BY DEF AppendOnce

(* The plans of a new job, and those left, are plans of the endpoint.      *)
LEMMA BatchType ==
  ASSUME DispatchConsistent, NEW s \in Scheds, NEW e \in Endpoints,
         queue[s][e] # <<>>
  PROVE  /\ Head(queue[s][e]) \in PlansAt(s, e)
         /\ Batch(s, e) \in Seq(PlansAt(s, e))
         /\ Batch(s, e) # <<>>
         /\ Head(Batch(s, e)) = Head(queue[s][e])
         /\ Rest(s, e) \in Seq(PlansAt(s, e))
         /\ Batch(s, e) \in Seq(Plans)
         /\ Rest(s, e) \in Seq(Plans)
<1> DEFINE S == PlansAt(s, e)
<1>1. queue[s][e] \in Seq(S)  BY DEF DispatchConsistent
<1>2. Head(queue[s][e]) \in S /\ Tail(queue[s][e]) \in Seq(S)
  BY <1>1, HeadTailProperties
<1>3. S \subseteq Plans  BY DEF PlansAt
<1>4. Batch(s, e) \in Seq(S) /\ Rest(s, e) \in Seq(S)
  BY <1>1, <1>2 DEF Batch, Rest
<1>5. Batch(s, e) # <<>> /\ Head(Batch(s, e)) = Head(queue[s][e])
  BY <1>1, <1>2 DEF Batch
<1>6. Batch(s, e) \in Seq(Plans) /\ Rest(s, e) \in Seq(Plans)
  BY <1>3, <1>4
<1> QED  BY <1>2, <1>4, <1>5, <1>6

(* The main thread's job: its plans, and the queue it goes back to.        *)
LEMMA TakeType ==
  ASSUME DispatchConsistent, NEW s \in Scheds, pc[s] = "submit"
  PROVE  /\ hand[s] \in Endpoints
         /\ Head(take[s]) \in PlansAt(s, hand[s])
         /\ Head(take[s]) \in Plans
         /\ take[s] \in Seq(Plans)
         /\ PutPlansBack(s) \in Seq(PlansAt(s, hand[s]))
         /\ PutPlansBack(s) \in Seq(Plans)
<1> DEFINE S == PlansAt(s, hand[s])
<1>1. /\ hand[s] \in Endpoints
      /\ take[s] \in Seq(S) /\ take[s] # <<>>
      /\ queue[s][hand[s]] \in Seq(S)
  BY DEF DispatchConsistent
<1>2. Head(take[s]) \in S  BY <1>1, HeadTailProperties
<1>3. S \subseteq Plans  BY DEF PlansAt
<1>4. PutPlansBack(s) \in Seq(S)  BY <1>1, ConcatProperties DEF PutPlansBack
<1>5. PutPlansBack(s) \in Seq(Plans) /\ take[s] \in Seq(Plans)
  BY <1>1, <1>3, <1>4
<1> QED  BY <1>1, <1>2, <1>3, <1>4, <1>5

(* _dispatch goes on to the next pool or back to the loop.                 *)
LEMMA NextPoolType ==
  ASSUME MainTypeOK, NEW s \in Scheds, NEW rdy, Len(rdy) \in Nat,
         NextPool(s, rdy)
  PROVE  /\ pc' \in [Scheds -> MainPcs]
         /\ pool' \in [Scheds -> Pools]
         /\ skipped' \in [Scheds -> Nat]
         /\ snap' \in [Scheds -> Nat]
<1>2. /\ pc \in [Scheds -> MainPcs] /\ pool \in [Scheds -> Pools]
      /\ skipped \in [Scheds -> Nat] /\ snap \in [Scheds -> Nat]
  BY DEF MainTypeOK
<1>3. "INBAND" \in Pools /\ "check" \in MainPcs /\ "loop" \in MainPcs
  BY DEF Pools, MainPcs
<1>4. CASE pool[s] = "BMC"
  <2>1. pc' \in [Scheds -> MainPcs]  BY <1>2, <1>3, <1>4 DEF NextPool
  <2>2. pool' \in [Scheds -> Pools]  BY <1>2, <1>3, <1>4 DEF NextPool
  <2>3. skipped' \in [Scheds -> Nat]  BY <1>2, <1>4 DEF NextPool
  <2>4. snap' \in [Scheds -> Nat]  BY <1>2, <1>4 DEF NextPool
  <2> QED  BY <2>1, <2>2, <2>3, <2>4
<1>5. CASE pool[s] # "BMC"
  BY <1>2, <1>3, <1>5 DEF NextPool
<1> QED  BY <1>4, <1>5

(* Types are preserved: one step per action, one leaf per group of         *)
(* variables it changes.                                                   *)
LEMMA TypeStep ==
  ASSUME IndInv, [Next]_vars
  PROVE  TypeOK'
<1> USE DEF TypeOK
<1>0. /\ MainTypeOK /\ ControlTypeOK /\ TableTypeOK /\ JobTypeOK /\ ResultTypeOK
      /\ DispatchConsistent
  BY DEF IndInv
<1>1. ASSUME NEW s \in Scheds, LoopEnter(s) PROVE TypeOK'
  <2>1. MainTypeOK'
    BY <1>0, <1>1
    DEF LoopEnter, MainTypeOK, MainPcs
  <2>2. ControlTypeOK' /\ TableTypeOK' /\ JobTypeOK' /\ ResultTypeOK'
    BY <1>0, <1>1
    DEF LoopEnter, ControlTypeOK, TableTypeOK, JobTypeOK, ResultTypeOK, ctlVars, jobVars, poolVars
  <2> QED  BY <2>1, <2>2
<1>2. ASSUME NEW s \in Scheds, LoopExit(s) PROVE TypeOK'
  <2>1. MainTypeOK'
    BY <1>0, <1>2
    DEF LoopExit, MainTypeOK, MainPcs
  <2>2. ControlTypeOK' /\ TableTypeOK' /\ JobTypeOK' /\ ResultTypeOK'
    BY <1>0, <1>2
    DEF LoopExit, ControlTypeOK, TableTypeOK, JobTypeOK, ResultTypeOK, ctlVars, jobVars, poolVars
  <2> QED  BY <2>1, <2>2
<1>3. ASSUME NEW s \in Scheds, AdjustPools(s) PROVE TypeOK'
  <2>1. MainTypeOK'
    <3>1. ASSUME NEW pl \in Pools, NEW scale \in Scales
          PROVE  TargetSize(BaseWorkers[pl], MaxWorkers[pl],
                            EndpointDemand(s, pl), scale) \in Nat
      <4>1. /\ BaseWorkers[pl] \in Nat /\ MaxWorkers[pl] \in Nat /\ scale \in Nat
        BY PoolAssumption
      <4>2. EndpointDemand(s, pl) \in Nat  BY <1>0, DemandType
      <4> QED  BY <4>1, <4>2, TargetType
    <3>2. target' \in [Scheds -> [Pools -> Nat]]
      BY <1>0, <1>3, <3>1 DEF AdjustPools, MainTypeOK
    <3>3. Len(ready[s]) \in Nat
      BY <1>0 DEF TableTypeOK
    <3> QED  BY <1>0, <1>3, <3>2, <3>3 DEF AdjustPools, MainTypeOK, MainPcs, Pools
  <2>2. ControlTypeOK' /\ TableTypeOK' /\ JobTypeOK' /\ ResultTypeOK'
    BY <1>0, <1>3
    DEF AdjustPools, ControlTypeOK, TableTypeOK, JobTypeOK, ResultTypeOK, ctlVars, jobVars, poolVars
  <2> QED  BY <2>1, <2>2
<1>4. ASSUME NEW s \in Scheds, PoolFilled(s) PROVE TypeOK'
  <2>1. MainTypeOK'
    <3>1. Len(ready[s]) \in Nat
      BY <1>0 DEF TableTypeOK
    <3>2. NextPool(s, ready[s]) /\ UNCHANGED <<hand, take, target, drained, faults, late>>
      BY <1>0, <1>4 DEF PoolFilled
    <3> QED  BY <1>0, <3>1, <3>2, NextPoolType DEF MainTypeOK
  <2>2. ControlTypeOK' /\ TableTypeOK' /\ JobTypeOK' /\ ResultTypeOK'
    BY <1>0, <1>4
    DEF PoolFilled, ControlTypeOK, TableTypeOK, JobTypeOK, ResultTypeOK, ctlVars, jobVars, poolVars, NextPool
  <2> QED  BY <2>1, <2>2
<1>5. ASSUME NEW s \in Scheds, DispatchAborted(s) PROVE TypeOK'
  <2>1. MainTypeOK'
    BY <1>0, <1>5
    DEF DispatchAborted, MainTypeOK, MainPcs
  <2>2. ControlTypeOK' /\ TableTypeOK' /\ JobTypeOK' /\ ResultTypeOK'
    BY <1>0, <1>5
    DEF DispatchAborted, ControlTypeOK, TableTypeOK, JobTypeOK, ResultTypeOK, ctlVars, jobVars, poolVars
  <2> QED  BY <2>1, <2>2
<1>6. ASSUME NEW s \in Scheds, TakeReady(s) PROVE TypeOK'
  <2>1. MainTypeOK'
    <3>1. ready[s] \in Seq(Endpoints) /\ ready[s] # <<>>
      BY <1>0, <1>6 DEF TakeReady, MayDispatch, TableTypeOK
    <3>2. Head(ready[s]) \in Endpoints  BY <3>1, HeadTailProperties
    <3> QED  BY <1>0, <1>6, <3>2 DEF TakeReady, MainTypeOK, MainPcs
  <2>2. TableTypeOK'
    BY <1>0, <1>6, HeadTailProperties
    DEF TakeReady, TableTypeOK, poolVars, MayDispatch
  <2>3. ControlTypeOK' /\ JobTypeOK' /\ ResultTypeOK'
    BY <1>0, <1>6
    DEF TakeReady, ControlTypeOK, JobTypeOK, ResultTypeOK, ctlVars, jobVars, poolVars
  <2> QED  BY <2>1, <2>2, <2>3
<1>7. ASSUME NEW s \in Scheds, PutBack(s) PROVE TypeOK'
  <2>1. MainTypeOK'
    BY <1>0, <1>7
    DEF PutBack, MainTypeOK, MainPcs
  <2>2. TableTypeOK'
    BY <1>0, <1>7, AppendProperties
    DEF PutBack, TableTypeOK, poolVars, DispatchConsistent
  <2>3. ControlTypeOK' /\ JobTypeOK' /\ ResultTypeOK'
    BY <1>0, <1>7
    DEF PutBack, ControlTypeOK, JobTypeOK, ResultTypeOK, ctlVars, jobVars, poolVars
  <2> QED  BY <2>1, <2>2, <2>3
<1>9. ASSUME NEW s \in Scheds, TryHold(s) PROVE TypeOK'
  <2>1. MainTypeOK'
    BY <1>0, <1>9, BatchType
    DEF TryHold, MainTypeOK, MainPcs, DispatchConsistent
  <2>2. TableTypeOK'
    BY <1>0, <1>9, BatchType
    DEF TryHold, TableTypeOK, poolVars, DispatchConsistent
  <2>3. ControlTypeOK' /\ JobTypeOK' /\ ResultTypeOK'
    BY <1>0, <1>9
    DEF TryHold, ControlTypeOK, JobTypeOK, ResultTypeOK, ctlVars, jobVars, poolVars
  <2> QED  BY <2>1, <2>2, <2>3
<1>10. ASSUME NEW s \in Scheds, Submit(s) PROVE TypeOK'
  <2>1. MainTypeOK'
    BY <1>0, <1>10
    DEF Submit, MainTypeOK, MainPcs
  <2>2. TableTypeOK'
    BY <1>0, <1>10, TakeType
    DEF Submit, TableTypeOK, DispatchConsistent
  <2>3. JobTypeOK'
    BY <1>0, <1>10, TakeType
    DEF Submit, JobTypeOK, Phases, InFlight, DispatchConsistent
  <2>4. ControlTypeOK' /\ ResultTypeOK'
    BY <1>0, <1>10
    DEF Submit, ControlTypeOK, ResultTypeOK, ctlVars
  <2> QED  BY <2>1, <2>2, <2>3, <2>4
<1>11. ASSUME NEW s \in Scheds, SkipPending(s) PROVE TypeOK'
  <2>1. MainTypeOK'
    BY <1>0, <1>11
    DEF SkipPending, MainTypeOK, MainPcs
  <2>2. ControlTypeOK'
    BY <1>0, <1>11
    DEF SkipPending, ControlTypeOK
  <2>3. TableTypeOK'
    BY <1>0, <1>11
    DEF SkipPending, TableTypeOK, poolVars
  <2>4. ResultTypeOK'
    BY <1>0, <1>11, AppendOnceType
    DEF SkipPending, ResultTypeOK, Status, StopLabel, Skipped
  <2>5. JobTypeOK'
    BY <1>0, <1>11
    DEF SkipPending, JobTypeOK, jobVars, poolVars
  <2> QED  BY <2>1, <2>2, <2>3, <2>4, <2>5
<1>12. ASSUME NEW s \in Scheds, Drain(s) PROVE TypeOK'
  <2>1. MainTypeOK'
    BY <1>0, <1>12
    DEF Drain, MainTypeOK, MainPcs, DrainResult
  <2>2. ControlTypeOK' /\ TableTypeOK' /\ JobTypeOK' /\ ResultTypeOK'
    BY <1>0, <1>12
    DEF Drain, ControlTypeOK, TableTypeOK, JobTypeOK, ResultTypeOK, ctlVars, jobVars, poolVars
  <2> QED  BY <2>1, <2>2
<1>13. ASSUME NEW s \in Scheds, CancelQueued(s) PROVE TypeOK'
  <2>1. JobTypeOK'
    BY <1>0, <1>13
    DEF CancelQueued, JobTypeOK, Phases, InFlight, QueuedJobs
  <2>2. MainTypeOK' /\ ControlTypeOK' /\ TableTypeOK' /\ ResultTypeOK'
    BY <1>0, <1>13
    DEF CancelQueued, MainTypeOK, ControlTypeOK, TableTypeOK, ResultTypeOK, mainVars, ctlVars, poolVars
  <2> QED  BY <2>1, <2>2
<1>14. ASSUME NEW s \in Scheds, ShutdownPools(s) PROVE TypeOK'
  <2>1. MainTypeOK'
    BY <1>0, <1>14
    DEF ShutdownPools, MainTypeOK, MainPcs
  <2>2. TableTypeOK'
    BY <1>0, <1>14
    DEF ShutdownPools, TableTypeOK
  <2>3. JobTypeOK'
    BY <1>0, <1>14
    DEF ShutdownPools, JobTypeOK, jobVars, Phases, InFlight
  <2>4. ControlTypeOK' /\ ResultTypeOK'
    BY <1>0, <1>14
    DEF ShutdownPools, ControlTypeOK, ResultTypeOK, ctlVars, jobVars
  <2> QED  BY <2>1, <2>2, <2>3, <2>4
<1>15. ASSUME NEW s \in Scheds, Return(s) PROVE TypeOK'
  <2>1. MainTypeOK'
    BY <1>0, <1>15
    DEF Return, MainTypeOK, MainPcs
  <2>2. ResultTypeOK'
    BY <1>0, <1>15
    DEF Return, ResultTypeOK, Status
  <2>3. ControlTypeOK' /\ TableTypeOK' /\ JobTypeOK'
    BY <1>0, <1>15
    DEF Return, ControlTypeOK, TableTypeOK, JobTypeOK, ctlVars, jobVars, poolVars
  <2> QED  BY <2>1, <2>2, <2>3
<1>16. ASSUME NEW s \in Scheds, AppStops(s) PROVE TypeOK'
  <2>1. MainTypeOK'
    BY <1>0, <1>16
    DEF AppStops, MainTypeOK, mainVars, MainPcs
  <2>2. PICK r \in StopReasons[s] : asked' = [asked EXCEPT ![s] = r]
    BY <1>16 DEF AppStops
  <2>3. r \in {"user_stop", "route_change"}
    BY <2>2, SwitchAssumption
  <2>4. ControlTypeOK'
    BY <1>0, <1>16, <2>2, <2>3
    DEF AppStops, ControlTypeOK
  <2>5. TableTypeOK' /\ JobTypeOK' /\ ResultTypeOK'
    BY <1>0, <1>16
    DEF AppStops, TableTypeOK, JobTypeOK, ResultTypeOK, mainVars, jobVars, poolVars
  <2> QED  BY <2>1, <2>4, <2>5
<1>17. ASSUME NEW s \in Scheds, ForwardStop(s) PROVE TypeOK'
  <2>1. ControlTypeOK'
    BY <1>0, <1>17
    DEF ForwardStop, ControlTypeOK
  <2>2. MainTypeOK' /\ TableTypeOK' /\ JobTypeOK' /\ ResultTypeOK'
    BY <1>0, <1>17
    DEF ForwardStop, MainTypeOK, TableTypeOK, JobTypeOK, ResultTypeOK, mainVars, jobVars, poolVars
  <2> QED  BY <2>1, <2>2
<1>18. ASSUME NEW s \in Scheds, Pause(s) PROVE TypeOK'
  <2>1. MainTypeOK'
    BY <1>0, <1>18
    DEF Pause, MainTypeOK, mainVars, MainPcs
  <2>2. ControlTypeOK'
    BY <1>0, <1>18
    DEF Pause, ControlTypeOK
  <2>3. TableTypeOK' /\ JobTypeOK' /\ ResultTypeOK'
    BY <1>0, <1>18
    DEF Pause, TableTypeOK, JobTypeOK, ResultTypeOK, mainVars, jobVars, poolVars
  <2> QED  BY <2>1, <2>2, <2>3
<1>19. ASSUME NEW s \in Scheds, Resume(s) PROVE TypeOK'
  <2>1. ControlTypeOK'
    BY <1>0, <1>19
    DEF Resume, ControlTypeOK
  <2>2. MainTypeOK' /\ TableTypeOK' /\ JobTypeOK' /\ ResultTypeOK'
    BY <1>0, <1>19
    DEF Resume, MainTypeOK, TableTypeOK, JobTypeOK, ResultTypeOK, mainVars, jobVars, poolVars
  <2> QED  BY <2>1, <2>2
<1>20. ASSUME NEW s \in Scheds, SubmitFails(s) PROVE TypeOK'
  <2>1. MainTypeOK'
    <3> DEFINE rdy == Append(ready[s], hand[s])
    <3>1. pc[s] = "submit"  BY <1>0, <1>20 DEF SubmitFails
    <3>2. hand[s] \in Endpoints  BY <1>0, <3>1 DEF DispatchConsistent
    <3>3. Len(rdy) \in Nat
      <4>1. rdy \in Seq(Endpoints)  BY <1>0, <3>2, AppendProperties DEF TableTypeOK
      <4> QED  BY <4>1
    <3>4. NextPool(s, rdy)  BY <1>0, <1>20 DEF SubmitFails
    <3>5. /\ UNCHANGED <<target, drained, late>>
          /\ hand' = [hand EXCEPT ![s] = None]
          /\ take' = [take EXCEPT ![s] = <<>>]
          /\ faults' = [faults EXCEPT ![s] = @ + 1]
      BY <1>0, <1>20 DEF SubmitFails
    <3> HIDE DEF rdy
    <3>6. /\ hand' \in [Scheds -> Endpoints \cup {None}]
          /\ take' \in [Scheds -> Seq(Plans)]
          /\ faults' \in [Scheds -> Nat]
      BY <1>0, <3>5 DEF MainTypeOK
    <3> QED  BY <1>0, <3>3, <3>4, <3>5, <3>6, NextPoolType DEF MainTypeOK
  <2>2. TableTypeOK'
    BY <1>0, <1>20, TakeType
    DEF SubmitFails, TableTypeOK, poolVars, DispatchConsistent, Freed, PutPlansBack
  <2>3. JobTypeOK'
    BY <1>0, <1>20
    DEF SubmitFails, JobTypeOK, jobVars, Phases, InFlight
  <2>4. ControlTypeOK' /\ ResultTypeOK'
    BY <1>0, <1>20
    DEF SubmitFails, ControlTypeOK, ResultTypeOK, ctlVars, jobVars, poolVars, NextPool
  <2> QED  BY <2>1, <2>2, <2>3, <2>4
<1>21. ASSUME NEW s \in Scheds, Interrupt(s) PROVE TypeOK'
  <2>1. MainTypeOK'
    BY <1>0, <1>21
    DEF Interrupt, MainTypeOK, MainPcs
  <2>2. ControlTypeOK'
    BY <1>0, <1>21
    DEF Interrupt, ControlTypeOK
  <2>3. TableTypeOK' /\ JobTypeOK' /\ ResultTypeOK'
    BY <1>0, <1>21
    DEF Interrupt, TableTypeOK, JobTypeOK, ResultTypeOK, jobVars, poolVars
  <2> QED  BY <2>1, <2>2, <2>3
<1>22. ASSUME NEW p \in Plans, StartJob(p) PROVE TypeOK'
  <2>1. JobTypeOK'
    BY <1>0, <1>22
    DEF StartJob, JobTypeOK, Phases, InFlight
  <2>2. MainTypeOK' /\ ControlTypeOK' /\ TableTypeOK' /\ ResultTypeOK'
    BY <1>0, <1>22
    DEF StartJob, MainTypeOK, ControlTypeOK, TableTypeOK, ResultTypeOK, mainVars, ctlVars, poolVars
  <2> QED  BY <2>1, <2>2
<1>23. ASSUME NEW p \in Plans, ExecutePlan(p) PROVE TypeOK'
  <2>1. JobTypeOK'
    <3>1. todo[p] \in Seq(Plans) /\ todo[p] # <<>>
      BY <1>0, <1>23 DEF ExecutePlan, JobTypeOK
    <3>2. Head(todo[p]) \in Plans /\ Tail(todo[p]) \in Seq(Plans)
      BY <3>1, HeadTailProperties
    <3> QED  BY <1>0, <1>23, <3>2 DEF ExecutePlan, JobTypeOK, jobVars
  <2>2. ResultTypeOK'
    BY <1>0, <1>23, AppendOnceType
    DEF ExecutePlan, ResultTypeOK, Status, Executed
  <2>3. MainTypeOK' /\ ControlTypeOK' /\ TableTypeOK'
    BY <1>0, <1>23
    DEF ExecutePlan, MainTypeOK, ControlTypeOK, TableTypeOK, mainVars, ctlVars, poolVars
  <2> QED  BY <2>1, <2>2, <2>3
<1>24. ASSUME NEW p \in Plans, FinishJob(p) PROVE TypeOK'
  <2>1. JobTypeOK'
    BY <1>0, <1>24
    DEF FinishJob, JobTypeOK, Phases, InFlight
  <2>2. MainTypeOK' /\ ControlTypeOK' /\ TableTypeOK' /\ ResultTypeOK'
    BY <1>0, <1>24
    DEF FinishJob, MainTypeOK, ControlTypeOK, TableTypeOK, ResultTypeOK, mainVars, ctlVars, poolVars
  <2> QED  BY <2>1, <2>2
<1>25. ASSUME NEW p \in Plans, OnDone(p) PROVE TypeOK'
  <2>1. TableTypeOK'
    <3> DEFINE o == OwnerOf[p]
    <3>1. o \in Scheds  BY PlanAssumption
    <3>2. CASE p \in active[o]
      <4>1. /\ active' = [active EXCEPT ![o] = @ \ {p}]
            /\ busy' = [busy EXCEPT ![o] = @ \ {EpOf[p]}]
            /\ UNCHANGED <<queue, ready, lease>>
        BY <1>0, <1>25, <3>2 DEF OnDone
      <4> QED  BY <1>0, <3>1, <4>1 DEF TableTypeOK
    <3>3. CASE p \notin active[o]
      BY <1>0, <1>25, <3>3 DEF OnDone, TableTypeOK, poolVars
    <3> QED  BY <3>2, <3>3
  <2>2. JobTypeOK'
    BY <1>0, <1>25
    DEF OnDone, JobTypeOK, Phases, InFlight
  <2>3. MainTypeOK' /\ ControlTypeOK' /\ ResultTypeOK'
    BY <1>0, <1>25
    DEF OnDone, MainTypeOK, ControlTypeOK, ResultTypeOK, mainVars, ctlVars, poolVars
  <2> QED  BY <2>1, <2>2, <2>3
<1>26. ASSUME NEW p \in Plans, ReleaseLease(p) PROVE TypeOK'
  <2>1. TableTypeOK'
    BY <1>0, <1>26
    DEF ReleaseLease, TableTypeOK, poolVars, Freed
  <2>2. JobTypeOK'
    BY <1>0, <1>26
    DEF ReleaseLease, JobTypeOK, Phases, InFlight
  <2>3. MainTypeOK' /\ ControlTypeOK' /\ ResultTypeOK'
    BY <1>0, <1>26
    DEF ReleaseLease, MainTypeOK, ControlTypeOK, ResultTypeOK, mainVars, ctlVars, poolVars
  <2> QED  BY <2>1, <2>2, <2>3
<1>27. ASSUME NEW p \in Plans, AppendInbandResult(p) PROVE TypeOK'
  <2>1. JobTypeOK'
    BY <1>0, <1>27
    DEF AppendInbandResult, JobTypeOK, Phases, InFlight
  <2>2. ResultTypeOK'
    BY <1>0, <1>27, AppendOnceType
    DEF AppendInbandResult, ResultTypeOK, Status, Executed
  <2>3. MainTypeOK' /\ ControlTypeOK' /\ TableTypeOK'
    BY <1>0, <1>27
    DEF AppendInbandResult, MainTypeOK, ControlTypeOK, TableTypeOK, mainVars, ctlVars, poolVars
  <2> QED  BY <2>1, <2>2, <2>3
<1>28. ASSUME NEW p \in Plans, GroupDone(p) PROVE TypeOK'
  <2>1. JobTypeOK'
    BY <1>0, <1>28
    DEF GroupDone, JobTypeOK, Phases, InFlight
  <2>2. ResultTypeOK'
    BY <1>0, <1>28
    DEF GroupDone, ResultTypeOK, Status, Recovered, Executed
  <2>3. MainTypeOK' /\ ControlTypeOK' /\ TableTypeOK'
    BY <1>0, <1>28
    DEF GroupDone, MainTypeOK, ControlTypeOK, TableTypeOK, mainVars, ctlVars, poolVars
  <2> QED  BY <2>1, <2>2, <2>3
<1>29. ASSUME NEW p \in Plans, Requeue(p) PROVE TypeOK'
  <2>1. TableTypeOK'
    BY <1>0, <1>29, PlanAssumption, AppendProperties
    DEF Requeue, TableTypeOK, poolVars, ReadyAfter
  <2>2. JobTypeOK'
    BY <1>0, <1>29
    DEF Requeue, JobTypeOK, Phases, InFlight
  <2>3. MainTypeOK' /\ ControlTypeOK' /\ ResultTypeOK'
    BY <1>0, <1>29
    DEF Requeue, MainTypeOK, ControlTypeOK, ResultTypeOK, mainVars, ctlVars, poolVars
  <2> QED  BY <2>1, <2>2, <2>3
<1>30. ASSUME NEW p \in Plans, CrashJob(p) PROVE TypeOK'
  <2>1. JobTypeOK'
    BY <1>0, <1>30
    DEF CrashJob, JobTypeOK, Phases, InFlight
  <2>2. MainTypeOK' /\ ControlTypeOK' /\ TableTypeOK' /\ ResultTypeOK'
    BY <1>0, <1>30
    DEF CrashJob, MainTypeOK, ControlTypeOK, TableTypeOK, ResultTypeOK, mainVars, ctlVars, poolVars
  <2> QED  BY <2>1, <2>2
<1>31. ASSUME NEW p \in Plans, GhostStarts(p) PROVE TypeOK'
  <2>1. JobTypeOK'
    BY <1>0, <1>31
    DEF GhostStarts, JobTypeOK, jobVars, Phases, InFlight
  <2>2. MainTypeOK' /\ ControlTypeOK' /\ TableTypeOK' /\ ResultTypeOK'
    BY <1>0, <1>31
    DEF GhostStarts, MainTypeOK, ControlTypeOK, TableTypeOK, ResultTypeOK, mainVars, ctlVars, jobVars, poolVars
  <2> QED  BY <2>1, <2>2
<1>32. ASSUME NEW p \in Plans, GhostEnds(p) PROVE TypeOK'
  <2>1. JobTypeOK'
    BY <1>0, <1>32
    DEF GhostEnds, JobTypeOK, jobVars, Phases, InFlight
  <2>2. ResultTypeOK'
    BY <1>0, <1>32, AppendOnceType
    DEF GhostEnds, ResultTypeOK, Status, Executed
  <2>3. MainTypeOK' /\ ControlTypeOK' /\ TableTypeOK'
    BY <1>0, <1>32
    DEF GhostEnds, MainTypeOK, ControlTypeOK, TableTypeOK, mainVars, ctlVars, jobVars, poolVars
  <2> QED  BY <2>1, <2>2, <2>3
<1>33. CASE UNCHANGED vars
  BY <1>0, <1>33 DEF IndInv, vars, mainVars, ctlVars, jobVars, poolVars,
    MainTypeOK, ControlTypeOK, TableTypeOK, JobTypeOK, ResultTypeOK
<1> QED
  BY <1>0, <1>1, <1>2, <1>3, <1>4, <1>5, <1>6, <1>7, <1>9, <1>10, <1>11, <1>12, <1>13, <1>14, <1>15, <1>16, <1>17, <1>18, <1>19, <1>20, <1>21, <1>22, <1>23, <1>24, <1>25, <1>26, <1>27, <1>28, <1>29, <1>30, <1>31, <1>32, <1>33
  DEF Next, MainStep, ControlStep, FaultStep, WorkerStep, GhostStep, Terminated

-----------------------------------------------------------------------------
(* Steps after which scheduler s holds no endpoint in hand: queues keep    *)
(* the plans of their endpoints and only jobs of s become leased.          *)
LEMMA HandEmptied ==
  ASSUME DispatchConsistent, NEW s \in Scheds,
         pc'[s] \notin {"pick", "submit"},
         \A t \in Scheds \ {s} : /\ pc'[t] = pc[t]
                                 /\ hand'[t] = hand[t]
                                 /\ take'[t] = take[t],
         \A t \in Scheds, e \in Endpoints : queue'[t][e] \in Seq(PlansAt(t, e)),
         \A p \in Plans : phase'[p] \in Leased => phase[p] \in Leased \/ OwnerOf[p] = s
  PROVE  DispatchConsistent'
<1> SUFFICES ASSUME NEW t \in Scheds, t # s, pc[t] = "submit"
             PROVE  phase'[Head(take[t])] \notin Leased
  BY DEF DispatchConsistent, PlansAt
<1>1. Head(take[t]) \in PlansAt(t, hand[t])  BY TakeType
<1>2. OwnerOf[Head(take[t])] = t /\ Head(take[t]) \in Plans
  BY <1>1 DEF PlansAt
<1>3. phase[Head(take[t])] \notin Leased  BY DEF DispatchConsistent
<1> QED  BY <1>2, <1>3

(* Steps that leave every main thread where it is.                         *)
LEMMA MainUntouched ==
  ASSUME DispatchConsistent, UNCHANGED <<pc, hand, take, queue>>,
         \A p \in Plans : phase'[p] \in Leased => phase[p] \in Leased
  PROVE  DispatchConsistent'
<1> SUFFICES ASSUME NEW t \in Scheds, pc[t] = "submit"
             PROVE  phase'[Head(take[t])] \notin Leased
  BY DEF DispatchConsistent, PlansAt
<1>1. Head(take[t]) \in Plans  BY TakeType
<1>2. phase[Head(take[t])] \notin Leased  BY DEF DispatchConsistent
<1> QED  BY <1>1, <1>2

(* Steps that neither take nor free a lease.                               *)
LEMMA LeasesUntouched ==
  ASSUME LeaseCoversJob, UNCHANGED lease,
         \A p \in Plans : phase'[p] \in Leased => phase[p] \in Leased,
         \A t \in Scheds : pc'[t] = "submit" =>
           pc[t] = "submit" /\ hand'[t] = hand[t] /\ take'[t] = take[t]
  PROVE  LeaseCoversJob'
BY DEF LeaseCoversJob

(* A job's own thread and its callback only go on with a lease they have.  *)
LEMMA WorkerKeepsPhases ==
  ASSUME TypeOK, NEW p \in Plans, WorkerStep(p) \/ CrashJob(p)
  PROVE  /\ \A q \in Plans : phase'[q] \in Leased => phase[q] \in Leased
         /\ UNCHANGED <<pc, hand, take, queue>>
<1>0. phase \in [Plans -> Phases]  BY DEF TypeOK, JobTypeOK
<1>1. CASE StartJob(p)  BY <1>0, <1>1 DEF StartJob, Leased, mainVars
<1>2. CASE ExecutePlan(p)  BY <1>2 DEF ExecutePlan, mainVars
<1>3. CASE FinishJob(p)  BY <1>0, <1>3 DEF FinishJob, Leased, mainVars
<1>4. CASE CrashJob(p)  BY <1>0, <1>4 DEF CrashJob, Leased, mainVars
<1>5. CASE OnDone(p)
  <2>1. phase[p] = "finished" /\ UNCHANGED <<pc, hand, take, queue>>
    BY <1>5 DEF OnDone, mainVars
  <2>2. \/ phase' = [phase EXCEPT ![p] = "claimed"]
        \/ phase' = [phase EXCEPT ![p] = "lost"]
    BY <1>5 DEF OnDone
  <2> QED  BY <1>0, <2>1, <2>2 DEF Leased
<1>6. CASE ReleaseLease(p)  BY <1>0, <1>6 DEF ReleaseLease, Leased, mainVars
<1>7. CASE AppendInbandResult(p)
  <2>1. UNCHANGED <<pc, hand, take, queue>>
    BY <1>7 DEF AppendInbandResult, mainVars
  <2>2. \/ phase' = [phase EXCEPT ![p] = "appended"]
        \/ phase' = [phase EXCEPT ![p] = "done"]
    BY <1>7 DEF AppendInbandResult
  <2> QED  BY <1>0, <2>1, <2>2 DEF Leased
<1>8. CASE GroupDone(p)  BY <1>0, <1>8 DEF GroupDone, Leased, mainVars
<1>9. CASE Requeue(p)  BY <1>0, <1>9 DEF Requeue, Leased, mainVars
<1> QED
  BY <1>1, <1>2, <1>3, <1>4, <1>5, <1>6, <1>7, <1>8, <1>9 DEF WorkerStep

(* Main-thread steps of s that take, submit and free nothing.              *)
OtherMainStep(s) ==
  \/ LoopEnter(s) \/ LoopExit(s) \/ AdjustPools(s) \/ PoolFilled(s)
  \/ DispatchAborted(s) \/ PutBack(s) \/ SkipPending(s)
  \/ Drain(s) \/ CancelQueued(s) \/ ShutdownPools(s) \/ Return(s)
  \/ Interrupt(s)

LEMMA OtherMainStepFrame ==
  ASSUME TypeOK, DispatchConsistent, NEW s \in Scheds, OtherMainStep(s)
  PROVE  /\ pc'[s] \notin {"pick", "submit"}
         /\ \A t \in Scheds \ {s} : /\ pc'[t] = pc[t]
                                    /\ hand'[t] = hand[t]
                                    /\ take'[t] = take[t]
         /\ \A t \in Scheds, e \in Endpoints : queue'[t][e] \in Seq(PlansAt(t, e))
         /\ \A p \in Plans : phase'[p] \in Leased => phase[p] \in Leased
         /\ UNCHANGED lease
<1>0. /\ pc \in [Scheds -> MainPcs]
      /\ hand \in [Scheds -> Endpoints \cup {None}]
      /\ queue \in [Scheds -> [Endpoints -> Seq(Plans)]]
      /\ phase \in [Plans -> Phases]
      /\ \A t \in Scheds, e \in Endpoints : queue[t][e] \in Seq(PlansAt(t, e))
  BY DEF TypeOK, MainTypeOK, TableTypeOK, JobTypeOK, DispatchConsistent
<1>1. CASE LoopEnter(s)  BY <1>0, <1>1 DEF LoopEnter, jobVars
<1>2. CASE LoopExit(s)  BY <1>0, <1>2 DEF LoopExit, jobVars
<1>3. CASE AdjustPools(s)  BY <1>0, <1>3 DEF AdjustPools, jobVars
<1>4. CASE PoolFilled(s)
  <2>1. NextPool(s, ready[s]) /\ UNCHANGED <<hand, take, queue, phase, lease>>
    BY <1>4 DEF PoolFilled, jobVars
  <2>2. \/ pc' = [pc EXCEPT ![s] = "check"]
        \/ pc' = [pc EXCEPT ![s] = "loop"]
    BY <2>1 DEF NextPool
  <2> QED  BY <1>0, <2>1, <2>2
<1>5. CASE DispatchAborted(s)  BY <1>0, <1>5 DEF DispatchAborted, jobVars
<1>6. CASE PutBack(s)  BY <1>0, <1>6 DEF PutBack, jobVars
<1>8. CASE SkipPending(s)
  <2>1. /\ UNCHANGED <<hand, take, phase, lease>>
        /\ pc' = [pc EXCEPT ![s] = "drain"]
        /\ queue' = [queue EXCEPT ![s] = [e \in Endpoints |-> <<>>]]
    BY <1>8 DEF SkipPending, jobVars
  <2>2. \A t \in Scheds, e \in Endpoints : queue'[t][e] \in Seq(PlansAt(t, e))
    BY <1>0, <2>1
  <2> QED  BY <1>0, <2>1, <2>2
<1>9. CASE Drain(s)  BY <1>0, <1>9 DEF Drain, jobVars
<1>10. CASE CancelQueued(s)
  <2>1. pc[s] = "cancel" /\ UNCHANGED <<pc, hand, take, queue, lease>>
    BY <1>10 DEF CancelQueued, mainVars
  <2>2. PICK p \in Plans : /\ phase[p] = "queued"
                           /\ phase' = [phase EXCEPT ![p] = "finished"]
    BY <1>10 DEF CancelQueued, QueuedJobs
  <2>3. \A q \in Plans : phase'[q] \in Leased => phase[q] \in Leased
    BY <1>0, <2>2 DEF Leased
  <2> QED  BY <1>0, <2>1, <2>3
<1>11. CASE ShutdownPools(s)  BY <1>0, <1>11 DEF ShutdownPools, jobVars
<1>12. CASE Return(s)  BY <1>0, <1>12 DEF Return, jobVars
<1>13. CASE Interrupt(s)  BY <1>0, <1>13 DEF Interrupt, jobVars
<1> QED
  BY <1>1, <1>2, <1>3, <1>4, <1>5, <1>6, <1>8, <1>9, <1>10, <1>11,
     <1>12, <1>13 DEF OtherMainStep

(* Controller and ghost steps touch neither main threads nor leases.       *)
LEMMA OutsideFrame ==
  ASSUME \/ \E s \in Scheds : ControlStep(s)
         \/ \E p \in Plans : GhostStep(p)
         \/ UNCHANGED vars
  PROVE  UNCHANGED <<pc, hand, take, queue, phase, lease>>
<1>1. ASSUME NEW s \in Scheds, ControlStep(s)
      PROVE  UNCHANGED <<pc, hand, take, queue, phase, lease>>
  BY <1>1 DEF ControlStep, AppStops, ForwardStop, Pause, Resume, mainVars, jobVars
<1>2. ASSUME NEW p \in Plans, GhostStep(p)
      PROVE  UNCHANGED <<pc, hand, take, queue, phase, lease>>
  BY <1>2 DEF GhostStep, GhostStarts, GhostEnds, mainVars, jobVars
<1>3. CASE UNCHANGED vars  BY <1>3 DEF vars, mainVars, jobVars
<1> QED  BY <1>1, <1>2, <1>3

(* What the main thread of s needs to know when it submits.                *)
LEMMA SubmitFacts ==
  ASSUME IndInv, NEW s \in Scheds, pc[s] = "submit"
  PROVE  /\ hand[s] \in Endpoints
         /\ Head(take[s]) \in Plans
         /\ OwnerOf[Head(take[s])] = s
         /\ EpOf[Head(take[s])] = hand[s]
         /\ lease[hand[s]] = Head(take[s])
         /\ phase[Head(take[s])] \notin Leased
<1>1. DispatchConsistent /\ LeaseCoversJob  BY DEF IndInv
<1>2. hand[s] \in Endpoints /\ Head(take[s]) \in PlansAt(s, hand[s])
  BY <1>1, TakeType
<1>3. phase[Head(take[s])] \notin Leased  BY <1>1 DEF DispatchConsistent
<1>4. lease[hand[s]] = Head(take[s])  BY <1>1 DEF LeaseCoversJob
<1> QED  BY <1>2, <1>3, <1>4 DEF PlansAt

(* The main thread's data stays consistent.                                *)
LEMMA DispatchStep ==
  ASSUME IndInv, [Next]_vars
  PROVE  DispatchConsistent'
<1>0. /\ TypeOK /\ DispatchConsistent
      /\ pc \in [Scheds -> MainPcs]
      /\ hand \in [Scheds -> Endpoints \cup {None}]
      /\ take \in [Scheds -> Seq(Plans)]
      /\ queue \in [Scheds -> [Endpoints -> Seq(Plans)]]
      /\ phase \in [Plans -> Phases]
      /\ \A t \in Scheds, e \in Endpoints : queue[t][e] \in Seq(PlansAt(t, e))
  BY DEF IndInv, TypeOK, MainTypeOK, TableTypeOK, JobTypeOK, DispatchConsistent
<1>1. ASSUME NEW s \in Scheds, OtherMainStep(s) PROVE DispatchConsistent'
  BY <1>0, <1>1, OtherMainStepFrame, HandEmptied
<1>2. ASSUME NEW s \in Scheds, TakeReady(s) PROVE DispatchConsistent'
  <2>1. /\ pc' = [pc EXCEPT ![s] = "pick"]
        /\ hand' = [hand EXCEPT ![s] = Head(ready[s])]
        /\ UNCHANGED <<take, queue, phase>>
    BY <1>2 DEF TakeReady, jobVars
  <2>2. Head(ready[s]) \in Endpoints
    BY <1>0, <1>2, HeadTailProperties DEF TakeReady, MayDispatch, TypeOK, TableTypeOK
  <2> QED  BY <1>0, <2>1, <2>2 DEF DispatchConsistent, PlansAt
<1>3. ASSUME NEW s \in Scheds, TryHold(s) PROVE DispatchConsistent'
  <2> DEFINE e == hand[s]
  <2>1. /\ pc[s] = "pick" /\ queue[s][e] # <<>>
        /\ pc' = [pc EXCEPT ![s] = "submit"]
        /\ take' = [take EXCEPT ![s] = Batch(s, e)]
        /\ queue' = [queue EXCEPT ![s][e] = Rest(s, e)]
        /\ lease[e] = None
        /\ UNCHANGED <<hand, phase>>
    BY <1>3 DEF TryHold, CannotHold, jobVars
  <2>2. e \in Endpoints  BY <1>0, <2>1 DEF DispatchConsistent
  <2>3. /\ Head(queue[s][e]) \in PlansAt(s, e)
        /\ Batch(s, e) \in Seq(PlansAt(s, e)) /\ Batch(s, e) # <<>>
        /\ Head(Batch(s, e)) = Head(queue[s][e])
        /\ Rest(s, e) \in Seq(PlansAt(s, e))
    BY <1>0, <2>1, <2>2, BatchType
  <2>4. phase[Head(queue[s][e])] \notin Leased
    BY <2>1, <2>3, NoneAssumption DEF IndInv, LeaseCoversJob, PlansAt
  <2>5. \A t \in Scheds, f \in Endpoints : queue'[t][f] \in Seq(PlansAt(t, f))
    BY <1>0, <2>1, <2>2, <2>3
  <2>6. hand'[s] = e /\ take'[s] = Batch(s, e)
    BY <1>0, <2>1
  <2>7. \A t \in Scheds \ {s} : pc'[t] = pc[t] /\ hand'[t] = hand[t] /\ take'[t] = take[t]
    BY <1>0, <2>1
  <2> HIDE DEF e
  <2>8. \A t \in Scheds \ {s} :
          /\ pc'[t] \in {"pick", "submit"} => hand'[t] \in Endpoints
          /\ pc'[t] = "submit" => /\ take'[t] \in Seq(PlansAt(t, hand'[t]))
                                  /\ take'[t] # <<>>
                                  /\ phase'[Head(take'[t])] \notin Leased
    BY <1>0, <2>1, <2>7 DEF DispatchConsistent
  <2>9. /\ hand'[s] \in Endpoints
        /\ take'[s] \in Seq(PlansAt(s, hand'[s]))
        /\ take'[s] # <<>>
        /\ phase'[Head(take'[s])] \notin Leased
    BY <2>1, <2>2, <2>3, <2>4, <2>6
  <2> QED  BY <2>5, <2>8, <2>9 DEF DispatchConsistent, PlansAt
<1>4. ASSUME NEW s \in Scheds, Submit(s) PROVE DispatchConsistent'
  <2> DEFINE p == Head(take[s])
  <2>1. /\ pc[s] = "submit"
        /\ pc' = [pc EXCEPT ![s] = "check"]
        /\ hand' = [hand EXCEPT ![s] = None]
        /\ take' = [take EXCEPT ![s] = <<>>]
        /\ phase' = [phase EXCEPT ![p] = "queued"]
        /\ UNCHANGED queue
    BY <1>4 DEF Submit
  <2>2. p \in Plans /\ OwnerOf[p] = s  BY <2>1, SubmitFacts
  <2> HIDE DEF p
  <2>3. \A q \in Plans : phase'[q] \in Leased => phase[q] \in Leased \/ OwnerOf[q] = s
    BY <1>0, <2>1, <2>2
  <2> QED  BY <1>0, <2>1, <2>3, HandEmptied
<1>5. ASSUME NEW s \in Scheds, SubmitFails(s) PROVE DispatchConsistent'
  <2>1. /\ pc[s] = "submit"
        /\ hand' = [hand EXCEPT ![s] = None]
        /\ take' = [take EXCEPT ![s] = <<>>]
        /\ queue' = [queue EXCEPT ![s][hand[s]] = PutPlansBack(s)]
        /\ UNCHANGED phase
    BY <1>5 DEF SubmitFails, jobVars
  <2>2. \/ pc' = [pc EXCEPT ![s] = "check"]
        \/ pc' = [pc EXCEPT ![s] = "loop"]
    BY <1>5 DEF SubmitFails, NextPool
  <2>3. PutPlansBack(s) \in Seq(PlansAt(s, hand[s])) /\ hand[s] \in Endpoints
    BY <1>0, <2>1, TakeType
  <2>4. \A t \in Scheds, e \in Endpoints : queue'[t][e] \in Seq(PlansAt(t, e))
    BY <1>0, <2>1, <2>3
  <2> QED  BY <1>0, <2>1, <2>2, <2>4, HandEmptied
<1>6. ASSUME NEW p \in Plans, WorkerStep(p) \/ CrashJob(p) PROVE DispatchConsistent'
  BY <1>0, <1>6, WorkerKeepsPhases, MainUntouched
<1>7. CASE \/ \E s \in Scheds : ControlStep(s)
           \/ \E p \in Plans : GhostStep(p)
           \/ UNCHANGED vars
  BY <1>0, <1>7, OutsideFrame, MainUntouched
<1> QED
  BY <1>1, <1>2, <1>3, <1>4, <1>5, <1>6, <1>7
  DEF Next, MainStep, OtherMainStep, FaultStep, Terminated

(* Leases keep covering the jobs that rely on them.                        *)
LEMMA LeaseStep ==
  ASSUME IndInv, [Next]_vars
  PROVE  LeaseCoversJob'
<1>0. /\ TypeOK /\ DispatchConsistent /\ LeaseCoversJob
      /\ pc \in [Scheds -> MainPcs]
      /\ hand \in [Scheds -> Endpoints \cup {None}]
      /\ take \in [Scheds -> Seq(Plans)]
      /\ lease \in [Endpoints -> Plans \cup {None}]
      /\ phase \in [Plans -> Phases]
      /\ EpOf \in [Plans -> Endpoints]
  BY PlanAssumption DEF IndInv, TypeOK, MainTypeOK, TableTypeOK, JobTypeOK
<1>1. ASSUME NEW s \in Scheds, OtherMainStep(s) PROVE LeaseCoversJob'
  BY <1>0, <1>1, OtherMainStepFrame, LeasesUntouched
<1>2. ASSUME NEW s \in Scheds, TakeReady(s) PROVE LeaseCoversJob'
  <2>1. /\ pc' = [pc EXCEPT ![s] = "pick"]
        /\ \A t \in Scheds \ {s} : hand'[t] = hand[t]
        /\ UNCHANGED <<take, phase, lease>>
    BY <1>0, <1>2 DEF TakeReady, jobVars
  <2> QED  BY <1>0, <2>1, LeasesUntouched
<1>3. ASSUME NEW s \in Scheds, TryHold(s) PROVE LeaseCoversJob'
  <2> DEFINE e == hand[s]
             h == Head(queue[s][e])
  <2>1. /\ pc[s] = "pick" /\ queue[s][e] # <<>> /\ lease[e] = None
        /\ pc' = [pc EXCEPT ![s] = "submit"]
        /\ take' = [take EXCEPT ![s] = Batch(s, e)]
        /\ lease' = [lease EXCEPT ![e] = h]
        /\ UNCHANGED <<hand, phase>>
    BY <1>3 DEF TryHold, CannotHold, jobVars
  <2>2. e \in Endpoints  BY <1>0, <2>1 DEF DispatchConsistent
  <2>3. Head(Batch(s, e)) = h  BY <1>0, <2>1, <2>2, BatchType
  <2> HIDE DEF e, h
  <2>4. ASSUME NEW p \in Plans, phase'[p] \in Leased PROVE lease'[EpOf[p]] = p
    <3>1. lease[EpOf[p]] = p  BY <1>0, <2>1, <2>4 DEF LeaseCoversJob
    <3>2. EpOf[p] # e  BY <2>1, <3>1, NoneAssumption
    <3> QED  BY <1>0, <2>1, <3>1, <3>2
  <2>5. lease'[hand'[s]] = Head(take'[s])
    BY <1>0, <2>1, <2>2, <2>3 DEF e
  <2>6. ASSUME NEW t \in Scheds, t # s, pc'[t] = "submit"
        PROVE  lease'[hand'[t]] = Head(take'[t])
    <3>1. pc[t] = "submit" /\ take'[t] = take[t] /\ hand'[t] = hand[t]
      BY <1>0, <2>1, <2>6
    <3>2. lease[hand[t]] = Head(take[t]) /\ Head(take[t]) \in Plans
          /\ hand[t] \in Endpoints
      BY <3>1, SubmitFacts
    <3>3. hand[t] # e  BY <2>1, <3>2, NoneAssumption
    <3> QED  BY <1>0, <2>1, <3>1, <3>2, <3>3
  <2> QED  BY <2>4, <2>5, <2>6 DEF LeaseCoversJob
<1>4. ASSUME NEW s \in Scheds, Submit(s) PROVE LeaseCoversJob'
  <2> DEFINE p == Head(take[s])
  <2>1. /\ pc[s] = "submit"
        /\ pc' = [pc EXCEPT ![s] = "check"]
        /\ \A t \in Scheds \ {s} : hand'[t] = hand[t] /\ take'[t] = take[t]
        /\ phase' = [phase EXCEPT ![p] = "queued"]
        /\ UNCHANGED lease
    BY <1>0, <1>4 DEF Submit
  <2>2. p \in Plans /\ EpOf[p] = hand[s] /\ lease[hand[s]] = p
    BY <2>1, SubmitFacts
  <2> HIDE DEF p
  <2>3. \A q \in Plans : phase'[q] \in Leased => lease'[EpOf[q]] = q
    BY <1>0, <2>1, <2>2 DEF LeaseCoversJob
  <2>4. \A t \in Scheds : pc'[t] = "submit" => lease'[hand'[t]] = Head(take'[t])
    BY <1>0, <2>1 DEF LeaseCoversJob
  <2> QED  BY <2>3, <2>4 DEF LeaseCoversJob
<1>5. ASSUME NEW s \in Scheds, SubmitFails(s) PROVE LeaseCoversJob'
  <2> DEFINE p == Head(take[s])
  <2>1. /\ pc[s] = "submit" /\ UNCHANGED phase
        /\ \A t \in Scheds \ {s} : hand'[t] = hand[t] /\ take'[t] = take[t]
        /\ lease' = [lease EXCEPT ![hand[s]] = None]
    BY <1>0, <1>5 DEF SubmitFails, Freed, jobVars
  <2>2. \/ pc' = [pc EXCEPT ![s] = "check"]
        \/ pc' = [pc EXCEPT ![s] = "loop"]
    BY <1>5 DEF SubmitFails, NextPool
  <2>3. /\ p \in Plans /\ OwnerOf[p] = s /\ phase[p] \notin Leased
        /\ hand[s] \in Endpoints /\ lease[hand[s]] = p
    BY <2>1, SubmitFacts
  <2> HIDE DEF p
  <2>4. ASSUME NEW q \in Plans, phase'[q] \in Leased PROVE lease'[EpOf[q]] = q
    <3>1. lease[EpOf[q]] = q  BY <1>0, <2>1, <2>4 DEF LeaseCoversJob
    <3>2. EpOf[q] # hand[s]  BY <2>1, <2>3, <2>4, <3>1
    <3> QED  BY <1>0, <2>1, <3>1, <3>2
  <2>5. ASSUME NEW t \in Scheds, pc'[t] = "submit"
        PROVE  lease'[hand'[t]] = Head(take'[t])
    <3>1. t # s /\ pc[t] = "submit"  BY <1>0, <2>2, <2>5
    <3>2. /\ lease[hand[t]] = Head(take[t]) /\ OwnerOf[Head(take[t])] = t
          /\ hand[t] \in Endpoints
      BY <3>1, SubmitFacts
    <3>3. hand[t] # hand[s]  BY <2>3, <3>1, <3>2
    <3> QED  BY <1>0, <2>1, <3>1, <3>2, <3>3
  <2> QED  BY <2>4, <2>5 DEF LeaseCoversJob
<1>6. ASSUME NEW p \in Plans, ReleaseLease(p) PROVE LeaseCoversJob'
  <2>1. /\ phase[p] = "claimed"
        /\ phase' = [phase EXCEPT ![p] = "released"]
        /\ lease' = [lease EXCEPT ![EpOf[p]] = None]
        /\ UNCHANGED <<pc, hand, take>>
    BY <1>6 DEF ReleaseLease, Freed, mainVars
  <2>2. lease[EpOf[p]] = p  BY <1>0, <2>1 DEF LeaseCoversJob, Leased
  <2>3. ASSUME NEW q \in Plans, phase'[q] \in Leased PROVE lease'[EpOf[q]] = q
    <3>1. q # p /\ phase[q] \in Leased  BY <1>0, <2>1, <2>3 DEF Leased
    <3>2. lease[EpOf[q]] = q  BY <1>0, <3>1 DEF LeaseCoversJob
    <3> QED  BY <1>0, <2>1, <2>2, <3>1, <3>2
  <2>4. ASSUME NEW t \in Scheds, pc'[t] = "submit"
        PROVE  lease'[hand'[t]] = Head(take'[t])
    <3>1. pc[t] = "submit"  BY <2>1, <2>4
    <3>2. /\ lease[hand[t]] = Head(take[t]) /\ hand[t] \in Endpoints
          /\ phase[Head(take[t])] \notin Leased
      BY <3>1, SubmitFacts
    <3>3. hand[t] # EpOf[p]  BY <2>1, <2>2, <3>2 DEF Leased
    <3> QED  BY <1>0, <2>1, <3>2, <3>3
  <2> QED  BY <2>3, <2>4 DEF LeaseCoversJob
<1>7. ASSUME NEW p \in Plans, WorkerStep(p) \/ CrashJob(p), ~ReleaseLease(p)
      PROVE  LeaseCoversJob'
  <2>1. UNCHANGED lease
    BY <1>7 DEF WorkerStep, StartJob, ExecutePlan, FinishJob, CrashJob, OnDone,
       AppendInbandResult, GroupDone, Requeue
  <2> QED  BY <1>0, <1>7, <2>1, WorkerKeepsPhases, LeasesUntouched
<1>8. CASE \/ \E s \in Scheds : ControlStep(s)
           \/ \E p \in Plans : GhostStep(p)
           \/ UNCHANGED vars
  BY <1>0, <1>8, OutsideFrame, LeasesUntouched
<1> QED
  BY <1>1, <1>2, <1>3, <1>4, <1>5, <1>6, <1>7, <1>8
  DEF Next, MainStep, OtherMainStep, FaultStep, Terminated

-----------------------------------------------------------------------------

(* IndInv is an inductive invariant, with every fault switched on.         *)
THEOREM Invariance == Spec => []IndInv
<1>1. Init => IndInv
  <2> SUFFICES ASSUME Init PROVE IndInv
    OBVIOUS
  <2>1. TypeOK
    <3>1. MainTypeOK
      <4>1. /\ BaseWorkers \in [Pools -> Nat]
            /\ take = [s \in Scheds |-> <<>>]
            /\ <<>> \in Seq(Plans)
        BY PoolAssumption DEF Init
      <4>2. /\ take \in [Scheds -> Seq(Plans)]
            /\ target \in [Scheds -> [Pools -> Nat]]
        BY <4>1 DEF Init
      <4> QED  BY <4>2 DEF Init, MainTypeOK, MainPcs, Pools
    <3>2. ControlTypeOK
      BY DEF Init, ControlTypeOK
    <3>3. TableTypeOK
      <4>1. ASSUME NEW s \in Scheds, NEW e \in Endpoints
            PROVE  InitialQueue(s, e) \in Seq(Plans)
        <5>1. Queue0[s][e] \in Seq(PlansAt(s, e))
          BY QueueAssumption
        <5>2. PlansAt(s, e) \subseteq Plans
          BY DEF PlansAt
        <5>3. Queue0[s][e] \in Seq(Plans)
          BY <5>1, <5>2
        <5> QED  BY <5>3 DEF InitialQueue
      <4>2. queue \in [Scheds -> [Endpoints -> Seq(Plans)]]
        BY <4>1 DEF Init
      <4>3. ready \in [Scheds -> Seq(Endpoints)]
        BY ReadyAssumption DEF Init
      <4> QED  BY <4>2, <4>3 DEF Init, TableTypeOK
    <3>4. JobTypeOK
      <4>1. /\ group \in [Plans -> Seq(Plans)]
            /\ todo \in [Plans -> Seq(Plans)]
        BY DEF Init
      <4> QED  BY <4>1 DEF Init, JobTypeOK, Phases, InFlight
    <3>5. ResultTypeOK
      BY DEF Init, ResultTypeOK, Status
    <3> QED  BY <3>1, <3>2, <3>3, <3>4, <3>5 DEF TypeOK
  <2>2. DispatchConsistent
    BY QueueAssumption DEF Init, DispatchConsistent, InitialQueue
  <2>3. LeaseCoversJob
    BY DEF Init, LeaseCoversJob, Leased
  <2> QED  BY <2>1, <2>2, <2>3 DEF IndInv
<1>2. IndInv /\ [Next]_vars => IndInv'
  BY TypeStep, DispatchStep, LeaseStep DEF IndInv
<1> QED  BY <1>1, <1>2, PTL DEF Spec

(* Every variable of the scheduler keeps its type.                         *)
THEOREM TypeCorrect == Spec => []TypeOK
BY Invariance, PTL DEF IndInv

(* An endpoint's lease names the job on it until its callback releases it. *)
THEOREM LeaseSafety == Spec => []LeaseCoversJob
BY Invariance, PTL DEF IndInv

(* No two jobs, of one or of two schedulers, are on one endpoint at once.  *)
THEOREM JobExclusion == Spec => []JobsExclusive
<1>1. IndInv => JobsExclusive
  BY DEF IndInv, LeaseCoversJob, JobsExclusive, Working, Leased
<1> QED  BY <1>1, Invariance, PTL
-----------------------------------------------------------------------------
(* A stop or a pause takes effect after at most one more job.              *)

(* While a scheduler is halted, one late job is all there is, and after it *)
(* the main thread has no further endpoint in hand.                        *)
LateInv ==
  \A s \in Scheds :
    /\ late[s] <= 1
    /\ late[s] = 1 /\ Halted(s) => pc[s] \notin {"pick", "submit"}

(* What a step does to late and pc, told apart by what it is.              *)
LEMMA LateMainStep ==
  ASSUME TypeOK, LateInv, NEW s \in Scheds, MainStep(s) \/ FaultStep(s)
  PROVE  LateInv'
<1>0. /\ pc \in [Scheds -> MainPcs] /\ late \in [Scheds -> Nat]
      /\ \A t \in Scheds : /\ late[t] <= 1
                           /\ late[t] = 1 /\ (stop[t] \/ ~unpaused[t]) =>
                                pc[t] \notin {"pick", "submit"}
  BY DEF TypeOK, MainTypeOK, LateInv, Halted
<1>1. CASE Submit(s)
  <2>1. /\ pc[s] = "submit" /\ UNCHANGED <<stop, unpaused>>
        /\ pc' = [pc EXCEPT ![s] = "check"]
        /\ late' = [late EXCEPT ![s] = IF stop[s] \/ ~unpaused[s] THEN @ + 1 ELSE 0]
    BY <1>1 DEF Submit, ctlVars
  <2>2. late'[s] <= 1  BY <1>0, <2>1
  <2> QED  BY <1>0, <2>1, <2>2 DEF LateInv, Halted
<1>2. CASE TakeReady(s)
  <2>1. /\ ~(stop[s] \/ ~unpaused[s]) /\ UNCHANGED <<stop, unpaused, late>>
        /\ pc' = [pc EXCEPT ![s] = "pick"]
    BY <1>2 DEF TakeReady, Halted, ctlVars
  <2> QED  BY <1>0, <2>1 DEF LateInv, Halted
<1>3. CASE TryHold(s)
  <2>1. /\ pc[s] = "pick" /\ UNCHANGED <<stop, unpaused, late>>
        /\ pc' = [pc EXCEPT ![s] = "submit"]
    BY <1>3 DEF TryHold, ctlVars
  <2> QED  BY <1>0, <2>1 DEF LateInv, Halted
<1>4. CASE ~Submit(s) /\ ~TakeReady(s) /\ ~TryHold(s)
  <2>1. /\ UNCHANGED <<stop, unpaused, late>>
        /\ \E c \in MainPcs \ {"pick", "submit"} :
             pc' = pc \/ pc' = [pc EXCEPT ![s] = c]
    <3>1. CASE PoolFilled(s)
      BY <3>1 DEF PoolFilled, NextPool, MainPcs, ctlVars
    <3>2. CASE SubmitFails(s)
      BY <3>2 DEF SubmitFails, NextPool, MainPcs, ctlVars
    <3>3. CASE LoopEnter(s) \/ LoopExit(s) \/ AdjustPools(s) \/ DispatchAborted(s)
      BY <3>3 DEF LoopEnter, LoopExit, AdjustPools, DispatchAborted, MainPcs, ctlVars
    <3>4. CASE PutBack(s) \/ SkipPending(s) \/ Drain(s) \/ CancelQueued(s)
      BY <3>4 DEF PutBack, SkipPending, Drain, CancelQueued, MainPcs, mainVars, ctlVars
    <3>5. CASE ShutdownPools(s) \/ Return(s) \/ Interrupt(s)
      BY <3>5 DEF ShutdownPools, Return, Interrupt, MainPcs, ctlVars
    <3> QED  BY <1>4, <3>1, <3>2, <3>3, <3>4, <3>5 DEF MainStep, FaultStep
  <2> QED  BY <1>0, <2>1 DEF LateInv, Halted
<1> QED  BY <1>1, <1>2, <1>3, <1>4

(* Whoever stops or pauses a running scheduler starts the count anew; the  *)
(* rest of the controller leaves a stopped one halted.                     *)
LEMMA LateControlStep ==
  ASSUME TypeOK, LateInv, NEW s \in Scheds, ControlStep(s)
  PROVE  LateInv'
<1>0. /\ late \in [Scheds -> Nat]
      /\ stop \in [Scheds -> BOOLEAN] /\ unpaused \in [Scheds -> BOOLEAN]
      /\ \A t \in Scheds : /\ late[t] <= 1
                           /\ late[t] = 1 /\ (stop[t] \/ ~unpaused[t]) =>
                                pc[t] \notin {"pick", "submit"}
  BY DEF TypeOK, MainTypeOK, ControlTypeOK, LateInv, Halted
<1>1. CASE AppStops(s)
  BY <1>0, <1>1 DEF AppStops, LateInv, Halted, mainVars
<1>2. CASE ForwardStop(s)
  BY <1>0, <1>2 DEF ForwardStop, LateInv, Halted, mainVars
<1>3. CASE Pause(s)
  <2>1. /\ UNCHANGED <<pc, stop>> /\ unpaused' = [unpaused EXCEPT ![s] = FALSE]
        /\ late' = [late EXCEPT ![s] = IF stop[s] THEN @ ELSE 0]
    BY <1>3 DEF Pause, mainVars
  <2> QED  BY <1>0, <2>1 DEF LateInv, Halted
<1>4. CASE Resume(s)
  BY <1>0, <1>4 DEF Resume, LateInv, Halted, mainVars
<1> QED  BY <1>1, <1>2, <1>3, <1>4 DEF ControlStep

(* A stop or a pause at any moment lets at most the job in the main        *)
(* thread's hand be submitted, also when pauses, resumes and a stop come   *)
(* in any order.                                                           *)
THEOREM LateDispatch == Spec => []AtMostOneLateDispatch
<1>1. Init => LateInv
  BY DEF Init, LateInv
<1>2. TypeOK /\ LateInv /\ [Next]_vars => LateInv'
  <2> SUFFICES ASSUME TypeOK, LateInv, [Next]_vars PROVE LateInv'
    OBVIOUS
  <2>1. CASE \E s \in Scheds : MainStep(s) \/ FaultStep(s)
    BY <2>1, LateMainStep
  <2>2. CASE \E s \in Scheds : ControlStep(s)
    BY <2>2, LateControlStep
  <2>3. CASE UNCHANGED <<pc, late, stop, unpaused>>
    BY <2>3 DEF LateInv, Halted
  <2>4. ASSUME NEW p \in Plans, WorkerStep(p) \/ CrashJob(p) \/ GhostStep(p)
        PROVE  UNCHANGED <<pc, late, stop, unpaused>>
    BY <2>4
    DEF WorkerStep, GhostStep, StartJob, ExecutePlan, FinishJob, CrashJob, OnDone,
        ReleaseLease, AppendInbandResult, GroupDone, Requeue, GhostStarts,
        GhostEnds, mainVars, ctlVars
  <2>5. UNCHANGED vars => UNCHANGED <<pc, late, stop, unpaused>>
    BY DEF vars, mainVars, ctlVars
  <2> QED  BY <2>1, <2>2, <2>3, <2>4, <2>5 DEF Next, Terminated
<1>3. LateInv => AtMostOneLateDispatch
  BY DEF LateInv, AtMostOneLateDispatch
<1> QED  BY <1>1, <1>2, <1>3, TypeCorrect, PTL DEF Spec
-----------------------------------------------------------------------------
(* Results are replaced only by ones that outrank them.                    *)

(* What may become of one recorded status.                                 *)
UpgradeOf(old, new) ==
  \/ new = old \/ old = "none"
  \/ old \in Skipped \cup {"EXEC_BLOCKED"} /\ new \in Executed

(* An executed status takes the place of one that was not, and a skipped   *)
(* one that of none: the priorities of _append_result_once.                *)
LEMMA AppendUpgrades ==
  ASSUME NEW old \in Status \cup {"none"}, NEW new \in Skipped \cup Executed
  PROVE  UpgradeOf(old, AppendOnce(old, new))
<1>1. CASE new \in Executed
  BY <1>1 DEF UpgradeOf, AppendOnce, Accepts, ResultPriority, Status, Skipped, Executed
<1>2. CASE new \in Skipped
  BY <1>2 DEF UpgradeOf, AppendOnce, Accepts, ResultPriority, Status, Skipped, Executed
<1> QED  BY <1>1, <1>2

(* A stop labels what was never executed; nothing an executor reported is  *)
(* ever overwritten, by a late stop, a crashed group or a ghost.           *)
THEOREM Upgrades == Spec => ResultsOnlyUpgraded
<1> DEFINE Up == \A p \in Plans : UpgradeOf(result[p], result'[p])
<1>1. ASSUME TypeOK, [Next]_vars PROVE Up
  <2>0. result \in [Plans -> Status \cup {"none"}]
    BY <1>1 DEF TypeOK, ResultTypeOK
  <2>1. ASSUME NEW s \in Scheds, SkipPending(s) PROVE Up
    <3>1. StopLabel(reason[s]) \in Skipped \cup Executed
      BY DEF StopLabel, Skipped
    <3>2. ASSUME NEW p \in Plans PROVE UpgradeOf(result[p], result'[p])
      <4>1. \/ result'[p] = result[p]
            \/ result'[p] = AppendOnce(result[p], StopLabel(reason[s]))
        BY <2>1 DEF SkipPending
      <4>2. UpgradeOf(result[p], result[p])  BY DEF UpgradeOf
      <4>3. UpgradeOf(result[p], AppendOnce(result[p], StopLabel(reason[s])))
        BY <2>0, <3>1, AppendUpgrades
      <4> QED  BY <4>1, <4>2, <4>3
    <3> QED  BY <3>2
  <2>2. ASSUME NEW q \in Plans,
               ExecutePlan(q) \/ GhostEnds(q) \/ AppendInbandResult(q)
        PROVE  Up
    <3>1. ASSUME NEW p \in Plans PROVE UpgradeOf(result[p], result'[p])
      <4>1. \E st \in Executed : \/ result'[p] = result[p]
                                 \/ result'[p] = AppendOnce(result[p], st)
        BY <2>0, <2>2 DEF ExecutePlan, GhostEnds, AppendInbandResult, Executed
      <4>2. UpgradeOf(result[p], result[p])  BY DEF UpgradeOf
      <4>3. \A st \in Executed : UpgradeOf(result[p], AppendOnce(result[p], st))
        BY <2>0, AppendUpgrades
      <4> QED  BY <4>1, <4>2, <4>3
    <3> QED  BY <3>1
  <2>3. ASSUME NEW q \in Plans, GroupDone(q) PROVE Up
    BY <2>3 DEF GroupDone, Recovered, UpgradeOf
  <2>4. CASE UNCHANGED result
    BY <2>4 DEF UpgradeOf
  <2>5. ASSUME NEW s \in Scheds, MainStep(s) \/ ControlStep(s) \/ FaultStep(s),
               ~SkipPending(s)
        PROVE  UNCHANGED result
    BY <2>5
    DEF MainStep, ControlStep, FaultStep, LoopEnter, LoopExit, AdjustPools, PoolFilled,
        DispatchAborted, TakeReady, PutBack, TryHold, Submit, Drain, CancelQueued,
        ShutdownPools, Return, AppStops, ForwardStop, Pause, Resume, SubmitFails,
        Interrupt
  <2>6. ASSUME NEW p \in Plans, WorkerStep(p) \/ CrashJob(p) \/ GhostStep(p),
               ~(ExecutePlan(p) \/ GhostEnds(p) \/ AppendInbandResult(p)),
               ~GroupDone(p)
        PROVE  UNCHANGED result
    BY <2>6
    DEF WorkerStep, GhostStep, StartJob, FinishJob, CrashJob, OnDone, ReleaseLease,
        Requeue, GhostStarts
  <2>7. UNCHANGED vars => UNCHANGED result  BY DEF vars
  <2> QED  BY <1>1, <2>1, <2>2, <2>3, <2>4, <2>5, <2>6, <2>7 DEF Next, Terminated
<1>2. ASSUME Up
      PROVE  \A p \in Plans : result[p] # "none" /\ result'[p] # result[p] =>
               result[p] \in Skipped \cup {"EXEC_BLOCKED"} /\ result'[p] \in Executed
  BY <1>2 DEF UpgradeOf
<1>3. TypeOK /\ [Next]_vars =>
        [\A p \in Plans : result[p] # "none" /\ result'[p] # result[p] =>
           result[p] \in Skipped \cup {"EXEC_BLOCKED"} /\ result'[p] \in Executed]_vars
  BY <1>1, <1>2
<1> QED  BY <1>3, TypeCorrect, PTL DEF Spec, ResultsOnlyUpgraded
-----------------------------------------------------------------------------
(* Conservation of plans.                                                  *)

Dispatching == {"loop", "pausewait", "check", "pick"}

\* Phases in which a job's callback has yet to see to the results.
Reporting == {"queued", "running", "finished", "claimed", "released"}

\* Phases in which a job answers for its plans.
Held == (InFlight \ {"appended"}) \cup {"lost"}

(* Between two submits the main thread has no plans in its hand.           *)
HandEmpty == \A s \in Scheds : pc[s] \in Dispatching => take[s] = <<>>

Distinct(q) == \A i, j \in DOMAIN q : q[i] = q[j] => i = j

(* The plans of a queue are distinct and head no job yet.                  *)
QueuesFresh ==
  \A s \in Scheds, e \in Endpoints :
    /\ Distinct(queue[s][e])
    /\ \A p \in SeqRange(queue[s][e]) : phase[p] = "none"

(* So are the plans popped for a job, and they are off the queue.          *)
TakeFresh ==
  \A s \in Scheds : pc[s] = "submit" =>
    /\ Distinct(take[s])
    /\ \A p \in SeqRange(take[s]) :
         phase[p] = "none" /\ p \notin SeqRange(queue[s][hand[s]])
    /\ EpType[hand[s]] = "INBAND" => take[s] = <<Head(take[s])>>

(* What a job answers for: its own plan, or the plans of its group that    *)
(* have no result and are still to be done; none are once it ended well.   *)
JobsKept ==
  \A p \in Plans :
    /\ phase[p] # "none" /\ EpType[EpOf[p]] = "INBAND" => group[p] = <<p>>
    /\ phase[p] \in Reporting /\ EpType[EpOf[p]] = "BMC" =>
         \A r \in SeqRange(group[p]) : result[r] = "none" => r \in SeqRange(todo[p])
    /\ phase[p] \in {"finished", "claimed", "released"} /\ outcome[p] = "ok" =>
         todo[p] = <<>>

PlanFlow == HandEmpty /\ QueuesFresh /\ TakeFresh /\ JobsKept /\ NoPlanLost

(* The range of a sequence in parts, and when its plans are distinct.      *)
LEMMA ShortFacts ==
  ASSUME NEW p
  PROVE  /\ Distinct(<<>>) /\ SeqRange(<<>>) = {}
         /\ Distinct(<<p>>) /\ SeqRange(<<p>>) = {p}
BY DEF Distinct, SeqRange

(* A sequence is its head and its tail.                                    *)
LEMMA HeadTailFacts ==
  ASSUME NEW S, NEW q \in Seq(S), q # <<>>
  PROVE  /\ SeqRange(q) = {Head(q)} \cup SeqRange(Tail(q))
         /\ Distinct(q) => Distinct(Tail(q)) /\ Head(q) \notin SeqRange(Tail(q))
<1>1. /\ DOMAIN q = 1 .. Len(q) /\ Len(q) \in Nat \ {0} /\ Head(q) = q[1]
      /\ DOMAIN Tail(q) = 1 .. (Len(q) - 1)
      /\ \A i \in 1 .. (Len(q) - 1) : Tail(q)[i] = q[i + 1]
  OBVIOUS
<1>2. SeqRange(q) = {Head(q)} \cup SeqRange(Tail(q))
  <2>1. ASSUME NEW r \in SeqRange(q), r # Head(q) PROVE r \in SeqRange(Tail(q))
    <3>1. PICK i \in 1 .. Len(q) : r = q[i]  BY <1>1 DEF SeqRange
    <3>2. i - 1 \in DOMAIN Tail(q) /\ Tail(q)[i - 1] = r  BY <1>1, <2>1, <3>1
    <3> QED  BY <3>2 DEF SeqRange
  <2>2. ASSUME NEW r \in SeqRange(Tail(q)) PROVE r \in SeqRange(q)
    <3>1. PICK i \in 1 .. (Len(q) - 1) : r = q[i + 1]  BY <1>1 DEF SeqRange
    <3>2. i + 1 \in DOMAIN q  BY <1>1
    <3> QED  BY <3>1, <3>2 DEF SeqRange
  <2>3. Head(q) \in SeqRange(q)
    <3>1. 1 \in DOMAIN q  BY <1>1
    <3> QED  BY <1>1, <3>1 DEF SeqRange
  <2> QED  BY <2>1, <2>2, <2>3
<1>3. ASSUME Distinct(q) PROVE Distinct(Tail(q)) /\ Head(q) \notin SeqRange(Tail(q))
  <2>1. \A i, j \in 1 .. Len(q) : q[i] = q[j] => i = j  BY <1>1, <1>3 DEF Distinct
  <2>2. ASSUME NEW i \in 1 .. (Len(q) - 1), NEW j \in 1 .. (Len(q) - 1),
               Tail(q)[i] = Tail(q)[j]
        PROVE  i = j
    <3>1. i + 1 \in 1 .. Len(q) /\ j + 1 \in 1 .. Len(q)  BY <1>1
    <3>2. q[i + 1] = q[j + 1]  BY <1>1, <2>2
    <3>3. i + 1 = j + 1  BY <2>1, <3>1, <3>2
    <3> QED  BY <3>3
  <2>3. ASSUME NEW i \in 1 .. (Len(q) - 1) PROVE Tail(q)[i] # Head(q)
    <3>1. i + 1 \in 1 .. Len(q) /\ 1 \in 1 .. Len(q) /\ i + 1 # 1  BY <1>1
    <3> QED  BY <1>1, <2>1, <3>1
  <2> QED  BY <1>1, <2>2, <2>3 DEF Distinct, SeqRange
<1> QED  BY <1>2, <1>3

LEMMA TailFacts ==
  ASSUME NEW q \in Seq(Plans), q # <<>>
  PROVE  /\ SeqRange(q) = {Head(q)} \cup SeqRange(Tail(q))
         /\ Distinct(q) => Distinct(Tail(q)) /\ Head(q) \notin SeqRange(Tail(q))
BY HeadTailFacts

(* The range of a concatenation, and when its plans are distinct.          *)
LEMMA ConcatFacts ==
  ASSUME NEW a \in Seq(Plans), NEW b \in Seq(Plans)
  PROVE  /\ SeqRange(a \o b) = SeqRange(a) \cup SeqRange(b)
         /\ Distinct(a) /\ Distinct(b) /\ SeqRange(a) \cap SeqRange(b) = {} =>
              Distinct(a \o b)
<1>1. /\ Len(a) \in Nat /\ Len(b) \in Nat
      /\ DOMAIN a = 1 .. Len(a) /\ DOMAIN b = 1 .. Len(b)
      /\ DOMAIN (a \o b) = 1 .. (Len(a) + Len(b))
      /\ \A i \in 1 .. (Len(a) + Len(b)) :
           (a \o b)[i] = IF i <= Len(a) THEN a[i] ELSE b[i - Len(a)]
  OBVIOUS
<1>2. \A i \in 1 .. (Len(a) + Len(b)) :
        \/ i \in DOMAIN a /\ (a \o b)[i] = a[i]
        \/ i - Len(a) \in DOMAIN b /\ (a \o b)[i] = b[i - Len(a)] /\ i > Len(a)
  BY <1>1
<1>3. SeqRange(a \o b) = SeqRange(a) \cup SeqRange(b)
  <2>1. SeqRange(a \o b) \subseteq SeqRange(a) \cup SeqRange(b)
    BY <1>1, <1>2 DEF SeqRange
  <2>2. SeqRange(a) \subseteq SeqRange(a \o b)
    <3>1. \A i \in 1 .. Len(a) : i \in 1 .. (Len(a) + Len(b)) /\ (a \o b)[i] = a[i]
      BY <1>1
    <3> QED  BY <1>1, <3>1 DEF SeqRange
  <2>3. SeqRange(b) \subseteq SeqRange(a \o b)
    <3>1. \A i \in 1 .. Len(b) : /\ i + Len(a) \in 1 .. (Len(a) + Len(b))
                                 /\ (a \o b)[i + Len(a)] = b[i]
      BY <1>1
    <3> QED  BY <1>1, <3>1 DEF SeqRange
  <2> QED  BY <2>1, <2>2, <2>3
<1>4. ASSUME Distinct(a), Distinct(b), SeqRange(a) \cap SeqRange(b) = {}
      PROVE  Distinct(a \o b)
  <2> SUFFICES ASSUME NEW i \in 1 .. (Len(a) + Len(b)),
                      NEW j \in 1 .. (Len(a) + Len(b)),
                      (a \o b)[i] = (a \o b)[j]
               PROVE  i = j
    BY <1>1 DEF Distinct
  <2>0. \A x \in DOMAIN a, y \in DOMAIN b : a[x] # b[y]  BY <1>4 DEF SeqRange
  <2>1. CASE i \in DOMAIN a /\ j \in DOMAIN a /\ a[i] = a[j]
    BY <1>4, <2>1 DEF Distinct
  <2>2. CASE /\ i - Len(a) \in DOMAIN b /\ j - Len(a) \in DOMAIN b
             /\ b[i - Len(a)] = b[j - Len(a)]
    <3>1. i - Len(a) = j - Len(a)  BY <1>4, <2>2 DEF Distinct
    <3> QED  BY <1>1, <3>1
  <2> QED  BY <1>2, <2>0, <2>1, <2>2
<1> QED  BY <1>3, <1>4

(* Queues and hands hold plans of their scheduler.                         *)
LEMMA FlowTypes ==
  ASSUME DispatchConsistent, NEW s \in Scheds
  PROVE  /\ \A e \in Endpoints : \A p \in SeqRange(queue[s][e]) :
              p \in Plans /\ OwnerOf[p] = s /\ EpOf[p] = e
         /\ pc[s] = "submit" => \A p \in SeqRange(take[s]) :
              p \in Plans /\ OwnerOf[p] = s /\ EpOf[p] = hand[s]
<1>1. ASSUME NEW e \in Endpoints PROVE SeqRange(queue[s][e]) \subseteq PlansAt(s, e)
  <2>1. queue[s][e] \in Seq(PlansAt(s, e))  BY DEF DispatchConsistent
  <2> QED  BY <2>1 DEF SeqRange
<1>2. pc[s] = "submit" => SeqRange(take[s]) \subseteq PlansAt(s, hand[s])
  <2>1. pc[s] = "submit" => take[s] \in Seq(PlansAt(s, hand[s]))  BY DEF DispatchConsistent
  <2> QED  BY <2>1 DEF SeqRange
<1> QED  BY <1>1, <1>2 DEF PlansAt

(* Steps that move no plan.                                                *)
LEMMA QuietFlow ==
  ASSUME PlanFlow, NEW s \in Scheds,
         UNCHANGED <<take, queue, phase, group, todo, outcome, result>>,
         \A t \in Scheds \ {s} : pc'[t] = pc[t] /\ hand'[t] = hand[t],
         pc'[s] \in Dispatching => pc[s] \in Dispatching,
         pc'[s] # "submit"
  PROVE  PlanFlow'
<1>1. HandEmpty'  BY DEF PlanFlow, HandEmpty
<1>2. QueuesFresh'  BY DEF PlanFlow, QueuesFresh
<1>3. TakeFresh'  BY DEF PlanFlow, TakeFresh
<1>4. JobsKept'  BY DEF PlanFlow, JobsKept
<1>5. NoPlanLost'  BY DEF PlanFlow, NoPlanLost
<1> QED  BY <1>1, <1>2, <1>3, <1>4, <1>5 DEF PlanFlow

QuietStep(s) ==
  \/ LoopEnter(s) \/ LoopExit(s) \/ AdjustPools(s) \/ PoolFilled(s)
  \/ DispatchAborted(s) \/ TakeReady(s) \/ PutBack(s) \/ Drain(s)
  \/ ShutdownPools(s) \/ Return(s) \/ Interrupt(s)

(* The main thread's steps of that kind.                                   *)
LEMMA QuietStepFlow ==
  ASSUME TypeOK, PlanFlow, NEW s \in Scheds, QuietStep(s)
  PROVE  PlanFlow'
<1>0. pc \in [Scheds -> MainPcs] /\ hand \in [Scheds -> Endpoints \cup {None}]
  BY DEF TypeOK, MainTypeOK
<1> DEFINE Quiet == /\ UNCHANGED <<take, queue, phase, group, todo, outcome, result>>
                    /\ \A t \in Scheds \ {s} : pc'[t] = pc[t] /\ hand'[t] = hand[t]
                    /\ pc'[s] \in Dispatching => pc[s] \in Dispatching
                    /\ pc'[s] # "submit"
<1>1. CASE LoopEnter(s)  BY <1>0, <1>1, QuietFlow DEF LoopEnter, Dispatching, jobVars
<1>2. CASE LoopExit(s)  BY <1>0, <1>2, QuietFlow DEF LoopExit, Dispatching, jobVars
<1>3. CASE AdjustPools(s)  BY <1>0, <1>3, QuietFlow DEF AdjustPools, Dispatching, jobVars
<1>4. CASE PoolFilled(s)
  <2>1. Quiet  BY <1>0, <1>4 DEF PoolFilled, NextPool, Dispatching, jobVars
  <2> QED  BY <2>1, QuietFlow
<1>5. CASE DispatchAborted(s)
  BY <1>0, <1>5, QuietFlow DEF DispatchAborted, Dispatching, jobVars
<1>6. CASE TakeReady(s)  BY <1>0, <1>6, QuietFlow DEF TakeReady, Dispatching, jobVars
<1>7. CASE PutBack(s)  BY <1>0, <1>7, QuietFlow DEF PutBack, Dispatching, jobVars
<1>8. CASE Drain(s)  BY <1>0, <1>8, QuietFlow DEF Drain, Dispatching, jobVars
<1>9. CASE ShutdownPools(s)
  BY <1>0, <1>9, QuietFlow DEF ShutdownPools, Dispatching, jobVars
<1>10. CASE Return(s)  BY <1>0, <1>10, QuietFlow DEF Return, Dispatching, jobVars
<1>11. CASE Interrupt(s)  BY <1>0, <1>11, QuietFlow DEF Interrupt, Dispatching, jobVars
<1> QED  BY <1>1, <1>2, <1>3, <1>4, <1>5, <1>6, <1>7, <1>8, <1>9, <1>10, <1>11
         DEF QuietStep

(* The plans of the next job and those left are the queue, each plan once.  *)
LEMMA BatchParts ==
  ASSUME NEW s \in Scheds, NEW e \in Endpoints,
         queue[s][e] \in Seq(Plans), queue[s][e] # <<>>, Distinct(queue[s][e])
  PROVE  /\ Distinct(Batch(s, e)) /\ Distinct(Rest(s, e))
         /\ SeqRange(queue[s][e]) = SeqRange(Batch(s, e)) \cup SeqRange(Rest(s, e))
         /\ SeqRange(Batch(s, e)) \cap SeqRange(Rest(s, e)) = {}
<1> DEFINE q == queue[s][e]
<1>1. \/ Batch(s, e) = q /\ Rest(s, e) = <<>>
      \/ Batch(s, e) = <<Head(q)>> /\ Rest(s, e) = Tail(q)
  BY DEF Batch, Rest
<1>2. /\ Distinct(<<Head(q)>>) /\ SeqRange(<<Head(q)>>) = {Head(q)}
      /\ Distinct(<<>>) /\ SeqRange(<<>>) = {}
  BY ShortFacts
<1>3. /\ SeqRange(q) = {Head(q)} \cup SeqRange(Tail(q))
      /\ Distinct(Tail(q)) /\ Head(q) \notin SeqRange(Tail(q))
  BY TailFacts
<1>4. CASE Batch(s, e) = q /\ Rest(s, e) = <<>>
  BY <1>2, <1>4
<1>5. CASE Batch(s, e) = <<Head(q)>> /\ Rest(s, e) = Tail(q)
  BY <1>2, <1>3, <1>5
<1> QED  BY <1>1, <1>4, <1>5

(* try_hold: the plans of the job leave the queue for the hand.            *)
LEMMA TryHoldFlow ==
  ASSUME TypeOK, DispatchConsistent, PlanFlow, NEW s \in Scheds, TryHold(s)
  PROVE  PlanFlow'
<1> DEFINE e == hand[s]
           q == queue[s][e]
<1>0. /\ pc \in [Scheds -> MainPcs] /\ take \in [Scheds -> Seq(Plans)]
      /\ queue \in [Scheds -> [Endpoints -> Seq(Plans)]]
      /\ EpType \in [Endpoints -> {"BMC", "INBAND"}]
  BY PlanAssumption DEF TypeOK, MainTypeOK, TableTypeOK, Pools
<1>1. /\ pc[s] = "pick" /\ e \in Endpoints /\ q # <<>> /\ q \in Seq(Plans)
      /\ pc' = [pc EXCEPT ![s] = "submit"]
      /\ take' = [take EXCEPT ![s] = Batch(s, e)]
      /\ queue' = [queue EXCEPT ![s][e] = Rest(s, e)]
      /\ UNCHANGED <<hand, phase, group, todo, outcome, result>>
  BY <1>0 DEF TryHold, DispatchConsistent, jobVars
<1>2. take[s] = <<>>  BY <1>1 DEF PlanFlow, HandEmpty, Dispatching
<1>3. Distinct(q) /\ \A p \in SeqRange(q) : phase[p] = "none"
  BY <1>1 DEF PlanFlow, QueuesFresh
<1>4. \/ EpType[e] = "BMC" /\ Batch(s, e) = q /\ Rest(s, e) = <<>>
      \/ EpType[e] = "INBAND" /\ Batch(s, e) = <<Head(q)>> /\ Rest(s, e) = Tail(q)
  BY <1>0, <1>1 DEF Batch, Rest
<1>5. /\ Distinct(Batch(s, e)) /\ Distinct(Rest(s, e))
      /\ SeqRange(q) = SeqRange(Batch(s, e)) \cup SeqRange(Rest(s, e))
      /\ SeqRange(Batch(s, e)) \cap SeqRange(Rest(s, e)) = {}
  BY <1>1, <1>3, BatchParts
<1>6. EpType[e] = "INBAND" => Batch(s, e) = <<Head(Batch(s, e))>>
  <2>1. Head(<<Head(q)>>) = Head(q)  OBVIOUS
  <2> QED  BY <1>4, <2>1
<1>7. HandEmpty'
  BY <1>0, <1>1 DEF PlanFlow, HandEmpty, Dispatching
<1>8. QueuesFresh'
  <2>1. \A p \in SeqRange(Rest(s, e)) : phase[p] = "none"  BY <1>3, <1>5
  <2> QED  BY <1>0, <1>1, <1>5, <2>1 DEF PlanFlow, QueuesFresh
<1>9. TakeFresh'
  <2> SUFFICES ASSUME NEW t \in Scheds, pc'[t] = "submit"
               PROVE  /\ Distinct(take'[t])
                      /\ \A p \in SeqRange(take'[t]) :
                           /\ phase'[p] = "none"
                           /\ p \notin SeqRange(queue'[t][hand'[t]])
                      /\ EpType[hand'[t]] = "INBAND" => take'[t] = <<Head(take'[t])>>
    BY DEF TakeFresh
  <2>1. CASE t = s
    <3>1. take'[t] = Batch(s, e) /\ queue'[t][hand'[t]] = Rest(s, e) /\ hand'[t] = e
      BY <1>0, <1>1, <2>1
    <3>2. \A p \in SeqRange(Batch(s, e)) : phase[p] = "none" /\ p \notin SeqRange(Rest(s, e))
      BY <1>3, <1>5
    <3> QED  BY <1>1, <1>5, <1>6, <3>1, <3>2
  <2>2. CASE t # s
    <3>1. take'[t] = take[t] /\ queue'[t] = queue[t] /\ hand'[t] = hand[t] /\ pc[t] = "submit"
      BY <1>0, <1>1, <2>2
    <3> QED  BY <1>1, <3>1 DEF PlanFlow, TakeFresh
  <2> QED  BY <2>1, <2>2
<1>10. JobsKept'  BY <1>1 DEF PlanFlow, JobsKept
<1>11. NoPlanLost'
  <2>1. ASSUME NEW p \in Plans, p \in SeqRange(queue[OwnerOf[p]][EpOf[p]])
        PROVE  \/ p \in SeqRange(queue'[OwnerOf[p]][EpOf[p]])
               \/ p \in SeqRange(take'[OwnerOf[p]])
    <3>1. CASE OwnerOf[p] = s /\ EpOf[p] = e
      BY <1>0, <1>1, <1>5, <2>1, <3>1
    <3>2. CASE ~(OwnerOf[p] = s /\ EpOf[p] = e)
      BY <1>0, <1>1, <2>1, <3>2, PlanAssumption
    <3> QED  BY <3>1, <3>2
  <2>2. \A p \in Plans : p \in SeqRange(take[OwnerOf[p]]) =>
                         p \in SeqRange(take'[OwnerOf[p]])
    BY <1>0, <1>1, <1>2, ShortFacts, PlanAssumption
  <2> QED  BY <1>1, <2>1, <2>2 DEF PlanFlow, NoPlanLost
<1> QED  BY <1>7, <1>8, <1>9, <1>10, <1>11 DEF PlanFlow

(* A submit makes the plans in hand a job of their first one.              *)
LEMMA SubmitFlow ==
  ASSUME TypeOK, DispatchConsistent, PlanFlow, NEW s \in Scheds, Submit(s)
  PROVE  PlanFlow'
<1> DEFINE h == Head(take[s])
<1>0. /\ pc \in [Scheds -> MainPcs] /\ take \in [Scheds -> Seq(Plans)]
      /\ hand \in [Scheds -> Endpoints \cup {None}]
      /\ phase \in [Plans -> Phases]
      /\ group \in [Plans -> Seq(Plans)] /\ todo \in [Plans -> Seq(Plans)]
  BY DEF TypeOK, MainTypeOK, JobTypeOK
<1>1. /\ pc[s] = "submit"
      /\ pc' = [pc EXCEPT ![s] = "check"]
      /\ hand' = [hand EXCEPT ![s] = None]
      /\ take' = [take EXCEPT ![s] = <<>>]
      /\ phase' = [phase EXCEPT ![h] = "queued"]
      /\ group' = [group EXCEPT ![h] = take[s]]
      /\ todo' = [todo EXCEPT ![h] = take[s]]
      /\ UNCHANGED <<queue, outcome, result>>
  BY DEF Submit
<1>2. /\ h \in Plans /\ OwnerOf[h] = s /\ EpOf[h] = hand[s]
      /\ take[s] \in Seq(Plans) /\ h \in SeqRange(take[s]) /\ hand[s] \in Endpoints
  <2>1. take[s] # <<>> /\ take[s] \in Seq(Plans) /\ hand[s] \in Endpoints
    BY <1>1, TakeType DEF DispatchConsistent
  <2>2. h \in PlansAt(s, hand[s])  BY <1>1, TakeType
  <2> QED  BY <2>1, <2>2, TailFacts DEF PlansAt
<1>3. /\ phase[h] = "none"
      /\ h \notin SeqRange(queue[s][hand[s]])
      /\ EpType[hand[s]] = "INBAND" => take[s] = <<h>>
  BY <1>1, <1>2 DEF PlanFlow, TakeFresh
<1>4. \A t \in Scheds, e \in Endpoints : h \notin SeqRange(queue[t][e])
  BY <1>2, <1>3, FlowTypes
<1>5. HandEmpty'  BY <1>0, <1>1 DEF PlanFlow, HandEmpty, Dispatching
<1>6. QueuesFresh'
  <2>1. \A t \in Scheds, e \in Endpoints : SeqRange(queue[t][e]) \subseteq Plans
    BY FlowTypes
  <2> QED  BY <1>0, <1>1, <1>4, <2>1 DEF PlanFlow, QueuesFresh
<1>7. TakeFresh'
  <2>1. ASSUME NEW t \in Scheds, t # s, pc[t] = "submit"
        PROVE  \A p \in SeqRange(take[t]) : phase'[p] = "none"
    <3>1. \A p \in SeqRange(take[t]) : p \in Plans /\ p # h
      BY <1>2, <2>1, FlowTypes
    <3>2. \A p \in SeqRange(take[t]) : phase[p] = "none"
      BY <2>1 DEF PlanFlow, TakeFresh
    <3> QED  BY <1>0, <1>1, <3>1, <3>2
  <2> QED  BY <1>0, <1>1, <2>1 DEF PlanFlow, TakeFresh
<1>8. JobsKept'
  BY <1>0, <1>1, <1>2, <1>3 DEF PlanFlow, JobsKept, Reporting
<1>9. NoPlanLost'
  <2>1. ASSUME NEW p \in Plans, p \in SeqRange(take[OwnerOf[p]])
        PROVE  \/ p \in SeqRange(take'[OwnerOf[p]])
               \/ p \in SeqRange(group'[h]) /\ phase'[h] \in Held
    <3>1. CASE OwnerOf[p] = s
      BY <1>0, <1>1, <1>2, <2>1, <3>1 DEF Held, InFlight
    <3>2. CASE OwnerOf[p] # s
      BY <1>0, <1>1, <2>1, <3>2, PlanAssumption
    <3> QED  BY <3>1, <3>2
  <2>2. ASSUME NEW p \in Plans, NEW g \in Plans, p \in SeqRange(group[g]), phase[g] \in Held
        PROVE  p \in SeqRange(group'[g]) /\ phase'[g] \in Held
    <3>1. g # h  BY <1>3, <2>2 DEF Held, InFlight
    <3> QED  BY <1>0, <1>1, <2>2, <3>1
  <2> QED  BY <1>1, <1>2, <2>1, <2>2 DEF PlanFlow, NoPlanLost, Held
<1> QED  BY <1>5, <1>6, <1>7, <1>8, <1>9 DEF PlanFlow

(* A failed submit puts them back in front of the queue.                   *)
LEMMA SubmitFailsFlow ==
  ASSUME TypeOK, DispatchConsistent, PlanFlow, NEW s \in Scheds, SubmitFails(s)
  PROVE  PlanFlow'
<1> DEFINE e == hand[s]
           q == queue[s][e]
<1>0. /\ pc \in [Scheds -> MainPcs] /\ take \in [Scheds -> Seq(Plans)]
      /\ hand \in [Scheds -> Endpoints \cup {None}]
      /\ queue \in [Scheds -> [Endpoints -> Seq(Plans)]]
  BY DEF TypeOK, MainTypeOK, TableTypeOK
<1>1. /\ pc[s] = "submit" /\ e \in Endpoints
      /\ q \in Seq(Plans) /\ take[s] \in Seq(Plans)
      /\ pc' = [pc EXCEPT ![s] = "check"] \/ pc' = [pc EXCEPT ![s] = "loop"]
      /\ hand' = [hand EXCEPT ![s] = None]
      /\ take' = [take EXCEPT ![s] = <<>>]
      /\ queue' = [queue EXCEPT ![s][e] = PutPlansBack(s)]
      /\ UNCHANGED <<phase, group, todo, outcome, result>>
  BY <1>0 DEF SubmitFails, NextPool, DispatchConsistent, jobVars
<1>2. /\ Distinct(take[s])
      /\ \A p \in SeqRange(take[s]) : phase[p] = "none" /\ p \notin SeqRange(q)
  BY <1>1 DEF PlanFlow, TakeFresh
<1>3. Distinct(q) /\ \A p \in SeqRange(q) : phase[p] = "none"
  BY <1>1 DEF PlanFlow, QueuesFresh
<1>4. /\ SeqRange(PutPlansBack(s)) = SeqRange(take[s]) \cup SeqRange(q)
      /\ Distinct(PutPlansBack(s))
  BY <1>1, <1>2, <1>3, ConcatFacts DEF PutPlansBack
<1>5. HandEmpty'  BY <1>0, <1>1 DEF PlanFlow, HandEmpty, Dispatching
<1>6. QueuesFresh'
  <2>1. \A p \in SeqRange(PutPlansBack(s)) : phase[p] = "none"
    BY <1>2, <1>3, <1>4
  <2> QED  BY <1>0, <1>1, <1>4, <2>1 DEF PlanFlow, QueuesFresh
<1>7. TakeFresh'
  <2>1. ASSUME NEW t \in Scheds, pc'[t] = "submit"
        PROVE  /\ t # s /\ pc[t] = "submit" /\ take'[t] = take[t]
               /\ hand'[t] = hand[t] /\ queue'[t] = queue[t]
    BY <1>0, <1>1, <2>1
  <2>2. UNCHANGED phase  BY <1>1
  <2> QED  BY <2>1, <2>2 DEF PlanFlow, TakeFresh
<1>8. JobsKept'  BY <1>1 DEF PlanFlow, JobsKept
<1>9. NoPlanLost'
  <2>1. ASSUME NEW p \in Plans, p \in SeqRange(queue[OwnerOf[p]][EpOf[p]])
        PROVE  p \in SeqRange(queue'[OwnerOf[p]][EpOf[p]])
    <3>1. CASE OwnerOf[p] = s /\ EpOf[p] = e
      BY <1>0, <1>1, <1>4, <2>1, <3>1
    <3>2. CASE ~(OwnerOf[p] = s /\ EpOf[p] = e)
      BY <1>0, <1>1, <2>1, <3>2, PlanAssumption
    <3> QED  BY <3>1, <3>2
  <2>2. ASSUME NEW p \in Plans, p \in SeqRange(take[OwnerOf[p]])
        PROVE  \/ p \in SeqRange(take'[OwnerOf[p]])
               \/ p \in SeqRange(queue'[OwnerOf[p]][EpOf[p]])
    <3>1. CASE OwnerOf[p] = s
      <4>1. EpOf[p] = e  BY <1>1, <2>2, <3>1, FlowTypes
      <4> QED  BY <1>0, <1>1, <1>4, <2>2, <3>1, <4>1
    <3>2. CASE OwnerOf[p] # s
      BY <1>0, <1>1, <2>2, <3>2, PlanAssumption
    <3> QED  BY <3>1, <3>2
  <2> QED  BY <1>1, <2>1, <2>2 DEF PlanFlow, NoPlanLost
<1> QED  BY <1>5, <1>6, <1>7, <1>8, <1>9 DEF PlanFlow

(* A status once there is never taken away.                                *)
LEMMA ResultsStay ==
  ASSUME NEW old \in Status \cup {"none"}, NEW new \in Status
  PROVE  AppendOnce(old, new) # "none"
BY DEF AppendOnce, Accepts, Status, Skipped, Executed

(* Plans stay accounted for while jobs hand theirs over with a result.     *)
LEMMA PlansHandedOver ==
  ASSUME NoPlanLost, UNCHANGED <<queue, take, group>>,
         \A p \in Plans : result[p] # "none" => result'[p] # "none",
         \A h \in Plans : phase[h] \in Held =>
           phase'[h] \in Held \/ \A p \in SeqRange(group[h]) : result'[p] # "none"
  PROVE  NoPlanLost'
BY DEF NoPlanLost, Held

(* The finally block gives every queued plan a result before it drops them. *)
LEMMA SkipPendingFlow ==
  ASSUME TypeOK, DispatchConsistent, PlanFlow, NEW s \in Scheds, SkipPending(s)
  PROVE  PlanFlow'
<1>0. /\ pc \in [Scheds -> MainPcs]
      /\ queue \in [Scheds -> [Endpoints -> Seq(Plans)]]
      /\ result \in [Plans -> Status \cup {"none"}]
  BY DEF TypeOK, MainTypeOK, TableTypeOK, ResultTypeOK
<1>1. /\ pc[s] = "finally" /\ pc' = [pc EXCEPT ![s] = "drain"]
      /\ queue' = [queue EXCEPT ![s] = [e \in Endpoints |-> <<>>]]
      /\ UNCHANGED <<hand, take, phase, group, todo, outcome>>
  BY DEF SkipPending, jobVars
<1>2. ASSUME NEW p \in Plans
      PROVE  /\ result[p] # "none" => result'[p] # "none"
             /\ p \in SeqRange(queue[s][EpOf[p]]) => result'[p] # "none"
  <2>1. StopLabel(reason[s]) \in Status  BY DEF StopLabel, Status, Skipped
  <2>2. AppendOnce(result[p], StopLabel(reason[s])) # "none"
    BY <1>0, <2>1, ResultsStay
  <2>3. result'[p] = IF \E e \in Endpoints : p \in SeqRange(queue[s][e])
                     THEN AppendOnce(result[p], StopLabel(reason[s])) ELSE result[p]
    BY DEF SkipPending
  <2>4. EpOf[p] \in Endpoints  BY PlanAssumption
  <2> QED  BY <2>2, <2>3, <2>4
<1>3. \A t \in Scheds, e \in Endpoints :
        queue'[t][e] = queue[t][e] \/ (t = s /\ queue'[t][e] = <<>>)
  <2> SUFFICES ASSUME NEW t \in Scheds, NEW e \in Endpoints
               PROVE  queue'[t][e] = queue[t][e] \/ (t = s /\ queue'[t][e] = <<>>)
    OBVIOUS
  <2>1. CASE t = s
    <3>1. queue'[t] = [x \in Endpoints |-> <<>>]  BY <1>0, <1>1, <2>1
    <3>2. queue'[t][e] = <<>>  BY <3>1
    <3> QED  BY <2>1, <3>2
  <2>2. CASE t # s
    <3>1. queue'[t] = queue[t]  BY <1>0, <1>1, <2>2
    <3> QED  BY <3>1
  <2> QED  BY <2>1, <2>2
<1>4. HandEmpty'  BY <1>0, <1>1 DEF PlanFlow, HandEmpty, Dispatching
<1>5. QueuesFresh'
  <2>1. ASSUME NEW t \in Scheds, NEW e \in Endpoints
        PROVE  /\ Distinct(queue'[t][e])
               /\ \A p \in SeqRange(queue'[t][e]) : phase[p] = "none"
    <3>1. CASE queue'[t][e] = queue[t][e]  BY <3>1 DEF PlanFlow, QueuesFresh
    <3>2. CASE queue'[t][e] = <<>>  BY <3>2, ShortFacts
    <3> QED  BY <1>3, <3>1, <3>2
  <2> QED  BY <1>1, <2>1 DEF QueuesFresh
<1>6. TakeFresh'
  <2>1. ASSUME NEW t \in Scheds, pc'[t] = "submit"
        PROVE  pc[t] = "submit" /\ queue'[t] = queue[t]
    BY <1>0, <1>1, <2>1
  <2> QED  BY <1>1, <2>1 DEF PlanFlow, TakeFresh
<1>7. JobsKept'
  <2>1. \A q \in Plans : SeqRange(group[q]) \subseteq Plans
    BY DEF TypeOK, JobTypeOK, SeqRange
  <2> QED  BY <1>1, <1>2, <2>1 DEF PlanFlow, JobsKept
<1>8. NoPlanLost'
  <2>1. ASSUME NEW p \in Plans, p \in SeqRange(queue[OwnerOf[p]][EpOf[p]])
        PROVE  \/ result'[p] # "none"
               \/ p \in SeqRange(queue'[OwnerOf[p]][EpOf[p]])
    <3>1. OwnerOf[p] \in Scheds /\ EpOf[p] \in Endpoints  BY PlanAssumption
    <3> QED  BY <1>2, <1>3, <2>1, <3>1
  <2> QED  BY <1>1, <1>2, <2>1 DEF PlanFlow, NoPlanLost
<1> QED  BY <1>4, <1>5, <1>6, <1>7, <1>8 DEF PlanFlow

(* Steps of jobs leave the main threads and what they hold alone.          *)
LEMMA JobFlow ==
  ASSUME DispatchConsistent, PlanFlow, UNCHANGED <<pc, hand, take, queue>>,
         \A p \in Plans : phase[p] = "none" => phase'[p] = "none",
         JobsKept', NoPlanLost'
  PROVE  PlanFlow'
<1>1. HandEmpty'  BY DEF PlanFlow, HandEmpty
<1>2. QueuesFresh'  BY FlowTypes DEF PlanFlow, QueuesFresh
<1>3. TakeFresh'  BY FlowTypes DEF PlanFlow, TakeFresh
<1> QED  BY <1>1, <1>2, <1>3 DEF PlanFlow

\* The first parts of JobFlow's premise for a worker's step.
LEMMA JobFrame ==
  ASSUME TypeOK, NEW p \in Plans, WorkerStep(p) \/ CrashJob(p)
  PROVE  /\ UNCHANGED <<pc, hand, take, queue, group>>
         /\ \A q \in Plans : phase[q] = "none" => phase'[q] = "none"
         /\ \A q \in Plans : result[q] # "none" => result'[q] # "none"
<1>0. /\ phase \in [Plans -> Phases] /\ result \in [Plans -> Status \cup {"none"}]
      /\ todo \in [Plans -> Seq(Plans)]
  BY DEF TypeOK, JobTypeOK, ResultTypeOK
<1>1. /\ UNCHANGED <<pc, hand, take, queue, group>>
      /\ phase[p] # "none"
      /\ \E c \in Phases : phase' = phase \/ phase' = [phase EXCEPT ![p] = c]
  <2>1. CASE StartJob(p) \/ ExecutePlan(p) \/ FinishJob(p) \/ CrashJob(p)
    BY <2>1 DEF StartJob, ExecutePlan, FinishJob, CrashJob, mainVars, Phases, InFlight
  <2>2. CASE OnDone(p)
    BY <2>2 DEF OnDone, mainVars, Phases, InFlight
  <2>3. CASE AppendInbandResult(p)
    BY <2>3 DEF AppendInbandResult, mainVars, Phases, InFlight
  <2>4. CASE ReleaseLease(p) \/ GroupDone(p) \/ Requeue(p)
    BY <2>4 DEF ReleaseLease, GroupDone, Requeue, mainVars, Phases, InFlight
  <2> QED  BY <2>1, <2>2, <2>3, <2>4 DEF WorkerStep
<1>2. \A q \in Plans : phase[q] = "none" => phase'[q] = "none"
  BY <1>0, <1>1
<1>3. \A q \in Plans : result[q] # "none" => result'[q] # "none"
  <2>1. CASE ExecutePlan(p)
    <3>1. \A q \in Plans : AppendOnce(result[q], "EXEC_DONE") # "none"
      BY <1>0, ResultsStay DEF Status, Executed
    <3>2. \A q \in Plans : \/ result'[q] = result[q]
                           \/ result'[q] = AppendOnce(result[q], "EXEC_DONE")
      BY <1>0, <2>1 DEF ExecutePlan
    <3> QED  BY <3>1, <3>2
  <2>2. CASE AppendInbandResult(p)
    <3>1. \A q \in Plans, st \in Executed : AppendOnce(result[q], st) # "none"
      BY <1>0, ResultsStay DEF Status
    <3>2. \A q \in Plans : \E st \in Executed :
            result'[q] = result[q] \/ result'[q] = AppendOnce(result[q], st)
      BY <1>0, <2>2 DEF AppendInbandResult, Executed
    <3> QED  BY <3>1, <3>2
  <2>3. CASE GroupDone(p)  BY <2>3 DEF GroupDone, Recovered
  <2>4. CASE StartJob(p) \/ FinishJob(p) \/ CrashJob(p)
    BY <2>4 DEF StartJob, FinishJob, CrashJob
  <2>5. CASE OnDone(p) \/ ReleaseLease(p) \/ Requeue(p)
    BY <2>5 DEF OnDone, ReleaseLease, Requeue
  <2> QED  BY <2>1, <2>2, <2>3, <2>4, <2>5 DEF WorkerStep
<1> QED  BY <1>1, <1>2, <1>3

(* What a job answers for, step by step from its start to its callback's   *)
(* end.                                                                    *)
LEMMA WorkerFlow ==
  ASSUME TypeOK, DispatchConsistent, PlanFlow, NEW p \in Plans,
         WorkerStep(p) \/ CrashJob(p)
  PROVE  PlanFlow'
<1>0. /\ phase \in [Plans -> Phases] /\ result \in [Plans -> Status \cup {"none"}]
      /\ todo \in [Plans -> Seq(Plans)] /\ group \in [Plans -> Seq(Plans)]
      /\ outcome \in [Plans -> {"none", "ok", "error", "cancelled"}]
      /\ \A q \in Plans : SeqRange(group[q]) \subseteq Plans
      /\ \A q \in Plans : EpType[EpOf[q]] = "BMC" \/ EpType[EpOf[q]] = "INBAND"
  BY PlanAssumption DEF TypeOK, JobTypeOK, ResultTypeOK, SeqRange, Pools
<1>1. /\ UNCHANGED <<pc, hand, take, queue, group>>
      /\ \A q \in Plans : phase[q] = "none" => phase'[q] = "none"
      /\ \A q \in Plans : result[q] # "none" => result'[q] # "none"
  BY JobFrame
<1>2. JobsKept /\ NoPlanLost  BY DEF PlanFlow
<1> DEFINE Given == \A q \in SeqRange(group[p]) : result'[q] # "none"
<1>3. ASSUME \A q \in Plans \ {p} : phase'[q] = phase[q],
             phase[p] \in Held => phase'[p] \in Held \/ Given
      PROVE  NoPlanLost'
  BY <1>1, <1>2, <1>3, PlansHandedOver
<1>4. CASE StartJob(p)
  <2>1. /\ phase[p] = "queued" /\ phase' = [phase EXCEPT ![p] = "running"]
        /\ UNCHANGED <<todo, outcome, result>>
    BY <1>4 DEF StartJob
  <2>2. JobsKept'  BY <1>0, <1>1, <1>2, <2>1 DEF JobsKept, Reporting
  <2>3. NoPlanLost'  BY <1>0, <1>3, <2>1 DEF Held, InFlight
  <2> QED  BY <1>1, <2>2, <2>3, JobFlow
<1>5. CASE ExecutePlan(p)
  <2>1. /\ phase[p] = "running" /\ todo[p] # <<>>
        /\ todo' = [todo EXCEPT ![p] = Tail(todo[p])]
        /\ UNCHANGED <<phase, outcome>>
        /\ result' = IF EpType[EpOf[p]] = "BMC"
                     THEN [result EXCEPT ![Head(todo[p])] =
                             AppendOnce(result[Head(todo[p])], "EXEC_DONE")]
                     ELSE result
    BY <1>5 DEF ExecutePlan
  <2>2. /\ Head(todo[p]) \in Plans
        /\ SeqRange(todo[p]) = {Head(todo[p])} \cup SeqRange(Tail(todo[p]))
    BY <1>0, <2>1, TailFacts
  <2>3. EpType[EpOf[p]] = "BMC" => result'[Head(todo[p])] # "none"
    <3>1. AppendOnce(result[Head(todo[p])], "EXEC_DONE") # "none"
      BY <1>0, <2>2, ResultsStay DEF Status, Executed
    <3> QED  BY <1>0, <2>1, <2>2, <3>1
  <2>4. JobsKept'
    <3>1. ASSUME NEW q \in Plans, q # p PROVE todo'[q] = todo[q]
      BY <1>0, <2>1, <3>1
    <3>2. todo'[p] = Tail(todo[p])  BY <1>0, <2>1
    <3>3. ASSUME NEW q \in Plans, phase[q] \in Reporting, EpType[EpOf[q]] = "BMC",
                 NEW r \in SeqRange(group[q]), result'[r] = "none"
          PROVE  r \in SeqRange(todo'[q])
      <4>1. r \in Plans /\ result[r] = "none"  BY <1>0, <1>1, <3>3
      <4>2. r \in SeqRange(todo[q])  BY <1>2, <3>3, <4>1 DEF JobsKept
      <4>3. CASE q # p  BY <3>1, <4>2, <4>3
      <4>4. CASE q = p
        <5>1. r # Head(todo[p])  BY <2>3, <3>3, <4>4
        <5> QED  BY <2>2, <3>2, <4>2, <4>4, <5>1
      <4> QED  BY <4>3, <4>4
    <3> QED  BY <1>1, <1>2, <2>1, <3>1, <3>3 DEF JobsKept
  <2>5. NoPlanLost'  BY <1>3, <2>1
  <2> QED  BY <1>1, <2>1, <2>4, <2>5, JobFlow
<1>6. CASE FinishJob(p)
  <2>1. /\ phase[p] = "running" /\ todo[p] = <<>>
        /\ phase' = [phase EXCEPT ![p] = "finished"]
        /\ outcome' = [outcome EXCEPT ![p] = "ok"]
        /\ UNCHANGED <<todo, result>>
    BY <1>6 DEF FinishJob
  <2>2. JobsKept'  BY <1>0, <1>1, <1>2, <2>1 DEF JobsKept, Reporting
  <2>3. NoPlanLost'  BY <1>0, <1>3, <2>1 DEF Held, InFlight
  <2> QED  BY <1>1, <2>2, <2>3, JobFlow
<1>7. CASE CrashJob(p)
  <2>1. /\ phase[p] = "running" /\ phase' = [phase EXCEPT ![p] = "finished"]
        /\ outcome' = [outcome EXCEPT ![p] = "error"]
        /\ UNCHANGED <<todo, result>>
    BY <1>7 DEF CrashJob
  <2>2. JobsKept'  BY <1>0, <1>1, <1>2, <2>1 DEF JobsKept, Reporting
  <2>3. NoPlanLost'  BY <1>0, <1>3, <2>1 DEF Held, InFlight
  <2> QED  BY <1>1, <2>2, <2>3, JobFlow
<1>8. CASE OnDone(p)
  <2>1. /\ phase[p] = "finished"
        /\ \/ phase' = [phase EXCEPT ![p] = "claimed"]
           \/ phase' = [phase EXCEPT ![p] = "lost"]
        /\ UNCHANGED <<todo, outcome, result>>
    BY <1>8 DEF OnDone
  <2>2. JobsKept'  BY <1>0, <1>1, <1>2, <2>1 DEF JobsKept, Reporting
  <2>3. NoPlanLost'  BY <1>0, <1>3, <2>1 DEF Held, InFlight
  <2> QED  BY <1>1, <2>2, <2>3, JobFlow
<1>9. CASE ReleaseLease(p)
  <2>1. /\ phase[p] = "claimed" /\ phase' = [phase EXCEPT ![p] = "released"]
        /\ UNCHANGED <<todo, outcome, result>>
    BY <1>9 DEF ReleaseLease
  <2>2. JobsKept'  BY <1>0, <1>1, <1>2, <2>1 DEF JobsKept, Reporting
  <2>3. NoPlanLost'  BY <1>0, <1>3, <2>1 DEF Held, InFlight
  <2> QED  BY <1>1, <2>2, <2>3, JobFlow
<1>10. CASE AppendInbandResult(p)
  <2>1. /\ phase[p] = "released" /\ EpType[EpOf[p]] = "INBAND"
        /\ \/ phase' = [phase EXCEPT ![p] = "appended"]
           \/ phase' = [phase EXCEPT ![p] = "done"]
        /\ UNCHANGED <<todo, outcome>>
        /\ \E st \in Executed : result' = [result EXCEPT ![p] = AppendOnce(result[p], st)]
    BY <1>10 DEF AppendInbandResult, Executed
  <2>2. Given
    <3>1. group[p] = <<p>>  BY <1>2, <2>1 DEF JobsKept
    <3>2. \A st \in Executed : AppendOnce(result[p], st) # "none"
      BY <1>0, ResultsStay DEF Status
    <3>3. result'[p] # "none"  BY <1>0, <2>1, <3>2
    <3> QED  BY <3>1, <3>3, ShortFacts
  <2>3. JobsKept'
    <3>1. \A q \in Plans : q # p => phase'[q] = phase[q]  BY <1>0, <2>1
    <3>2. phase'[p] \in {"appended", "done"}  BY <1>0, <2>1
    <3> QED  BY <1>0, <1>1, <1>2, <2>1, <3>1, <3>2 DEF JobsKept, Reporting
  <2>4. NoPlanLost'  BY <1>0, <1>3, <2>1, <2>2
  <2> QED  BY <1>1, <2>3, <2>4, JobFlow
<1>11. CASE GroupDone(p)
  <2>1. /\ phase[p] = "released" /\ EpType[EpOf[p]] = "BMC"
        /\ phase' = [phase EXCEPT ![p] = "done"]
        /\ result' = IF outcome[p] = "ok" THEN result ELSE Recovered(p)
        /\ UNCHANGED <<todo, outcome>>
    BY <1>11 DEF GroupDone
  <2>2. Given
    <3>1. CASE outcome[p] = "ok"
      <4>1. SeqRange(todo[p]) = {}  BY <1>2, <2>1, <3>1, ShortFacts DEF JobsKept
      <4> QED  BY <1>2, <2>1, <3>1, <4>1 DEF JobsKept, Reporting
    <3>2. CASE outcome[p] # "ok"
      BY <1>0, <2>1, <3>2 DEF Recovered
    <3> QED  BY <3>1, <3>2
  <2>3. JobsKept'
    <3>1. \A q \in Plans : q # p => phase'[q] = phase[q]  BY <1>0, <2>1
    <3>2. phase'[p] = "done"  BY <1>0, <2>1
    <3> QED  BY <1>0, <1>1, <1>2, <2>1, <3>1, <3>2 DEF JobsKept, Reporting
  <2>4. NoPlanLost'  BY <1>0, <1>3, <2>1, <2>2
  <2> QED  BY <1>1, <2>3, <2>4, JobFlow
<1>12. CASE Requeue(p)
  <2>1. /\ phase[p] = "appended" /\ phase' = [phase EXCEPT ![p] = "done"]
        /\ UNCHANGED <<todo, outcome, result>>
    BY <1>12 DEF Requeue
  <2>2. JobsKept'  BY <1>0, <1>1, <1>2, <2>1 DEF JobsKept, Reporting
  <2>3. NoPlanLost'  BY <1>0, <1>3, <2>1 DEF Held, InFlight
  <2> QED  BY <1>1, <2>2, <2>3, JobFlow
<1> QED
  BY <1>4, <1>5, <1>6, <1>7, <1>8, <1>9, <1>10, <1>11, <1>12 DEF WorkerStep

(* A shutdown cancels a job that had not begun; its callback reports it.   *)
LEMMA CancelFlow ==
  ASSUME TypeOK, DispatchConsistent, PlanFlow, NEW s \in Scheds, CancelQueued(s)
  PROVE  PlanFlow'
<1>0. phase \in [Plans -> Phases] /\ outcome \in [Plans -> {"none", "ok", "error", "cancelled"}]
  BY DEF TypeOK, JobTypeOK
<1>1. PICK p \in Plans : /\ phase[p] = "queued"
                         /\ phase' = [phase EXCEPT ![p] = "finished"]
                         /\ outcome' = [outcome EXCEPT ![p] = "cancelled"]
  BY DEF CancelQueued, QueuedJobs
<1>2. UNCHANGED <<pc, hand, take, queue, group, todo, result>>
  BY DEF CancelQueued, mainVars
<1>3. JobsKept'
  BY <1>0, <1>1, <1>2 DEF PlanFlow, JobsKept, Reporting
<1>4. NoPlanLost'
  <2>1. \A h \in Plans : phase[h] \in Held => phase'[h] \in Held
    BY <1>0, <1>1 DEF Held, InFlight
  <2> QED  BY <1>2, <2>1, PlansHandedOver DEF PlanFlow
<1>5. \A q \in Plans : phase[q] = "none" => phase'[q] = "none"
  BY <1>0, <1>1
<1> QED  BY <1>2, <1>3, <1>4, <1>5, JobFlow

(* A ghost can only add results.                                           *)
LEMMA GhostFlow ==
  ASSUME TypeOK, DispatchConsistent, PlanFlow, NEW p \in Plans, GhostStep(p)
  PROVE  PlanFlow'
<1>0. /\ result \in [Plans -> Status \cup {"none"}]
      /\ \A q \in Plans : SeqRange(group[q]) \subseteq Plans
  BY DEF TypeOK, ResultTypeOK, JobTypeOK, SeqRange
<1>1. UNCHANGED <<pc, hand, take, queue, phase, group, todo, outcome>>
  BY DEF GhostStep, GhostStarts, GhostEnds, mainVars, jobVars
<1>2. \A q \in Plans : result[q] # "none" => result'[q] # "none"
  <2>1. CASE GhostStarts(p)  BY <2>1 DEF GhostStarts
  <2>2. CASE GhostEnds(p)
    <3>1. \A q \in Plans : AppendOnce(result[q], "EXEC_DONE") # "none"
      BY <1>0, ResultsStay DEF Status, Executed
    <3>2. \A q \in Plans : \/ result'[q] = result[q]
                           \/ result'[q] = AppendOnce(result[q], "EXEC_DONE")
      BY <2>2 DEF GhostEnds
    <3> QED  BY <3>1, <3>2
  <2> QED  BY <2>1, <2>2 DEF GhostStep
<1>3. JobsKept'  BY <1>0, <1>1, <1>2 DEF PlanFlow, JobsKept
<1>4. NoPlanLost'  BY <1>1, <1>2, PlansHandedOver DEF PlanFlow
<1> QED  BY <1>1, <1>3, <1>4, JobFlow

(* PlanFlow is inductive, given the invariant of the leases.                *)
LEMMA FlowInvariance == Spec => []PlanFlow
<1>1. Init => PlanFlow
  <2> SUFFICES ASSUME Init PROVE PlanFlow
    OBVIOUS
  <2>0. ASSUME NEW s \in Scheds, NEW e \in Endpoints
        PROVE  /\ queue[s][e] = InitialQueue(s, e)
               /\ Distinct(queue[s][e]) /\ SeqRange(queue[s][e]) \subseteq Plans
    <3>1. queue[s][e] = InitialQueue(s, e)  BY DEF Init
    <3>2. Distinct(Queue0[s][e]) /\ SeqRange(Queue0[s][e]) = PlansAt(s, e)
      BY QueueAssumption DEF Distinct
    <3> QED  BY <3>1, <3>2, ShortFacts DEF InitialQueue, PlansAt
  <2>1. HandEmpty  BY DEF Init, HandEmpty
  <2>2. QueuesFresh
    <3>1. \A p \in Plans : phase[p] = "none"  BY DEF Init
    <3> QED  BY <2>0, <3>1 DEF QueuesFresh
  <2>3. TakeFresh  BY DEF Init, TakeFresh
  <2>4. JobsKept  BY DEF Init, JobsKept, Reporting
  <2>5. NoPlanLost
    <3>1. ASSUME NEW p \in Plans, ~Blocked(OwnerOf[p], EpOf[p])
          PROVE  p \in SeqRange(queue[OwnerOf[p]][EpOf[p]])
      <4>1. OwnerOf[p] \in Scheds /\ EpOf[p] \in Endpoints  BY PlanAssumption
      <4>2. queue[OwnerOf[p]][EpOf[p]] = Queue0[OwnerOf[p]][EpOf[p]]
        BY <2>0, <3>1, <4>1 DEF InitialQueue
      <4> QED  BY <4>1, <4>2, QueueAssumption DEF PlansAt
    <3>2. ASSUME NEW p \in Plans, Blocked(OwnerOf[p], EpOf[p])
          PROVE  result[p] # "none"
      BY <3>2 DEF Init
    <3> QED  BY <3>1, <3>2 DEF NoPlanLost
  <2> QED  BY <2>1, <2>2, <2>3, <2>4, <2>5 DEF PlanFlow
<1>2. IndInv /\ PlanFlow /\ [Next]_vars => PlanFlow'
  <2> SUFFICES ASSUME IndInv, PlanFlow, [Next]_vars PROVE PlanFlow'
    OBVIOUS
  <2>0. TypeOK /\ DispatchConsistent  BY DEF IndInv
  <2>1. ASSUME NEW s \in Scheds, MainStep(s) \/ FaultStep(s) PROVE PlanFlow'
    BY <2>0, <2>1, QuietStepFlow, TryHoldFlow, SubmitFlow, SubmitFailsFlow,
       SkipPendingFlow, CancelFlow
    DEF MainStep, FaultStep, QuietStep
  <2>2. ASSUME NEW p \in Plans, WorkerStep(p) \/ CrashJob(p) \/ GhostStep(p)
        PROVE  PlanFlow'
    BY <2>0, <2>2, WorkerFlow, GhostFlow
  <2>3. ASSUME UNCHANGED <<pc, hand, take, queue, phase, group, todo, outcome, result>>
        PROVE  PlanFlow'
    <3>1. HandEmpty' /\ QueuesFresh' /\ TakeFresh'
      BY <2>3 DEF PlanFlow, HandEmpty, QueuesFresh, TakeFresh
    <3>2. JobsKept' /\ NoPlanLost'
      BY <2>3 DEF PlanFlow, JobsKept, NoPlanLost
    <3> QED  BY <3>1, <3>2 DEF PlanFlow
  <2>4. ASSUME NEW s \in Scheds, ControlStep(s) PROVE PlanFlow'
    <3>1. UNCHANGED <<pc, hand, take, queue, phase, group, todo, outcome, result>>
      BY <2>4 DEF ControlStep, AppStops, ForwardStop, Pause, Resume, mainVars, jobVars
    <3> QED  BY <2>3, <3>1
  <2>5. ASSUME UNCHANGED vars PROVE PlanFlow'
    <3>1. UNCHANGED <<pc, hand, take, queue, phase, group, todo, outcome, result>>
      BY <2>5 DEF vars, mainVars, jobVars
    <3> QED  BY <2>3, <3>1
  <2> QED  BY <2>1, <2>2, <2>4, <2>5 DEF Next, Terminated
<1> QED  BY <1>1, <1>2, Invariance, PTL DEF Spec

(* No plan is lost between the queues, the main thread's hand, the jobs    *)
(* and the results, whatever fails: submits, sessions, the drain.          *)
THEOREM PlansKept == Spec => []NoPlanLost
BY FlowInvariance, PTL DEF PlanFlow

-----------------------------------------------------------------------------
(* A plan is executed at most once.                                        *)

\* No ghost of a failed submit ran on the plan's endpoint.
Unhaunted(p) == \A g \in PlansAt(OwnerOf[p], EpOf[p]) : ghost[g] # "ran"

\* A plan nobody executed or reported yet.
Fresh(p) == Unhaunted(p) => runs[p] = 0 /\ result[p] = "none"

Begun == {"queued", "running"}

(* What waits for its execution, in a queue, in the main thread's hand or  *)
(* in a job, was not executed before.                                      *)
WaitingFresh ==
  /\ \A s \in Scheds, e \in Endpoints : \A p \in SeqRange(queue[s][e]) : Fresh(p)
  /\ \A s \in Scheds : pc[s] = "submit" => \A p \in SeqRange(take[s]) : Fresh(p)
  /\ \A h \in Plans : phase[h] \in Begun => \A p \in SeqRange(todo[h]) : Fresh(p)

(* A plan is in one job only, and once in it, it has left queue and hand.  *)
GroupsApart ==
  \A h \in Plans : phase[h] # "none" => \A p \in SeqRange(group[h]) :
    /\ p \notin SeqRange(queue[OwnerOf[p]][EpOf[p]])
    /\ pc[OwnerOf[p]] = "submit" => p \notin SeqRange(take[OwnerOf[p]])
    /\ \A g \in Plans : phase[g] # "none" /\ p \in SeqRange(group[g]) => g = h

(* A job has distinct plans of its group left to do.                       *)
TodoDistinct ==
  \A h \in Plans : phase[h] \in Begun =>
    Distinct(todo[h]) /\ SeqRange(todo[h]) \subseteq SeqRange(group[h])

OnceInv == WaitingFresh /\ GroupsApart /\ TodoDistinct /\ AtMostOnce

(* Whose runs and result stay as they are stays fresh, or not executed     *)
(* twice; a ghost that ran has run.                                        *)
LEMMA FreshStays ==
  ASSUME NEW p \in Plans, \A g \in Plans : ghost[g] = "ran" => ghost'[g] = "ran",
         runs'[p] = runs[p], result'[p] = result[p]
  PROVE  Fresh(p) => Fresh(p)'
BY DEF Fresh, Unhaunted, PlansAt

(* A plan's count may change only while it stays right.                   *)
LEMMA OnceStays ==
  ASSUME AtMostOnce, \A g \in Plans : ghost[g] = "ran" => ghost'[g] = "ran",
         \A p \in Plans : Unhaunted(p)' =>
           \/ runs'[p] = runs[p] /\ result'[p] = result[p]
           \/ runs'[p] <= 1 /\ (result'[p] \in Status \ Executed => runs'[p] = 0)
  PROVE  AtMostOnce'
BY DEF AtMostOnce, Unhaunted, PlansAt

(* Plans in a queue, a hand or a job are plans.                            *)
LEMMA WaitingPlans ==
  ASSUME TypeOK
  PROVE  /\ \A s \in Scheds : SeqRange(take[s]) \subseteq Plans
         /\ \A s \in Scheds, e \in Endpoints : SeqRange(queue[s][e]) \subseteq Plans
         /\ \A h \in Plans : SeqRange(todo[h]) \subseteq Plans
         /\ \A h \in Plans : SeqRange(group[h]) \subseteq Plans
<1>1. \A q \in Seq(Plans) : SeqRange(q) \subseteq Plans  BY DEF SeqRange
<1> QED  BY <1>1 DEF TypeOK, MainTypeOK, TableTypeOK, JobTypeOK

(* Steps that execute and report nothing and move no plan.                 *)
LEMMA QuietOnce ==
  ASSUME TypeOK, OnceInv,
         UNCHANGED <<take, queue, group, todo, result, runs>>,
         \A s \in Scheds : pc'[s] = "submit" => pc[s] = "submit",
         \A g \in Plans : ghost[g] = "ran" => ghost'[g] = "ran",
         \A h \in Plans : /\ phase'[h] # "none" => phase[h] # "none"
                          /\ phase'[h] \in Begun => phase[h] \in Begun
  PROVE  OnceInv'
<1>1. \A p \in Plans : Fresh(p) => Fresh(p)'  BY FreshStays
<1>2. WaitingFresh'
  BY <1>1, WaitingPlans DEF OnceInv, WaitingFresh
<1>3. GroupsApart'
  <2>1. \A p \in Plans : OwnerOf[p] \in Scheds  BY PlanAssumption
  <2> QED  BY <2>1, WaitingPlans DEF OnceInv, GroupsApart
<1>4. TodoDistinct'  BY DEF OnceInv, TodoDistinct
<1>5. AtMostOnce'  BY OnceStays DEF OnceInv
<1> QED  BY <1>2, <1>3, <1>4, <1>5 DEF OnceInv

(* The main thread's steps of that kind.                                   *)
LEMMA QuietStepOnce ==
  ASSUME TypeOK, OnceInv, NEW s \in Scheds, QuietStep(s)
  PROVE  OnceInv'
<1>0. pc \in [Scheds -> MainPcs] /\ ghost \in [Plans -> {"none", "queued", "running", "ran"}]
  BY DEF TypeOK, MainTypeOK, JobTypeOK
<1> DEFINE Moves == /\ UNCHANGED <<take, queue, phase, group, todo, result, runs>>
                    /\ \E c \in MainPcs \ {"submit"} : pc' = [pc EXCEPT ![s] = c]
<1>1. Moves
  <2>1. CASE LoopEnter(s) \/ LoopExit(s) \/ AdjustPools(s) \/ DispatchAborted(s)
    BY <2>1 DEF LoopEnter, LoopExit, AdjustPools, DispatchAborted, MainPcs, jobVars
  <2>2. CASE PoolFilled(s)
    BY <2>2 DEF PoolFilled, NextPool, MainPcs, jobVars
  <2>3. CASE TakeReady(s) \/ PutBack(s) \/ Drain(s)
    BY <2>3 DEF TakeReady, PutBack, Drain, MainPcs, jobVars
  <2>4. CASE ShutdownPools(s) \/ Return(s) \/ Interrupt(s)
    BY <2>4 DEF ShutdownPools, Return, Interrupt, MainPcs, jobVars
  <2> QED  BY <2>1, <2>2, <2>3, <2>4 DEF QuietStep
<1>2. \A g \in Plans : ghost[g] = "ran" => ghost'[g] = "ran"
  <2>1. CASE ShutdownPools(s)  BY <2>1 DEF ShutdownPools
  <2>2. CASE ~ShutdownPools(s)
    <3>1. UNCHANGED ghost
      BY <2>2 DEF QuietStep, LoopEnter, LoopExit, AdjustPools, PoolFilled, DispatchAborted,
                  TakeReady, PutBack, Drain, Return, Interrupt
    <3> QED  BY <3>1
  <2> QED  BY <2>1, <2>2
<1>3. \A t \in Scheds : pc'[t] = "submit" => pc[t] = "submit"
  BY <1>0, <1>1
<1> QED  BY <1>1, <1>2, <1>3, QuietOnce

(* try_hold moves fresh plans from the queue to the hand.                  *)
LEMMA TryHoldOnce ==
  ASSUME TypeOK, DispatchConsistent, PlanFlow, OnceInv, NEW s \in Scheds, TryHold(s)
  PROVE  OnceInv'
<1> DEFINE e == hand[s]
           q == queue[s][e]
<1>0. /\ pc \in [Scheds -> MainPcs] /\ take \in [Scheds -> Seq(Plans)]
      /\ queue \in [Scheds -> [Endpoints -> Seq(Plans)]]
  BY DEF TypeOK, MainTypeOK, TableTypeOK
<1>1. /\ pc[s] = "pick" /\ e \in Endpoints /\ q # <<>> /\ q \in Seq(Plans)
      /\ pc' = [pc EXCEPT ![s] = "submit"]
      /\ take' = [take EXCEPT ![s] = Batch(s, e)]
      /\ queue' = [queue EXCEPT ![s][e] = Rest(s, e)]
      /\ UNCHANGED <<phase, group, todo, result, runs, ghost>>
  BY <1>0 DEF TryHold, DispatchConsistent, jobVars
<1>2. SeqRange(q) = SeqRange(Batch(s, e)) \cup SeqRange(Rest(s, e))
  BY <1>1, BatchParts DEF PlanFlow, QueuesFresh
<1>3. /\ \A t \in Scheds, x \in Endpoints : SeqRange(queue'[t][x]) \subseteq SeqRange(queue[t][x])
      /\ SeqRange(take'[s]) \subseteq SeqRange(q)
      /\ \A t \in Scheds \ {s} : take'[t] = take[t] /\ pc'[t] = pc[t]
  <2>1. ASSUME NEW t \in Scheds, NEW x \in Endpoints
        PROVE  SeqRange(queue'[t][x]) \subseteq SeqRange(queue[t][x])
    <3>1. CASE t = s /\ x = e  BY <1>0, <1>1, <1>2, <3>1
    <3>2. CASE ~(t = s /\ x = e)  BY <1>0, <1>1, <3>2
    <3> QED  BY <3>1, <3>2
  <2>2. take'[s] = Batch(s, e) /\ \A t \in Scheds \ {s} : take'[t] = take[t] /\ pc'[t] = pc[t]
    BY <1>0, <1>1
  <2> QED  BY <1>2, <2>1, <2>2
<1>4. \A p \in Plans : Fresh(p) => Fresh(p)'  BY <1>1, FreshStays
<1>5. WaitingFresh'
  <2>1. ASSUME NEW t \in Scheds, NEW x \in Endpoints, NEW p \in SeqRange(queue'[t][x])
        PROVE  Fresh(p)'
    BY <1>3, <1>4, <2>1, WaitingPlans DEF OnceInv, WaitingFresh
  <2>2. ASSUME NEW t \in Scheds, pc'[t] = "submit", NEW p \in SeqRange(take'[t])
        PROVE  Fresh(p)'
    <3>1. CASE t = s
      BY <1>1, <1>3, <1>4, <2>2, <3>1, WaitingPlans DEF OnceInv, WaitingFresh
    <3>2. CASE t # s
      BY <1>3, <1>4, <2>2, <3>2, WaitingPlans DEF OnceInv, WaitingFresh
    <3> QED  BY <3>1, <3>2
  <2>3. ASSUME NEW h \in Plans, phase'[h] \in Begun, NEW p \in SeqRange(todo'[h])
        PROVE  Fresh(p)'
    BY <1>1, <1>4, <2>3, WaitingPlans DEF OnceInv, WaitingFresh
  <2> QED  BY <2>1, <2>2, <2>3 DEF WaitingFresh
<1>6. GroupsApart'
  <2> SUFFICES ASSUME NEW h \in Plans, phase[h] # "none", NEW p \in SeqRange(group[h])
               PROVE  /\ p \notin SeqRange(queue'[OwnerOf[p]][EpOf[p]])
                      /\ pc'[OwnerOf[p]] = "submit" => p \notin SeqRange(take'[OwnerOf[p]])
    BY <1>1 DEF OnceInv, GroupsApart
  <2>1. p \in Plans /\ OwnerOf[p] \in Scheds /\ EpOf[p] \in Endpoints
    BY WaitingPlans, PlanAssumption
  <2>2. /\ p \notin SeqRange(queue[OwnerOf[p]][EpOf[p]])
        /\ pc[OwnerOf[p]] = "submit" => p \notin SeqRange(take[OwnerOf[p]])
    BY DEF OnceInv, GroupsApart
  <2>3. CASE OwnerOf[p] = s
    <3>1. p \in SeqRange(q) => EpOf[p] = e  BY <1>1, FlowTypes
    <3> QED  BY <1>3, <2>1, <2>2, <2>3, <3>1
  <2>4. CASE OwnerOf[p] # s  BY <1>3, <2>1, <2>2, <2>4
  <2> QED  BY <2>3, <2>4
<1>7. TodoDistinct'  BY <1>1 DEF OnceInv, TodoDistinct
<1>8. AtMostOnce'  BY <1>1, OnceStays DEF OnceInv
<1> QED  BY <1>5, <1>6, <1>7, <1>8 DEF OnceInv

(* A submit moves the plans in hand to a job of their own.                 *)
LEMMA SubmitOnce ==
  ASSUME TypeOK, DispatchConsistent, PlanFlow, OnceInv, NEW s \in Scheds, Submit(s)
  PROVE  OnceInv'
<1> DEFINE h == Head(take[s])
<1>0. /\ pc \in [Scheds -> MainPcs] /\ take \in [Scheds -> Seq(Plans)]
      /\ phase \in [Plans -> Phases]
      /\ group \in [Plans -> Seq(Plans)] /\ todo \in [Plans -> Seq(Plans)]
  BY DEF TypeOK, MainTypeOK, JobTypeOK
<1>1. /\ pc[s] = "submit"
      /\ pc' = [pc EXCEPT ![s] = "check"]
      /\ take' = [take EXCEPT ![s] = <<>>]
      /\ phase' = [phase EXCEPT ![h] = "queued"]
      /\ group' = [group EXCEPT ![h] = take[s]]
      /\ todo' = [todo EXCEPT ![h] = take[s]]
      /\ UNCHANGED <<queue, result, runs, ghost>>
  BY DEF Submit
<1>2. h \in Plans  BY <1>1, TakeType
<1>3. /\ Distinct(take[s])
      /\ \A p \in SeqRange(take[s]) :
           /\ p \in Plans /\ OwnerOf[p] = s /\ EpOf[p] = hand[s] /\ Fresh(p)
           /\ p \notin SeqRange(queue[s][hand[s]])
  BY <1>1, FlowTypes DEF PlanFlow, TakeFresh, OnceInv, WaitingFresh
<1>4. /\ group'[h] = take[s] /\ todo'[h] = take[s]
      /\ \A g \in Plans \ {h} : /\ group'[g] = group[g] /\ todo'[g] = todo[g]
                                /\ phase'[g] = phase[g]
      /\ pc'[s] # "submit"
      /\ \A t \in Scheds \ {s} : take'[t] = take[t] /\ pc'[t] = pc[t]
  BY <1>0, <1>1, <1>2
<1>5. \A p \in Plans : Fresh(p) => Fresh(p)'  BY <1>1, FreshStays
<1>6. WaitingFresh'
  <2>1. ASSUME NEW t \in Scheds, NEW x \in Endpoints, NEW p \in SeqRange(queue'[t][x])
        PROVE  Fresh(p)'
    BY <1>1, <1>5, <2>1, WaitingPlans DEF OnceInv, WaitingFresh
  <2>2. ASSUME NEW t \in Scheds, pc'[t] = "submit", NEW p \in SeqRange(take'[t])
        PROVE  Fresh(p)'
    <3>1. t # s  BY <1>4, <2>2
    <3> QED  BY <1>4, <1>5, <2>2, <3>1, WaitingPlans DEF OnceInv, WaitingFresh
  <2>3. ASSUME NEW g \in Plans, phase'[g] \in Begun, NEW p \in SeqRange(todo'[g])
        PROVE  Fresh(p)'
    <3>1. CASE g = h  BY <1>3, <1>4, <1>5, <2>3, <3>1
    <3>2. CASE g # h
      BY <1>4, <1>5, <2>3, <3>2, WaitingPlans DEF OnceInv, WaitingFresh
    <3> QED  BY <3>1, <3>2
  <2> QED  BY <2>1, <2>2, <2>3 DEF WaitingFresh
<1>7. GroupsApart'
  <2> SUFFICES ASSUME NEW g \in Plans, phase'[g] # "none", NEW p \in SeqRange(group'[g])
               PROVE  /\ p \notin SeqRange(queue'[OwnerOf[p]][EpOf[p]])
                      /\ pc'[OwnerOf[p]] = "submit" => p \notin SeqRange(take'[OwnerOf[p]])
                      /\ \A f \in Plans : phase'[f] # "none" /\ p \in SeqRange(group'[f]) => f = g
    BY DEF GroupsApart
  <2>1. \A f \in Plans : f # h /\ phase'[f] # "none" /\ p \in SeqRange(group'[f]) =>
          p \notin SeqRange(take[s])
    <3>1. ASSUME NEW f \in Plans, f # h, phase'[f] # "none", p \in SeqRange(group'[f]),
                 p \in SeqRange(take[s])
          PROVE  FALSE
      <4>1. phase[f] # "none" /\ p \in SeqRange(group[f]) /\ OwnerOf[p] = s
        BY <1>3, <1>4, <3>1
      <4> QED  BY <1>1, <3>1, <4>1 DEF OnceInv, GroupsApart
    <3> QED  BY <3>1
  <2>2. CASE g = h
    <3>1. p \in SeqRange(take[s])  BY <1>4, <2>2
    <3>2. \A f \in Plans : phase'[f] # "none" /\ p \in SeqRange(group'[f]) => f = g
      BY <2>1, <2>2, <3>1
    <3> QED  BY <1>1, <1>3, <1>4, <3>1, <3>2
  <2>3. CASE g # h
    <3>1. phase[g] # "none" /\ p \in SeqRange(group[g])  BY <1>4, <2>3
    <3>2. p \notin SeqRange(take[s])  BY <2>1, <2>3
    <3>3. /\ p \notin SeqRange(queue[OwnerOf[p]][EpOf[p]])
          /\ pc[OwnerOf[p]] = "submit" => p \notin SeqRange(take[OwnerOf[p]])
          /\ \A f \in Plans : phase[f] # "none" /\ p \in SeqRange(group[f]) => f = g
      BY <3>1 DEF OnceInv, GroupsApart
    <3>4. OwnerOf[p] \in Scheds  BY <3>1, WaitingPlans, PlanAssumption
    <3>5. \A f \in Plans : phase'[f] # "none" /\ p \in SeqRange(group'[f]) => f = g
      <4>1. ASSUME NEW f \in Plans, phase'[f] # "none", p \in SeqRange(group'[f])
            PROVE  f = g
        <5>1. f # h  BY <1>4, <3>2, <4>1
        <5> QED  BY <1>4, <3>3, <4>1, <5>1
      <4> QED  BY <4>1
    <3> QED  BY <1>1, <1>4, <3>3, <3>4, <3>5
  <2> QED  BY <2>2, <2>3
<1>8. TodoDistinct'
  <2>1. ASSUME NEW g \in Plans, phase'[g] \in Begun
        PROVE  Distinct(todo'[g]) /\ SeqRange(todo'[g]) \subseteq SeqRange(group'[g])
    <3>1. CASE g = h  BY <1>3, <1>4, <3>1
    <3>2. CASE g # h  BY <1>4, <2>1, <3>2 DEF OnceInv, TodoDistinct
    <3> QED  BY <3>1, <3>2
  <2> QED  BY <2>1 DEF TodoDistinct
<1>9. AtMostOnce'  BY <1>1, OnceStays DEF OnceInv
<1> QED  BY <1>6, <1>7, <1>8, <1>9 DEF OnceInv

(* A failed submit moves them back; its ghost has not run yet.             *)
LEMMA SubmitFailsOnce ==
  ASSUME TypeOK, DispatchConsistent, PlanFlow, OnceInv, NEW s \in Scheds, SubmitFails(s)
  PROVE  OnceInv'
<1> DEFINE e == hand[s]
<1>0. /\ pc \in [Scheds -> MainPcs] /\ take \in [Scheds -> Seq(Plans)]
      /\ queue \in [Scheds -> [Endpoints -> Seq(Plans)]]
      /\ ghost \in [Plans -> {"none", "queued", "running", "ran"}]
  BY DEF TypeOK, MainTypeOK, TableTypeOK, JobTypeOK
<1>1. /\ pc[s] = "submit" /\ e \in Endpoints
      /\ queue[s][e] \in Seq(Plans) /\ take[s] \in Seq(Plans)
      /\ pc' = [pc EXCEPT ![s] = "check"] \/ pc' = [pc EXCEPT ![s] = "loop"]
      /\ take' = [take EXCEPT ![s] = <<>>]
      /\ queue' = [queue EXCEPT ![s][e] = PutPlansBack(s)]
      /\ UNCHANGED <<phase, group, todo, result, runs>>
  BY <1>0 DEF SubmitFails, NextPool, DispatchConsistent, jobVars
<1>2. \A g \in Plans : ghost[g] = "ran" => ghost'[g] = "ran"
  BY <1>0 DEF SubmitFails
<1>3. SeqRange(PutPlansBack(s)) = SeqRange(take[s]) \cup SeqRange(queue[s][e])
  BY <1>1, ConcatFacts DEF PutPlansBack
<1>4. /\ queue'[s][e] = PutPlansBack(s)
      /\ \A t \in Scheds, x \in Endpoints : queue'[t][x] = queue[t][x] \/ (t = s /\ x = e)
      /\ pc'[s] # "submit"
      /\ \A t \in Scheds \ {s} : take'[t] = take[t] /\ pc'[t] = pc[t]
  BY <1>0, <1>1
<1>5. \A p \in Plans : Fresh(p) => Fresh(p)'  BY <1>1, <1>2, FreshStays
<1>6. WaitingFresh'
  <2>1. ASSUME NEW t \in Scheds, NEW x \in Endpoints, NEW p \in SeqRange(queue'[t][x])
        PROVE  Fresh(p)'
    <3>1. CASE queue'[t][x] = queue[t][x]
      BY <1>5, <2>1, <3>1, WaitingPlans DEF OnceInv, WaitingFresh
    <3>2. CASE t = s /\ x = e
      <4>1. p \in SeqRange(take[s]) \/ p \in SeqRange(queue[s][e])
        BY <1>3, <1>4, <2>1, <3>2
      <4> QED  BY <1>1, <1>5, <4>1, WaitingPlans DEF OnceInv, WaitingFresh
    <3> QED  BY <1>4, <3>1, <3>2
  <2>2. ASSUME NEW t \in Scheds, pc'[t] = "submit", NEW p \in SeqRange(take'[t])
        PROVE  Fresh(p)'
    <3>1. t # s  BY <1>4, <2>2
    <3> QED  BY <1>4, <1>5, <2>2, <3>1, WaitingPlans DEF OnceInv, WaitingFresh
  <2>3. ASSUME NEW g \in Plans, phase'[g] \in Begun, NEW p \in SeqRange(todo'[g])
        PROVE  Fresh(p)'
    BY <1>1, <1>5, <2>3, WaitingPlans DEF OnceInv, WaitingFresh
  <2> QED  BY <2>1, <2>2, <2>3 DEF WaitingFresh
<1>7. GroupsApart'
  <2> SUFFICES ASSUME NEW h \in Plans, phase[h] # "none", NEW p \in SeqRange(group[h])
               PROVE  /\ p \notin SeqRange(queue'[OwnerOf[p]][EpOf[p]])
                      /\ pc'[OwnerOf[p]] = "submit" => p \notin SeqRange(take'[OwnerOf[p]])
    BY <1>1 DEF OnceInv, GroupsApart
  <2>1. OwnerOf[p] \in Scheds /\ EpOf[p] \in Endpoints
    BY WaitingPlans, PlanAssumption
  <2>2. /\ p \notin SeqRange(queue[OwnerOf[p]][EpOf[p]])
        /\ pc[OwnerOf[p]] = "submit" => p \notin SeqRange(take[OwnerOf[p]])
    BY DEF OnceInv, GroupsApart
  <2>3. CASE OwnerOf[p] = s /\ EpOf[p] = e  BY <1>1, <1>3, <1>4, <2>2, <2>3
  <2>4. CASE ~(OwnerOf[p] = s /\ EpOf[p] = e)
    <3>1. queue'[OwnerOf[p]][EpOf[p]] = queue[OwnerOf[p]][EpOf[p]]
      BY <1>4, <2>1, <2>4
    <3> QED  BY <1>4, <2>1, <2>2, <3>1
  <2> QED  BY <2>3, <2>4
<1>8. TodoDistinct'  BY <1>1 DEF OnceInv, TodoDistinct
<1>9. AtMostOnce'  BY <1>1, <1>2, OnceStays DEF OnceInv
<1> QED  BY <1>6, <1>7, <1>8, <1>9 DEF OnceInv

(* A result is given to plans that wait nowhere.                           *)
LEMMA ReportOnce ==
  ASSUME TypeOK, OnceInv, NEW G \in SUBSET Plans,
         UNCHANGED <<take, group, todo, runs, ghost>>,
         \A s \in Scheds : pc'[s] = "submit" => pc[s] = "submit",
         \A s \in Scheds, e \in Endpoints :
           /\ SeqRange(queue'[s][e]) \subseteq SeqRange(queue[s][e])
           /\ SeqRange(queue'[s][e]) \cap G = {},
         \A s \in Scheds : pc[s] = "submit" => SeqRange(take[s]) \cap G = {},
         \A h \in Plans : /\ phase'[h] # "none" => phase[h] # "none"
                          /\ phase'[h] \in Begun => /\ phase[h] \in Begun
                                                    /\ SeqRange(todo[h]) \cap G = {},
         \A p \in Plans \ G : result'[p] = result[p],
         \A p \in G : Unhaunted(p) /\ result'[p] \in Status \ Executed => runs[p] = 0
  PROVE  OnceInv'
<1>1. \A p \in Plans \ G : Fresh(p) => Fresh(p)'  BY FreshStays
<1>2. WaitingFresh'
  <2>1. ASSUME NEW t \in Scheds, NEW x \in Endpoints, NEW p \in SeqRange(queue'[t][x])
        PROVE  Fresh(p)'
    <3>1. p \in SeqRange(queue[t][x]) /\ p \notin G  BY <2>1
    <3> QED  BY <1>1, <3>1, WaitingPlans DEF OnceInv, WaitingFresh
  <2>2. ASSUME NEW t \in Scheds, pc'[t] = "submit", NEW p \in SeqRange(take'[t])
        PROVE  Fresh(p)'
    BY <1>1, <2>2, WaitingPlans DEF OnceInv, WaitingFresh
  <2>3. ASSUME NEW h \in Plans, phase'[h] \in Begun, NEW p \in SeqRange(todo'[h])
        PROVE  Fresh(p)'
    BY <1>1, <2>3, WaitingPlans DEF OnceInv, WaitingFresh
  <2> QED  BY <2>1, <2>2, <2>3 DEF WaitingFresh
<1>3. GroupsApart'
  <2> SUFFICES ASSUME NEW h \in Plans, phase'[h] # "none", NEW p \in SeqRange(group[h])
               PROVE  /\ p \notin SeqRange(queue'[OwnerOf[p]][EpOf[p]])
                      /\ pc'[OwnerOf[p]] = "submit" => p \notin SeqRange(take[OwnerOf[p]])
                      /\ \A g \in Plans : phase'[g] # "none" /\ p \in SeqRange(group[g]) => g = h
    BY DEF GroupsApart
  <2>1. OwnerOf[p] \in Scheds /\ EpOf[p] \in Endpoints
    BY WaitingPlans, PlanAssumption
  <2>2. /\ p \notin SeqRange(queue[OwnerOf[p]][EpOf[p]])
        /\ pc[OwnerOf[p]] = "submit" => p \notin SeqRange(take[OwnerOf[p]])
        /\ \A g \in Plans : phase[g] # "none" /\ p \in SeqRange(group[g]) => g = h
    BY DEF OnceInv, GroupsApart
  <2> QED  BY <2>1, <2>2
<1>4. TodoDistinct'  BY DEF OnceInv, TodoDistinct
<1>5. AtMostOnce'
  <2>1. \A p \in Plans : Unhaunted(p)' => Unhaunted(p)  BY DEF Unhaunted
  <2>2. \A p \in Plans : Unhaunted(p) => runs[p] <= 1
    BY DEF OnceInv, AtMostOnce, Unhaunted
  <2> QED  BY <2>1, <2>2, OnceStays DEF OnceInv
<1> QED  BY <1>2, <1>3, <1>4, <1>5 DEF OnceInv

(* The finally block skips only plans that no job has.                     *)
LEMMA SkipPendingOnce ==
  ASSUME TypeOK, DispatchConsistent, OnceInv, NEW s \in Scheds, SkipPending(s)
  PROVE  OnceInv'
<1> DEFINE G == {p \in Plans : p \in SeqRange(queue[s][EpOf[p]])}
<1>0. /\ pc \in [Scheds -> MainPcs] /\ queue \in [Scheds -> [Endpoints -> Seq(Plans)]]
  BY DEF TypeOK, MainTypeOK, TableTypeOK
<1>1. /\ pc[s] = "finally" /\ pc' = [pc EXCEPT ![s] = "drain"]
      /\ queue' = [queue EXCEPT ![s] = [e \in Endpoints |-> <<>>]]
      /\ UNCHANGED <<take, phase, group, todo, runs, ghost>>
  BY DEF SkipPending, jobVars
<1>2. ASSUME NEW p \in Plans \ G PROVE result'[p] = result[p]
  <2>1. \A e \in Endpoints : p \notin SeqRange(queue[s][e])  BY FlowTypes
  <2> QED  BY <2>1 DEF SkipPending
<1>3. \A p \in G : OwnerOf[p] = s /\ EpOf[p] \in Endpoints /\ Fresh(p)
  <2>1. \A p \in Plans : EpOf[p] \in Endpoints  BY PlanAssumption
  <2> QED  BY <2>1, FlowTypes DEF OnceInv, WaitingFresh
<1>4. ASSUME NEW t \in Scheds, NEW e \in Endpoints
      PROVE  /\ SeqRange(queue'[t][e]) \subseteq SeqRange(queue[t][e])
             /\ SeqRange(queue'[t][e]) \cap G = {}
  <2>1. CASE t = s
    <3>1. queue'[t] = [x \in Endpoints |-> <<>>]  BY <1>0, <1>1, <2>1
    <3>2. queue'[t][e] = <<>>  BY <3>1
    <3> QED  BY <3>2, ShortFacts
  <2>2. CASE t # s
    <3>1. queue'[t] = queue[t]  BY <1>0, <1>1, <2>2
    <3> QED  BY <1>3, <2>2, <3>1, FlowTypes
  <2> QED  BY <2>1, <2>2
<1>5. /\ \A t \in Scheds : pc'[t] = "submit" => pc[t] = "submit" /\ t # s
      /\ \A t \in Scheds : pc[t] = "submit" => SeqRange(take[t]) \cap G = {}
  <2>1. \A t \in Scheds : pc'[t] = "submit" => pc[t] = "submit" /\ t # s
    BY <1>0, <1>1
  <2>2. \A t \in Scheds : pc[t] = "submit" => t # s  BY <1>1
  <2> QED  BY <1>3, <2>1, <2>2, FlowTypes
<1>6. \A h \in Plans : phase[h] \in Begun => SeqRange(todo[h]) \cap G = {}
  <2> SUFFICES ASSUME NEW h \in Plans, phase[h] \in Begun, NEW p \in SeqRange(todo[h]), p \in G
               PROVE  FALSE
    OBVIOUS
  <2>1. p \in SeqRange(group[h]) /\ phase[h] # "none"
    BY DEF OnceInv, TodoDistinct, Begun
  <2>2. p \notin SeqRange(queue[OwnerOf[p]][EpOf[p]])
    BY <2>1 DEF OnceInv, GroupsApart
  <2> QED  BY <1>3, <2>2
<1>7. \A p \in G : Unhaunted(p) /\ result'[p] \in Status \ Executed => runs[p] = 0
  BY <1>3 DEF Fresh
<1>8. G \in SUBSET Plans  OBVIOUS
<1> HIDE DEF G
<1> QED  BY <1>1, <1>2, <1>4, <1>5, <1>6, <1>7, <1>8, ReportOnce

(* A callback reports plans of its own job only, as executed.              *)
LEMMA GroupReportOnce ==
  ASSUME TypeOK, DispatchConsistent, OnceInv, NEW h \in Plans, phase[h] = "released",
         UNCHANGED <<pc, take, queue, group, todo, runs, ghost>>,
         \A g \in Plans \ {h} : phase'[g] = phase[g],
         phase'[h] \notin Begun,
         \A p \in Plans : result'[p] # result[p] =>
           p \in SeqRange(group[h]) /\ result'[p] \in Executed
  PROVE  OnceInv'
<1> DEFINE G == SeqRange(group[h])
<1>1. G \in SUBSET Plans  BY WaitingPlans
<1>2. \A p \in G : /\ p \in Plans /\ OwnerOf[p] \in Scheds /\ EpOf[p] \in Endpoints
                   /\ p \notin SeqRange(queue[OwnerOf[p]][EpOf[p]])
                   /\ pc[OwnerOf[p]] = "submit" => p \notin SeqRange(take[OwnerOf[p]])
                   /\ \A g \in Plans : phase[g] # "none" /\ p \in SeqRange(group[g]) => g = h
  BY <1>1, PlanAssumption DEF OnceInv, GroupsApart
<1>3. \A g \in Plans : phase'[g] \in Begun =>
        phase[g] \in Begun /\ SeqRange(todo[g]) \cap G = {}
  <2> SUFFICES ASSUME NEW g \in Plans, phase'[g] \in Begun
               PROVE  phase[g] \in Begun /\ SeqRange(todo[g]) \cap G = {}
    OBVIOUS
  <2>1. g # h /\ phase[g] \in Begun /\ phase[g] # "none"  BY DEF Begun
  <2>2. SeqRange(todo[g]) \subseteq SeqRange(group[g])
    BY <2>1 DEF OnceInv, TodoDistinct
  <2>3. \A p \in G : p \notin SeqRange(group[g])  BY <1>2, <2>1
  <2> QED  BY <2>1, <2>2, <2>3
<1>4. \A p \in G : Unhaunted(p) /\ result'[p] \in Status \ Executed => runs[p] = 0
  <2>1. \A p \in Plans : Unhaunted(p) /\ result[p] \in Status \ Executed => runs[p] = 0
    BY DEF OnceInv, AtMostOnce, Unhaunted
  <2> QED  BY <1>1, <2>1
<1>5. ASSUME NEW s \in Scheds, NEW e \in Endpoints, NEW p \in SeqRange(queue[s][e])
      PROVE  p \notin G
  <2>1. OwnerOf[p] = s /\ EpOf[p] = e  BY FlowTypes
  <2> QED  BY <1>2, <2>1
<1>6. ASSUME NEW s \in Scheds, pc[s] = "submit", NEW p \in SeqRange(take[s])
      PROVE  p \notin G
  <2>1. OwnerOf[p] = s  BY <1>6, FlowTypes
  <2> QED  BY <1>2, <1>6, <2>1
<1>7. \A p \in Plans \ G : result'[p] = result[p]  OBVIOUS
<1>8. /\ \A s \in Scheds, e \in Endpoints :
           /\ SeqRange(queue'[s][e]) \subseteq SeqRange(queue[s][e])
           /\ SeqRange(queue'[s][e]) \cap G = {}
      /\ \A s \in Scheds : pc'[s] = "submit" => pc[s] = "submit"
      /\ \A s \in Scheds : pc[s] = "submit" => SeqRange(take[s]) \cap G = {}
      /\ \A g \in Plans : phase'[g] # "none" => phase[g] # "none"
  BY <1>5, <1>6
<1> HIDE DEF G
<1> QED  BY <1>1, <1>3, <1>4, <1>7, <1>8, ReportOnce

(* An execution is the first one of its plan.                              *)
LEMMA ExecuteOnce ==
  ASSUME TypeOK, DispatchConsistent, OnceInv, NEW h \in Plans, ExecutePlan(h)
  PROVE  OnceInv'
<1> DEFINE r == Head(todo[h])
<1>0. /\ runs \in [Plans -> Nat] /\ result \in [Plans -> Status \cup {"none"}]
      /\ todo \in [Plans -> Seq(Plans)]
  BY DEF TypeOK, JobTypeOK, ResultTypeOK
<1>1. /\ phase[h] = "running" /\ todo[h] # <<>>
      /\ todo' = [todo EXCEPT ![h] = Tail(todo[h])]
      /\ runs' = [runs EXCEPT ![r] = runs[r] + 1]
      /\ result' = IF EpType[EpOf[h]] = "BMC"
                   THEN [result EXCEPT ![r] = AppendOnce(result[r], "EXEC_DONE")]
                   ELSE result
      /\ UNCHANGED <<pc, take, queue, phase, group, ghost>>
  BY DEF ExecutePlan, mainVars
<1>2. /\ SeqRange(todo[h]) = {r} \cup SeqRange(Tail(todo[h]))
      /\ Distinct(Tail(todo[h])) /\ r \notin SeqRange(Tail(todo[h]))
      /\ r \in SeqRange(group[h]) /\ r \in Plans /\ Fresh(r)
  <2>1. Distinct(todo[h]) /\ SeqRange(todo[h]) \subseteq SeqRange(group[h])
    BY <1>1 DEF OnceInv, TodoDistinct, Begun
  <2>2. todo[h] \in Seq(Plans)  BY <1>0
  <2>3. /\ SeqRange(todo[h]) = {r} \cup SeqRange(Tail(todo[h]))
        /\ Distinct(Tail(todo[h])) /\ r \notin SeqRange(Tail(todo[h]))
    BY <1>1, <2>1, <2>2, TailFacts
  <2>4. r \in SeqRange(todo[h])  BY <2>3
  <2>5. Fresh(r)  BY <1>1, <2>4 DEF OnceInv, WaitingFresh, Begun
  <2> QED  BY <2>1, <2>3, <2>4, <2>5, WaitingPlans
<1>3. /\ \A p \in Plans \ {r} : runs'[p] = runs[p] /\ result'[p] = result[p]
      /\ todo'[h] = Tail(todo[h])
      /\ \A g \in Plans \ {h} : todo'[g] = todo[g]
  BY <1>0, <1>1, <1>2
<1>4. /\ r \notin SeqRange(queue[OwnerOf[r]][EpOf[r]])
      /\ pc[OwnerOf[r]] = "submit" => r \notin SeqRange(take[OwnerOf[r]])
      /\ \A g \in Plans : phase[g] # "none" /\ r \in SeqRange(group[g]) => g = h
  BY <1>1, <1>2 DEF OnceInv, GroupsApart
<1>5. \A p \in Plans \ {r} : Fresh(p) => Fresh(p)'
  BY <1>1, <1>3, FreshStays
<1>6. WaitingFresh'
  <2>1. ASSUME NEW t \in Scheds, NEW x \in Endpoints, NEW p \in SeqRange(queue[t][x])
        PROVE  Fresh(p)'
    <3>1. p # r  BY <1>4, <2>1, FlowTypes
    <3> QED  BY <1>5, <2>1, <3>1, WaitingPlans DEF OnceInv, WaitingFresh
  <2>2. ASSUME NEW t \in Scheds, pc[t] = "submit", NEW p \in SeqRange(take[t])
        PROVE  Fresh(p)'
    <3>1. p # r  BY <1>4, <2>2, FlowTypes
    <3> QED  BY <1>5, <2>2, <3>1, WaitingPlans DEF OnceInv, WaitingFresh
  <2>3. ASSUME NEW g \in Plans, phase[g] \in Begun, NEW p \in SeqRange(todo'[g])
        PROVE  Fresh(p)'
    <3>1. CASE g = h
      <4>1. p \in SeqRange(todo[h]) /\ p # r  BY <1>2, <1>3, <2>3, <3>1
      <4> QED  BY <1>5, <2>3, <3>1, <4>1, WaitingPlans DEF OnceInv, WaitingFresh
    <3>2. CASE g # h
      <4>1. p \in SeqRange(todo[g]) /\ p \in SeqRange(group[g]) /\ phase[g] # "none"
        BY <1>3, <2>3, <3>2 DEF OnceInv, TodoDistinct, Begun
      <4>2. p # r  BY <1>4, <3>2, <4>1
      <4> QED  BY <1>5, <2>3, <4>1, <4>2, WaitingPlans DEF OnceInv, WaitingFresh
    <3> QED  BY <3>1, <3>2
  <2> QED  BY <1>1, <2>1, <2>2, <2>3 DEF WaitingFresh
<1>7. GroupsApart'  BY <1>1 DEF OnceInv, GroupsApart
<1>8. TodoDistinct'
  <2>1. ASSUME NEW g \in Plans, phase[g] \in Begun
        PROVE  Distinct(todo'[g]) /\ SeqRange(todo'[g]) \subseteq SeqRange(group[g])
    <3>1. CASE g = h
      BY <1>2, <1>3, <2>1, <3>1 DEF OnceInv, TodoDistinct
    <3>2. CASE g # h
      BY <1>3, <2>1, <3>2 DEF OnceInv, TodoDistinct
    <3> QED  BY <3>1, <3>2
  <2> QED  BY <1>1, <2>1 DEF TodoDistinct
<1>9. AtMostOnce'
  <2>1. ASSUME Unhaunted(r)
        PROVE  runs'[r] <= 1 /\ (result'[r] \in Status \ Executed => runs'[r] = 0)
    <3>1. runs[r] = 0 /\ result[r] = "none"  BY <1>2, <2>1 DEF Fresh
    <3>2. runs'[r] = 1  BY <1>0, <1>1, <1>2, <3>1
    <3>3. result'[r] = "none" \/ result'[r] = AppendOnce("none", "EXEC_DONE")
      BY <1>0, <1>1, <1>2, <3>1
    <3>4. result'[r] \notin Status \ Executed
      BY <3>3 DEF AppendOnce, Accepts, Status, Executed, Skipped
    <3> QED  BY <3>2, <3>4
  <2>2. \A p \in Plans : Unhaunted(p)' => Unhaunted(p)  BY <1>1 DEF Unhaunted
  <2>3. \A p \in Plans : Unhaunted(p)' =>
          \/ runs'[p] = runs[p] /\ result'[p] = result[p]
          \/ runs'[p] <= 1 /\ (result'[p] \in Status \ Executed => runs'[p] = 0)
    BY <1>3, <2>1, <2>2
  <2> QED  BY <1>1, <2>3, OnceStays DEF OnceInv
<1> QED  BY <1>6, <1>7, <1>8, <1>9 DEF OnceInv

(* No step of a job or of its callback executes a plan again.              *)
LEMMA WorkerOnce ==
  ASSUME TypeOK, DispatchConsistent, PlanFlow, OnceInv, NEW h \in Plans,
         WorkerStep(h) \/ CrashJob(h)
  PROVE  OnceInv'
<1>0. phase \in [Plans -> Phases] /\ result \in [Plans -> Status \cup {"none"}]
  BY DEF TypeOK, JobTypeOK, ResultTypeOK
<1>1. CASE ExecutePlan(h)  BY <1>1, ExecuteOnce
<1>2. CASE AppendInbandResult(h)
  <2>1. /\ phase[h] = "released" /\ EpType[EpOf[h]] = "INBAND"
        /\ \/ phase' = [phase EXCEPT ![h] = "appended"]
           \/ phase' = [phase EXCEPT ![h] = "done"]
        /\ \E st \in Executed : result' = [result EXCEPT ![h] = AppendOnce(result[h], st)]
        /\ UNCHANGED <<pc, take, queue, group, todo, runs, ghost>>
    BY <1>2 DEF AppendInbandResult, Executed, mainVars
  <2>2. group[h] = <<h>>  BY <2>1 DEF PlanFlow, JobsKept
  <2>3. h \in SeqRange(group[h])  BY <2>2, ShortFacts
  <2>4. \A p \in Plans : result'[p] # result[p] =>
          p \in SeqRange(group[h]) /\ result'[p] \in Executed
    BY <1>0, <2>1, <2>3 DEF AppendOnce
  <2>5. (\A g \in Plans \ {h} : phase'[g] = phase[g]) /\ phase'[h] \notin Begun
    BY <1>0, <2>1 DEF Begun
  <2> QED  BY <2>1, <2>4, <2>5, GroupReportOnce
<1>3. CASE GroupDone(h)
  <2>1. /\ phase[h] = "released" /\ phase' = [phase EXCEPT ![h] = "done"]
        /\ UNCHANGED <<pc, take, queue, group, todo, runs, ghost>>
    BY <1>3 DEF GroupDone, mainVars
  <2>2. \A p \in Plans : result'[p] # result[p] =>
          p \in SeqRange(group[h]) /\ result'[p] \in Executed
    BY <1>3 DEF GroupDone, Recovered, Executed
  <2>3. (\A g \in Plans \ {h} : phase'[g] = phase[g]) /\ phase'[h] \notin Begun
    BY <1>0, <2>1 DEF Begun
  <2> QED  BY <2>1, <2>2, <2>3, GroupReportOnce
<1>4. CASE \/ StartJob(h) \/ FinishJob(h) \/ CrashJob(h) \/ OnDone(h)
           \/ ReleaseLease(h) \/ Requeue(h)
  <2>1. UNCHANGED <<pc, take, queue, group, todo, result, runs, ghost>>
    BY <1>4 DEF StartJob, FinishJob, CrashJob, OnDone, ReleaseLease, Requeue, mainVars
  <2>2. \A g \in Plans : /\ phase'[g] # "none" => phase[g] # "none"
                         /\ phase'[g] \in Begun => phase[g] \in Begun
    <3>1. CASE StartJob(h)  BY <1>0, <3>1 DEF StartJob, Begun
    <3>2. CASE FinishJob(h) \/ CrashJob(h)
      BY <1>0, <3>2 DEF FinishJob, CrashJob, Begun
    <3>3. CASE OnDone(h)
      <4>1. /\ phase[h] = "finished"
            /\ \/ phase' = [phase EXCEPT ![h] = "claimed"]
               \/ phase' = [phase EXCEPT ![h] = "lost"]
        BY <3>3 DEF OnDone
      <4> QED  BY <1>0, <4>1 DEF Begun
    <3>4. CASE ReleaseLease(h) \/ Requeue(h)
      BY <1>0, <3>4 DEF ReleaseLease, Requeue, Begun
    <3> QED  BY <1>4, <3>1, <3>2, <3>3, <3>4
  <2>3. /\ \A t \in Scheds : pc'[t] = "submit" => pc[t] = "submit"
        /\ \A g \in Plans : ghost[g] = "ran" => ghost'[g] = "ran"
    BY <2>1
  <2> QED  BY <2>1, <2>2, <2>3, QuietOnce
<1> QED  BY <1>1, <1>2, <1>3, <1>4 DEF WorkerStep

(* A cancelled job executes nothing.                                       *)
LEMMA CancelOnce ==
  ASSUME TypeOK, OnceInv, NEW s \in Scheds, CancelQueued(s)
  PROVE  OnceInv'
<1>0. phase \in [Plans -> Phases]  BY DEF TypeOK, JobTypeOK
<1>1. PICK h \in Plans : phase[h] = "queued" /\ phase' = [phase EXCEPT ![h] = "finished"]
  BY DEF CancelQueued, QueuedJobs
<1>2. UNCHANGED <<pc, take, queue, group, todo, result, runs, ghost>>
  BY DEF CancelQueued, mainVars
<1>3. \A g \in Plans : /\ phase'[g] # "none" => phase[g] # "none"
                       /\ phase'[g] \in Begun => phase[g] \in Begun
  BY <1>0, <1>1 DEF Begun
<1>4. /\ \A t \in Scheds : pc'[t] = "submit" => pc[t] = "submit"
      /\ \A g \in Plans : ghost[g] = "ran" => ghost'[g] = "ran"
  BY <1>2
<1> QED  BY <1>2, <1>3, <1>4, QuietOnce

(* The plans a ghost executes are at an endpoint where a ghost ran.        *)
LEMMA GhostOnce ==
  ASSUME TypeOK, OnceInv, NEW h \in Plans, GhostStep(h)
  PROVE  OnceInv'
<1>0. ghost \in [Plans -> {"none", "queued", "running", "ran"}]
  BY DEF TypeOK, JobTypeOK
<1>1. UNCHANGED <<pc, take, queue, phase, group, todo>>
  BY DEF GhostStep, GhostStarts, GhostEnds, mainVars, jobVars
<1>2. CASE GhostStarts(h)
  <2>1. UNCHANGED <<result, runs>>  BY <1>2 DEF GhostStarts
  <2>2. \A g \in Plans : ghost[g] = "ran" => ghost'[g] = "ran"
    BY <1>0, <1>2 DEF GhostStarts
  <2> QED  BY <1>1, <2>1, <2>2, QuietOnce
<1>3. CASE GhostEnds(h)
  <2>1. \A g \in Plans : ghost[g] = "ran" => ghost'[g] = "ran"
    BY <1>0, <1>3 DEF GhostEnds
  <2>2. \A p \in Plans : Unhaunted(p)' => runs'[p] = runs[p] /\ result'[p] = result[p]
    <3> SUFFICES ASSUME NEW p \in Plans, Unhaunted(p)'
                 PROVE  runs'[p] = runs[p] /\ result'[p] = result[p]
      OBVIOUS
    <3>1. ghost'[h] = "ran"  BY <1>0, <1>3 DEF GhostEnds
    <3>2. h \notin PlansAt(OwnerOf[p], EpOf[p])  BY <3>1 DEF Unhaunted
    <3>3. p \notin PlansAt(OwnerOf[h], EpOf[h]) /\ p # h  BY <3>2 DEF PlansAt
    <3>4. p \notin IF EpType[EpOf[h]] = "BMC" THEN PlansAt(OwnerOf[h], EpOf[h]) ELSE {h}
      BY <3>3
    <3> QED  BY <1>3, <3>3, <3>4 DEF GhostEnds
  <2>3. \A p \in Plans : Fresh(p) => Fresh(p)'
    BY <2>1, <2>2 DEF Fresh, Unhaunted, PlansAt
  <2>4. WaitingFresh'  BY <1>1, <2>3, WaitingPlans DEF OnceInv, WaitingFresh
  <2>5. GroupsApart' /\ TodoDistinct'
    BY <1>1 DEF OnceInv, GroupsApart, TodoDistinct
  <2>6. AtMostOnce'  BY <2>1, <2>2, OnceStays DEF OnceInv
  <2> QED  BY <2>4, <2>5, <2>6 DEF OnceInv
<1> QED  BY <1>2, <1>3 DEF GhostStep

(* A plan is executed at most once, and not at all when it is reported as  *)
(* skipped or blocked, but for what a ghost of a failed submit executes.   *)
THEOREM ExecutedOnce == Spec => []AtMostOnce
<1>1. Init => OnceInv
  <2> SUFFICES ASSUME Init PROVE OnceInv
    OBVIOUS
  <2>1. \A p \in Plans : phase[p] = "none" /\ runs[p] = 0 /\ ghost[p] = "none"
    BY DEF Init
  <2>2. GroupsApart /\ TodoDistinct /\ AtMostOnce
    BY <2>1 DEF GroupsApart, TodoDistinct, AtMostOnce, Begun
  <2>3. ASSUME NEW s \in Scheds, NEW e \in Endpoints, NEW p \in SeqRange(queue[s][e])
        PROVE  Fresh(p)
    <3>1. queue[s][e] = InitialQueue(s, e)  BY DEF Init
    <3>2. ~Blocked(s, e)  BY <2>3, <3>1, ShortFacts DEF InitialQueue
    <3>3. p \in PlansAt(s, e)  BY <2>3, <3>1, <3>2, QueueAssumption DEF InitialQueue
    <3>4. result[p] = "none"  BY <3>2, <3>3 DEF Init, PlansAt
    <3> QED  BY <2>1, <3>3, <3>4 DEF Fresh, PlansAt
  <2>4. WaitingFresh  BY <2>1, <2>3 DEF WaitingFresh, Begun, Init
  <2> QED  BY <2>2, <2>4 DEF OnceInv
<1>2. IndInv /\ PlanFlow /\ OnceInv /\ [Next]_vars => OnceInv'
  <2> SUFFICES ASSUME IndInv, PlanFlow, OnceInv, [Next]_vars PROVE OnceInv'
    OBVIOUS
  <2>0. TypeOK /\ DispatchConsistent  BY DEF IndInv
  <2>1. ASSUME NEW s \in Scheds, MainStep(s) \/ FaultStep(s) PROVE OnceInv'
    BY <2>0, <2>1, QuietStepOnce, TryHoldOnce, SubmitOnce, SubmitFailsOnce,
       SkipPendingOnce, CancelOnce
    DEF MainStep, FaultStep, QuietStep
  <2>2. ASSUME NEW p \in Plans, WorkerStep(p) \/ CrashJob(p) \/ GhostStep(p)
        PROVE  OnceInv'
    BY <2>0, <2>2, WorkerOnce, GhostOnce
  <2>3. ASSUME UNCHANGED <<pc, take, queue, phase, group, todo, result, runs, ghost>>
        PROVE  OnceInv'
    BY <2>0, <2>3, QuietOnce
  <2>4. ASSUME NEW s \in Scheds, ControlStep(s) PROVE OnceInv'
    <3>1. UNCHANGED <<pc, take, queue, phase, group, todo, result, runs, ghost>>
      BY <2>4 DEF ControlStep, AppStops, ForwardStop, Pause, Resume, mainVars, jobVars
    <3> QED  BY <2>3, <3>1
  <2>5. ASSUME UNCHANGED vars PROVE OnceInv'
    <3>1. UNCHANGED <<pc, take, queue, phase, group, todo, result, runs, ghost>>
      BY <2>5 DEF vars, mainVars, jobVars
    <3> QED  BY <2>3, <3>1
  <2> QED  BY <2>1, <2>2, <2>4, <2>5 DEF Next, Terminated
<1>3. OnceInv => AtMostOnce  BY DEF OnceInv
<1> QED  BY <1>1, <1>2, <1>3, FlowInvariance, Invariance, PTL DEF Spec
-----------------------------------------------------------------------------
(* The step of the lease table that each action takes.                     *)

(* The jobs at work are the same when the same jobs are running.           *)
LEMMA WorkUnchanged ==
  ASSUME \A q \in Plans : phase'[q] = "running" <=> phase[q] = "running"
  PROVE  UNCHANGED JobsAtWork
BY DEF JobsAtWork, Working

(* Steps of the main thread that neither touch a lease nor a running job.  *)
LEMMA QuietMainStep ==
  ASSUME TypeOK, DispatchConsistent, NEW s \in Scheds,
         OtherMainStep(s) \/ TakeReady(s)
  PROVE  UNCHANGED <<lease, JobsAtWork>>
<1>0. phase \in [Plans -> Phases]  BY DEF TypeOK, JobTypeOK
<1>1. UNCHANGED lease
  BY OtherMainStepFrame DEF TakeReady
<1>2. CASE CancelQueued(s)
  <2>1. PICK q \in Plans : /\ phase[q] = "queued"
                           /\ phase' = [phase EXCEPT ![q] = "finished"]
    BY <1>2 DEF CancelQueued, QueuedJobs
  <2> QED  BY <1>0, <1>1, <2>1, WorkUnchanged
<1>3. CASE ~CancelQueued(s)
  <2>1. UNCHANGED phase
    BY <1>3
    DEF OtherMainStep, LoopEnter, LoopExit, AdjustPools, PoolFilled, TakeReady,
        DispatchAborted, PutBack, SkipPending, Drain, ShutdownPools, Return,
        Interrupt, jobVars
  <2> QED  BY <1>1, <2>1, WorkUnchanged
<1> QED  BY <1>2, <1>3

(* The same for the steps of a job's thread and its callback.              *)
LEMMA QuietWorkerStep ==
  ASSUME TypeOK, NEW p \in Plans,
         \/ ExecutePlan(p) \/ OnDone(p) \/ AppendInbandResult(p)
         \/ GroupDone(p) \/ Requeue(p)
  PROVE  UNCHANGED <<lease, JobsAtWork>>
<1>0. phase \in [Plans -> Phases]  BY DEF TypeOK, JobTypeOK
<1>4. CASE ExecutePlan(p)
  BY <1>4, WorkUnchanged DEF ExecutePlan
<1>5. CASE OnDone(p)
  <2>1. /\ phase[p] = "finished" /\ UNCHANGED lease
        /\ \/ phase' = [phase EXCEPT ![p] = "claimed"]
           \/ phase' = [phase EXCEPT ![p] = "lost"]
    BY <1>5 DEF OnDone
  <2> QED  BY <1>0, <2>1, WorkUnchanged
<1>6. CASE AppendInbandResult(p)
  <2>1. /\ phase[p] = "released" /\ UNCHANGED lease
        /\ \/ phase' = [phase EXCEPT ![p] = "appended"]
           \/ phase' = [phase EXCEPT ![p] = "done"]
    BY <1>6 DEF AppendInbandResult
  <2> QED  BY <1>0, <2>1, WorkUnchanged
<1>7. CASE GroupDone(p)
  BY <1>0, <1>7, WorkUnchanged DEF GroupDone
<1>8. CASE Requeue(p)
  BY <1>0, <1>8, WorkUnchanged DEF Requeue
<1> QED  BY <1>4, <1>5, <1>6, <1>7, <1>8

(* Every step of a scheduler is a step of the lease table, or a stutter.   *)
LEMMA LeaseTableStep ==
  ASSUME IndInv, [Next]_vars
  PROVE  [Leases!Next]_Leases!leaseVars
<1>0. /\ TypeOK /\ DispatchConsistent /\ LeaseCoversJob
      /\ phase \in [Plans -> Phases]
      /\ lease \in [Endpoints -> Plans \cup {None}]
      /\ EpOf \in [Plans -> Endpoints]
  BY PlanAssumption DEF IndInv, TypeOK, TableTypeOK, JobTypeOK
<1>1. ASSUME NEW s \in Scheds, TryHold(s) PROVE Leases!Next
  <2> DEFINE e == hand[s]
             h == Head(queue[s][e])
  <2>1. /\ pc[s] = "pick" /\ queue[s][e] # <<>> /\ lease[e] = None
        /\ lease' = [lease EXCEPT ![e] = h]
        /\ UNCHANGED phase
    BY <1>1 DEF TryHold, CannotHold, jobVars
  <2>2. e \in Endpoints  BY <1>0, <2>1 DEF DispatchConsistent
  <2>3. h \in Plans  BY <1>0, <2>1, <2>2, BatchType DEF PlansAt
  <2>4. UNCHANGED JobsAtWork  BY <2>1, WorkUnchanged
  <2> HIDE DEF e, h
  <2>5. Leases!Take(h, e)  BY <2>1, <2>4 DEF Leases!Take
  <2> QED  BY <2>2, <2>3, <2>5 DEF Leases!Next
<1>2. ASSUME NEW s \in Scheds, SubmitFails(s) PROVE Leases!Next
  <2> DEFINE p == Head(take[s])
  <2>1. /\ pc[s] = "submit" /\ UNCHANGED phase
        /\ lease' = [lease EXCEPT ![hand[s]] = None]
    BY <1>2 DEF SubmitFails, Freed, jobVars
  <2>2. /\ hand[s] \in Endpoints /\ p \in Plans
        /\ lease[hand[s]] = p /\ phase[p] \notin Leased
    BY <2>1, SubmitFacts
  <2>3. UNCHANGED JobsAtWork  BY <2>1, WorkUnchanged
  <2> HIDE DEF p
  <2>4. <<p, hand[s]>> \notin JobsAtWork
    BY <2>2 DEF JobsAtWork, Working, Leased
  <2>5. Leases!Give(p, hand[s])
    BY <2>1, <2>2, <2>3, <2>4 DEF Leases!Give
  <2> QED  BY <2>2, <2>5 DEF Leases!Next
<1>3. ASSUME NEW s \in Scheds, Submit(s) PROVE UNCHANGED Leases!leaseVars
  <2> DEFINE p == Head(take[s])
  <2>1. /\ pc[s] = "submit" /\ UNCHANGED lease
        /\ phase' = [phase EXCEPT ![p] = "queued"]
    BY <1>3 DEF Submit
  <2>2. phase[p] \notin Leased  BY <2>1, SubmitFacts
  <2> HIDE DEF p
  <2>3. UNCHANGED JobsAtWork  BY <1>0, <2>1, <2>2, WorkUnchanged DEF Leased
  <2> QED  BY <2>1, <2>3 DEF Leases!leaseVars
<1>4. ASSUME NEW p \in Plans, StartJob(p) PROVE Leases!Next
  <2>1. /\ phase[p] = "queued" /\ UNCHANGED lease
        /\ phase' = [phase EXCEPT ![p] = "running"]
    BY <1>4 DEF StartJob
  <2>2. lease[EpOf[p]] = p  BY <1>0, <2>1 DEF LeaseCoversJob, Leased
  <2>3. JobsAtWork' = JobsAtWork \cup {<<p, EpOf[p]>>}
    BY <1>0, <2>1 DEF JobsAtWork, Working
  <2>4. Leases!Start(p, EpOf[p])  BY <2>1, <2>2, <2>3 DEF Leases!Start
  <2> QED  BY <1>0, <2>4 DEF Leases!Next
<1>5. ASSUME NEW p \in Plans, FinishJob(p) \/ CrashJob(p) PROVE Leases!Next
  <2>1. /\ phase[p] = "running" /\ UNCHANGED lease
        /\ phase' = [phase EXCEPT ![p] = "finished"]
    BY <1>5 DEF FinishJob, CrashJob
  <2>2. JobsAtWork' = JobsAtWork \ {<<p, EpOf[p]>>}
    BY <1>0, <2>1 DEF JobsAtWork, Working
  <2>3. Leases!Stop(p, EpOf[p])  BY <2>1, <2>2 DEF Leases!Stop
  <2> QED  BY <1>0, <2>3 DEF Leases!Next
<1>6. ASSUME NEW p \in Plans, ReleaseLease(p) PROVE Leases!Next
  <2>1. /\ phase[p] = "claimed"
        /\ phase' = [phase EXCEPT ![p] = "released"]
        /\ lease' = [lease EXCEPT ![EpOf[p]] = None]
    BY <1>6 DEF ReleaseLease, Freed
  <2>2. lease[EpOf[p]] = p  BY <1>0, <2>1 DEF LeaseCoversJob, Leased
  <2>3. UNCHANGED JobsAtWork  BY <1>0, <2>1, WorkUnchanged
  <2>4. <<p, EpOf[p]>> \notin JobsAtWork  BY <2>1 DEF JobsAtWork, Working
  <2>5. Leases!Give(p, EpOf[p])
    BY <2>1, <2>2, <2>3, <2>4 DEF Leases!Give
  <2> QED  BY <1>0, <2>5 DEF Leases!Next
<1>7. ASSUME UNCHANGED <<lease, JobsAtWork>>
      PROVE  [Leases!Next]_Leases!leaseVars
  BY <1>7 DEF Leases!leaseVars
<1>8. ASSUME NEW s \in Scheds, OtherMainStep(s) \/ TakeReady(s)
      PROVE  UNCHANGED <<lease, JobsAtWork>>
  BY <1>0, <1>8, QuietMainStep
<1>9. ASSUME NEW p \in Plans,
             \/ ExecutePlan(p) \/ OnDone(p) \/ AppendInbandResult(p)
             \/ GroupDone(p) \/ Requeue(p)
      PROVE  UNCHANGED <<lease, JobsAtWork>>
  BY <1>0, <1>9, QuietWorkerStep
<1>10. CASE \/ \E s \in Scheds : ControlStep(s)
            \/ \E p \in Plans : GhostStep(p)
            \/ UNCHANGED vars
  <2>1. UNCHANGED <<lease, JobsAtWork>>
    BY <1>10, OutsideFrame, WorkUnchanged
  <2> QED  BY <1>7, <2>1
<1> QED
  BY <1>1, <1>2, <1>3, <1>4, <1>5, <1>6, <1>7, <1>8, <1>9, <1>10
  DEF Next, MainStep, OtherMainStep, WorkerStep, FaultStep, Terminated

(* The schedulers implement the lease table: whatever the interleaving, an *)
(* endpoint changes hands only through a lease nobody works under.         *)
THEOREM Refinement == Spec => ImplementsLeases
<1>1. Init => Leases!Init
  BY DEF Init, Leases!Init, JobsAtWork, Working
<1>2. IndInv /\ [Next]_vars => [Leases!Next]_Leases!leaseVars
  BY LeaseTableStep
<1> QED  BY <1>1, <1>2, Invariance, PTL DEF Spec, ImplementsLeases, Leases!Spec
-----------------------------------------------------------------------------
(* Where the jobs of a scheduler are.                                      *)

Leaving == {"return", "returned"}

(* A job whose future is not done is in the tracking tables as long as the *)
(* pools are open; what outlives a shutdown is what _drain gave up on.     *)
TrackedAt(p) ==
  LET s == OwnerOf[p] IN
  /\ phase[p] \in {"queued", "running", "finished"} =>
       pc[s] \in Leaving \/ p \in active[s]
  /\ phase[p] = "lost" => pc[s] \in Leaving
  /\ pc[s] \in Leaving => phase[p] # "queued"
  /\ pc[s] \in {"cancel"} \cup Leaving /\ drained[s] =>
       phase[p] \notin {"queued", "running", "finished", "lost"}

Tracked == \A p \in Plans : TrackedAt(p)

(* The finally block leaves nothing in the queues.                         *)
QueuesGone ==
  \A s \in Scheds, e \in Endpoints :
    pc[s] \in {"drain", "cancel"} \cup Leaving => queue[s][e] = <<>>

(* The plans of a job are those of its scheduler for its endpoint.         *)
GroupHome ==
  \A h \in Plans : \A r \in SeqRange(group[h]) \cup SeqRange(todo[h]) :
    r \in Plans /\ OwnerOf[r] = OwnerOf[h] /\ EpOf[r] = EpOf[h]

Home == Tracked /\ QueuesGone /\ GroupHome

(* Controllers and ghosts move no plan and no main thread.                 *)
LEMMA OutsideUntouched ==
  ASSUME \/ \E s \in Scheds : ControlStep(s)
         \/ \E p \in Plans : GhostStep(p)
         \/ UNCHANGED vars
  PROVE  UNCHANGED <<mainVars, jobVars, poolVars, queue, ready>>
<1>1. ASSUME NEW s \in Scheds, ControlStep(s)
      PROVE  UNCHANGED <<mainVars, jobVars, poolVars, queue, ready>>
  BY <1>1 DEF ControlStep, AppStops, ForwardStop, Pause, Resume
<1>2. ASSUME NEW p \in Plans, GhostStep(p)
      PROVE  UNCHANGED <<mainVars, jobVars, poolVars, queue, ready>>
  BY <1>2 DEF GhostStep, GhostStarts, GhostEnds
<1>3. CASE UNCHANGED vars  BY <1>3 DEF vars
<1> QED  BY <1>1, <1>2, <1>3

(* A main thread that goes on inside the run, and nothing else.            *)
LEMMA InsideHome ==
  ASSUME TypeOK, Home, NEW s \in Scheds, pc[s] \notin Leaving,
         UNCHANGED <<jobVars, poolVars, drained>>,
         \E c \in MainPcs \ ({"cancel"} \cup Leaving) : pc' = [pc EXCEPT ![s] = c],
         QueuesGone'
  PROVE  Home'
<1>0. pc \in [Scheds -> MainPcs]  BY DEF TypeOK, MainTypeOK
<1>1. Tracked'
  BY <1>0 DEF Home, Tracked, TrackedAt, Leaving, jobVars, poolVars
<1>2. GroupHome'  BY DEF Home, GroupHome, jobVars
<1> QED  BY <1>1, <1>2 DEF Home

(* Of those, the ones before the finally block.                            *)
LEMMA DispatchHome ==
  ASSUME TypeOK, Home, NEW s \in Scheds,
         \/ LoopEnter(s) \/ LoopExit(s) \/ AdjustPools(s) \/ PoolFilled(s)
         \/ DispatchAborted(s) \/ TakeReady(s) \/ PutBack(s) \/ TryHold(s)
         \/ SubmitFails(s) \/ Interrupt(s)
  PROVE  Home'
<1> DEFINE D == Dispatching \cup {"submit"}
           C == D \cup {"finally"}
           Inside == /\ pc[s] \in D
                     /\ UNCHANGED <<jobVars, poolVars, drained>>
                     /\ \E c \in C : pc' = [pc EXCEPT ![s] = c]
                     /\ \/ UNCHANGED queue
                        \/ \E q : queue' = [queue EXCEPT ![s][hand[s]] = q]
<1>0. /\ pc \in [Scheds -> MainPcs]
      /\ queue \in [Scheds -> [Endpoints -> Seq(Plans)]]
  BY DEF TypeOK, MainTypeOK, TableTypeOK
<1>1. ASSUME Inside PROVE Home'
  <2>1. pc[s] \notin Leaving /\ C \subseteq MainPcs \ ({"cancel"} \cup Leaving)
    BY <1>1 DEF Dispatching, Leaving, MainPcs
  <2>2. \A t \in Scheds : pc'[t] \in {"drain", "cancel"} \cup Leaving =>
          t # s /\ pc'[t] = pc[t] /\ queue'[t] = queue[t]
    BY <1>0, <1>1, <2>1 DEF Dispatching, Leaving
  <2>3. QueuesGone'  BY <2>2 DEF Home, QueuesGone
  <2> QED  BY <1>1, <2>1, <2>3, InsideHome
<1>2. CASE LoopEnter(s) \/ LoopExit(s)
  BY <1>1, <1>2 DEF LoopEnter, LoopExit, Dispatching
<1>3. CASE AdjustPools(s) \/ DispatchAborted(s)
  BY <1>1, <1>3 DEF AdjustPools, DispatchAborted, Dispatching
<1>4. CASE PoolFilled(s)
  BY <1>1, <1>4 DEF PoolFilled, NextPool, Dispatching
<1>5. CASE TakeReady(s) \/ PutBack(s)
  BY <1>1, <1>5 DEF TakeReady, PutBack, Dispatching
<1>6. CASE TryHold(s)
  BY <1>1, <1>6 DEF TryHold, Dispatching
<1>7. CASE SubmitFails(s)
  BY <1>1, <1>7 DEF SubmitFails, NextPool, Dispatching
<1>8. CASE Interrupt(s)
  BY <1>1, <1>8 DEF Interrupt, Dispatching
<1> QED  BY <1>2, <1>3, <1>4, <1>5, <1>6, <1>7, <1>8

(* A submit puts the job it makes of the plans in hand on the tables.      *)
LEMMA SubmitHome ==
  ASSUME TypeOK, DispatchConsistent, Home, NEW s \in Scheds, Submit(s)
  PROVE  Home'
<1> DEFINE h == Head(take[s])
<1>0. /\ pc \in [Scheds -> MainPcs] /\ phase \in [Plans -> Phases]
      /\ active \in [Scheds -> SUBSET Plans]
      /\ group \in [Plans -> Seq(Plans)] /\ todo \in [Plans -> Seq(Plans)]
  BY DEF TypeOK, MainTypeOK, TableTypeOK, JobTypeOK
<1>1. /\ pc[s] = "submit"
      /\ pc' = [pc EXCEPT ![s] = "check"]
      /\ active' = [active EXCEPT ![s] = active[s] \cup {h}]
      /\ phase' = [phase EXCEPT ![h] = "queued"]
      /\ group' = [group EXCEPT ![h] = take[s]]
      /\ todo' = [todo EXCEPT ![h] = take[s]]
      /\ UNCHANGED <<queue, drained>>
  BY DEF Submit
<1>2. h \in Plans /\ OwnerOf[h] = s /\ EpOf[h] = hand[s]
  BY <1>1, TakeType DEF PlansAt
<1>3. \A p \in Plans : OwnerOf[p] \in Scheds  BY PlanAssumption
<1>4. Tracked'
  <2> SUFFICES ASSUME NEW p \in Plans PROVE TrackedAt(p)'
    BY DEF Tracked
  <2>1. CASE p = h  BY <1>0, <1>1, <1>2, <2>1 DEF TrackedAt, Leaving
  <2>2. CASE p # h
    <3>1. phase'[p] = phase[p]  BY <1>0, <1>1, <2>2
    <3>2. active[OwnerOf[p]] \subseteq active'[OwnerOf[p]]  BY <1>0, <1>1, <1>3
    <3>3. pc'[OwnerOf[p]] \in {"cancel"} \cup Leaving => pc'[OwnerOf[p]] = pc[OwnerOf[p]]
      BY <1>0, <1>1, <1>3 DEF Leaving
    <3>4. pc[OwnerOf[p]] \in Leaving => pc'[OwnerOf[p]] = pc[OwnerOf[p]]
      BY <1>0, <1>1, <1>3 DEF Leaving
    <3> QED  BY <1>1, <3>1, <3>2, <3>3, <3>4 DEF Home, Tracked, TrackedAt
  <2> QED  BY <2>1, <2>2
<1>5. QueuesGone'
  BY <1>0, <1>1 DEF Home, QueuesGone, Leaving
<1>6. GroupHome'
  <2>1. \A r \in SeqRange(take[s]) : r \in Plans /\ OwnerOf[r] = s /\ EpOf[r] = hand[s]
    BY <1>1, FlowTypes
  <2> QED  BY <1>0, <1>1, <1>2, <2>1 DEF Home, GroupHome
<1> QED  BY <1>4, <1>5, <1>6 DEF Home

(* The finally block: skip, drain, cancel, shut the pools down, return.    *)
LEMMA FinallyHome ==
  ASSUME TypeOK, Home, NEW s \in Scheds,
         \/ SkipPending(s) \/ Drain(s) \/ CancelQueued(s) \/ ShutdownPools(s)
         \/ Return(s)
  PROVE  Home'
<1>0. /\ pc \in [Scheds -> MainPcs] /\ phase \in [Plans -> Phases]
      /\ active \in [Scheds -> SUBSET Plans] /\ drained \in [Scheds -> BOOLEAN]
      /\ queue \in [Scheds -> [Endpoints -> Seq(Plans)]]
      /\ \A p \in Plans : OwnerOf[p] \in Scheds
  BY PlanAssumption DEF TypeOK, MainTypeOK, TableTypeOK, JobTypeOK
<1>1. CASE SkipPending(s)
  <2>1. /\ pc[s] = "finally" /\ pc' = [pc EXCEPT ![s] = "drain"]
        /\ queue' = [queue EXCEPT ![s] = [e \in Endpoints |-> <<>>]]
        /\ UNCHANGED <<jobVars, poolVars, drained>>
    BY <1>1 DEF SkipPending
  <2>2. QueuesGone'
    <3> SUFFICES ASSUME NEW t \in Scheds, NEW e \in Endpoints,
                        pc'[t] \in {"drain", "cancel"} \cup Leaving
                 PROVE  queue'[t][e] = <<>>
      BY DEF QueuesGone
    <3>1. CASE t = s
      <4>1. queue'[s] = [x \in Endpoints |-> <<>>]  BY <1>0, <2>1
      <4> QED  BY <3>1, <4>1
    <3>2. CASE t # s
      BY <1>0, <2>1, <3>2 DEF Home, QueuesGone
    <3> QED  BY <3>1, <3>2
  <2>3. "drain" \in MainPcs \ ({"cancel"} \cup Leaving)  BY DEF MainPcs, Leaving
  <2>4. pc[s] \notin Leaving  BY <2>1 DEF Leaving
  <2> QED  BY <2>1, <2>2, <2>3, <2>4, InsideHome
<1>2. CASE Drain(s)
  <2>1. /\ pc[s] = "drain" /\ pc' = [pc EXCEPT ![s] = "cancel"]
        /\ drained' = [drained EXCEPT ![s] = (active[s] = {})]
        /\ UNCHANGED <<jobVars, poolVars, queue>>
    BY <1>2 DEF Drain, DrainResult
  <2>2. Tracked'
    <3> SUFFICES ASSUME NEW p \in Plans PROVE TrackedAt(p)'
      BY DEF Tracked
    <3>1. UNCHANGED <<phase, active>>  BY <2>1 DEF jobVars, poolVars
    <3>2. CASE OwnerOf[p] = s
      <4>1. pc'[s] = "cancel" /\ (drained'[s] <=> active[s] = {})  BY <1>0, <2>1
      <4> QED  BY <2>1, <3>1, <3>2, <4>1 DEF Home, Tracked, TrackedAt, Leaving
    <3>3. CASE OwnerOf[p] # s
      <4>1. pc'[OwnerOf[p]] = pc[OwnerOf[p]] /\ drained'[OwnerOf[p]] = drained[OwnerOf[p]]
        BY <1>0, <2>1, <3>3
      <4> QED  BY <3>1, <4>1 DEF Home, Tracked, TrackedAt
    <3> QED  BY <3>2, <3>3
  <2>3. QueuesGone'  BY <1>0, <2>1 DEF Home, QueuesGone
  <2>4. GroupHome'  BY <2>1 DEF Home, GroupHome, jobVars
  <2> QED  BY <2>2, <2>3, <2>4 DEF Home
<1>3. CASE CancelQueued(s)
  <2>1. PICK p \in Plans : /\ phase[p] = "queued" /\ OwnerOf[p] = s
                           /\ phase' = [phase EXCEPT ![p] = "finished"]
    BY <1>3 DEF CancelQueued, QueuedJobs
  <2>2. pc[s] = "cancel" /\ UNCHANGED <<mainVars, group, todo, poolVars, queue>>
    BY <1>3 DEF CancelQueued
  <2>3. UNCHANGED <<pc, active, drained>>  BY <2>2 DEF mainVars, poolVars
  <2>4. Tracked'  BY <1>0, <2>1, <2>2, <2>3 DEF Home, Tracked, TrackedAt, Leaving
  <2>5. QueuesGone' /\ GroupHome'  BY <2>2, <2>3 DEF Home, QueuesGone, GroupHome
  <2> QED  BY <2>4, <2>5 DEF Home
<1>4. CASE ShutdownPools(s)
  <2>1. /\ pc[s] = "cancel" /\ pc' = [pc EXCEPT ![s] = "return"]
        /\ active' = [active EXCEPT ![s] = {}]
        /\ UNCHANGED <<jobVars, queue, drained>>
        /\ \A p \in Plans : OwnerOf[p] = s => phase[p] # "queued"
    BY <1>4 DEF ShutdownPools, QueuedJobs
  <2>2. Tracked'
    <3> SUFFICES ASSUME NEW p \in Plans PROVE TrackedAt(p)'
      BY DEF Tracked
    <3>1. UNCHANGED <<phase, drained>>  BY <2>1 DEF jobVars
    <3>2. CASE OwnerOf[p] = s
      <4>1. pc'[s] = "return"  BY <1>0, <2>1
      <4> QED  BY <2>1, <3>1, <3>2, <4>1 DEF Home, Tracked, TrackedAt, Leaving
    <3>3. CASE OwnerOf[p] # s
      <4>1. pc'[OwnerOf[p]] = pc[OwnerOf[p]] /\ active'[OwnerOf[p]] = active[OwnerOf[p]]
        BY <1>0, <2>1, <3>3
      <4> QED  BY <3>1, <4>1 DEF Home, Tracked, TrackedAt
    <3> QED  BY <3>2, <3>3
  <2>3. QueuesGone'  BY <1>0, <2>1 DEF Home, QueuesGone
  <2>4. GroupHome'  BY <2>1 DEF Home, GroupHome, jobVars
  <2> QED  BY <2>2, <2>3, <2>4 DEF Home
<1>5. CASE Return(s)
  <2>1. /\ pc[s] = "return" /\ pc' = [pc EXCEPT ![s] = "returned"]
        /\ UNCHANGED <<jobVars, poolVars, queue, drained>>
    BY <1>5 DEF Return
  <2>2. \A t \in Scheds : /\ pc'[t] \in Leaving <=> pc[t] \in Leaving
                          /\ pc'[t] \in {"cancel"} <=> pc[t] \in {"cancel"}
                          /\ pc'[t] \in {"drain"} <=> pc[t] \in {"drain"}
    BY <1>0, <2>1 DEF Leaving
  <2>3. Tracked'  BY <1>0, <2>1, <2>2 DEF Home, Tracked, TrackedAt, jobVars, poolVars
  <2>4. QueuesGone'  BY <2>1, <2>2 DEF Home, QueuesGone
  <2>5. GroupHome'  BY <2>1 DEF Home, GroupHome, jobVars
  <2> QED  BY <2>3, <2>4, <2>5 DEF Home
<1> QED  BY <1>1, <1>2, <1>3, <1>4, <1>5

(* A job that goes on, or whose future ends, keeps its place; one that the *)
(* tables no longer know was dropped by a shutdown.                        *)
LEMMA WorkerHome ==
  ASSUME TypeOK, Home, NEW p \in Plans, WorkerStep(p) \/ CrashJob(p)
  PROVE  Home'
<1>0. /\ phase \in [Plans -> Phases] /\ todo \in [Plans -> Seq(Plans)]
      /\ active \in [Scheds -> SUBSET Plans]
      /\ \A q \in Plans : OwnerOf[q] \in Scheds
  BY PlanAssumption DEF TypeOK, TableTypeOK, JobTypeOK
<1>1. UNCHANGED <<pc, drained, queue, group>>
  <2>1. CASE StartJob(p) \/ ExecutePlan(p) \/ FinishJob(p) \/ CrashJob(p)
    BY <2>1 DEF StartJob, ExecutePlan, FinishJob, CrashJob, mainVars
  <2>2. CASE OnDone(p) \/ ReleaseLease(p) \/ AppendInbandResult(p)
    BY <2>2 DEF OnDone, ReleaseLease, AppendInbandResult, mainVars
  <2>3. CASE GroupDone(p) \/ Requeue(p)
    BY <2>3 DEF GroupDone, Requeue, mainVars
  <2> QED  BY <2>1, <2>2, <2>3 DEF WorkerStep
<1>2. QueuesGone'  BY <1>1 DEF Home, QueuesGone
<1>3. GroupHome'
  <2>1. CASE UNCHANGED todo  BY <1>1, <2>1 DEF Home, GroupHome
  <2>2. CASE ExecutePlan(p)
    <3>1. todo[p] # <<>> /\ todo' = [todo EXCEPT ![p] = Tail(todo[p])]
      BY <2>2 DEF ExecutePlan
    <3>2. SeqRange(Tail(todo[p])) \subseteq SeqRange(todo[p])
      BY <1>0, <3>1, TailFacts
    <3>3. \A q \in Plans : SeqRange(todo'[q]) \subseteq SeqRange(todo[q])
      BY <1>0, <3>1, <3>2
    <3> QED  BY <1>1, <3>3 DEF Home, GroupHome
  <2>3. UNCHANGED todo \/ ExecutePlan(p)
    BY DEF WorkerStep, StartJob, FinishJob, CrashJob, OnDone, ReleaseLease,
           AppendInbandResult, GroupDone, Requeue
  <2> QED  BY <2>1, <2>2, <2>3
<1>4. Tracked'
  <2> SUFFICES ASSUME NEW q \in Plans PROVE TrackedAt(q)'
    BY DEF Tracked
  <2>0. TrackedAt(q)  BY DEF Home, Tracked
  <2>1. CASE StartJob(p) \/ ExecutePlan(p) \/ FinishJob(p) \/ CrashJob(p)
    <3>1. /\ \/ phase[p] = "queued" /\ phase' = [phase EXCEPT ![p] = "running"]
             \/ phase[p] = "running" /\ phase' = phase
             \/ phase[p] = "running" /\ phase' = [phase EXCEPT ![p] = "finished"]
          /\ UNCHANGED active
      BY <2>1 DEF StartJob, ExecutePlan, FinishJob, CrashJob, poolVars
    <3> QED  BY <1>0, <1>1, <2>0, <3>1 DEF TrackedAt
  <2>2. CASE OnDone(p)
    <3>1. CASE p \in active[OwnerOf[p]]
      <4>1. /\ phase[p] = "finished" /\ phase' = [phase EXCEPT ![p] = "claimed"]
            /\ active' = [active EXCEPT ![OwnerOf[p]] = @ \ {p}]
        BY <2>2, <3>1 DEF OnDone
      <4>2. q # p => (q \in active'[OwnerOf[q]] <=> q \in active[OwnerOf[q]])
        BY <1>0, <4>1
      <4> QED  BY <1>0, <1>1, <2>0, <4>1, <4>2 DEF TrackedAt
    <3>2. CASE p \notin active[OwnerOf[p]]
      <4>1. /\ phase[p] = "finished" /\ phase' = [phase EXCEPT ![p] = "lost"]
            /\ UNCHANGED active
        BY <2>2, <3>2 DEF OnDone, poolVars
      <4>2. TrackedAt(p)  BY DEF Home, Tracked
      <4> QED  BY <1>0, <1>1, <2>0, <3>2, <4>1, <4>2 DEF TrackedAt
    <3> QED  BY <3>1, <3>2
  <2>3. CASE ReleaseLease(p) \/ AppendInbandResult(p) \/ GroupDone(p) \/ Requeue(p)
    <3>1. /\ \E c \in {"released", "appended", "done"} : phase' = [phase EXCEPT ![p] = c]
          /\ UNCHANGED active
      BY <2>3 DEF ReleaseLease, AppendInbandResult, GroupDone, Requeue, poolVars
    <3> QED  BY <1>0, <1>1, <2>0, <3>1 DEF TrackedAt
  <2> QED  BY <2>1, <2>2, <2>3 DEF WorkerStep
<1> QED  BY <1>2, <1>3, <1>4 DEF Home

LEMMA HomeStep ==
  ASSUME IndInv, Home, [Next]_vars
  PROVE  Home'
<1>0. TypeOK /\ DispatchConsistent  BY DEF IndInv
<1>1. ASSUME NEW s \in Scheds, MainStep(s) \/ FaultStep(s) PROVE Home'
  BY <1>0, <1>1, DispatchHome, SubmitHome, FinallyHome DEF MainStep, FaultStep
<1>2. ASSUME NEW p \in Plans, WorkerStep(p) \/ CrashJob(p) PROVE Home'
  BY <1>0, <1>2, WorkerHome
<1>3. CASE UNCHANGED <<mainVars, jobVars, poolVars, queue, ready>>
  <2>1. Tracked'
    BY <1>3 DEF Home, Tracked, TrackedAt, mainVars, jobVars, poolVars
  <2>2. QueuesGone' /\ GroupHome'
    BY <1>3 DEF Home, QueuesGone, GroupHome, mainVars, jobVars
  <2> QED  BY <2>1, <2>2 DEF Home
<1> QED  BY <1>1, <1>2, <1>3, OutsideUntouched DEF Next, Terminated

LEMMA HomeInvariance == Spec => []Home
<1>1. Init => Home
  <2> SUFFICES ASSUME Init PROVE Home
    OBVIOUS
  <2>1. \A p \in Plans : OwnerOf[p] \in Scheds  BY PlanAssumption
  <2>2. Tracked  BY <2>1 DEF Init, Tracked, TrackedAt, Leaving
  <2>3. QueuesGone  BY DEF Init, QueuesGone, Leaving
  <2>4. GroupHome  BY ShortFacts DEF Init, GroupHome
  <2> QED  BY <2>2, <2>3, <2>4 DEF Home
<1>2. IndInv /\ Home /\ [Next]_vars => Home'
  BY HomeStep
<1> QED  BY <1>1, <1>2, Invariance, PTL DEF Spec

(* Only the scheduler's own Return ends its run.                           *)
LEMMA ReturnStep ==
  ASSUME TypeOK, [Next]_vars, NEW s \in Scheds, pc[s] = "return", pc'[s] = "returned"
  PROVE  Return(s)
<1>0. pc \in [Scheds -> MainPcs]  BY DEF TypeOK, MainTypeOK
<1>1. ASSUME NEW t \in Scheds, MainStep(t) \/ FaultStep(t), ~Return(t) PROVE FALSE
  <2>1. ASSUME \E c \in MainPcs \ {"returned"} : pc' = [pc EXCEPT ![t] = c] PROVE FALSE
    BY <1>0, <2>1
  <2>2. CASE LoopEnter(t) \/ LoopExit(t) \/ AdjustPools(t) \/ DispatchAborted(t)
    BY <2>1, <2>2 DEF LoopEnter, LoopExit, AdjustPools, DispatchAborted, MainPcs
  <2>3. CASE PoolFilled(t) \/ SubmitFails(t)
    BY <2>1, <2>3 DEF PoolFilled, SubmitFails, NextPool, MainPcs
  <2>4. CASE TakeReady(t) \/ PutBack(t) \/ TryHold(t) \/ Submit(t)
    BY <2>1, <2>4 DEF TakeReady, PutBack, TryHold, Submit, MainPcs
  <2>5. CASE SkipPending(t) \/ Drain(t) \/ ShutdownPools(t) \/ Interrupt(t)
    BY <2>1, <2>5 DEF SkipPending, Drain, ShutdownPools, Interrupt, MainPcs
  <2>6. CASE CancelQueued(t)  BY <2>6 DEF CancelQueued, mainVars
  <2> QED  BY <1>1, <2>2, <2>3, <2>4, <2>5, <2>6 DEF MainStep, FaultStep
<1>2. ASSUME NEW t \in Scheds, Return(t) PROVE t = s
  BY <1>0, <1>2 DEF Return
<1>3. ASSUME NEW p \in Plans, WorkerStep(p) \/ CrashJob(p) PROVE UNCHANGED pc
  BY <1>3, JobFrame
<1>4. UNCHANGED <<mainVars, jobVars, poolVars, queue, ready>> => UNCHANGED pc
  BY DEF mainVars
<1> QED  BY <1>1, <1>2, <1>3, <1>4, OutsideUntouched DEF Next, Terminated

(* Whatever has no result when `run' returns is accounted for: the main    *)
(* thread was interrupted with it in its hand, its callback is running at  *)
(* that moment, or _drain gave up on its job.                              *)
THEOREM ReturnAccounts == Spec => ReturnAccountsForPlans
<1>1. ASSUME IndInv, PlanFlow, Home, [Next]_vars
      PROVE  [\A s \in Scheds : pc[s] = "return" /\ pc'[s] = "returned" =>
                \A p \in Plans : OwnerOf[p] = s /\ report'[p] = "none" =>
                  \/ p \in SeqRange(take[s])
                  \/ \E h \in Plans : /\ p \in SeqRange(group[h])
                                      /\ \/ phase[h] \in {"claimed", "released"}
                                         \/ /\ ~drained[s]
                                            /\ phase[h] \in {"running", "finished", "lost"}]_vars
  <2> SUFFICES ASSUME NEW s \in Scheds, pc[s] = "return", pc'[s] = "returned",
                      NEW p \in Plans, OwnerOf[p] = s, report'[p] = "none"
               PROVE  \/ p \in SeqRange(take[s])
                      \/ \E h \in Plans : /\ p \in SeqRange(group[h])
                                          /\ \/ phase[h] \in {"claimed", "released"}
                                             \/ /\ ~drained[s]
                                                /\ phase[h] \in {"running", "finished", "lost"}
    OBVIOUS
  <2>0. pc \in [Scheds -> MainPcs]  BY <1>1 DEF IndInv, TypeOK, MainTypeOK
  <2>1. Return(s)  BY <1>1, ReturnStep DEF IndInv
  <2>2. result[p] = "none"  BY <2>1 DEF Return
  <2>3. queue[s][EpOf[p]] = <<>>
    BY <1>1, PlanAssumption DEF Home, QueuesGone, Leaving
  <2>4. p \notin SeqRange(queue[s][EpOf[p]])  BY <2>3, ShortFacts
  <2>5. CASE p \in SeqRange(take[s])  BY <2>5
  <2>6. ASSUME NEW h \in Plans, p \in SeqRange(group[h]),
               phase[h] \in (InFlight \ {"appended"}) \cup {"lost"}
        PROVE  \/ phase[h] \in {"claimed", "released"}
               \/ ~drained[s] /\ phase[h] \in {"running", "finished", "lost"}
    <3>1. OwnerOf[h] = s  BY <1>1, <2>6 DEF Home, GroupHome
    <3>2. TrackedAt(h)  BY <1>1 DEF Home, Tracked
    <3> QED  BY <2>6, <3>1, <3>2 DEF TrackedAt, Leaving, InFlight
  <2> QED  BY <1>1, <2>2, <2>4, <2>5, <2>6 DEF PlanFlow, NoPlanLost
<1> QED
  BY <1>1, Invariance, FlowInvariance, HomeInvariance, PTL DEF Spec, ReturnAccountsForPlans
-----------------------------------------------------------------------------
(* Where the endpoints of a scheduler are.                                 *)

\* The main thread is still dispatching, and has no endpoint in its hand.
Inside == Dispatching \cup {"submit"}
Idle == {"loop", "pausewait", "check"}

\* The jobs on an endpoint whose completion callback has not finished.
JobsAt(s, e) == {p \in PlansAt(s, e) : phase[p] \in InFlight}

(* One endpoint: where it waits, that it has plans left when it is taken,  *)
(* and that a BMC endpoint at work has none left.                          *)
PlaceOf(s, e) ==
  /\ e \in SeqRange(ready[s]) =>
       hand[s] # e /\ JobsAt(s, e) = {} /\ queue[s][e] # <<>>
  /\ hand[s] = e => JobsAt(s, e) = {} /\ (pc[s] = "pick" => queue[s][e] # <<>>)
  /\ queue[s][e] # <<>> =>
       e \in SeqRange(ready[s]) \/ hand[s] = e \/ JobsAt(s, e) # {}
  /\ EpType[e] = "BMC" /\ (JobsAt(s, e) # {} \/ (pc[s] = "submit" /\ hand[s] = e)) =>
       queue[s][e] = <<>>
  /\ \A p, q \in JobsAt(s, e) : p = q

PlacedAt(s) ==
  pc[s] \in Inside =>
    /\ Distinct(ready[s])
    /\ pc[s] \in Idle => hand[s] = None
    /\ \A e \in Endpoints : PlaceOf(s, e)

(* An INBAND plan is reported executed by its own callback and no earlier, *)
(* which is why that callback's result is never rejected.                  *)
InbandOnce ==
  \A p \in Plans : EpType[EpOf[p]] = "INBAND" /\ result[p] \in Executed =>
    phase[p] \in {"appended", "done"}

Placing == InbandOnce /\ \A s \in Scheds : PlacedAt(s)

(* The ready list loses its head, or gets an endpoint at its end.          *)
LEMMA ReadyFacts ==
  ASSUME NEW q \in Seq(Endpoints)
  PROVE  /\ q # <<>> => /\ Head(q) \in Endpoints /\ Tail(q) \in Seq(Endpoints)
                        /\ SeqRange(q) = {Head(q)} \cup SeqRange(Tail(q))
                        /\ Distinct(q) => Distinct(Tail(q)) /\ Head(q) \notin SeqRange(Tail(q))
         /\ \A e \in Endpoints :
              /\ SeqRange(Append(q, e)) = SeqRange(q) \cup {e}
              /\ Distinct(q) /\ e \notin SeqRange(q) => Distinct(Append(q, e))
<1>1. ASSUME q # <<>>
      PROVE  /\ Head(q) \in Endpoints /\ Tail(q) \in Seq(Endpoints)
             /\ SeqRange(q) = {Head(q)} \cup SeqRange(Tail(q))
             /\ Distinct(q) => Distinct(Tail(q)) /\ Head(q) \notin SeqRange(Tail(q))
  <2>1. Head(q) \in Endpoints /\ Tail(q) \in Seq(Endpoints)  BY <1>1
  <2> QED  BY <1>1, <2>1, HeadTailFacts
<1>2. ASSUME NEW e \in Endpoints
      PROVE  /\ SeqRange(Append(q, e)) = SeqRange(q) \cup {e}
             /\ Distinct(q) /\ e \notin SeqRange(q) => Distinct(Append(q, e))
  <2>1. /\ DOMAIN q = 1 .. Len(q) /\ Len(q) \in Nat
        /\ DOMAIN Append(q, e) = 1 .. (Len(q) + 1)
        /\ Append(q, e)[Len(q) + 1] = e
        /\ \A i \in 1 .. Len(q) : Append(q, e)[i] = q[i]
    OBVIOUS
  <2>2. \A i \in 1 .. (Len(q) + 1) : i \in 1 .. Len(q) \/ i = Len(q) + 1
    BY <2>1
  <2>3. 1 .. Len(q) \subseteq 1 .. (Len(q) + 1) /\ Len(q) + 1 \in 1 .. (Len(q) + 1)
    BY <2>1
  <2>4. SeqRange(Append(q, e)) = SeqRange(q) \cup {e}
    BY <2>1, <2>2, <2>3 DEF SeqRange
  <2>5. ASSUME Distinct(q), e \notin SeqRange(q) PROVE Distinct(Append(q, e))
    BY <2>1, <2>2, <2>5 DEF SeqRange, Distinct
  <2> QED  BY <2>4, <2>5
<1> QED  BY <1>1, <1>2

(* What is recorded is the old status or the new one.                      *)
LEMMA AppendEither ==
  ASSUME NEW old, NEW new
  PROVE  AppendOnce(old, new) \in {old, new}
BY DEF AppendOnce

LEMMA InbandStep ==
  ASSUME IndInv, PlanFlow, Home, InbandOnce, [Next]_vars
  PROVE  InbandOnce'
<1>0. /\ TypeOK /\ DispatchConsistent
      /\ phase \in [Plans -> Phases] /\ result \in [Plans -> Status \cup {"none"}]
      /\ todo \in [Plans -> Seq(Plans)] /\ group \in [Plans -> Seq(Plans)]
      /\ EpType \in [Endpoints -> {"BMC", "INBAND"}]
      /\ EpOf \in [Plans -> Endpoints]
  BY PlanAssumption DEF IndInv, TypeOK, JobTypeOK, ResultTypeOK, Pools
<1> DEFINE Reported(p) == phase[p] \in {"appended", "done"}
           Keeps(p) == EpType[EpOf[p]] = "INBAND" =>
                         /\ result'[p] \in Executed => result[p] \in Executed \/ Reported(p)'
                         /\ Reported(p) => Reported(p)'
<1>1. ASSUME \A p \in Plans : Keeps(p) PROVE InbandOnce'
  BY <1>1 DEF InbandOnce
<1>2. ASSUME NEW s \in Scheds, Submit(s) PROVE InbandOnce'
  <2>1. /\ phase' = [phase EXCEPT ![Head(take[s])] = "queued"]
        /\ pc[s] = "submit" /\ UNCHANGED result
    BY <1>2 DEF Submit
  <2>2. Head(take[s]) \in SeqRange(take[s])
    BY <1>0, <2>1, TakeType, TailFacts DEF DispatchConsistent, TypeOK, MainTypeOK
  <2>3. phase[Head(take[s])] = "none"
    BY <2>1, <2>2 DEF PlanFlow, TakeFresh
  <2>4. \A p \in Plans : Reported(p) => Reported(p)'
    BY <1>0, <2>1, <2>3
  <2> QED  BY <1>1, <2>1, <2>4
<1>3. ASSUME NEW s \in Scheds, SkipPending(s) PROVE InbandOnce'
  <2>1. UNCHANGED phase  BY <1>3 DEF SkipPending, jobVars
  <2>2. StopLabel(reason[s]) \notin Executed  BY DEF StopLabel, Executed
  <2>3. ASSUME NEW p \in Plans, result'[p] \in Executed PROVE result[p] \in Executed
    <3>1. result'[p] = result[p] \/ result'[p] = AppendOnce(result[p], StopLabel(reason[s]))
      BY <1>3 DEF SkipPending
    <3> QED  BY <2>2, <2>3, <3>1, AppendEither
  <2> QED  BY <1>1, <2>1, <2>3
<1>4. ASSUME NEW s \in Scheds, CancelQueued(s) PROVE InbandOnce'
  <2>1. PICK p \in Plans : /\ phase[p] = "queued"
                           /\ phase' = [phase EXCEPT ![p] = "finished"]
    BY <1>4 DEF CancelQueued, QueuedJobs
  <2>2. UNCHANGED result  BY <1>4 DEF CancelQueued
  <2>3. \A q \in Plans : Reported(q) => Reported(q)'  BY <1>0, <2>1
  <2> QED  BY <1>1, <2>2, <2>3
<1>5. ASSUME UNCHANGED <<phase, result>> PROVE InbandOnce'
  BY <1>1, <1>5
<1>6. ASSUME NEW s \in Scheds, MainStep(s) \/ FaultStep(s),
             ~(Submit(s) \/ SkipPending(s) \/ CancelQueued(s))
      PROVE  InbandOnce'
  <2>1. CASE LoopEnter(s) \/ LoopExit(s) \/ AdjustPools(s) \/ DispatchAborted(s)
    BY <1>5, <2>1 DEF LoopEnter, LoopExit, AdjustPools, DispatchAborted, jobVars
  <2>2. CASE PoolFilled(s) \/ TakeReady(s) \/ PutBack(s) \/ TryHold(s) \/ SubmitFails(s)
    BY <1>5, <2>2 DEF PoolFilled, TakeReady, PutBack, TryHold, SubmitFails, jobVars
  <2>3. CASE Drain(s) \/ ShutdownPools(s) \/ Return(s) \/ Interrupt(s)
    BY <1>5, <2>3 DEF Drain, ShutdownPools, Return, Interrupt, jobVars
  <2> QED  BY <1>6, <2>1, <2>2, <2>3 DEF MainStep, FaultStep
<1>7. ASSUME NEW p \in Plans, WorkerStep(p) \/ CrashJob(p) PROVE InbandOnce'
  <2>1. CASE StartJob(p) \/ FinishJob(p) \/ CrashJob(p)
    <3>1. /\ UNCHANGED result /\ phase[p] \in {"queued", "running"}
          /\ \E c \in Phases : phase' = [phase EXCEPT ![p] = c]
      BY <2>1 DEF StartJob, FinishJob, CrashJob, Phases, InFlight
    <3>2. \A q \in Plans : Reported(q) => Reported(q)'  BY <1>0, <3>1
    <3> QED  BY <1>1, <3>1, <3>2
  <2>2. CASE OnDone(p) \/ ReleaseLease(p)
    <3>1. /\ UNCHANGED result /\ phase[p] \in {"finished", "claimed"}
          /\ \E c \in Phases : phase' = [phase EXCEPT ![p] = c]
      BY <2>2 DEF OnDone, ReleaseLease, Phases, InFlight
    <3>2. \A q \in Plans : Reported(q) => Reported(q)'  BY <1>0, <3>1
    <3> QED  BY <1>1, <3>1, <3>2
  <2>3. CASE Requeue(p)
    <3>1. UNCHANGED result /\ phase' = [phase EXCEPT ![p] = "done"]
      BY <2>3 DEF Requeue
    <3>2. \A q \in Plans : Reported(q) => Reported(q)'  BY <1>0, <3>1
    <3> QED  BY <1>1, <3>1, <3>2
  <2>4. CASE ExecutePlan(p)
    <3>1. /\ UNCHANGED phase /\ todo[p] # <<>>
          /\ result' = IF EpType[EpOf[p]] = "BMC"
                       THEN [result EXCEPT ![Head(todo[p])] =
                               AppendOnce(result[Head(todo[p])], "EXEC_DONE")]
                       ELSE result
      BY <2>4 DEF ExecutePlan
    <3>2. EpOf[Head(todo[p])] = EpOf[p]
      BY <1>0, <3>1, TailFacts DEF Home, GroupHome
    <3>3. \A q \in Plans : EpType[EpOf[q]] = "INBAND" => result'[q] = result[q]
      BY <1>0, <3>1, <3>2
    <3> QED  BY <1>1, <3>1, <3>3
  <2>5. CASE AppendInbandResult(p)
    <3>1. /\ \E c \in {"appended", "done"} : phase' = [phase EXCEPT ![p] = c]
          /\ \E st \in Executed : result' = [result EXCEPT ![p] = AppendOnce(@, st)]
      BY <2>5 DEF AppendInbandResult, Executed
    <3>2. \A q \in Plans : q # p => phase'[q] = phase[q] /\ result'[q] = result[q]
      BY <1>0, <3>1
    <3>3. Reported(p)'  BY <1>0, <3>1
    <3> QED  BY <1>1, <3>2, <3>3
  <2>6. CASE GroupDone(p)
    <3>1. /\ phase' = [phase EXCEPT ![p] = "done"] /\ EpType[EpOf[p]] = "BMC"
          /\ result' = IF outcome[p] = "ok" THEN result ELSE Recovered(p)
      BY <2>6 DEF GroupDone
    <3>2. \A q \in Plans : Reported(q) => Reported(q)'  BY <1>0, <3>1
    <3>3. \A q \in SeqRange(group[p]) : EpOf[q] = EpOf[p]  BY DEF Home, GroupHome
    <3>4. \A q \in Plans : EpType[EpOf[q]] = "INBAND" => result'[q] = result[q]
      BY <3>1, <3>3 DEF Recovered
    <3> QED  BY <1>1, <3>2, <3>4
  <2> QED  BY <1>7, <2>1, <2>2, <2>3, <2>4, <2>5, <2>6 DEF WorkerStep
<1>8. ASSUME NEW p \in Plans, GhostStep(p) PROVE InbandOnce'
  <2>1. UNCHANGED phase  BY <1>8 DEF GhostStep, GhostStarts, GhostEnds, jobVars
  <2>2. CASE GhostStarts(p)  BY <1>5, <2>1, <2>2 DEF GhostStarts
  <2>3. CASE GhostEnds(p)
    <3>1. \A q \in Plans : EpType[EpOf[q]] = "INBAND" => result'[q] = result[q]
      BY <1>0, <2>3 DEF GhostEnds, PlansAt
    <3> QED  BY <1>1, <2>1, <3>1
  <2> QED  BY <1>8, <2>2, <2>3 DEF GhostStep
<1>9. ASSUME NEW s \in Scheds, ControlStep(s) PROVE InbandOnce'
  BY <1>5, <1>9 DEF ControlStep, AppStops, ForwardStop, Pause, Resume, jobVars
<1>10. CASE UNCHANGED vars  BY <1>5, <1>10 DEF vars, jobVars
<1> QED  BY <1>2, <1>3, <1>4, <1>6, <1>7, <1>8, <1>9, <1>10 DEF Next, Terminated

(* A scheduler whose lists, hand and jobs in flight a step leaves alone.   *)
LEMMA PlacesStay ==
  ASSUME NEW t \in Scheds, PlacedAt(t),
         ready'[t] = ready[t], hand'[t] = hand[t], queue'[t] = queue[t],
         \A p \in Plans : OwnerOf[p] = t => (phase'[p] \in InFlight <=> phase[p] \in InFlight),
         \/ pc'[t] \notin Inside
         \/ pc'[t] = pc[t]
         \/ pc[t] \in Idle /\ pc'[t] \in Idle
  PROVE  PlacedAt(t)'
<1>1. \A e \in Endpoints : JobsAt(t, e)' = JobsAt(t, e)
  BY DEF JobsAt, PlansAt
<1>2. CASE pc'[t] = pc[t]
  BY <1>1, <1>2 DEF PlacedAt, PlaceOf
<1>3. CASE pc[t] \in Idle /\ pc'[t] \in Idle
  <2>1. pc[t] \in Inside /\ pc[t] \notin {"pick", "submit"} /\ pc'[t] \notin {"pick", "submit"}
    BY <1>3 DEF Idle, Inside, Dispatching
  <2> QED  BY <1>1, <1>3, <2>1 DEF PlacedAt, PlaceOf
<1>4. CASE pc'[t] \notin Inside  BY <1>4 DEF PlacedAt
<1> QED  BY <1>2, <1>3, <1>4

(* The endpoint at the head of the ready list goes to the hand.            *)
LEMMA TakeReadyPlaces ==
  ASSUME TypeOK, NEW s \in Scheds, PlacedAt(s), TakeReady(s)
  PROVE  PlacedAt(s)'
<1> DEFINE r == ready[s]
<1>0. /\ pc \in [Scheds -> MainPcs] /\ ready \in [Scheds -> Seq(Endpoints)]
      /\ hand \in [Scheds -> Endpoints \cup {None}]
  BY DEF TypeOK, MainTypeOK, TableTypeOK
<1>1. /\ pc[s] = "check" /\ r # <<>> /\ r \in Seq(Endpoints)
      /\ pc'[s] = "pick" /\ hand'[s] = Head(r) /\ ready'[s] = Tail(r)
      /\ UNCHANGED <<queue, phase>>
  BY <1>0 DEF TakeReady, MayDispatch, jobVars
<1>2. /\ pc[s] \in Inside /\ pc[s] \in Idle /\ pc'[s] \notin Idle
  BY <1>1 DEF Inside, Idle, Dispatching
<1>3. hand[s] = None /\ Distinct(r) /\ \A e \in Endpoints : PlaceOf(s, e)
  BY <1>2 DEF PlacedAt
<1>4. /\ Head(r) \in Endpoints /\ SeqRange(r) = {Head(r)} \cup SeqRange(Tail(r))
      /\ Distinct(Tail(r)) /\ Head(r) \notin SeqRange(Tail(r))
  BY <1>1, <1>3, ReadyFacts
<1>5. \A e \in Endpoints : JobsAt(s, e)' = JobsAt(s, e)  BY <1>1 DEF JobsAt
<1>6. ASSUME NEW e \in Endpoints PROVE PlaceOf(s, e)'
  <2>1. PlaceOf(s, e) /\ hand[s] # e  BY <1>3, NoneAssumption
  <2> QED  BY <1>1, <1>4, <1>5, <2>1 DEF PlaceOf
<1> QED  BY <1>1, <1>2, <1>4, <1>6 DEF PlacedAt

(* An endpoint that cannot be held goes to the end of the ready list.      *)
LEMMA PutBackPlaces ==
  ASSUME TypeOK, DispatchConsistent, NEW s \in Scheds, PlacedAt(s), PutBack(s)
  PROVE  PlacedAt(s)'
<1> DEFINE r == ready[s]
           h == hand[s]
<1>0. /\ pc \in [Scheds -> MainPcs] /\ ready \in [Scheds -> Seq(Endpoints)]
      /\ hand \in [Scheds -> Endpoints \cup {None}]
  BY DEF TypeOK, MainTypeOK, TableTypeOK
<1>1. /\ pc[s] = "pick" /\ r \in Seq(Endpoints) /\ h \in Endpoints
      /\ pc'[s] = "check" /\ hand'[s] = None /\ ready'[s] = Append(r, h)
      /\ UNCHANGED <<queue, phase>>
  BY <1>0 DEF PutBack, DispatchConsistent, jobVars
<1>2. pc[s] \in Inside  BY <1>1 DEF Inside, Dispatching
<1>3. Distinct(r) /\ \A e \in Endpoints : PlaceOf(s, e)  BY <1>2 DEF PlacedAt
<1>4. h \notin SeqRange(r) /\ queue[s][h] # <<>> /\ JobsAt(s, h) = {}
  BY <1>1, <1>3 DEF PlaceOf
<1>5. SeqRange(Append(r, h)) = SeqRange(r) \cup {h} /\ Distinct(Append(r, h))
  BY <1>1, <1>3, <1>4, ReadyFacts
<1>6. \A e \in Endpoints : JobsAt(s, e)' = JobsAt(s, e)  BY <1>1 DEF JobsAt
<1>7. ASSUME NEW e \in Endpoints PROVE PlaceOf(s, e)'
  <2>1. PlaceOf(s, e) /\ hand'[s] # e  BY <1>1, <1>3, NoneAssumption
  <2> QED  BY <1>1, <1>4, <1>5, <1>6, <2>1 DEF PlaceOf
<1> QED  BY <1>1, <1>5, <1>7 DEF PlacedAt

(* The plans of an endpoint in hand leave its queue.                       *)
LEMMA TryHoldPlaces ==
  ASSUME TypeOK, DispatchConsistent, NEW s \in Scheds, PlacedAt(s), TryHold(s)
  PROVE  PlacedAt(s)'
<1> DEFINE h == hand[s]
<1>0. /\ pc \in [Scheds -> MainPcs]
      /\ queue \in [Scheds -> [Endpoints -> Seq(Plans)]]
  BY DEF TypeOK, MainTypeOK, TableTypeOK
<1>1. /\ pc[s] = "pick" /\ h \in Endpoints /\ pc'[s] = "submit"
      /\ queue' = [queue EXCEPT ![s][h] = Rest(s, h)]
      /\ UNCHANGED <<hand, ready, phase>>
  BY <1>0 DEF TryHold, DispatchConsistent, jobVars
<1>2. pc[s] \in Inside /\ pc'[s] \notin Idle  BY <1>1 DEF Inside, Dispatching, Idle
<1>3. Distinct(ready[s]) /\ \A e \in Endpoints : PlaceOf(s, e)  BY <1>2 DEF PlacedAt
<1>4. /\ \A e \in Endpoints \ {h} : queue'[s][e] = queue[s][e]
      /\ EpType[h] = "BMC" => queue'[s][h] = <<>>
  BY <1>0, <1>1 DEF Rest
<1>5. \A e \in Endpoints : JobsAt(s, e)' = JobsAt(s, e)  BY <1>1 DEF JobsAt
<1>6. ASSUME NEW e \in Endpoints PROVE PlaceOf(s, e)'
  <2>1. PlaceOf(s, e)  BY <1>3
  <2>2. CASE e = h  BY <1>1, <1>4, <1>5, <2>1, <2>2 DEF PlaceOf
  <2>3. CASE e # h  BY <1>1, <1>4, <1>5, <2>1, <2>3 DEF PlaceOf
  <2> QED  BY <2>2, <2>3
<1> QED  BY <1>1, <1>2, <1>3, <1>6 DEF PlacedAt

(* The endpoint in hand gets a job.                                        *)
LEMMA SubmitPlaces ==
  ASSUME TypeOK, DispatchConsistent, NEW s \in Scheds, PlacedAt(s), Submit(s)
  PROVE  PlacedAt(s)'
<1> DEFINE h == hand[s]
           p == Head(take[s])
<1>0. /\ pc \in [Scheds -> MainPcs] /\ phase \in [Plans -> Phases]
      /\ hand \in [Scheds -> Endpoints \cup {None}]
  BY DEF TypeOK, MainTypeOK, JobTypeOK
<1>1. /\ pc[s] = "submit" /\ pc'[s] = "check" /\ hand'[s] = None
      /\ phase' = [phase EXCEPT ![p] = "queued"]
      /\ UNCHANGED <<ready, queue>>
  BY <1>0 DEF Submit
<1>2. h \in Endpoints /\ p \in PlansAt(s, h)
  BY <1>1, TakeType DEF DispatchConsistent
<1>3. pc[s] \in Inside  BY <1>1 DEF Inside
<1>4. Distinct(ready[s]) /\ \A e \in Endpoints : PlaceOf(s, e)  BY <1>3 DEF PlacedAt
<1>5. \A e \in Endpoints :
        JobsAt(s, e)' = IF e = h THEN JobsAt(s, e) \cup {p} ELSE JobsAt(s, e)
  <2>1. /\ p \in Plans /\ phase'[p] \in InFlight
        /\ \A q \in Plans \ {p} : phase'[q] = phase[q]
    BY <1>0, <1>1, <1>2 DEF PlansAt, InFlight
  <2>2. \A e \in Endpoints : \A q \in PlansAt(s, e) :
          q \in JobsAt(s, e)' <=> (q \in JobsAt(s, e) \/ q = p)
    BY <2>1 DEF JobsAt, PlansAt
  <2>3. \A e \in Endpoints \ {h} : p \notin PlansAt(s, e)  BY <1>2 DEF PlansAt
  <2>4. \A e \in Endpoints : /\ JobsAt(s, e) \subseteq PlansAt(s, e)
                             /\ JobsAt(s, e)' \subseteq PlansAt(s, e)
    BY DEF JobsAt, PlansAt
  <2> QED  BY <1>2, <2>2, <2>3, <2>4
<1>6. JobsAt(s, h) = {} /\ h \notin SeqRange(ready[s])
  BY <1>2, <1>4 DEF PlaceOf
<1>7. ASSUME NEW e \in Endpoints PROVE PlaceOf(s, e)'
  <2>1. PlaceOf(s, e) /\ hand'[s] # e  BY <1>1, <1>4, NoneAssumption
  <2>2. CASE e = h
    <3>1. JobsAt(s, e)' = {p}  BY <1>5, <1>6, <2>2
    <3>2. EpType[e] = "BMC" => queue[s][e] = <<>>  BY <1>1, <2>1, <2>2 DEF PlaceOf
    <3> QED  BY <1>1, <1>6, <2>1, <2>2, <3>1, <3>2 DEF PlaceOf
  <2>3. CASE e # h  BY <1>1, <1>5, <2>1, <2>3 DEF PlaceOf
  <2> QED  BY <2>2, <2>3
<1> QED  BY <1>1, <1>4, <1>7 DEF PlacedAt

(* Or goes back to the ready list with its plans.                          *)
LEMMA SubmitFailsPlaces ==
  ASSUME TypeOK, DispatchConsistent, NEW s \in Scheds, PlacedAt(s), SubmitFails(s)
  PROVE  PlacedAt(s)'
<1> DEFINE r == ready[s]
           h == hand[s]
<1>0. /\ pc \in [Scheds -> MainPcs] /\ ready \in [Scheds -> Seq(Endpoints)]
      /\ hand \in [Scheds -> Endpoints \cup {None}]
      /\ queue \in [Scheds -> [Endpoints -> Seq(Plans)]]
      /\ take \in [Scheds -> Seq(Plans)]
  BY DEF TypeOK, MainTypeOK, TableTypeOK
<1>1. /\ pc[s] = "submit" /\ pc'[s] \in {"check", "loop"}
      /\ hand'[s] = None /\ ready'[s] = Append(r, h)
      /\ queue' = [queue EXCEPT ![s][h] = PutPlansBack(s)]
      /\ UNCHANGED phase
  BY <1>0 DEF SubmitFails, NextPool, jobVars
<1>2. h \in Endpoints /\ r \in Seq(Endpoints) /\ take[s] # <<>>
  BY <1>0, <1>1 DEF DispatchConsistent
<1>3. pc[s] \in Inside  BY <1>1 DEF Inside
<1>4. Distinct(r) /\ \A e \in Endpoints : PlaceOf(s, e)  BY <1>3 DEF PlacedAt
<1>5. h \notin SeqRange(r) /\ JobsAt(s, h) = {}  BY <1>2, <1>4 DEF PlaceOf
<1>6. SeqRange(Append(r, h)) = SeqRange(r) \cup {h} /\ Distinct(Append(r, h))
  BY <1>2, <1>4, <1>5, ReadyFacts
<1>7. queue'[s][h] # <<>> /\ \A e \in Endpoints \ {h} : queue'[s][e] = queue[s][e]
  <2>1. queue[s][h] \in Seq(Plans) /\ take[s] \in Seq(Plans)  BY <1>0, <1>2
  <2>2. Head(take[s]) \in SeqRange(PutPlansBack(s))
    BY <1>2, <2>1, TailFacts, ConcatFacts DEF PutPlansBack
  <2>3. PutPlansBack(s) # <<>>  BY <2>2, ShortFacts
  <2> QED  BY <1>0, <1>1, <1>2, <2>3
<1>8. \A e \in Endpoints : JobsAt(s, e)' = JobsAt(s, e)  BY <1>1 DEF JobsAt
<1>9. ASSUME NEW e \in Endpoints PROVE PlaceOf(s, e)'
  <2>1. PlaceOf(s, e) /\ hand'[s] # e  BY <1>1, <1>4, NoneAssumption
  <2>2. CASE e = h  BY <1>1, <1>5, <1>6, <1>7, <1>8, <2>1, <2>2 DEF PlaceOf
  <2>3. CASE e # h  BY <1>1, <1>6, <1>7, <1>8, <2>1, <2>3 DEF PlaceOf
  <2> QED  BY <2>2, <2>3
<1> QED  BY <1>1, <1>6, <1>9 DEF PlacedAt

(* A job's end leaves its endpoint without a job.                          *)
LEMMA JobsLeft ==
  ASSUME TypeOK, NEW p \in Plans, PlacedAt(OwnerOf[p]), pc[OwnerOf[p]] \in Inside,
         phase[p] \in InFlight, phase' = [phase EXCEPT ![p] = "done"]
  PROVE  \A e \in Endpoints :
           JobsAt(OwnerOf[p], e)' = IF e = EpOf[p] THEN {} ELSE JobsAt(OwnerOf[p], e)
<1> DEFINE s == OwnerOf[p]
<1>1. /\ phase'[p] \notin InFlight
      /\ \A q \in Plans \ {p} : phase'[q] = phase[q]
  BY DEF TypeOK, JobTypeOK, InFlight
<1>2. ASSUME NEW e \in Endpoints, e # EpOf[p]
      PROVE  JobsAt(s, e)' = JobsAt(s, e)
  BY <1>1, <1>2 DEF JobsAt, PlansAt
<1>3. ASSUME NEW e \in Endpoints, e = EpOf[p]
      PROVE  JobsAt(s, e)' = {}
  <2>1. p \in JobsAt(s, e)  BY <1>3 DEF JobsAt, PlansAt
  <2>2. \A q \in JobsAt(s, e) : q = p  BY <2>1 DEF PlacedAt, PlaceOf
  <2>3. \A q \in JobsAt(s, e)' : q \in JobsAt(s, e) /\ q # p
    BY <1>1 DEF JobsAt, PlansAt
  <2> QED  BY <2>2, <2>3
<1> QED  BY <1>2, <1>3

(* _on_plan_done makes the endpoint ready again when it has plans left; a  *)
(* BMC group takes all there are and leaves nothing to come back for.      *)
LEMMA WorkerPlaces ==
  ASSUME TypeOK, Home, Placing, NEW p \in Plans, WorkerStep(p) \/ CrashJob(p),
         NEW t \in Scheds
  PROVE  PlacedAt(t)'
<1> DEFINE s == OwnerOf[p]
           e == EpOf[p]
<1>0. /\ phase \in [Plans -> Phases] /\ ready \in [Scheds -> Seq(Endpoints)]
      /\ result \in [Plans -> Status \cup {"none"}]
      /\ s \in Scheds /\ e \in Endpoints /\ EpType[e] \in {"BMC", "INBAND"}
  BY PlanAssumption DEF TypeOK, TableTypeOK, JobTypeOK, ResultTypeOK, Pools
<1>1. /\ UNCHANGED <<pc, hand, queue>>
      /\ Requeue(p) \/ UNCHANGED ready
      /\ \A q \in Plans \ {p} : phase'[q] = phase[q]
  <2>1. CASE StartJob(p) \/ ExecutePlan(p) \/ FinishJob(p) \/ CrashJob(p)
    BY <1>0, <2>1 DEF StartJob, ExecutePlan, FinishJob, CrashJob, mainVars
  <2>2. CASE OnDone(p) \/ ReleaseLease(p) \/ AppendInbandResult(p)
    BY <1>0, <2>2 DEF OnDone, ReleaseLease, AppendInbandResult, mainVars
  <2>3. CASE GroupDone(p) \/ Requeue(p)
    BY <1>0, <2>3 DEF GroupDone, Requeue, mainVars
  <2> QED  BY <2>1, <2>2, <2>3 DEF WorkerStep
<1>2. PlacedAt(t) /\ PlacedAt(s)  BY <1>0 DEF Placing
<1>3. CASE t # s
  <2>1. ready'[t] = ready[t]  BY <1>0, <1>1, <1>3 DEF Requeue
  <2> QED  BY <1>1, <1>2, <1>3, <2>1, PlacesStay
<1>4. CASE pc[t] \notin Inside  BY <1>1, <1>4 DEF PlacedAt
<1>5. ASSUME UNCHANGED ready, phase'[p] \in InFlight <=> phase[p] \in InFlight
      PROVE  PlacedAt(t)'
  BY <1>1, <1>2, <1>5, PlacesStay
<1>6. CASE StartJob(p) \/ ExecutePlan(p) \/ FinishJob(p) \/ CrashJob(p) \/ ReleaseLease(p)
  <2>1. UNCHANGED ready
    BY <1>6 DEF StartJob, ExecutePlan, FinishJob, CrashJob, ReleaseLease
  <2>2. phase'[p] \in InFlight /\ phase[p] \in InFlight
    BY <1>0, <1>6 DEF StartJob, ExecutePlan, FinishJob, CrashJob, ReleaseLease, InFlight
  <2> QED  BY <1>5, <2>1, <2>2
<1>7. CASE OnDone(p) /\ t = s /\ pc[t] \in Inside
  <2>1. phase[p] = "finished" /\ UNCHANGED ready  BY <1>7 DEF OnDone
  <2>2. p \in active[s]
    <3>1. TrackedAt(p)  BY DEF Home, Tracked
    <3> QED  BY <1>7, <2>1, <3>1 DEF TrackedAt, Leaving, Inside, Dispatching
  <2>3. phase'[p] = "claimed"  BY <1>0, <1>7, <2>2 DEF OnDone
  <2> QED  BY <1>5, <2>1, <2>3 DEF InFlight
<1>8. CASE AppendInbandResult(p)
  <2> DEFINE st == IF outcome[p] = "ok" THEN "EXEC_DONE" ELSE "EXEC_ERROR"
  <2>1. /\ phase[p] = "released" /\ EpType[e] = "INBAND" /\ UNCHANGED ready
        /\ Accepts(result[p], st) => phase'[p] = "appended"
    BY <1>0, <1>8 DEF AppendInbandResult
  <2>2. result[p] \notin Executed  BY <2>1 DEF Placing, InbandOnce
  <2>3. Accepts(result[p], st)
    BY <1>0, <2>2 DEF Accepts, ResultPriority, Status, Skipped, Executed
  <2> QED  BY <1>5, <2>1, <2>3 DEF InFlight
<1>9. CASE GroupDone(p) /\ t = s /\ pc[t] \in Inside
  <2>1. /\ phase[p] = "released" /\ EpType[e] = "BMC" /\ UNCHANGED ready
        /\ phase' = [phase EXCEPT ![p] = "done"]
    BY <1>9 DEF GroupDone
  <2>2. \A x \in Endpoints : JobsAt(s, x)' = IF x = e THEN {} ELSE JobsAt(s, x)
    BY <1>2, <1>9, <2>1, JobsLeft DEF InFlight
  <2>3. queue[s][e] = <<>>
    <3>1. p \in JobsAt(s, e)  BY <2>1 DEF JobsAt, PlansAt, InFlight
    <3> QED  BY <1>0, <1>2, <1>9, <2>1, <3>1 DEF PlacedAt, PlaceOf
  <2>4. ASSUME NEW x \in Endpoints PROVE PlaceOf(s, x)'
    <3>1. PlaceOf(s, x)  BY <1>2, <1>9 DEF PlacedAt
    <3>2. CASE x = e  BY <1>1, <2>1, <2>2, <2>3, <3>1, <3>2 DEF PlaceOf
    <3>3. CASE x # e
      <4>1. JobsAt(s, x)' = JobsAt(s, x)  BY <2>2, <3>3
      <4> QED  BY <1>1, <2>1, <3>1, <4>1 DEF PlaceOf
    <3> QED  BY <3>2, <3>3
  <2> QED  BY <1>1, <1>2, <1>9, <2>1, <2>4 DEF PlacedAt
<1>10. CASE Requeue(p) /\ t = s /\ pc[t] \in Inside
  <2>1. /\ phase[p] = "appended" /\ phase' = [phase EXCEPT ![p] = "done"]
        /\ ready'[s] = ReadyAfter(s, e)
    BY <1>0, <1>10 DEF Requeue
  <2>2. \A x \in Endpoints : JobsAt(s, x)' = IF x = e THEN {} ELSE JobsAt(s, x)
    BY <1>2, <1>10, <2>1, JobsLeft DEF InFlight
  <2>3. Distinct(ready[s]) /\ \A x \in Endpoints : PlaceOf(s, x)
    BY <1>2, <1>10 DEF PlacedAt
  <2>4. e \notin SeqRange(ready[s]) /\ hand[s] # e
    <3>1. p \in JobsAt(s, e)  BY <2>1 DEF JobsAt, PlansAt, InFlight
    <3> QED  BY <1>0, <2>3, <3>1 DEF PlaceOf
  <2>5. /\ Distinct(ReadyAfter(s, e))
        /\ SeqRange(ReadyAfter(s, e)) =
             IF queue[s][e] # <<>> THEN SeqRange(ready[s]) \cup {e} ELSE SeqRange(ready[s])
    <3>1. ready[s] \in Seq(Endpoints)  BY <1>0
    <3>2. /\ SeqRange(Append(ready[s], e)) = SeqRange(ready[s]) \cup {e}
          /\ Distinct(Append(ready[s], e))
      BY <1>0, <2>3, <2>4, <3>1, ReadyFacts
    <3> QED  BY <2>3, <3>2 DEF ReadyAfter
  <2>6. ASSUME NEW x \in Endpoints PROVE PlaceOf(s, x)'
    <3>1. PlaceOf(s, x)  BY <2>3
    <3>2. CASE x = e
      <4>1. JobsAt(s, x)' = {}  BY <2>2, <3>2
      <4> QED  BY <1>1, <2>1, <2>4, <2>5, <3>2, <4>1 DEF PlaceOf
    <3>3. CASE x # e
      <4>1. JobsAt(s, x)' = JobsAt(s, x)  BY <2>2, <3>3
      <4>2. x \in SeqRange(ready'[s]) <=> x \in SeqRange(ready[s])
        BY <2>1, <2>5, <3>3
      <4> QED  BY <1>1, <3>1, <4>1, <4>2 DEF PlaceOf
    <3> QED  BY <3>2, <3>3
  <2> QED  BY <1>1, <1>2, <1>10, <2>1, <2>5, <2>6 DEF PlacedAt
<1> QED
  BY <1>3, <1>4, <1>6, <1>7, <1>8, <1>9, <1>10 DEF WorkerStep

(* What a main thread does leaves the other schedulers where they are.     *)
LEMMA OthersStay ==
  ASSUME TypeOK, DispatchConsistent, NEW s \in Scheds, MainStep(s) \/ FaultStep(s),
         NEW t \in Scheds \ {s}
  PROVE  /\ pc'[t] = pc[t] /\ ready'[t] = ready[t] /\ hand'[t] = hand[t]
         /\ queue'[t] = queue[t]
         /\ \A p \in Plans : OwnerOf[p] = t =>
              (phase'[p] \in InFlight <=> phase[p] \in InFlight)
<1>0. /\ pc \in [Scheds -> MainPcs] /\ ready \in [Scheds -> Seq(Endpoints)]
      /\ hand \in [Scheds -> Endpoints \cup {None}]
      /\ queue \in [Scheds -> [Endpoints -> Seq(Plans)]]
      /\ phase \in [Plans -> Phases]
  BY DEF TypeOK, MainTypeOK, TableTypeOK, JobTypeOK
<1>1. CASE LoopEnter(s) \/ LoopExit(s) \/ AdjustPools(s) \/ DispatchAborted(s)
  BY <1>0, <1>1 DEF LoopEnter, LoopExit, AdjustPools, DispatchAborted, jobVars
<1>2. CASE PoolFilled(s)
  BY <1>0, <1>2 DEF PoolFilled, NextPool, jobVars
<1>3. CASE TakeReady(s) \/ PutBack(s)
  BY <1>0, <1>3 DEF TakeReady, PutBack, jobVars
<1>4. CASE TryHold(s)
  BY <1>0, <1>4 DEF TryHold, jobVars
<1>5. CASE Submit(s)
  <2>1. OwnerOf[Head(take[s])] = s
    BY <1>5, TakeType DEF Submit, PlansAt
  <2> QED  BY <1>0, <1>5, <2>1 DEF Submit
<1>6. CASE SubmitFails(s)
  BY <1>0, <1>6 DEF SubmitFails, NextPool, jobVars
<1>7. CASE SkipPending(s)
  BY <1>0, <1>7 DEF SkipPending, jobVars
<1>8. CASE Drain(s) \/ ShutdownPools(s) \/ Return(s) \/ Interrupt(s)
  BY <1>0, <1>8 DEF Drain, ShutdownPools, Return, Interrupt, jobVars
<1>9. CASE CancelQueued(s)
  BY <1>0, <1>9 DEF CancelQueued, QueuedJobs, mainVars, InFlight
<1> QED
  BY <1>1, <1>2, <1>3, <1>4, <1>5, <1>6, <1>7, <1>8, <1>9 DEF MainStep, FaultStep

LEMMA MainPlaces ==
  ASSUME TypeOK, DispatchConsistent, NEW s \in Scheds, PlacedAt(s),
         MainStep(s) \/ FaultStep(s)
  PROVE  PlacedAt(s)'
<1>0. pc \in [Scheds -> MainPcs]  BY DEF TypeOK, MainTypeOK
<1> DEFINE Away == pc'[s] \notin Inside
           Still == /\ UNCHANGED <<ready, hand, queue, phase>>
                    /\ pc[s] \in Idle /\ pc'[s] \in Idle
<1>1. ASSUME Away PROVE PlacedAt(s)'  BY <1>1 DEF PlacedAt
<1>2. ASSUME Still PROVE PlacedAt(s)'  BY <1>2, PlacesStay
<1>3. CASE LoopEnter(s) \/ AdjustPools(s) \/ DispatchAborted(s)
  BY <1>0, <1>2, <1>3 DEF LoopEnter, AdjustPools, DispatchAborted, Idle, jobVars
<1>4. CASE PoolFilled(s)
  BY <1>0, <1>2, <1>4 DEF PoolFilled, NextPool, Idle, jobVars
<1>5. CASE LoopExit(s) \/ SkipPending(s) \/ Drain(s)
  BY <1>0, <1>1, <1>5 DEF LoopExit, SkipPending, Drain, Inside, Dispatching
<1>6. CASE ShutdownPools(s) \/ Return(s) \/ Interrupt(s)
  BY <1>0, <1>1, <1>6 DEF ShutdownPools, Return, Interrupt, Inside, Dispatching
<1>7. CASE CancelQueued(s)
  BY <1>0, <1>1, <1>7 DEF CancelQueued, mainVars, Inside, Dispatching
<1> QED
  BY <1>3, <1>4, <1>5, <1>6, <1>7, TakeReadyPlaces, PutBackPlaces, TryHoldPlaces,
     SubmitPlaces, SubmitFailsPlaces DEF MainStep, FaultStep

LEMMA PlacingInvariance == Spec => []Placing
<1>1. Init => Placing
  <2> SUFFICES ASSUME Init PROVE Placing
    OBVIOUS
  <2>1. InbandOnce  BY DEF Init, InbandOnce, Executed
  <2>2. ASSUME NEW s \in Scheds PROVE PlacedAt(s)
    <3>1. /\ hand[s] = None /\ ready[s] = Ready0[s] /\ pc[s] = "loop"
          /\ \A e \in Endpoints : queue[s][e] = InitialQueue(s, e)
          /\ \A e \in Endpoints : JobsAt(s, e) = {}
      BY DEF Init, JobsAt, PlansAt, InFlight
    <3>2. /\ SeqRange(Ready0[s]) = {e \in Endpoints : InitialQueue(s, e) # <<>>}
          /\ Distinct(Ready0[s])
      BY ReadyAssumption DEF Distinct
    <3>3. \A e \in Endpoints : PlaceOf(s, e)
      BY <3>1, <3>2, NoneAssumption DEF PlaceOf
    <3> QED  BY <3>1, <3>2, <3>3 DEF PlacedAt
  <2> QED  BY <2>1, <2>2 DEF Placing
<1>2. IndInv /\ PlanFlow /\ Home /\ Placing /\ [Next]_vars => Placing'
  <2> SUFFICES ASSUME IndInv, PlanFlow, Home, Placing, [Next]_vars PROVE Placing'
    OBVIOUS
  <2>0. TypeOK /\ DispatchConsistent /\ InbandOnce /\ \A t \in Scheds : PlacedAt(t)
    BY DEF IndInv, Placing
  <2>1. InbandOnce'  BY <2>0, InbandStep
  <2>2. ASSUME NEW s \in Scheds, MainStep(s) \/ FaultStep(s), NEW t \in Scheds
        PROVE  PlacedAt(t)'
    <3>1. CASE t = s  BY <2>0, <2>2, <3>1, MainPlaces
    <3>2. CASE t # s  BY <2>0, <2>2, <3>2, OthersStay, PlacesStay
    <3> QED  BY <3>1, <3>2
  <2>3. ASSUME NEW p \in Plans, WorkerStep(p) \/ CrashJob(p), NEW t \in Scheds
        PROVE  PlacedAt(t)'
    BY <2>0, <2>3, WorkerPlaces
  <2>4. ASSUME UNCHANGED <<mainVars, jobVars, poolVars, queue, ready>>, NEW t \in Scheds
        PROVE  PlacedAt(t)'
    BY <2>0, <2>4, PlacesStay DEF mainVars, jobVars
  <2>5. \A t \in Scheds : PlacedAt(t)'
    BY <2>2, <2>3, <2>4, OutsideUntouched DEF Next, Terminated
  <2> QED  BY <2>1, <2>5 DEF Placing
<1> QED  BY <1>1, <1>2, Invariance, FlowInvariance, HomeInvariance, PTL DEF Spec

(* The positions of an endpoint in a ready list without repetitions.       *)
LEMMA ReadyOnce ==
  ASSUME NEW q \in Seq(Endpoints), Distinct(q), NEW e \in Endpoints
  PROVE  Cardinality({i \in DOMAIN q : q[i] = e}) = IF e \in SeqRange(q) THEN 1 ELSE 0
<1> DEFINE I == {i \in DOMAIN q : q[i] = e}
<1>1. CASE e \in SeqRange(q)
  <2>1. PICK i \in DOMAIN q : q[i] = e  BY <1>1 DEF SeqRange
  <2>2. I = {i}  BY <2>1 DEF Distinct
  <2> QED  BY <1>1, <2>2, FS_Singleton
<1>2. CASE e \notin SeqRange(q)
  <2>1. I = {}  BY <1>2 DEF SeqRange
  <2> QED  BY <1>2, <2>1, FS_EmptySet
<1> QED  BY <1>1, <1>2

(* No lost wakeup: an endpoint with plans left is in the ready list once,  *)
(* or in the main thread's hand, or has one job whose callback requeues it. *)
THEOREM Stranded == Spec => []NoStrandedEndpoint
<1>1. TypeOK /\ Placing => NoStrandedEndpoint
  <2> SUFFICES ASSUME TypeOK, Placing, NEW s \in Scheds, NEW e \in Endpoints,
                      pc[s] \in {"loop", "pausewait", "check", "pick", "submit"}
               PROVE  LET places == Cardinality({i \in DOMAIN ready[s] : ready[s][i] = e})
                                    + (IF hand[s] = e THEN 1 ELSE 0)
                                    + Cardinality({p \in PlansAt(s, e) : phase[p] \in InFlight})
                      IN  /\ places <= 1
                          /\ queue[s][e] # <<>> => places = 1
                          /\ pc[s] = "pick" /\ hand[s] = e => queue[s][e] # <<>>
    BY DEF NoStrandedEndpoint
  <2> DEFINE R == Cardinality({i \in DOMAIN ready[s] : ready[s][i] = e})
             H == IF hand[s] = e THEN 1 ELSE 0
             J == Cardinality({p \in PlansAt(s, e) : phase[p] \in InFlight})
  <2>1. Distinct(ready[s]) /\ PlaceOf(s, e)
    BY DEF Placing, PlacedAt, Inside, Dispatching
  <2>2. R = IF e \in SeqRange(ready[s]) THEN 1 ELSE 0
    <3>1. ready[s] \in Seq(Endpoints)  BY DEF TypeOK, TableTypeOK
    <3> QED  BY <2>1, <3>1, ReadyOnce
  <2>3. J = IF JobsAt(s, e) # {} THEN 1 ELSE 0
    <3>1. J = Cardinality(JobsAt(s, e))  BY DEF JobsAt
    <3>2. CASE JobsAt(s, e) = {}  BY <3>1, <3>2, FS_EmptySet
    <3>3. CASE JobsAt(s, e) # {}
      <4>1. PICK p \in JobsAt(s, e) : TRUE  BY <3>3
      <4>2. JobsAt(s, e) = {p}  BY <2>1, <4>1 DEF PlaceOf
      <4> QED  BY <3>1, <3>3, <4>2, FS_Singleton
    <3> QED  BY <3>2, <3>3
  <2>4. R + H + J <= 1  BY <2>1, <2>2, <2>3 DEF PlaceOf
  <2>5. queue[s][e] # <<>> => R + H + J = 1  BY <2>1, <2>2, <2>3 DEF PlaceOf
  <2>6. pc[s] = "pick" /\ hand[s] = e => queue[s][e] # <<>>  BY <2>1 DEF PlaceOf
  <2> QED  BY <2>4, <2>5, <2>6
<1> QED  BY <1>1, TypeCorrect, PlacingInvariance, PTL
-----------------------------------------------------------------------------
(* The order in which the plans of an endpoint are executed.               *)

(* p comes before q in the plans of their endpoint.                        *)
Before(p, q) ==
  \E i, j \in DOMAIN Queue0[OwnerOf[p]][EpOf[p]] :
    /\ i < j
    /\ Queue0[OwnerOf[p]][EpOf[p]][i] = p
    /\ Queue0[OwnerOf[p]][EpOf[p]][j] = q

Ordered(w) == \A i, j \in DOMAIN w : Before(w[i], w[j]) => i < j

(* What comes before a plan of w was executed or is in w as well.          *)
Ahead(w) ==
  \A q \in SeqRange(w), p \in Plans :
    Before(p, q) => runs[p] > 0 \/ p \in SeqRange(w)

RunsOrdered == \A p, q \in Plans : Before(p, q) /\ runs[q] > 0 => runs[p] > 0

JobOrder == \A h \in Plans : phase[h] \in Begun => Ordered(todo[h]) /\ Ahead(todo[h])

TakeOrder ==
  \A s \in Scheds : pc[s] = "submit" =>
    /\ Ordered(take[s]) /\ Ahead(take[s])
    /\ \A q \in SeqRange(queue[s][hand[s]]), p \in SeqRange(take[s]) : ~Before(q, p)

(* p, which comes before a plan queued for e, is not left behind.          *)
Passed(s, e, p) ==
  \/ runs[p] > 0
  \/ p \in SeqRange(queue[s][e])
  \/ pc[s] = "submit" /\ hand[s] = e /\ p \in SeqRange(take[s])
  \/ \E h \in JobsAt(s, e) : p \in SeqRange(todo[h])

QueueOrder ==
  \A s \in Scheds, e \in Endpoints :
    /\ Ordered(queue[s][e])
    /\ pc[s] \in Inside =>
         \A q \in SeqRange(queue[s][e]), p \in Plans : Before(p, q) => Passed(s, e, p)

(* An INBAND ghost is of a plan whose turn had come.                       *)
Haunting == {"queued", "running"}

GhostOrder ==
  \A g \in Plans : EpType[EpOf[g]] = "INBAND" /\ ghost[g] \in Haunting =>
    \A p \in Plans : Before(p, g) => runs[p] > 0

(* An INBAND job ends by executing its plan, unless a shutdown cancels it.  *)
Ended == {"finished", "claimed", "released", "appended"}

EndedEmpty ==
  \A h \in Plans :
    EpType[EpOf[h]] = "INBAND" /\ pc[OwnerOf[h]] \in Inside /\ phase[h] \in Ended =>
      todo[h] = <<>>

Fifo ==
  RunsOrdered /\ JobOrder /\ TakeOrder /\ QueueOrder /\ GhostOrder /\ EndedEmpty

(* Only plans of one endpoint come one before the other.                   *)
LEMMA BeforeFacts ==
  ASSUME NEW p \in Plans
  PROVE  /\ ~Before(p, p)
         /\ \A q : Before(p, q) =>
              q \in Plans /\ OwnerOf[q] = OwnerOf[p] /\ EpOf[q] = EpOf[p]
<1> DEFINE Q == Queue0[OwnerOf[p]][EpOf[p]]
<1>1. OwnerOf[p] \in Scheds /\ EpOf[p] \in Endpoints  BY PlanAssumption
<1>2. /\ Q \in Seq(PlansAt(OwnerOf[p], EpOf[p]))
      /\ \A i, j \in DOMAIN Q : Q[i] = Q[j] => i = j
  BY <1>1, QueueAssumption
<1>3. DOMAIN Q \subseteq Nat /\ \A i \in DOMAIN Q : Q[i] \in PlansAt(OwnerOf[p], EpOf[p])
  BY <1>2
<1>4. ~Before(p, p)
  <2>1. ASSUME NEW i \in DOMAIN Q, NEW j \in DOMAIN Q, i < j, Q[i] = p, Q[j] = p
        PROVE  FALSE
    <3>1. i = j  BY <1>2, <2>1
    <3> QED  BY <1>3, <2>1, <3>1
  <2> QED  BY <2>1 DEF Before
<1>5. \A q : Before(p, q) => q \in PlansAt(OwnerOf[p], EpOf[p])
  BY <1>3 DEF Before
<1> QED  BY <1>4, <1>5 DEF PlansAt

(* Nothing in an ordered sequence comes before its head.                   *)
LEMMA OrderFacts ==
  ASSUME NEW w \in Seq(Plans), w # <<>>, Ordered(w)
  PROVE  /\ Ordered(Tail(w))
         /\ \A q \in SeqRange(w) : ~Before(q, Head(w))
<1>1. /\ DOMAIN w = 1 .. Len(w) /\ Len(w) \in Nat \ {0} /\ Head(w) = w[1]
      /\ DOMAIN Tail(w) = 1 .. (Len(w) - 1)
      /\ \A i \in 1 .. (Len(w) - 1) : Tail(w)[i] = w[i + 1]
  OBVIOUS
<1>2. ASSUME NEW i \in 1 .. (Len(w) - 1), NEW j \in 1 .. (Len(w) - 1),
             Before(Tail(w)[i], Tail(w)[j])
      PROVE  i < j
  <2>1. i + 1 \in 1 .. Len(w) /\ j + 1 \in 1 .. Len(w)  BY <1>1
  <2>2. Before(w[i + 1], w[j + 1])  BY <1>1, <1>2
  <2>3. i + 1 < j + 1  BY <1>1, <2>1, <2>2 DEF Ordered
  <2> QED  BY <1>1, <2>3
<1>3. ASSUME NEW i \in 1 .. Len(w), Before(w[i], w[1]) PROVE FALSE
  <2>1. 1 \in 1 .. Len(w)  BY <1>1
  <2>2. i < 1  BY <1>1, <1>3, <2>1 DEF Ordered
  <2> QED  BY <1>1, <2>2
<1>4. Ordered(Tail(w))  BY <1>1, <1>2 DEF Ordered
<1> QED  BY <1>1, <1>3, <1>4 DEF SeqRange

LEMMA OrderShort ==
  ASSUME NEW p \in Plans
  PROVE  Ordered(<<>>) /\ Ordered(<<p>>)
<1>1. Ordered(<<>>)  BY DEF Ordered
<1>2. DOMAIN <<p>> = {1} /\ <<p>>[1] = p  OBVIOUS
<1>3. Ordered(<<p>>)  BY <1>2, BeforeFacts DEF Ordered
<1> QED  BY <1>1, <1>3

LEMMA OrderConcat ==
  ASSUME NEW a \in Seq(Plans), NEW b \in Seq(Plans), Ordered(a), Ordered(b),
         \A q \in SeqRange(b), p \in SeqRange(a) : ~Before(q, p)
  PROVE  Ordered(a \o b)
<1>1. /\ Len(a) \in Nat /\ Len(b) \in Nat
      /\ DOMAIN a = 1 .. Len(a) /\ DOMAIN b = 1 .. Len(b)
      /\ DOMAIN (a \o b) = 1 .. (Len(a) + Len(b))
      /\ \A i \in 1 .. (Len(a) + Len(b)) :
           (a \o b)[i] = IF i <= Len(a) THEN a[i] ELSE b[i - Len(a)]
  OBVIOUS
<1>2. \A i \in 1 .. (Len(a) + Len(b)) :
        \/ i \in 1 .. Len(a) /\ (a \o b)[i] = a[i]
        \/ i - Len(a) \in 1 .. Len(b) /\ (a \o b)[i] = b[i - Len(a)] /\ i > Len(a)
  BY <1>1
<1> SUFFICES ASSUME NEW i \in 1 .. (Len(a) + Len(b)), NEW j \in 1 .. (Len(a) + Len(b)),
                    Before((a \o b)[i], (a \o b)[j])
             PROVE  i < j
  BY <1>1 DEF Ordered
<1>3. CASE i \in 1 .. Len(a) /\ j \in 1 .. Len(a) /\ Before(a[i], a[j])
  BY <1>1, <1>3 DEF Ordered
<1>4. CASE i \in 1 .. Len(a) /\ j > Len(a)
  BY <1>1, <1>4
<1>5. CASE /\ i - Len(a) \in 1 .. Len(b) /\ j \in 1 .. Len(a)
           /\ Before(b[i - Len(a)], a[j])
  <2>1. b[i - Len(a)] \in SeqRange(b) /\ a[j] \in SeqRange(a)
    BY <1>1, <1>5 DEF SeqRange
  <2> QED  BY <1>5, <2>1
<1>6. CASE /\ i - Len(a) \in 1 .. Len(b) /\ j - Len(a) \in 1 .. Len(b)
           /\ Before(b[i - Len(a)], b[j - Len(a)])
  <2>1. i - Len(a) < j - Len(a)  BY <1>1, <1>6 DEF Ordered
  <2> QED  BY <1>1, <2>1
<1>7. \/ i \in 1 .. Len(a) /\ (a \o b)[i] = a[i]
      \/ i - Len(a) \in 1 .. Len(b) /\ (a \o b)[i] = b[i - Len(a)] /\ i > Len(a)
  BY <1>2
<1>8. \/ j \in 1 .. Len(a) /\ (a \o b)[j] = a[j]
      \/ j - Len(a) \in 1 .. Len(b) /\ (a \o b)[j] = b[j - Len(a)] /\ j > Len(a)
  BY <1>2
<1> QED  BY <1>3, <1>4, <1>5, <1>6, <1>7, <1>8

(* Steps that move and execute no plan: a main thread stays at its submit  *)
(* or leaves the dispatch, a job has nothing left when it is over.         *)
LEMMA FifoQuiet ==
  ASSUME Fifo, UNCHANGED <<queue, take, todo, runs>>,
         \A t \in Scheds :
           /\ pc'[t] = "submit" <=> pc'[t] \in Inside /\ pc[t] = "submit"
           /\ pc'[t] = "submit" => hand'[t] = hand[t]
           /\ pc'[t] \in Inside => pc[t] \in Inside,
         \A h \in Plans :
           /\ phase'[h] \in Begun => phase[h] \in Begun
           /\ pc'[OwnerOf[h]] \in Inside /\ phase[h] \in InFlight =>
                \/ phase'[h] \in InFlight
                \/ todo[h] = <<>>
                \/ queue[OwnerOf[h]][EpOf[h]] = <<>>
           /\ pc'[OwnerOf[h]] \in Inside /\ phase'[h] \in Ended /\ EpType[EpOf[h]] = "INBAND" =>
                phase[h] \in Ended \/ todo[h] = <<>>
           /\ ghost'[h] \in Haunting => ghost[h] \in Haunting
  PROVE  Fifo'
<1>1. RunsOrdered' /\ GhostOrder'
  BY DEF Fifo, RunsOrdered, GhostOrder
<1>2. \A w : Ahead(w)' <=> Ahead(w)  BY DEF Ahead
<1>3. JobOrder'  BY <1>2 DEF Fifo, JobOrder
<1>4. TakeOrder'
  <2> SUFFICES ASSUME NEW s \in Scheds, pc'[s] = "submit"
               PROVE  /\ Ordered(take'[s]) /\ Ahead(take[s])
                      /\ \A q \in SeqRange(queue'[s][hand'[s]]), p \in SeqRange(take'[s]) :
                           ~Before(q, p)
    BY DEF TakeOrder, Ahead
  <2> QED  BY DEF Fifo, TakeOrder
<1>5. QueueOrder'
  <2> SUFFICES ASSUME NEW s \in Scheds, NEW e \in Endpoints
               PROVE  /\ Ordered(queue'[s][e])
                      /\ pc'[s] \in Inside =>
                           \A q \in SeqRange(queue'[s][e]), p \in Plans :
                             Before(p, q) => Passed(s, e, p)'
    BY DEF QueueOrder
  <2>1. Ordered(queue'[s][e])  BY DEF Fifo, QueueOrder
  <2>2. ASSUME pc'[s] \in Inside, NEW q \in SeqRange(queue[s][e]), NEW p \in Plans,
               Before(p, q)
        PROVE  Passed(s, e, p)'
    <3>1. Passed(s, e, p)  BY <2>2 DEF Fifo, QueueOrder
    <3>2. ASSUME NEW h \in JobsAt(s, e), p \in SeqRange(todo[h])
          PROVE  h \in JobsAt(s, e)' /\ p \in SeqRange(todo'[h])
      <4>1. todo[h] # <<>> /\ queue[s][e] # <<>>  BY <2>2, <3>2, ShortFacts
      <4> QED  BY <2>2, <3>2, <4>1 DEF JobsAt, PlansAt
    <3>3. pc[s] = "submit" => pc'[s] = "submit" /\ hand'[s] = hand[s]
      BY <2>2
    <3> QED  BY <3>1, <3>2, <3>3 DEF Passed
  <2> QED  BY <2>1, <2>2
<1>6. EndedEmpty'
  BY PlanAssumption DEF Fifo, EndedEmpty
<1> QED  BY <1>1, <1>3, <1>4, <1>5, <1>6 DEF Fifo

(* The plans popped for a job are the first ones, and in order.            *)
LEMMA TryHoldFifo ==
  ASSUME TypeOK, DispatchConsistent, Placing, Fifo, NEW s \in Scheds, TryHold(s)
  PROVE  Fifo'
<1> DEFINE e == hand[s]
           q == queue[s][e]
<1>0. /\ pc \in [Scheds -> MainPcs] /\ take \in [Scheds -> Seq(Plans)]
      /\ queue \in [Scheds -> [Endpoints -> Seq(Plans)]]
      /\ EpType \in [Endpoints -> {"BMC", "INBAND"}]
  BY PlanAssumption DEF TypeOK, MainTypeOK, TableTypeOK, Pools
<1>1. /\ pc[s] = "pick" /\ e \in Endpoints /\ q # <<>> /\ q \in Seq(Plans)
      /\ pc' = [pc EXCEPT ![s] = "submit"]
      /\ take' = [take EXCEPT ![s] = Batch(s, e)]
      /\ queue' = [queue EXCEPT ![s][e] = Rest(s, e)]
      /\ UNCHANGED <<hand, phase, todo, runs, ghost>>
  BY <1>0 DEF TryHold, DispatchConsistent, jobVars
<1>2. pc[s] \in Inside /\ JobsAt(s, e) = {}
  BY <1>1 DEF Placing, PlacedAt, PlaceOf, Inside, Dispatching
<1>3. Ordered(q) /\ Ahead(q)
  <2>1. \A r \in SeqRange(q), p \in Plans : Before(p, r) => Passed(s, e, p)
    BY <1>1, <1>2 DEF Fifo, QueueOrder
  <2>2. \A p \in Plans : Passed(s, e, p) => runs[p] > 0 \/ p \in SeqRange(q)
    BY <1>1, <1>2 DEF Passed
  <2> QED  BY <1>1, <2>1, <2>2 DEF Fifo, QueueOrder, Ahead
<1>4. \/ Batch(s, e) = q /\ Rest(s, e) = <<>>
      \/ Batch(s, e) = <<Head(q)>> /\ Rest(s, e) = Tail(q)
  BY DEF Batch, Rest
<1>5. /\ Head(q) \in Plans /\ SeqRange(q) = {Head(q)} \cup SeqRange(Tail(q))
      /\ Ordered(Tail(q)) /\ \A r \in SeqRange(q) : ~Before(r, Head(q))
  BY <1>1, <1>3, TailFacts, OrderFacts
<1>6. /\ SeqRange(<<Head(q)>>) = {Head(q)} /\ Ordered(<<Head(q)>>)
      /\ SeqRange(<<>>) = {} /\ Ordered(<<>>)
  BY <1>5, ShortFacts, OrderShort
<1>7. /\ Ordered(Batch(s, e)) /\ Ordered(Rest(s, e))
      /\ SeqRange(q) = SeqRange(Batch(s, e)) \cup SeqRange(Rest(s, e))
      /\ \A r \in SeqRange(Rest(s, e)), p \in SeqRange(Batch(s, e)) : ~Before(r, p)
  BY <1>3, <1>4, <1>5, <1>6
<1>8. Ahead(Batch(s, e))
  <2>1. CASE Batch(s, e) = q  BY <1>3, <2>1
  <2>2. CASE Batch(s, e) = <<Head(q)>>
    <3>1. \A p \in Plans : Before(p, Head(q)) => runs[p] > 0
      BY <1>3, <1>5 DEF Ahead
    <3> QED  BY <1>6, <2>2, <3>1 DEF Ahead
  <2> QED  BY <1>4, <2>1, <2>2
<1>9. RunsOrdered' /\ GhostOrder'
  BY <1>1 DEF Fifo, RunsOrdered, GhostOrder
<1>10. JobOrder'  BY <1>1 DEF Fifo, JobOrder, Ahead
<1>11. TakeOrder'
  <2> SUFFICES ASSUME NEW t \in Scheds, pc'[t] = "submit"
               PROVE  /\ Ordered(take'[t]) /\ Ahead(take[t])'
                      /\ \A r \in SeqRange(queue'[t][hand'[t]]), p \in SeqRange(take'[t]) :
                           ~Before(r, p)
    BY DEF TakeOrder
  <2>1. CASE t = s
    <3>1. take'[t] = Batch(s, e) /\ queue'[t][hand'[t]] = Rest(s, e)
      BY <1>0, <1>1, <2>1
    <3>2. Ahead(take[t])'  BY <1>1, <1>8, <3>1 DEF Ahead
    <3> QED  BY <1>7, <3>1, <3>2
  <2>2. CASE t # s
    <3>1. /\ take'[t] = take[t] /\ queue'[t] = queue[t] /\ hand'[t] = hand[t]
          /\ pc[t] = "submit"
      BY <1>0, <1>1, <2>2
    <3>2. Ahead(take[t])  BY <3>1 DEF Fifo, TakeOrder
    <3>3. Ahead(take[t])'  BY <1>1, <3>1, <3>2 DEF Ahead
    <3> QED  BY <3>1, <3>3 DEF Fifo, TakeOrder
  <2> QED  BY <2>1, <2>2
<1>12. QueueOrder'
  <2> SUFFICES ASSUME NEW t \in Scheds, NEW x \in Endpoints
               PROVE  /\ Ordered(queue'[t][x])
                      /\ pc'[t] \in Inside =>
                           \A r \in SeqRange(queue'[t][x]), p \in Plans :
                             Before(p, r) => Passed(t, x, p)'
    BY DEF QueueOrder
  <2>1. CASE t = s /\ x = e
    <3>1. /\ queue'[t][x] = Rest(s, e) /\ take'[t] = Batch(s, e)
          /\ pc'[t] = "submit" /\ hand'[t] = x
      BY <1>0, <1>1, <2>1
    <3>2. ASSUME NEW r \in SeqRange(Rest(s, e)), NEW p \in Plans, Before(p, r)
          PROVE  Passed(t, x, p)'
      <4>1. runs[p] > 0 \/ p \in SeqRange(q)  BY <1>3, <1>7, <3>2 DEF Ahead
      <4> QED  BY <1>1, <1>7, <3>1, <4>1 DEF Passed
    <3> QED  BY <1>7, <3>1, <3>2
  <2>2. CASE ~(t = s /\ x = e)
    <3>1. queue'[t][x] = queue[t][x]  BY <1>0, <1>1, <2>2
    <3>2. pc'[t] \in Inside => pc[t] \in Inside  BY <1>0, <1>1, <1>2
    <3>3. pc[t] = "submit" => pc'[t] = "submit" /\ take'[t] = take[t]
      BY <1>0, <1>1
    <3>4. \A p \in Plans : Passed(t, x, p) => Passed(t, x, p)'
      BY <1>1, <3>1, <3>3 DEF Passed, JobsAt
    <3> QED  BY <3>1, <3>2, <3>4 DEF Fifo, QueueOrder
  <2> QED  BY <2>1, <2>2
<1>13. EndedEmpty'
  <2>1. \A t \in Scheds : pc'[t] \in Inside => pc[t] \in Inside
    BY <1>0, <1>1, <1>2
  <2> QED  BY <1>1, <2>1, PlanAssumption DEF Fifo, EndedEmpty
<1> QED  BY <1>9, <1>10, <1>11, <1>12, <1>13 DEF Fifo

(* They become the job of their first one.                                 *)
LEMMA SubmitFifo ==
  ASSUME TypeOK, DispatchConsistent, PlanFlow, Placing, Fifo, NEW s \in Scheds, Submit(s)
  PROVE  Fifo'
<1> DEFINE e == hand[s]
           h == Head(take[s])
<1>0. /\ pc \in [Scheds -> MainPcs] /\ take \in [Scheds -> Seq(Plans)]
      /\ hand \in [Scheds -> Endpoints \cup {None}]
      /\ phase \in [Plans -> Phases] /\ todo \in [Plans -> Seq(Plans)]
  BY DEF TypeOK, MainTypeOK, JobTypeOK
<1>1. /\ pc[s] = "submit" /\ pc' = [pc EXCEPT ![s] = "check"]
      /\ hand' = [hand EXCEPT ![s] = None]
      /\ take' = [take EXCEPT ![s] = <<>>]
      /\ phase' = [phase EXCEPT ![h] = "queued"]
      /\ todo' = [todo EXCEPT ![h] = take[s]]
      /\ UNCHANGED <<queue, runs, ghost>>
  BY DEF Submit
<1>2. /\ e \in Endpoints /\ h \in PlansAt(s, e)
      /\ h \in Plans /\ OwnerOf[h] = s /\ EpOf[h] = e
  BY <1>1, TakeType DEF DispatchConsistent, PlansAt
<1>3. Ordered(take[s]) /\ Ahead(take[s])  BY <1>1 DEF Fifo, TakeOrder
<1>4. phase[h] = "none"
  <2>1. h \in SeqRange(take[s])
    BY <1>0, <1>1, TailFacts DEF DispatchConsistent
  <2> QED  BY <1>1, <2>1 DEF PlanFlow, TakeFresh
<1>5. /\ todo'[h] = take[s] /\ phase'[h] = "queued"
      /\ \A g \in Plans \ {h} : todo'[g] = todo[g] /\ phase'[g] = phase[g]
  BY <1>0, <1>1, <1>2
<1>6. \A w : Ahead(w) => Ahead(w)'  BY <1>1 DEF Ahead
<1>7. \A t \in Scheds : pc'[t] \in Inside => pc[t] \in Inside
  BY <1>0, <1>1 DEF Inside
<1>8. RunsOrdered' /\ GhostOrder'
  BY <1>1 DEF Fifo, RunsOrdered, GhostOrder
<1>9. JobOrder'
  <2> SUFFICES ASSUME NEW g \in Plans, phase'[g] \in Begun
               PROVE  Ordered(todo'[g]) /\ Ahead(todo[g])'
    BY DEF JobOrder
  <2>1. CASE g = h
    <3>1. Ahead(take[s])  BY <1>3
    <3>2. Ahead(todo[g])'  BY <1>1, <1>5, <2>1, <3>1 DEF Ahead
    <3> QED  BY <1>3, <1>5, <2>1, <3>2
  <2>2. CASE g # h
    <3>1. todo'[g] = todo[g] /\ Ordered(todo[g]) /\ Ahead(todo[g])
      BY <1>5, <2>2 DEF Fifo, JobOrder
    <3>2. Ahead(todo[g])'  BY <1>1, <3>1 DEF Ahead
    <3> QED  BY <3>1, <3>2
  <2> QED  BY <2>1, <2>2
<1>10. TakeOrder'
  <2> SUFFICES ASSUME NEW t \in Scheds, pc'[t] = "submit"
               PROVE  /\ Ordered(take'[t]) /\ Ahead(take[t])'
                      /\ \A r \in SeqRange(queue'[t][hand'[t]]), p \in SeqRange(take'[t]) :
                           ~Before(r, p)
    BY DEF TakeOrder
  <2>1. /\ take'[t] = take[t] /\ queue'[t] = queue[t] /\ hand'[t] = hand[t]
        /\ pc[t] = "submit"
    BY <1>0, <1>1
  <2>2. Ahead(take[t])  BY <2>1 DEF Fifo, TakeOrder
  <2>3. Ahead(take[t])'  BY <1>1, <2>1, <2>2 DEF Ahead
  <2> QED  BY <2>1, <2>3 DEF Fifo, TakeOrder
<1>11. QueueOrder'
  <2> SUFFICES ASSUME NEW t \in Scheds, NEW x \in Endpoints
               PROVE  /\ Ordered(queue'[t][x])
                      /\ pc'[t] \in Inside =>
                           \A r \in SeqRange(queue'[t][x]), p \in Plans :
                             Before(p, r) => Passed(t, x, p)'
    BY DEF QueueOrder
  <2>1. ASSUME NEW g \in JobsAt(t, x) PROVE g \in JobsAt(t, x)' /\ todo'[g] = todo[g]
    <3>1. g \in Plans /\ g # h  BY <1>4 DEF JobsAt, PlansAt, InFlight
    <3> QED  BY <1>5, <3>1 DEF JobsAt
  <2>2. ASSUME pc[t] = "submit", hand[t] = x, NEW p \in SeqRange(take[t])
        PROVE  \/ pc'[t] = "submit" /\ hand'[t] = x /\ p \in SeqRange(take'[t])
               \/ \E g \in JobsAt(t, x)' : p \in SeqRange(todo'[g])
    <3>1. CASE t = s
      <4>1. h \in PlansAt(t, x) /\ phase'[h] \in InFlight
        BY <1>2, <1>5, <2>2, <3>1 DEF InFlight
      <4>2. \E g \in PlansAt(t, x) : phase'[g] \in InFlight /\ todo'[g] = take[s]
        BY <1>5, <4>1
      <4> QED  BY <2>2, <3>1, <4>2 DEF JobsAt
    <3>2. CASE t # s  BY <1>0, <1>1, <2>2, <3>2
    <3> QED  BY <3>1, <3>2
  <2>3. \A p \in Plans : Passed(t, x, p) => Passed(t, x, p)'
    BY <1>1, <2>1, <2>2 DEF Passed
  <2> QED  BY <1>1, <1>7, <2>3 DEF Fifo, QueueOrder
<1>12. EndedEmpty'
  BY <1>5, <1>7, PlanAssumption DEF Fifo, EndedEmpty, Ended
<1> QED  BY <1>8, <1>9, <1>10, <1>11, <1>12 DEF Fifo

(* Or are put back before the rest, in their order.                        *)
LEMMA SubmitFailsFifo ==
  ASSUME TypeOK, DispatchConsistent, PlanFlow, Placing, Fifo, NEW s \in Scheds,
         SubmitFails(s)
  PROVE  Fifo'
<1> DEFINE e == hand[s]
           q == queue[s][e]
           h == Head(take[s])
<1>0. /\ pc \in [Scheds -> MainPcs] /\ take \in [Scheds -> Seq(Plans)]
      /\ hand \in [Scheds -> Endpoints \cup {None}]
      /\ queue \in [Scheds -> [Endpoints -> Seq(Plans)]]
      /\ ghost \in [Plans -> {"none", "queued", "running", "ran"}]
  BY DEF TypeOK, MainTypeOK, TableTypeOK, JobTypeOK
<1>1. /\ pc[s] = "submit" /\ e \in Endpoints
      /\ q \in Seq(Plans) /\ take[s] \in Seq(Plans) /\ take[s] # <<>>
      /\ pc' = [pc EXCEPT ![s] = "check"] \/ pc' = [pc EXCEPT ![s] = "loop"]
      /\ hand' = [hand EXCEPT ![s] = None]
      /\ take' = [take EXCEPT ![s] = <<>>]
      /\ queue' = [queue EXCEPT ![s][e] = PutPlansBack(s)]
      /\ ghost' = ghost \/ ghost' = [ghost EXCEPT ![h] = "queued"]
      /\ UNCHANGED <<phase, todo, runs>>
  BY <1>0 DEF SubmitFails, NextPool, DispatchConsistent, jobVars
<1>2. /\ h \in Plans /\ EpOf[h] = e
      /\ EpType[e] = "INBAND" => take[s] = <<h>>
  BY <1>1, TakeType DEF PlansAt, PlanFlow, TakeFresh
<1>3. /\ Ordered(take[s]) /\ Ahead(take[s]) /\ Ordered(q)
      /\ \A r \in SeqRange(q), p \in SeqRange(take[s]) : ~Before(r, p)
  BY <1>1 DEF Fifo, TakeOrder, QueueOrder
<1>4. /\ SeqRange(PutPlansBack(s)) = SeqRange(take[s]) \cup SeqRange(q)
      /\ Ordered(PutPlansBack(s))
  BY <1>1, <1>3, ConcatFacts, OrderConcat DEF PutPlansBack
<1>5. JobsAt(s, e) = {}
  BY <1>1 DEF Placing, PlacedAt, PlaceOf, Inside
<1>6. \A t \in Scheds : pc'[t] \in Inside => pc[t] \in Inside
  BY <1>0, <1>1 DEF Inside
<1>7. RunsOrdered'  BY <1>1 DEF Fifo, RunsOrdered
<1>8. GhostOrder'
  <2>1. ASSUME EpType[e] = "INBAND", NEW p \in Plans, Before(p, h) PROVE runs[p] > 0
    <3>1. SeqRange(take[s]) = {h}  BY <1>2, <2>1, ShortFacts
    <3>2. runs[p] > 0 \/ p = h  BY <1>3, <2>1, <3>1 DEF Ahead
    <3> QED  BY <2>1, <3>2, BeforeFacts
  <2>2. \A g \in Plans : g # h => ghost'[g] = ghost[g]  BY <1>0, <1>1
  <2> QED  BY <1>1, <1>2, <2>1, <2>2 DEF Fifo, GhostOrder
<1>9. JobOrder'  BY <1>1 DEF Fifo, JobOrder, Ahead
<1>10. TakeOrder'
  <2> SUFFICES ASSUME NEW t \in Scheds, pc'[t] = "submit"
               PROVE  /\ Ordered(take'[t]) /\ Ahead(take[t])'
                      /\ \A r \in SeqRange(queue'[t][hand'[t]]), p \in SeqRange(take'[t]) :
                           ~Before(r, p)
    BY DEF TakeOrder
  <2>1. /\ take'[t] = take[t] /\ queue'[t] = queue[t] /\ hand'[t] = hand[t]
        /\ pc[t] = "submit"
    BY <1>0, <1>1
  <2>2. Ahead(take[t])  BY <2>1 DEF Fifo, TakeOrder
  <2>3. Ahead(take[t])'  BY <1>1, <2>1, <2>2 DEF Ahead
  <2> QED  BY <2>1, <2>3 DEF Fifo, TakeOrder
<1>11. QueueOrder'
  <2> SUFFICES ASSUME NEW t \in Scheds, NEW x \in Endpoints
               PROVE  /\ Ordered(queue'[t][x])
                      /\ pc'[t] \in Inside =>
                           \A r \in SeqRange(queue'[t][x]), p \in Plans :
                             Before(p, r) => Passed(t, x, p)'
    BY DEF QueueOrder
  <2>1. CASE t = s /\ x = e
    <3>1. queue'[t][x] = PutPlansBack(s)  BY <1>0, <1>1, <2>1
    <3>2. ASSUME NEW r \in SeqRange(PutPlansBack(s)), NEW p \in Plans, Before(p, r)
          PROVE  runs[p] > 0 \/ p \in SeqRange(PutPlansBack(s))
      <4>1. CASE r \in SeqRange(take[s])  BY <1>3, <1>4, <3>2, <4>1 DEF Ahead
      <4>2. CASE r \in SeqRange(q)
        <5>1. Passed(s, e, p)
          BY <1>1, <3>2, <4>2 DEF Fifo, QueueOrder, Inside
        <5> QED  BY <1>4, <1>5, <5>1 DEF Passed
      <4> QED  BY <1>4, <3>2, <4>1, <4>2
    <3>3. \A p \in Plans : runs[p] > 0 \/ p \in SeqRange(PutPlansBack(s)) =>
            Passed(t, x, p)'
      BY <1>1, <3>1 DEF Passed
    <3> QED  BY <1>4, <3>1, <3>2, <3>3
  <2>2. CASE ~(t = s /\ x = e)
    <3>1. queue'[t][x] = queue[t][x]  BY <1>0, <1>1, <2>2
    <3>2. pc[t] = "submit" /\ hand[t] = x =>
            pc'[t] = "submit" /\ hand'[t] = x /\ take'[t] = take[t]
      BY <1>0, <1>1, <2>2
    <3>3. \A p \in Plans : Passed(t, x, p) => Passed(t, x, p)'
      BY <1>1, <3>1, <3>2 DEF Passed, JobsAt
    <3> QED  BY <1>6, <3>1, <3>3 DEF Fifo, QueueOrder
  <2> QED  BY <2>1, <2>2
<1>12. EndedEmpty'
  BY <1>1, <1>6, PlanAssumption DEF Fifo, EndedEmpty
<1> QED  BY <1>7, <1>8, <1>9, <1>10, <1>11, <1>12 DEF Fifo

(* Once the dispatch is over its queues are dropped.                       *)
LEMMA SkipPendingFifo ==
  ASSUME TypeOK, Fifo, NEW s \in Scheds, SkipPending(s)
  PROVE  Fifo'
<1>0. /\ pc \in [Scheds -> MainPcs]
      /\ queue \in [Scheds -> [Endpoints -> Seq(Plans)]]
  BY DEF TypeOK, MainTypeOK, TableTypeOK
<1>1. /\ pc[s] = "finally" /\ pc' = [pc EXCEPT ![s] = "drain"]
      /\ queue' = [queue EXCEPT ![s] = [x \in Endpoints |-> <<>>]]
      /\ UNCHANGED <<hand, take, phase, todo, runs, ghost>>
  BY DEF SkipPending, jobVars
<1>2. \A t \in Scheds : t # s => pc'[t] = pc[t] /\ queue'[t] = queue[t]
  BY <1>0, <1>1
<1>3. pc'[s] = "drain" /\ \A x \in Endpoints : queue'[s][x] = <<>>
  <2>1. queue'[s] = [x \in Endpoints |-> <<>>]  BY <1>0, <1>1
  <2> QED  BY <1>0, <1>1, <2>1
<1>4. RunsOrdered' /\ GhostOrder'
  BY <1>1 DEF Fifo, RunsOrdered, GhostOrder
<1>5. JobOrder'  BY <1>1 DEF Fifo, JobOrder, Ahead
<1>6. TakeOrder'  BY <1>1, <1>2, <1>3 DEF Fifo, TakeOrder, Ahead
<1>7. QueueOrder'
  <2>1. ASSUME NEW x \in Endpoints
        PROVE  Ordered(queue'[s][x]) /\ pc'[s] \notin Inside
    <3>1. Ordered(<<>>)  BY DEF Ordered
    <3> QED  BY <1>3, <3>1 DEF Inside, Dispatching
  <2>2. ASSUME NEW t \in Scheds, t # s, NEW x \in Endpoints, NEW p \in Plans
        PROVE  Passed(t, x, p) => Passed(t, x, p)'
    BY <1>1, <1>2, <2>2 DEF Passed, JobsAt
  <2> QED  BY <1>2, <2>1, <2>2 DEF Fifo, QueueOrder
<1>8. EndedEmpty'
  <2>1. \A t \in Scheds : pc'[t] \in Inside => pc[t] \in Inside
    BY <1>2, <1>3 DEF Inside, Dispatching
  <2> QED  BY <1>1, <2>1, PlanAssumption DEF Fifo, EndedEmpty
<1> QED  BY <1>4, <1>5, <1>6, <1>7, <1>8 DEF Fifo

(* Executing plans disturbs no order but that of what was executed.        *)
LEMMA MoreRuns ==
  ASSUME TypeOK, Fifo, UNCHANGED <<pc, hand, take, queue, phase>>,
         \A p \in Plans : runs[p] > 0 => runs'[p] > 0,
         \A h \in Plans :
           /\ SeqRange(todo[h]) \subseteq
                SeqRange(todo'[h]) \cup {p \in Plans : runs'[p] > 0}
           /\ SeqRange(todo'[h]) \subseteq SeqRange(todo[h])
           /\ Ordered(todo[h]) => Ordered(todo'[h])
           /\ phase[h] \in Ended => todo'[h] = todo[h]
           /\ ghost'[h] \in Haunting => ghost[h] \in Haunting,
         RunsOrdered'
  PROVE  Fifo'
<1>1. GhostOrder'  BY DEF Fifo, GhostOrder
<1>2. JobOrder'
  <2> SUFFICES ASSUME NEW h \in Plans, phase[h] \in Begun
               PROVE  Ordered(todo'[h]) /\ Ahead(todo[h])'
    BY DEF JobOrder
  <2>1. Ordered(todo[h]) /\ Ahead(todo[h])  BY DEF Fifo, JobOrder
  <2>2. ASSUME NEW q \in SeqRange(todo'[h]), NEW p \in Plans, Before(p, q)
        PROVE  runs'[p] > 0 \/ p \in SeqRange(todo'[h])
    <3>1. q \in SeqRange(todo[h])  BY <2>2
    <3>2. runs[p] > 0 \/ p \in SeqRange(todo[h])  BY <2>1, <2>2, <3>1 DEF Ahead
    <3> QED  BY <3>2
  <2> QED  BY <2>1, <2>2 DEF Ahead
<1>3. TakeOrder'
  <2> SUFFICES ASSUME NEW t \in Scheds, pc[t] = "submit"
               PROVE  /\ Ordered(take[t]) /\ Ahead(take[t])'
                      /\ \A r \in SeqRange(queue[t][hand[t]]), p \in SeqRange(take[t]) :
                           ~Before(r, p)
    BY DEF TakeOrder
  <2>1. Ahead(take[t])  BY DEF Fifo, TakeOrder
  <2>2. Ahead(take[t])'  BY <2>1 DEF Ahead
  <2> QED  BY <2>2 DEF Fifo, TakeOrder
<1>4. QueueOrder'
  <2> SUFFICES ASSUME NEW t \in Scheds, NEW x \in Endpoints
               PROVE  /\ Ordered(queue[t][x])
                      /\ pc[t] \in Inside =>
                           \A r \in SeqRange(queue[t][x]), p \in Plans :
                             Before(p, r) => Passed(t, x, p)'
    BY DEF QueueOrder
  <2>1. JobsAt(t, x)' = JobsAt(t, x) /\ JobsAt(t, x) \subseteq Plans
    BY DEF JobsAt, PlansAt
  <2>2. \A p \in Plans : Passed(t, x, p) => Passed(t, x, p)'
    BY <2>1 DEF Passed
  <2> QED  BY <2>2 DEF Fifo, QueueOrder
<1>5. EndedEmpty'  BY DEF Fifo, EndedEmpty
<1> QED  BY <1>1, <1>2, <1>3, <1>4, <1>5 DEF Fifo

(* A job executes the first of its plans that is left.                     *)
LEMMA ExecuteFifo ==
  ASSUME TypeOK, Fifo, NEW h \in Plans, ExecutePlan(h)
  PROVE  Fifo'
<1> DEFINE r == Head(todo[h])
<1>0. todo \in [Plans -> Seq(Plans)] /\ runs \in [Plans -> Nat]
  BY DEF TypeOK, JobTypeOK
<1>1. /\ phase[h] = "running" /\ todo[h] # <<>> /\ todo[h] \in Seq(Plans)
      /\ todo' = [todo EXCEPT ![h] = Tail(todo[h])]
      /\ runs' = [runs EXCEPT ![r] = runs[r] + 1]
      /\ UNCHANGED <<pc, hand, take, queue, phase, ghost>>
  BY <1>0 DEF ExecutePlan, mainVars
<1>2. Ordered(todo[h]) /\ Ahead(todo[h])
  BY <1>1 DEF Fifo, JobOrder, Begun
<1>3. /\ r \in Plans /\ SeqRange(todo[h]) = {r} \cup SeqRange(Tail(todo[h]))
      /\ Ordered(Tail(todo[h])) /\ \A q \in SeqRange(todo[h]) : ~Before(q, r)
  BY <1>1, <1>2, TailFacts, OrderFacts
<1>4. /\ runs'[r] > 0
      /\ \A p \in Plans : p # r => runs'[p] = runs[p]
  BY <1>0, <1>1, <1>3
<1>5. \A p \in Plans : runs[p] > 0 => runs'[p] > 0
  BY <1>4
<1>6. RunsOrdered'
  <2> SUFFICES ASSUME NEW p \in Plans, NEW q \in Plans, Before(p, q), runs'[q] > 0
               PROVE  runs'[p] > 0
    BY DEF RunsOrdered
  <2>1. CASE q = r
    <3>1. runs[p] > 0  BY <1>2, <1>3, <2>1 DEF Ahead
    <3> QED  BY <1>5, <3>1
  <2>2. CASE q # r
    <3>1. runs[p] > 0  BY <1>4, <2>2 DEF Fifo, RunsOrdered
    <3> QED  BY <1>5, <3>1
  <2> QED  BY <2>1, <2>2
<1>7. todo'[h] = Tail(todo[h]) /\ \A g \in Plans : g # h => todo'[g] = todo[g]
  BY <1>0, <1>1
<1>8. \A g \in Plans :
        /\ SeqRange(todo[g]) \subseteq SeqRange(todo'[g]) \cup {p \in Plans : runs'[p] > 0}
        /\ SeqRange(todo'[g]) \subseteq SeqRange(todo[g])
        /\ Ordered(todo[g]) => Ordered(todo'[g])
        /\ phase[g] \in Ended => todo'[g] = todo[g]
  BY <1>1, <1>3, <1>4, <1>7 DEF Ended
<1> QED  BY <1>1, <1>5, <1>6, <1>8, MoreRuns

(* A ghost executes a plan whose turn had come, or all of its endpoint's.  *)
LEMMA GhostFifo ==
  ASSUME TypeOK, Fifo, NEW g \in Plans, GhostEnds(g)
  PROVE  Fifo'
<1> DEFINE plans == IF EpType[EpOf[g]] = "BMC" THEN PlansAt(OwnerOf[g], EpOf[g]) ELSE {g}
<1>0. /\ runs \in [Plans -> Nat]
      /\ ghost \in [Plans -> {"none", "queued", "running", "ran"}]
      /\ EpType[EpOf[g]] \in {"BMC", "INBAND"}
  BY PlanAssumption DEF TypeOK, JobTypeOK, Pools
<1>1. /\ ghost[g] = "running" /\ ghost' = [ghost EXCEPT ![g] = "ran"]
      /\ \A r \in Plans : runs'[r] = IF r \in plans THEN runs[r] + 1 ELSE runs[r]
      /\ UNCHANGED <<pc, hand, take, queue, phase, todo>>
  BY DEF GhostEnds, mainVars, jobVars
<1>2. \A p \in Plans : /\ runs[p] > 0 => runs'[p] > 0
                       /\ p \in plans => runs'[p] > 0
                       /\ p \notin plans => runs'[p] = runs[p]
  BY <1>0, <1>1
<1>3. RunsOrdered'
  <2> SUFFICES ASSUME NEW p \in Plans, NEW q \in Plans, Before(p, q), runs'[q] > 0
               PROVE  runs'[p] > 0
    BY DEF RunsOrdered
  <2>1. CASE q \notin plans
    BY <1>2, <2>1 DEF Fifo, RunsOrdered
  <2>2. CASE q \in plans /\ EpType[EpOf[g]] = "BMC"
    <3>1. p \in plans  BY <2>2, BeforeFacts DEF PlansAt
    <3> QED  BY <1>2, <3>1
  <2>3. CASE q \in plans /\ EpType[EpOf[g]] = "INBAND"
    <3>1. runs[p] > 0  BY <1>1, <2>3 DEF Fifo, GhostOrder, Haunting
    <3> QED  BY <1>2, <3>1
  <2> QED  BY <1>0, <2>1, <2>2, <2>3
<1>4. \A h \in Plans : ghost'[h] \in Haunting => ghost[h] \in Haunting
  BY <1>0, <1>1 DEF Haunting
<1> QED  BY <1>1, <1>2, <1>3, <1>4, MoreRuns

LEMMA MainFifo ==
  ASSUME TypeOK, DispatchConsistent, PlanFlow, Placing, Fifo, NEW s \in Scheds,
         MainStep(s) \/ FaultStep(s)
  PROVE  Fifo'
<1> DEFINE Quiet(c) == /\ (c # "submit" /\ pc[s] # "submit") \/ c \notin Inside
                       /\ c \in Inside => pc[s] \in Inside
                       /\ pc' = [pc EXCEPT ![s] = c]
                       /\ \A t \in Scheds \ {s} : hand'[t] = hand[t]
                       /\ UNCHANGED <<queue, take, todo, runs, phase>>
                       /\ \A g \in Plans : ghost'[g] \in Haunting => ghost[g] \in Haunting
<1>0. /\ pc \in [Scheds -> MainPcs] /\ hand \in [Scheds -> Endpoints \cup {None}]
      /\ phase \in [Plans -> Phases]
  BY DEF TypeOK, MainTypeOK, JobTypeOK
<1>1. ASSUME NEW c, Quiet(c) PROVE Fifo'
  <2>1. /\ pc'[s] = c
        /\ \A t \in Scheds \ {s} : pc'[t] = pc[t]
    BY <1>0, <1>1
  <2>2. \A t \in Scheds : /\ pc'[t] = "submit" <=> pc'[t] \in Inside /\ pc[t] = "submit"
                          /\ pc'[t] = "submit" => hand'[t] = hand[t]
                          /\ pc'[t] \in Inside => pc[t] \in Inside
    BY <1>1, <2>1 DEF Inside
  <2> QED  BY <1>1, <2>2, FifoQuiet
<1>2. CASE LoopEnter(s)
  <2>1. Quiet("pausewait")
    BY <1>2 DEF LoopEnter, Inside, Dispatching, jobVars
  <2> QED  BY <1>1, <2>1
<1>3. CASE LoopExit(s)
  <2>1. Quiet("finally")  BY <1>3 DEF LoopExit, Inside, Dispatching, jobVars
  <2> QED  BY <1>1, <2>1
<1>4. CASE AdjustPools(s)
  <2>1. Quiet("check")  BY <1>4 DEF AdjustPools, Inside, Dispatching, jobVars
  <2> QED  BY <1>1, <2>1
<1>5. CASE PoolFilled(s)
  <2>1. Quiet("check") \/ Quiet("loop")
    BY <1>5 DEF PoolFilled, NextPool, Inside, Dispatching, jobVars
  <2> QED  BY <1>1, <2>1
<1>6. CASE DispatchAborted(s)
  <2>1. Quiet("loop")  BY <1>6 DEF DispatchAborted, Inside, Dispatching, jobVars
  <2> QED  BY <1>1, <2>1
<1>7. CASE TakeReady(s)
  <2>1. Quiet("pick")  BY <1>0, <1>7 DEF TakeReady, Inside, Dispatching, jobVars
  <2> QED  BY <1>1, <2>1
<1>8. CASE PutBack(s)
  <2>1. Quiet("check")  BY <1>0, <1>8 DEF PutBack, Inside, Dispatching, jobVars
  <2> QED  BY <1>1, <2>1
<1>9. CASE Drain(s)
  <2>1. Quiet("cancel")  BY <1>9 DEF Drain, Inside, Dispatching, jobVars
  <2> QED  BY <1>1, <2>1
<1>10. CASE ShutdownPools(s)
  <2>1. Quiet("return")
    BY <1>10 DEF ShutdownPools, Inside, Dispatching, Haunting, jobVars
  <2> QED  BY <1>1, <2>1
<1>11. CASE Return(s)
  <2>1. Quiet("returned")  BY <1>11 DEF Return, Inside, Dispatching, jobVars
  <2> QED  BY <1>1, <2>1
<1>12. CASE Interrupt(s)
  <2>1. Quiet("finally")  BY <1>12 DEF Interrupt, Inside, Dispatching, jobVars
  <2> QED  BY <1>1, <2>1
<1>13. CASE CancelQueued(s)
  <2>1. pc[s] = "cancel" /\ UNCHANGED <<pc, hand, queue, take, todo, runs, ghost>>
    BY <1>13 DEF CancelQueued, mainVars
  <2>2. PICK p \in Plans : /\ OwnerOf[p] = s /\ phase[p] = "queued"
                           /\ phase' = [phase EXCEPT ![p] = "finished"]
    BY <1>13 DEF CancelQueued, QueuedJobs
  <2>3. /\ phase'[p] = "finished" /\ \A h \in Plans \ {p} : phase'[h] = phase[h]
        /\ pc'[OwnerOf[p]] \notin Inside
    BY <1>0, <2>1, <2>2 DEF Inside, Dispatching
  <2>4. \A t \in Scheds : pc[t] = "submit" => pc[t] \in Inside  BY DEF Inside
  <2> QED  BY <2>1, <2>3, <2>4, FifoQuiet DEF Begun, Ended
<1> QED
  BY <1>2, <1>3, <1>4, <1>5, <1>6, <1>7, <1>8, <1>9, <1>10, <1>11, <1>12, <1>13,
     TryHoldFifo, SubmitFifo, SubmitFailsFifo, SkipPendingFifo DEF MainStep, FaultStep

(* A job that ends leaves nothing unexecuted before what is queued.        *)
LEMMA WorkerFifo ==
  ASSUME TypeOK, Home, Placing, Fifo, NEW p \in Plans, WorkerStep(p) \/ CrashJob(p)
  PROVE  Fifo'
<1> DEFINE s == OwnerOf[p]
           e == EpOf[p]
<1>0. /\ phase \in [Plans -> Phases] /\ result \in [Plans -> Status \cup {"none"}]
      /\ s \in Scheds /\ e \in Endpoints /\ EpType[e] \in {"BMC", "INBAND"}
  BY PlanAssumption DEF TypeOK, JobTypeOK, ResultTypeOK, Pools
<1>1. CASE ExecutePlan(p)  BY <1>1, ExecuteFifo
<1>2. ASSUME ~ExecutePlan(p)
      PROVE  /\ UNCHANGED <<pc, hand, queue, take, todo, runs, ghost>>
             /\ \A h \in Plans \ {p} : phase'[h] = phase[h]
  <2>1. CASE StartJob(p) \/ FinishJob(p) \/ CrashJob(p)
    BY <1>0, <2>1 DEF StartJob, FinishJob, CrashJob, mainVars
  <2>2. CASE OnDone(p) \/ ReleaseLease(p) \/ AppendInbandResult(p)
    BY <1>0, <2>2 DEF OnDone, ReleaseLease, AppendInbandResult, mainVars
  <2>3. CASE GroupDone(p) \/ Requeue(p)
    BY <1>0, <2>3 DEF GroupDone, Requeue, mainVars
  <2> QED  BY <1>2, <2>1, <2>2, <2>3 DEF WorkerStep
<1>3. \A t \in Scheds : pc[t] = "submit" => pc[t] \in Inside  BY DEF Inside
<1>4. ASSUME ~ExecutePlan(p),
             phase'[p] \in Begun => phase[p] \in Begun,
             pc[s] \in Inside /\ phase[p] \in InFlight =>
               phase'[p] \in InFlight \/ todo[p] = <<>> \/ queue[s][e] = <<>>,
             pc[s] \in Inside /\ phase'[p] \in Ended /\ EpType[e] = "INBAND" =>
               phase[p] \in Ended \/ todo[p] = <<>>
      PROVE  Fifo'
  BY <1>2, <1>3, <1>4, FifoQuiet
<1>5. CASE StartJob(p)
  <2>1. phase[p] = "queued" /\ phase'[p] = "running" /\ ~ExecutePlan(p)
    BY <1>0, <1>5 DEF StartJob, ExecutePlan
  <2> QED  BY <1>4, <2>1 DEF Begun, Ended, InFlight
<1>6. CASE FinishJob(p) \/ CrashJob(p)
  <2>1. /\ phase[p] = "running" /\ phase'[p] = "finished" /\ ~ExecutePlan(p)
        /\ todo[p] = <<>> \/ EpType[e] = "BMC"
    BY <1>0, <1>6 DEF FinishJob, CrashJob, ExecutePlan
  <2> QED  BY <1>4, <2>1 DEF Begun, Ended, InFlight
<1>7. CASE OnDone(p)
  <2>1. phase[p] = "finished" /\ ~ExecutePlan(p)  BY <1>7 DEF OnDone, ExecutePlan
  <2>2. CASE pc[s] \in Inside
    <3>1. TrackedAt(p)  BY DEF Home, Tracked
    <3>2. p \in active[s]  BY <2>1, <2>2, <3>1 DEF TrackedAt, Leaving, Inside, Dispatching
    <3>3. phase'[p] = "claimed"  BY <1>0, <1>7, <3>2 DEF OnDone
    <3> QED  BY <1>4, <2>1, <3>3 DEF Begun, Ended, InFlight
  <2>3. CASE pc[s] \notin Inside
    <3>1. phase'[p] \in {"claimed", "lost"}  BY <1>0, <1>7 DEF OnDone
    <3> QED  BY <1>4, <2>1, <2>3, <3>1 DEF Begun
  <2> QED  BY <2>2, <2>3
<1>8. CASE ReleaseLease(p)
  <2>1. phase[p] = "claimed" /\ phase'[p] = "released" /\ ~ExecutePlan(p)
    BY <1>0, <1>8 DEF ReleaseLease, ExecutePlan
  <2> QED  BY <1>4, <2>1 DEF Begun, Ended, InFlight
<1>9. CASE AppendInbandResult(p)
  <2>1. /\ phase[p] = "released" /\ EpType[e] = "INBAND" /\ ~ExecutePlan(p)
        /\ phase'[p] \in {"appended", "done"}
    BY <1>0, <1>9 DEF AppendInbandResult, ExecutePlan
  <2>2. pc[s] \in Inside => todo[p] = <<>>  BY <2>1 DEF Fifo, EndedEmpty, Ended
  <2> QED  BY <1>4, <2>1, <2>2 DEF Begun
<1>10. CASE GroupDone(p)
  <2>1. /\ phase[p] = "released" /\ EpType[e] = "BMC" /\ ~ExecutePlan(p)
        /\ phase'[p] = "done"
    BY <1>0, <1>10 DEF GroupDone, ExecutePlan
  <2>2. pc[s] \in Inside => queue[s][e] = <<>>
    <3>1. p \in JobsAt(s, e)  BY <2>1 DEF JobsAt, PlansAt, InFlight
    <3> QED  BY <1>0, <2>1, <3>1 DEF Placing, PlacedAt, PlaceOf
  <2> QED  BY <1>4, <2>1, <2>2 DEF Begun, Ended
<1>11. CASE Requeue(p)
  <2>1. phase[p] = "appended" /\ phase'[p] = "done" /\ ~ExecutePlan(p)
    BY <1>0, <1>11 DEF Requeue, ExecutePlan
  <2>2. pc[s] \in Inside => todo[p] = <<>> \/ queue[s][e] = <<>>
    <3>1. CASE EpType[e] = "INBAND"
      BY <2>1, <3>1 DEF Fifo, EndedEmpty, Ended
    <3>2. CASE EpType[e] = "BMC"
      <4>1. p \in JobsAt(s, e)  BY <2>1 DEF JobsAt, PlansAt, InFlight
      <4> QED  BY <1>0, <3>2, <4>1 DEF Placing, PlacedAt, PlaceOf
    <3> QED  BY <1>0, <3>1, <3>2
  <2> QED  BY <1>4, <2>1, <2>2 DEF Begun, Ended
<1> QED
  BY <1>1, <1>5, <1>6, <1>7, <1>8, <1>9, <1>10, <1>11 DEF WorkerStep

LEMMA FifoInvariance == Spec => []Fifo
<1>1. Init => Fifo
  <2> SUFFICES ASSUME Init PROVE Fifo
    OBVIOUS
  <2>1. RunsOrdered  BY DEF Init, RunsOrdered
  <2>2. JobOrder  BY DEF Init, JobOrder, Begun
  <2>3. TakeOrder  BY DEF Init, TakeOrder
  <2>4. ASSUME NEW s \in Scheds, NEW e \in Endpoints
        PROVE  /\ Ordered(queue[s][e])
               /\ \A q \in SeqRange(queue[s][e]), p \in Plans :
                    Before(p, q) => Passed(s, e, p)
    <3> DEFINE Q == Queue0[s][e]
    <3>1. queue[s][e] = Q \/ queue[s][e] = <<>>  BY DEF Init, InitialQueue
    <3>2. /\ Q \in Seq(PlansAt(s, e)) /\ SeqRange(Q) = PlansAt(s, e)
          /\ \A i, j \in DOMAIN Q : Q[i] = Q[j] => i = j
      BY QueueAssumption
    <3>3. CASE queue[s][e] = <<>>
      <4>1. Ordered(<<>>)  BY DEF Ordered
      <4> QED  BY <3>3, <4>1, ShortFacts
    <3>4. CASE queue[s][e] = Q
      <4>1. \A i \in DOMAIN Q : OwnerOf[Q[i]] = s /\ EpOf[Q[i]] = e
        BY <3>2 DEF PlansAt
      <4>2. Ordered(Q)  BY <3>2, <4>1 DEF Ordered, Before
      <4>3. ASSUME NEW q \in PlansAt(s, e), NEW p \in Plans, Before(p, q)
            PROVE  p \in SeqRange(Q)
        <5>1. OwnerOf[p] = s /\ EpOf[p] = e  BY <4>3, BeforeFacts DEF PlansAt
        <5> QED  BY <3>2, <5>1 DEF PlansAt
      <4> QED  BY <3>2, <3>4, <4>2, <4>3 DEF Passed
    <3> QED  BY <3>1, <3>3, <3>4
  <2>5. QueueOrder  BY <2>4 DEF QueueOrder
  <2>6. GhostOrder /\ EndedEmpty  BY DEF Init, GhostOrder, EndedEmpty, Haunting, Ended
  <2> QED  BY <2>1, <2>2, <2>3, <2>5, <2>6 DEF Fifo
<1>2. IndInv /\ PlanFlow /\ Home /\ Placing /\ Fifo /\ [Next]_vars => Fifo'
  <2> SUFFICES ASSUME IndInv, PlanFlow, Home, Placing, Fifo, [Next]_vars PROVE Fifo'
    OBVIOUS
  <2>0. TypeOK /\ DispatchConsistent  BY DEF IndInv
  <2>1. ASSUME NEW s \in Scheds, MainStep(s) \/ FaultStep(s) PROVE Fifo'
    BY <2>0, <2>1, MainFifo
  <2>2. ASSUME NEW p \in Plans, WorkerStep(p) \/ CrashJob(p) PROVE Fifo'
    BY <2>0, <2>2, WorkerFifo
  <2>3. ASSUME UNCHANGED <<pc, hand, queue, take, todo, phase, runs>>,
               \A g \in Plans : ghost'[g] \in Haunting => ghost[g] \in Haunting
        PROVE  Fifo'
    <3>1. \A t \in Scheds : pc[t] = "submit" => pc[t] \in Inside  BY DEF Inside
    <3> QED  BY <2>3, <3>1, FifoQuiet
  <2>4. ASSUME NEW g \in Plans, GhostStep(g) PROVE Fifo'
    <3>1. CASE GhostStarts(g)
      <4>1. /\ UNCHANGED <<pc, hand, queue, take, todo, phase, runs>>
            /\ ghost[g] = "queued" /\ ghost' = [ghost EXCEPT ![g] = "running"]
        BY <3>1 DEF GhostStarts, mainVars, jobVars
      <4>2. \A h \in Plans : ghost'[h] \in Haunting => ghost[h] \in Haunting
        BY <2>0, <4>1 DEF TypeOK, JobTypeOK, Haunting
      <4> QED  BY <2>3, <4>1, <4>2
    <3>2. CASE GhostEnds(g)  BY <2>0, <3>2, GhostFifo
    <3> QED  BY <2>4, <3>1, <3>2 DEF GhostStep
  <2>5. ASSUME NEW s \in Scheds, ControlStep(s) PROVE Fifo'
    <3>1. UNCHANGED <<pc, hand, queue, take, todo, phase, runs, ghost>>
      BY <2>5 DEF ControlStep, AppStops, ForwardStop, Pause, Resume, mainVars, jobVars
    <3> QED  BY <2>3, <3>1
  <2>6. CASE UNCHANGED vars
    BY <2>3, <2>6 DEF vars, mainVars, jobVars
  <2> QED  BY <2>1, <2>2, <2>4, <2>5, <2>6 DEF Next, Terminated
<1> QED
  BY <1>1, <1>2, Invariance, FlowInvariance, HomeInvariance, PlacingInvariance, PTL DEF Spec

(* The plans of an endpoint are executed in the order they were given in,  *)
(* put back after failed submits or run by a ghost included.               *)
THEOREM FifoOrder == Spec => []FifoPerEndpoint
<1>1. Fifo => FifoPerEndpoint
  <2> SUFFICES ASSUME Fifo, NEW s \in Scheds, NEW e \in Endpoints,
                      NEW i \in DOMAIN Queue0[s][e], NEW j \in DOMAIN Queue0[s][e],
                      i < j, runs[Queue0[s][e][j]] > 0
               PROVE  runs[Queue0[s][e][i]] > 0
    BY DEF FifoPerEndpoint
  <2>1. Queue0[s][e][i] \in PlansAt(s, e) /\ Queue0[s][e][j] \in PlansAt(s, e)
    BY QueueAssumption
  <2>2. Before(Queue0[s][e][i], Queue0[s][e][j])  BY <2>1 DEF Before, PlansAt
  <2> QED  BY <2>1, <2>2 DEF Fifo, RunsOrdered, PlansAt
<1> QED  BY <1>1, FifoInvariance, PTL
=============================================================================
