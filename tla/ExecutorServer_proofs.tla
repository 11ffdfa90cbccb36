------------------------- MODULE ExecutorServer_proofs --------------------------
(***************************************************************************)
(* Theorems about the executor API server: about PlanRun, for every set of *)
(* plans, locks and workbooks and every number of runs, crashes and failed *)
(* appends; about the outbox of a plan, for every number of run threads,   *)
(* callbacks, attempts, retries and crashes; and that what holds of either *)
(* service by itself holds in the process they share.                      *)
(***************************************************************************)
EXTENDS ExecutorServer, CallbackOutbox, FiniteSetTheorems, TLAPS

-----------------------------------------------------------------------------
(* PART 1.  Plan runs.                                                     *)


(* The items of a run are numbered from 1, and a lock URI or None.         *)
LEMMA SheetType ==
  ASSUME PlanRunConstants, TypeOK, NEW r \in Runs
  PROVE  /\ Len(sheet[r]) \in Nat
         /\ Items(r) = 1 .. Len(sheet[r])
         /\ \A i \in Items(r) : sheet[r][i].lock \in Locks \cup {None}
<1> DEFINE It == [type : {"BMC", "SSH", "TELNET"},
                  mode : {"BMC", "SSH", "TELNET", "BMC_URL", "BMC_ACTIONS", "SSH_CMD"},
                  lock : Locks \cup {None}, session : Sessions \cup {None}]
<1>1. sheet[r] \in Seq(It)
  <2>1. sheet[r] \in Sheets \/ sheet[r] = <<>>  BY DEF TypeOK
  <2>2. Sheets \subseteq Seq(It)  BY DEF PlanRunConstants
  <2> HIDE DEF It
  <2>3. <<>> \in Seq(It)  OBVIOUS
  <2> QED  BY <2>1, <2>2, <2>3
<1> HIDE DEF It
<1>2. Len(sheet[r]) \in Nat /\ DOMAIN sheet[r] = 1 .. Len(sheet[r])
      /\ \A i \in DOMAIN sheet[r] : sheet[r][i] \in It
  BY <1>1
<1> QED  BY <1>2 DEF Items, It

(* A group starts at its first item and ends within the run.               *)
LEMMA GroupBounds ==
  ASSUME NEW r \in Runs, NEW s, Len(s) \in Nat, NEW i \in 1 .. Len(s)
  PROVE  GroupSize(r, s, i) \in 1 .. Len(s) - i + 1
<1> DEFINE G == SessionGroup(s, i)
<1>1. G \subseteq i .. Len(s) /\ i \in G
  BY DEF SessionGroup, SameSession
<1>2. IsFiniteSet(i .. Len(s)) /\ Cardinality(i .. Len(s)) = Len(s) - i + 1
  BY FS_Interval
<1>3. IsFiniteSet(G) /\ Cardinality(G) <= Len(s) - i + 1
  BY <1>1, <1>2, FS_Subset
<1>4. Cardinality(G) \in Nat /\ Cardinality(G) # 0
  BY <1>1, <1>3, FS_CardinalityType, FS_EmptySet
<1> QED  BY <1>3, <1>4 DEF GroupSize

(* The part of the invariant of PlanRun that keeps the locks apart: a run  *)
(* that works is the current one of its plan, whoever executes under a     *)
(* lock owns it, and a lock somebody owns is executed under.               *)
Alive(r) ==
  /\ status[r] = "RUNNING" => pc[r] \in Working \cup {"crash"}
  /\ pc[r] \in {"save", "summarize", "crash_summary"} => status[r] \in FinalRun

LockInv ==
  /\ TypeOK /\ WorkingIsCurrent /\ LocksHeld
  /\ \A r \in Runs : InBounds(r) /\ Alive(r)

(* What a step of run r leaves alone: every other run.                     *)
Others(r) == \A s \in Runs \ {r} :
  /\ sheet'[s] = sheet[s] /\ plan'[s] = plan[s] /\ status'[s] = status[s]
  /\ pc'[s] = pc[s] /\ first'[s] = first[s] /\ count'[s] = count[s]
  /\ at'[s] = at[s] /\ summary'[s] = summary[s]

LEMMA OthersOK ==
  ASSUME NEW r \in Runs, Others(r), NEW s \in Runs \ {r}
  PROVE  /\ InBounds(s)' = InBounds(s)
         /\ Alive(s)' = Alive(s)
         /\ Executing(s)' = Executing(s)
         /\ LockOf(s)' = LockOf(s)
         /\ OwnerId(s)' = OwnerId(s)
<1>1. Items(s)' = Items(s) /\ Last(s)' = Last(s) /\ Group(s)' = Group(s)
  BY DEF Others, Items, Last, Group
<1>2. InBounds(s)' = InBounds(s)  BY <1>1 DEF Others, InBounds
<1>3. Alive(s)' = Alive(s)  BY DEF Others, Alive
<1>4. /\ Executing(s)' = Executing(s) /\ LockOf(s)' = LockOf(s)
      /\ OwnerId(s)' = OwnerId(s)
  BY DEF Others, Executing, LockOf, OwnerId
<1> QED  BY <1>2, <1>3, <1>4

(* A step by which run r comes to work on nothing new.                     *)
LEMMA CurrentFrame ==
  ASSUME WorkingIsCurrent, NEW r \in Runs, Others(r),
         UNCHANGED <<started, plan, current>>, pc[r] # "done",
         pc'[r] \in Working => pc[r] \in Working /\ status'[r] = status[r]
  PROVE  WorkingIsCurrent'
<1> SUFFICES ASSUME NEW s \in Runs
    PROVE  /\ pc'[s] \in Working =>
                /\ status'[s] = "RUNNING" /\ plan'[s] \in Plans
                /\ current'[plan'[s]] = s
           /\ pc'[s] # "done" \/ summary'[s] # None => s <= started'
  BY DEF WorkingIsCurrent
<1>1. CASE s = r  BY <1>1 DEF WorkingIsCurrent
<1>2. CASE s # r  BY <1>2 DEF WorkingIsCurrent, Others
<1> QED  BY <1>1, <1>2

(* A step of run r that takes or releases no lock.                         *)
LEMMA QuietStep ==
  ASSUME LockInv, NEW r \in Runs, Others(r), TypeOK',
         UNCHANGED <<started, plan, current, owner>>,
         ~Executing(r), ~Executing(r)', pc[r] # "done",
         pc'[r] \in Working => pc[r] \in Working /\ status'[r] = status[r],
         InBounds(r)', Alive(r)'
  PROVE  LockInv'
<1>1. WorkingIsCurrent'  BY CurrentFrame DEF LockInv
<1>2. LocksHeld'
  <2>1. \A s \in Runs \ {r} : /\ Executing(s)' = Executing(s)
                              /\ LockOf(s)' = LockOf(s)
                              /\ OwnerId(s)' = OwnerId(s)
    BY OthersOK
  <2> QED  BY <2>1 DEF LocksHeld, LockInv
<1>3. \A s \in Runs : InBounds(s)' /\ Alive(s)'  BY OthersOK DEF LockInv
<1> QED  BY <1>1, <1>2, <1>3 DEF LockInv

LEMMA InitOK ==
  ASSUME PlanRunConstants, Init
  PROVE  LockInv
<1>1. TypeOK
  BY DEF Init, PlanRunConstants, TypeOK, NewTable, Ending, RunStatus
<1>2. WorkingIsCurrent
  BY DEF Init, WorkingIsCurrent, Working, InGroup
<1>3. LocksHeld
  BY DEF Init, LocksHeld, Executing, NewTable
<1>4. \A r \in Runs : InBounds(r) /\ Alive(r)
  BY DEF Init, InBounds, Alive, InGroup
<1> QED  BY <1>1, <1>2, <1>3, <1>4 DEF LockInv

(* What the variables of a run look like before a step of it.              *)
Facts(r) ==
  /\ TypeOK /\ InBounds(r) /\ Alive(r)
  /\ Len(sheet[r]) \in Nat /\ Items(r) = 1 .. Len(sheet[r])
  /\ first[r] \in Nat \ {0} /\ count[r] \in Nat \ {0} /\ at[r] \in Nat
  /\ pc[r] \in InGroup => /\ first[r] <= at[r] /\ at[r] <= Last(r)
                          /\ Last(r) <= Len(sheet[r])

LEMMA FactsOK ==
  ASSUME PlanRunConstants, LockInv, NEW r \in Runs
  PROVE  Facts(r)
<1>1. TypeOK /\ InBounds(r) /\ Alive(r)  BY DEF LockInv
<1>2. Len(sheet[r]) \in Nat /\ Items(r) = 1 .. Len(sheet[r])  BY <1>1, SheetType
<1>3. first[r] \in Nat \ {0} /\ count[r] \in Nat \ {0} /\ at[r] \in Nat
  BY <1>1 DEF TypeOK
<1>4. ASSUME pc[r] \in InGroup
      PROVE  first[r] <= at[r] /\ at[r] <= Last(r) /\ Last(r) <= Len(sheet[r])
  BY <1>1, <1>2, <1>3, <1>4 DEF InBounds, Group
<1> QED  BY <1>1, <1>2, <1>3, <1>4 DEF Facts

(* Each step of a run keeps the invariant.                                 *)
LEMMA NextGroupOK ==
  ASSUME PlanRunConstants, LockInv, NEW r \in Runs, NextGroup(r)
  PROVE  LockInv'
<1> DEFINE n == GroupSize(r, sheet[r], first[r])
<1>0. Facts(r)  BY FactsOK
<1>1. pc[r] = "next" /\ UNCHANGED <<started, plan, sheet, status, current, owner, summary>>
  BY DEF NextGroup, runVars
<1>2. \/ /\ first[r] > Len(sheet[r])
         /\ pc' = [pc EXCEPT ![r] = "finalize"]
         /\ UNCHANGED <<first, count, at>>
      \/ /\ first[r] <= Len(sheet[r])
         /\ pc' = [pc EXCEPT ![r] = "start"]
         /\ first' = [first EXCEPT ![r] = first[r]]
         /\ count' = [count EXCEPT ![r] = n]
         /\ at' = [at EXCEPT ![r] = first[r]]
  BY <1>0 DEF NextGroup, Advance, Facts
<1>3. first[r] <= Len(sheet[r]) => n \in 1 .. Len(sheet[r]) - first[r] + 1
  BY <1>0, GroupBounds DEF Facts
<1> HIDE DEF n
<1>4. Others(r)  BY <1>0, <1>1, <1>2 DEF Facts, TypeOK, Others
<1>5. TypeOK'
  <2>1. pc' \in [Runs -> Working \cup Ending]
    BY <1>0, <1>2 DEF Facts, TypeOK, Working, InGroup
  <2>2. /\ first' \in [Runs -> Nat \ {0}]
        /\ count' \in [Runs -> Nat \ {0}] /\ at' \in [Runs -> Nat]
    <3>1. CASE first[r] > Len(sheet[r])  BY <1>0, <1>2, <3>1 DEF Facts, TypeOK
    <3>2. CASE first[r] <= Len(sheet[r])
      <4>1. n \in Nat \ {0} /\ first[r] \in Nat \ {0}  BY <1>0, <1>3, <3>2 DEF Facts
      <4>2. ~(first[r] > Len(sheet[r]))  BY <1>0, <3>2 DEF Facts
      <4>3. /\ first' = [first EXCEPT ![r] = first[r]]
            /\ count' = [count EXCEPT ![r] = n] /\ at' = [at EXCEPT ![r] = first[r]]
        BY <1>2, <4>2
      <4>4. /\ first \in [Runs -> Nat \ {0}] /\ count \in [Runs -> Nat \ {0}]
            /\ at \in [Runs -> Nat]
        BY <1>0 DEF Facts, TypeOK
      <4> QED  BY <4>1, <4>3, <4>4
    <3> QED  BY <1>0, <3>1, <3>2 DEF Facts
  <2> QED  BY <1>0, <2>1, <2>2 DEF Facts, NextGroup, TypeOK, runVars, bounds
<1>6. \/ pc'[r] = "finalize"
      \/ /\ pc'[r] = "start" /\ first'[r] = first[r] /\ at'[r] = first[r]
         /\ first[r] <= Len(sheet[r]) /\ count'[r] \in 1 .. Len(sheet[r]) - first[r] + 1
  BY <1>0, <1>2, <1>3 DEF Facts, TypeOK
<1>7. InBounds(r)'
  <2>1. CASE pc'[r] = "finalize"  BY <2>1 DEF InBounds, InGroup
  <2>2. CASE pc'[r] = "start"
    <3>1. /\ first'[r] = first[r] /\ at'[r] = first[r] /\ first[r] <= Len(sheet[r])
          /\ count'[r] \in 1 .. Len(sheet[r]) - first[r] + 1
      BY <1>6, <2>2
    <3>2. Items(r)' = 1 .. Len(sheet[r]) /\ first[r] \in Nat \ {0} /\ Len(sheet[r]) \in Nat
      BY <1>0, <1>1 DEF Facts, Items
    <3>3. /\ first[r] \in 1 .. Len(sheet[r])
          /\ first[r] + count'[r] - 1 \in 1 .. Len(sheet[r])
          /\ first[r] \in first[r] .. first[r] + count'[r] - 1
      BY <3>1, <3>2
    <3> QED  BY <2>2, <3>1, <3>2, <3>3 DEF InBounds, Group, Last
  <2> QED  BY <1>6, <2>1, <2>2
<1>8. Alive(r)' /\ ~Executing(r) /\ ~Executing(r)'
  BY <1>1, <1>6 DEF Alive, Executing, Working, InGroup
<1>9. pc[r] # "done" /\ pc[r] \in Working /\ status'[r] = status[r]
  BY <1>1 DEF Working
<1> QED  BY <1>1, <1>4, <1>5, <1>7, <1>8, <1>9, QuietStep

LEMMA MarkStartedOK ==
  ASSUME PlanRunConstants, LockInv, NEW r \in Runs, MarkStarted(r)
  PROVE  LockInv'
<1>0. Facts(r)  BY FactsOK
<1>1. /\ pc[r] = "start" /\ pc' = [pc EXCEPT ![r] = "tell_start"]
      /\ UNCHANGED <<started, plan, sheet, real, status, current, owner, first, count, at>>
      /\ UNCHANGED summary
  BY DEF MarkStarted, runVars
<1>2. Others(r) /\ pc'[r] = "tell_start"
  BY <1>0, <1>1 DEF Facts, TypeOK, Others
<1>3. TypeOK'
  <2>1. pc' \in [Runs -> Working \cup Ending]
    BY <1>0, <1>1 DEF Facts, TypeOK, Working, InGroup, Ending
  <2> QED  BY <1>0, <1>1, <2>1 DEF Facts, MarkStarted, Persist, State, Marked, TypeOK, bounds
<1>4. InBounds(r)'
  BY <1>0, <1>1, <1>2 DEF Facts, InBounds, Group, Last, Items, InGroup
<1>5. Alive(r)' /\ ~Executing(r) /\ ~Executing(r)'
  BY <1>0, <1>1, <1>2 DEF Facts, Alive, Executing, Working, InGroup
<1> QED  BY <1>1, <1>2, <1>3, <1>4, <1>5, QuietStep DEF Working, InGroup

LEMMA MarkFinishedOK ==
  ASSUME PlanRunConstants, LockInv, NEW r \in Runs, MarkFinished(r)
  PROVE  LockInv'
<1>0. Facts(r)  BY FactsOK
<1>1. /\ pc[r] = "finish" /\ pc' = [pc EXCEPT ![r] = "tell_finish"]
      /\ UNCHANGED <<started, plan, sheet, real, status, current, owner, first, count, at>>
      /\ UNCHANGED summary
  BY DEF MarkFinished, runVars
<1>2. Others(r) /\ pc'[r] = "tell_finish"
  BY <1>0, <1>1 DEF Facts, TypeOK, Others
<1>3. TypeOK'
  <2>1. pc' \in [Runs -> Working \cup Ending]
    BY <1>0, <1>1 DEF Facts, TypeOK, Working, InGroup, Ending
  <2> QED  BY <1>0, <1>1, <2>1 DEF Facts, MarkFinished, Persist, State, TypeOK, bounds
<1>4. InBounds(r)'
  BY <1>0, <1>1, <1>2 DEF Facts, InBounds, Group, Last, Items, InGroup
<1>5. Alive(r)' /\ ~Executing(r) /\ ~Executing(r)'
  BY <1>0, <1>1, <1>2 DEF Facts, Alive, Executing, Working, InGroup
<1> QED  BY <1>1, <1>2, <1>3, <1>4, <1>5, QuietStep DEF Working, InGroup

LEMMA TellStartedOK ==
  ASSUME PlanRunConstants, LockInv, NEW r \in Runs, TellStarted(r)
  PROVE  LockInv'
<1>0. Facts(r)  BY FactsOK
<1>1. /\ pc[r] = "tell_start"
      /\ UNCHANGED <<started, plan, sheet, status, current, owner, first, count, summary>>
  BY DEF TellStarted, runVars
<1>2. \/ /\ at[r] < Last(r)
         /\ at' = [at EXCEPT ![r] = at[r] + 1] /\ pc' = [pc EXCEPT ![r] = "start"]
      \/ at' = [at EXCEPT ![r] = first[r]] /\ pc' = [pc EXCEPT ![r] = "lock"]
      \/ at' = [at EXCEPT ![r] = 1] /\ pc' = [pc EXCEPT ![r] = "crash"]
  BY <1>0 DEF TellStarted, Raises, Facts, TypeOK
<1>3. Others(r)  BY <1>0, <1>1, <1>2 DEF Facts, TypeOK, Others
<1>4. \/ at[r] < Last(r) /\ at'[r] = at[r] + 1 /\ pc'[r] = "start"
      \/ at'[r] = first[r] /\ pc'[r] = "lock"
      \/ pc'[r] = "crash"
  BY <1>0, <1>2 DEF Facts, TypeOK
<1>5. TypeOK'
  <2>1. pc' \in [Runs -> Working \cup Ending] /\ at' \in [Runs -> Nat]
    <3>1. pc' \in [Runs -> Working \cup Ending]
      BY <1>0, <1>2 DEF Facts, TypeOK, Working, InGroup, Ending
    <3>2. at[r] + 1 \in Nat /\ first[r] \in Nat /\ 1 \in Nat  BY <1>0 DEF Facts
    <3>3. at' \in [Runs -> Nat]
      BY <1>0, <1>2, <3>2 DEF Facts, TypeOK
    <3> QED  BY <3>1, <3>3
  <2>2. raises' \in Nat  BY <1>0 DEF TellStarted, Raises, Facts, TypeOK
  <2>3. told' = [s \in Runs |-> told'[s]]
    BY <1>0 DEF TellStarted, Tell, Facts, TypeOK
  <2> QED  BY <1>0, <2>1, <2>2, <2>3 DEF Facts, TellStarted, TypeOK, runVars
<1>6. InBounds(r)'
  BY <1>0, <1>1, <1>4 DEF Facts, InBounds, Group, Last, Items, InGroup
<1>7. Alive(r)' /\ ~Executing(r) /\ ~Executing(r)'
  BY <1>0, <1>1, <1>4 DEF Facts, Alive, Executing, Working, InGroup
<1> QED  BY <1>1, <1>3, <1>5, <1>6, <1>7, QuietStep DEF Working, InGroup

LEMMA TellFinishedOK ==
  ASSUME PlanRunConstants, LockInv, NEW r \in Runs, TellFinished(r)
  PROVE  LockInv'
<1>0. Facts(r)  BY FactsOK
<1>1. /\ pc[r] = "tell_finish"
      /\ UNCHANGED <<started, plan, sheet, status, current, owner, count, summary>>
  BY DEF TellFinished, runVars
<1>2. \/ /\ at[r] < Last(r) /\ UNCHANGED first
         /\ at' = [at EXCEPT ![r] = at[r] + 1] /\ pc' = [pc EXCEPT ![r] = "finish"]
      \/ /\ first' = [first EXCEPT ![r] = Last(r) + 1] /\ UNCHANGED at
         /\ pc' = [pc EXCEPT ![r] = "next"]
      \/ /\ at' = [at EXCEPT ![r] = 1] /\ UNCHANGED first
         /\ pc' = [pc EXCEPT ![r] = "crash"]
  BY <1>0 DEF TellFinished, Raises, Facts, TypeOK
<1>3. Others(r)  BY <1>0, <1>1, <1>2 DEF Facts, TypeOK, Others
<1>4. \/ /\ at[r] < Last(r) /\ at'[r] = at[r] + 1 /\ pc'[r] = "finish"
         /\ first'[r] = first[r]
      \/ pc'[r] = "next"
      \/ pc'[r] = "crash"
  BY <1>0, <1>2 DEF Facts, TypeOK
<1>5. TypeOK'
  <2>1. pc' \in [Runs -> Working \cup Ending] /\ at' \in [Runs -> Nat]
    <3>1. pc' \in [Runs -> Working \cup Ending]
      BY <1>0, <1>2 DEF Facts, TypeOK, Working, InGroup, Ending
    <3>2. at[r] + 1 \in Nat /\ first[r] \in Nat /\ 1 \in Nat  BY <1>0 DEF Facts
    <3>3. at' \in [Runs -> Nat]
      <4>1. \E k \in Nat : at' = [at EXCEPT ![r] = k]
        <5>1. CASE at' = at
          <6>1. at' = [at EXCEPT ![r] = at[r]]  BY <1>0, <5>1 DEF Facts, TypeOK
          <6> QED  BY <1>0, <6>1 DEF Facts
        <5>2. CASE at' = [at EXCEPT ![r] = at[r] + 1]  BY <3>2, <5>2
        <5>3. CASE at' = [at EXCEPT ![r] = 1]  BY <3>2, <5>3
        <5> QED  BY <1>2, <5>1, <5>2, <5>3
      <4> QED  BY <1>0, <4>1 DEF Facts, TypeOK
    <3> QED  BY <3>1, <3>3
  <2>2. raises' \in Nat  BY <1>0 DEF TellFinished, Raises, Facts, TypeOK
  <2>3. told' = [s \in Runs |-> told'[s]]
    BY <1>0 DEF TellFinished, Tell, Facts, TypeOK
  <2>4. first' \in [Runs -> Nat \ {0}]
    <3>1. Last(r) + 1 \in Nat \ {0}  BY <1>0 DEF Facts, Last
    <3>2. first \in [Runs -> Nat \ {0}]  BY <1>0 DEF Facts, TypeOK
    <3>3. first' = first \/ first' = [first EXCEPT ![r] = Last(r) + 1]  BY <1>2
    <3> QED  BY <3>1, <3>2, <3>3
  <2> QED  BY <1>0, <2>1, <2>2, <2>3, <2>4 DEF Facts, TellFinished, TypeOK, runVars
<1>6. InBounds(r)'
  BY <1>0, <1>1, <1>4 DEF Facts, InBounds, Group, Last, Items, InGroup
<1>7. Alive(r)' /\ ~Executing(r) /\ ~Executing(r)'
  BY <1>0, <1>1, <1>4 DEF Facts, Alive, Executing, Working, InGroup
<1> QED  BY <1>1, <1>3, <1>5, <1>6, <1>7, QuietStep DEF Working, InGroup

LEMMA FinalizeOK ==
  ASSUME PlanRunConstants, LockInv, NEW r \in Runs, Finalize(r)
  PROVE  LockInv'
<1>0. Facts(r)  BY FactsOK
<1>1. /\ pc[r] = "finalize"
      /\ UNCHANGED <<started, plan, sheet, current, owner, first, count>>
  BY DEF Finalize, runVars
<1>2. status'[r] \in FinalRun
  BY <1>0 DEF Finalize, Verdict, FinalRun, Facts, TypeOK
<1>3. pc'[r] \in {"save"}
  BY <1>0, <1>1 DEF Finalize, Raises, Facts, TypeOK
<1>4. Others(r)
  BY <1>0, <1>1 DEF Finalize, Raises, Facts, TypeOK, Others, runVars, bounds
<1>5. TypeOK'
  <2>1. pc' \in [Runs -> Working \cup Ending]
    BY <1>0 DEF Finalize, Raises, Facts, TypeOK, Working, Ending
  <2>2. status' \in [Runs -> RunStatus]
    <3>1. Verdict(r) \in RunStatus  BY DEF Verdict, RunStatus, FinalRun
    <3> QED  BY <1>0, <3>1 DEF Finalize, Facts, TypeOK
  <2> QED  BY <1>0, <2>1, <2>2 DEF Facts, Finalize, TypeOK, runVars, bounds
<1>6. InBounds(r)'
  BY <1>3 DEF InBounds, InGroup
<1>7. Alive(r)' /\ ~Executing(r) /\ ~Executing(r)'
  BY <1>0, <1>1, <1>2, <1>3 DEF Facts, Alive, Executing, Working, InGroup, FinalRun
<1> QED  BY <1>1, <1>2, <1>3, <1>4, <1>5, <1>6, <1>7, QuietStep DEF Working, InGroup

LEMMA CrashRunOK ==
  ASSUME PlanRunConstants, LockInv, NEW r \in Runs, CrashRun(r)
  PROVE  LockInv'
<1>0. Facts(r)  BY FactsOK
<1>1. /\ pc[r] = "crash"
      /\ UNCHANGED <<started, plan, sheet, current, owner, first, count>>
  BY DEF CrashRun, runVars
<1>2. status'[r] \in FinalRun
  BY <1>0 DEF CrashRun, FinalRun, Facts, TypeOK
<1>3. pc'[r] \in {"crash_summary"}
  BY <1>0, <1>1 DEF CrashRun, Raises, Facts, TypeOK
<1>4. Others(r)
  BY <1>0, <1>1 DEF CrashRun, Raises, Facts, TypeOK, Others, runVars, bounds
<1>5. TypeOK'
  <2>1. pc' \in [Runs -> Working \cup Ending]
    BY <1>0 DEF CrashRun, Raises, Facts, TypeOK, Working, Ending
  <2>2. status' \in [Runs -> RunStatus]
    BY <1>0 DEF CrashRun, Facts, TypeOK, RunStatus, FinalRun
  <2> QED
    BY <1>0, <2>1, <2>2 DEF Facts, CrashRun, Persist, State, TypeOK, runVars, bounds
<1>6. InBounds(r)'
  BY <1>3 DEF InBounds, InGroup
<1>7. Alive(r)' /\ ~Executing(r) /\ ~Executing(r)'
  BY <1>0, <1>1, <1>2, <1>3 DEF Facts, Alive, Executing, Working, InGroup, FinalRun
<1> QED  BY <1>1, <1>2, <1>3, <1>4, <1>5, <1>6, <1>7, QuietStep DEF Working, InGroup

LEMMA CrashItemOK ==
  ASSUME PlanRunConstants, LockInv, NEW r \in Runs, CrashItem(r)
  PROVE  LockInv'
<1>0. Facts(r)  BY FactsOK
<1>1. /\ pc[r] = "crash"
      /\ UNCHANGED <<started, plan, sheet, current, owner, first, count>>
  BY DEF CrashItem, runVars
<1>2. status' = status /\ pc' = pc  BY DEF CrashItem
<1>3. pc'[r] \in {"crash"}
  BY <1>0, <1>1 DEF CrashItem, Raises, Facts, TypeOK
<1>4. Others(r)
  BY <1>0, <1>1 DEF CrashItem, Raises, Facts, TypeOK, Others, runVars, bounds
<1>5. TypeOK'
  <2>1. \A i \in Items(r) : i + 1 \in Nat  BY <1>0 DEF Facts
  <2>2. at' \in [Runs -> Nat]
    BY <1>0, <2>1 DEF CrashItem, Unfinished, Facts, TypeOK
  <2>3. item' = [s \in Runs |-> item'[s]] /\ told' = [s \in Runs |-> told'[s]]
    BY <1>0 DEF CrashItem, Marked, Facts, TypeOK
  <2>4. raises' \in Nat  BY <1>0 DEF CrashItem, Facts, TypeOK
  <2> QED  BY <1>0, <2>2, <2>3, <2>4 DEF Facts, CrashItem, TypeOK, runVars
<1>6. InBounds(r)'
  BY <1>3 DEF InBounds, InGroup
<1>7. Alive(r)' /\ ~Executing(r) /\ ~Executing(r)'
  BY <1>0, <1>1, <1>2, <1>3 DEF Facts, Alive, Executing, Working, InGroup, FinalRun
<1> QED  BY <1>1, <1>2, <1>3, <1>4, <1>5, <1>6, <1>7, QuietStep DEF Working, InGroup

LEMMA SaveOK ==
  ASSUME PlanRunConstants, LockInv, NEW r \in Runs, Save(r)
  PROVE  LockInv'
<1>0. Facts(r)  BY FactsOK
<1>1. /\ pc[r] = "save"
      /\ UNCHANGED <<started, plan, sheet, current, owner, first, count>>
  BY DEF Save, runVars
<1>2. status' = status /\ status[r] \in FinalRun
  BY <1>0 DEF Save, Facts, Alive
<1>3. pc'[r] \in {"summarize"}
  BY <1>0, <1>1 DEF Save, Raises, Facts, TypeOK
<1>4. Others(r)
  BY <1>0, <1>1 DEF Save, Raises, Facts, TypeOK, Others, runVars, bounds
<1>5. TypeOK'
  <2>1. pc' \in [Runs -> Working \cup Ending]
    BY <1>0 DEF Save, Raises, Facts, TypeOK, Working, Ending
  <2> QED  BY <1>0, <2>1 DEF Facts, Save, Persist, State, TypeOK, runVars, bounds
<1>6. InBounds(r)'
  BY <1>3 DEF InBounds, InGroup
<1>7. Alive(r)' /\ ~Executing(r) /\ ~Executing(r)'
  BY <1>0, <1>1, <1>2, <1>3 DEF Facts, Alive, Executing, Working, InGroup, FinalRun
<1> QED  BY <1>1, <1>2, <1>3, <1>4, <1>5, <1>6, <1>7, QuietStep DEF Working, InGroup

LEMMA SummarizeOK ==
  ASSUME PlanRunConstants, LockInv, NEW r \in Runs, Summarize(r)
  PROVE  LockInv'
<1>0. Facts(r)  BY FactsOK
<1>1. /\ pc[r] = "summarize"
      /\ UNCHANGED <<started, plan, sheet, current, owner, first, count>>
  BY DEF Summarize, runVars
<1>2. status' = status /\ status[r] \in FinalRun
  BY <1>0 DEF Summarize, Facts, Alive
<1>3. pc'[r] \in {"done", "crash"}
  BY <1>0, <1>1 DEF Summarize, Raises, Facts, TypeOK
<1>4. Others(r)
  BY <1>0, <1>1 DEF Summarize, Raises, Facts, TypeOK, Others, runVars, bounds
<1>5. TypeOK'
  <2>1. pc' \in [Runs -> Working \cup Ending]
    <3>1. \/ pc' = [pc EXCEPT ![r] = "done"]
          \/ pc' = [pc EXCEPT ![r] = "crash"]
      BY DEF Summarize, Raises
    <3> QED  BY <1>0, <3>1 DEF Facts, TypeOK, Ending
  <2>2. at' \in [Runs -> Nat] /\ raises' \in Nat
    <3>1. at' = at \/ at' = [at EXCEPT ![r] = 1]  BY DEF Summarize, Raises
    <3>2. at \in [Runs -> Nat]  BY <1>0 DEF Facts, TypeOK
    <3>3. raises' \in Nat  BY <1>0 DEF Summarize, Raises, Facts, TypeOK
    <3> QED  BY <3>1, <3>2, <3>3
  <2>3. summary' \in [Runs -> FinalRun \cup {None}]
    BY <1>0, <1>2 DEF Summarize, Facts, TypeOK
  <2> QED  BY <1>0, <2>1, <2>2, <2>3 DEF Facts, Summarize, TypeOK, runVars, bounds
<1>6. InBounds(r)'
  BY <1>3 DEF InBounds, InGroup
<1>7. Alive(r)' /\ ~Executing(r) /\ ~Executing(r)'
  BY <1>0, <1>1, <1>2, <1>3 DEF Facts, Alive, Executing, Working, InGroup, FinalRun
<1> QED  BY <1>1, <1>2, <1>3, <1>4, <1>5, <1>6, <1>7, QuietStep DEF Working, InGroup

LEMMA CrashSummaryOK ==
  ASSUME PlanRunConstants, LockInv, NEW r \in Runs, CrashSummary(r)
  PROVE  LockInv'
<1>0. Facts(r)  BY FactsOK
<1>1. /\ pc[r] = "crash_summary"
      /\ UNCHANGED <<started, plan, sheet, current, owner, first, count>>
  BY DEF CrashSummary, runVars
<1>2. status' = status /\ status[r] \in FinalRun
  BY <1>0 DEF CrashSummary, Facts, Alive
<1>3. pc'[r] \in {"done"}
  BY <1>0, <1>1 DEF CrashSummary, Raises, Facts, TypeOK
<1>4. Others(r)
  BY <1>0, <1>1 DEF CrashSummary, Raises, Facts, TypeOK, Others, runVars, bounds
<1>5. TypeOK'
  <2>1. pc' \in [Runs -> Working \cup Ending]
    BY <1>0 DEF CrashSummary, Raises, Facts, TypeOK, Working, Ending
  <2>2. at' \in [Runs -> Nat] /\ raises' \in Nat
    BY <1>0 DEF CrashSummary, Raises, Facts, TypeOK, bounds
  <2>3. summary' \in [Runs -> FinalRun \cup {None}]
    BY <1>0, <1>2 DEF CrashSummary, Facts, TypeOK
  <2> QED  BY <1>0, <2>1, <2>2, <2>3 DEF Facts, CrashSummary, TypeOK, runVars, bounds
<1>6. InBounds(r)'
  BY <1>3 DEF InBounds, InGroup
<1>7. Alive(r)' /\ ~Executing(r) /\ ~Executing(r)'
  BY <1>0, <1>1, <1>2, <1>3 DEF Facts, Alive, Executing, Working, InGroup, FinalRun
<1> QED  BY <1>1, <1>2, <1>3, <1>4, <1>5, <1>6, <1>7, QuietStep DEF Working, InGroup

(* The owner a run takes a lock under tells it from every other run that   *)
(* works: the owner names the plan, and a plan has one run that works.     *)
LEMMA OwnerFacts ==
  ASSUME PlanRunConstants, LockInv, NEW r \in Runs, pc[r] \in InGroup
  PROVE  /\ LockOf(r) \in Locks \cup {None}
         /\ OwnerId(r) \in Plans \X Nat /\ OwnerId(r) # Free
         /\ \A s \in Runs : pc[s] \in InGroup /\ OwnerId(s) = OwnerId(r) => s = r
<1>0. Facts(r)  BY FactsOK
<1>1. first[r] \in Items(r)  BY <1>0 DEF Facts, InBounds
<1>2. LockOf(r) \in Locks \cup {None}  BY <1>0, <1>1, SheetType DEF Facts, LockOf
<1>3. plan[r] \in Plans /\ current[plan[r]] = r
  BY DEF LockInv, WorkingIsCurrent, Working
<1>4. OwnerId(r) \in Plans \X Nat  BY <1>0, <1>3 DEF Facts, OwnerId
<1>5. ASSUME NEW s \in Runs, pc[s] \in InGroup, OwnerId(s) = OwnerId(r)
      PROVE  s = r
  <2>1. current[plan[s]] = s  BY <1>5 DEF LockInv, WorkingIsCurrent, Working
  <2>2. plan[s] = plan[r]  BY <1>5 DEF OwnerId
  <2> QED  BY <1>3, <2>1, <2>2
<1> QED  BY <1>2, <1>4, <1>5 DEF PlanRunConstants

LEMMA TakeLockOK ==
  ASSUME PlanRunConstants, LockInv, NEW r \in Runs, TakeLock(r)
  PROVE  LockInv'
<1> DEFINE l == LockOf(r)
<1>0. Facts(r)  BY FactsOK
<1>1. /\ pc[r] = "lock"
      /\ UNCHANGED <<started, plan, sheet, real, status, current, first, count, at, summary>>
  BY DEF TakeLock, runVars
<1>2. \/ l = None /\ pc' = [pc EXCEPT ![r] = "execute"] /\ UNCHANGED owner
      \/ /\ l # None /\ owner[l] \in {Free, OwnerId(r)}
         /\ owner' = [owner EXCEPT ![l] = OwnerId(r)]
         /\ pc' = [pc EXCEPT ![r] = "execute"]
      \/ pc' = [pc EXCEPT ![r] = "finish"] /\ UNCHANGED owner
  BY DEF TakeLock, Grants, Acquired
<1>3. Others(r) /\ pc'[r] \in {"execute", "finish"}
  BY <1>0, <1>1, <1>2 DEF Facts, TypeOK, Others
<1>4. /\ l \in Locks \cup {None} /\ OwnerId(r) \in Plans \X Nat /\ OwnerId(r) # Free
      /\ \A s \in Runs : pc[s] \in InGroup /\ OwnerId(s) = OwnerId(r) => s = r
  BY <1>1, OwnerFacts DEF InGroup
<1>5. TypeOK'
  <2>1. pc' \in [Runs -> Working \cup Ending]
    BY <1>0, <1>2 DEF Facts, TypeOK, Working, InGroup
  <2>2. owner' \in [Locks -> (Plans \X Nat) \cup {Free}]
    <3> DEFINE Own == (Plans \X Nat) \cup {Free}
    <3>1. owner \in [Locks -> Own] /\ OwnerId(r) \in Own
      BY <1>0, <1>4 DEF Facts, TypeOK
    <3> HIDE DEF Own
    <3>2. owner' = owner \/ owner' = [owner EXCEPT ![l] = OwnerId(r)]  BY <1>2
    <3>3. owner' \in [Locks -> Own]  BY <3>1, <3>2
    <3> QED  BY <3>3 DEF Own
  <2>3. item' = [s \in Runs |-> item'[s]]
    BY <1>0 DEF TakeLock, Marked, Facts, TypeOK
  <2> QED  BY <1>0, <2>1, <2>2, <2>3 DEF Facts, TakeLock, TypeOK, runVars, bounds
<1>6. InBounds(r)'
  <2>1. at[r] = first[r]  BY <1>0, <1>1 DEF Facts, InBounds
  <2> QED  BY <1>0, <1>1, <1>3, <2>1 DEF Facts, InBounds, Group, Last, Items, InGroup
<1>7. Alive(r)' /\ ~Executing(r)
  BY <1>0, <1>1, <1>3 DEF Facts, Alive, Executing, Working, InGroup
<1>8. LockOf(r)' = l /\ OwnerId(r)' = OwnerId(r)
  BY <1>1 DEF LockOf, OwnerId
<1>9. CASE UNCHANGED owner /\ (l = None \/ pc'[r] = "finish")
  <2>1. ~Executing(r)'  BY <1>8, <1>9 DEF Executing
  <2> QED
    BY <1>1, <1>3, <1>5, <1>6, <1>7, <1>9, <2>1, QuietStep DEF Working, InGroup
<1>10. CASE l # None /\ owner[l] \in {Free, OwnerId(r)}
            /\ owner' = [owner EXCEPT ![l] = OwnerId(r)]
            /\ pc' = [pc EXCEPT ![r] = "execute"]
  <2>1. l \in Locks  BY <1>4, <1>10
  <2>2. owner[l] = Free
    <3> SUFFICES ASSUME owner[l] # Free  PROVE FALSE
      OBVIOUS
    <3>1. PICK s \in Runs : Executing(s) /\ OwnerId(s) = owner[l]
      BY <2>1 DEF LockInv, LocksHeld
    <3>2. s = r  BY <1>4, <1>10, <3>1 DEF Executing, InGroup
    <3> QED  BY <1>7, <3>1, <3>2
  <2>3. \A s \in Runs \ {r} : Executing(s) => LockOf(s) \in Locks \ {l}
    <3> SUFFICES ASSUME NEW s \in Runs \ {r}, Executing(s)
                 PROVE  LockOf(s) \in Locks \ {l}
      OBVIOUS
    <3>1. LockOf(s) \in Locks /\ OwnerId(s) # Free
      BY OwnerFacts DEF Executing, InGroup
    <3>2. owner[LockOf(s)] = OwnerId(s)  BY DEF LockInv, LocksHeld
    <3> QED  BY <2>2, <3>1, <3>2
  <2>4. \A s \in Runs \ {r} : /\ Executing(s)' = Executing(s)
                              /\ LockOf(s)' = LockOf(s)
                              /\ OwnerId(s)' = OwnerId(s)
    BY <1>3, OthersOK
  <2>5. owner \in [Locks -> (Plans \X Nat) \cup {Free}]  BY DEF LockInv, TypeOK
  <2>6. Executing(r)'
    BY <1>0, <1>8, <1>10 DEF Executing, Facts, TypeOK
  <2>7. LocksHeld'
    <3>1. \A s \in Runs : Executing(s)' => owner'[LockOf(s)'] = OwnerId(s)'
      <4> SUFFICES ASSUME NEW s \in Runs, Executing(s)'
                   PROVE  owner'[LockOf(s)'] = OwnerId(s)'
        OBVIOUS
      <4>1. CASE s = r  BY <1>8, <1>10, <2>1, <2>5, <4>1
      <4>2. CASE s # r
        <5>1. Executing(s) /\ LockOf(s) \in Locks \ {l}  BY <2>3, <2>4, <4>2
        <5>2. owner[LockOf(s)] = OwnerId(s)  BY <5>1 DEF LockInv, LocksHeld
        <5> QED  BY <1>10, <2>4, <2>5, <4>2, <5>1, <5>2
      <4> QED  BY <4>1, <4>2
    <3>2. ASSUME NEW k \in Locks, owner'[k] # Free
          PROVE  \E s \in Runs : Executing(s)' /\ LockOf(s)' = k /\ OwnerId(s)' = owner'[k]
      <4>1. CASE k = l  BY <1>8, <1>10, <2>5, <2>6, <4>1
      <4>2. CASE k # l
        <5>1. owner'[k] = owner[k]  BY <1>10, <2>5, <4>2
        <5>2. PICK s \in Runs : Executing(s) /\ LockOf(s) = k /\ OwnerId(s) = owner[k]
          BY <3>2, <5>1 DEF LockInv, LocksHeld
        <5>3. s # r  BY <1>7, <5>2
        <5> QED  BY <2>4, <5>1, <5>2, <5>3
      <4> QED  BY <4>1, <4>2
    <3> QED  BY <3>1, <3>2 DEF LocksHeld
  <2>8. WorkingIsCurrent'
    <3>1. pc[r] \in Working /\ pc[r] # "done"  BY <1>1 DEF Working, InGroup
    <3> QED  BY <1>1, <1>3, <3>1, CurrentFrame DEF LockInv
  <2>9. \A s \in Runs : InBounds(s)' /\ Alive(s)'
    BY <1>3, <1>6, <1>7, OthersOK DEF LockInv
  <2> QED  BY <1>5, <2>7, <2>8, <2>9 DEF LockInv
<1> QED
  <2>1. pc' = [pc EXCEPT ![r] = "finish"] => pc'[r] = "finish"
    BY <1>0 DEF Facts, TypeOK
  <2> QED  BY <1>2, <1>9, <1>10, <2>1

LEMMA ExecuteOK ==
  ASSUME PlanRunConstants, LockInv, NEW r \in Runs, Execute(r)
  PROVE  LockInv'
<1> DEFINE l == LockOf(r)
<1>0. Facts(r)  BY FactsOK
<1>1. /\ pc[r] = "execute" /\ pc' = [pc EXCEPT ![r] = "finish"]
      /\ UNCHANGED <<started, plan, sheet, real, status, current, first, count, at, summary>>
  BY DEF Execute, runVars
<1>2. Others(r) /\ pc'[r] = "finish"
  BY <1>0, <1>1 DEF Facts, TypeOK, Others
<1>3. /\ l \in Locks \cup {None}
      /\ \A s \in Runs : pc[s] \in InGroup /\ OwnerId(s) = OwnerId(r) => s = r
  BY <1>1, OwnerFacts DEF InGroup
<1>4. owner \in [Locks -> (Plans \X Nat) \cup {Free}]  BY DEF LockInv, TypeOK
<1>5. \/ l = None /\ owner' = owner
      \/ l \in Locks /\ owner[l] = OwnerId(r) /\ owner' = [owner EXCEPT ![l] = Free]
  <2>1. l # None => owner[l] = OwnerId(r)
    BY <1>1 DEF LockInv, LocksHeld, Executing
  <2> QED  BY <1>3, <2>1 DEF Execute, Released
<1>6. TypeOK'
  <2>1. pc' \in [Runs -> Working \cup Ending]
    BY <1>0, <1>1 DEF Facts, TypeOK, Working, InGroup
  <2>2. owner' \in [Locks -> (Plans \X Nat) \cup {Free}]  BY <1>4, <1>5
  <2>3. item' = [s \in Runs |-> item'[s]]
    <3>1. item = [s \in Runs |-> item[s]]  BY DEF LockInv, TypeOK
    <3>2. \E new : item' = [item EXCEPT ![r] = new]
      <4>1. CASE ~real[r]
        <5> DEFINE new == [i \in Items(r) |-> IF i \in Group(r) THEN "SUCCESS" ELSE item[r][i]]
        <5>1. item' = [item EXCEPT ![r] = new]  BY <3>1, <4>1 DEF Execute, Marked
        <5> QED  BY <5>1
      <4>2. CASE real[r]
        <5>1. PICK answers \in Answers(r) :
                item' = [item EXCEPT ![r] = [i \in Items(r) |->
                           IF i \in Group(r) THEN ApplyRealResult(answers, i - first[r] + 1) ELSE @[i]]]
          BY <4>2 DEF Execute
        <5> DEFINE new == [i \in Items(r) |->
                             IF i \in Group(r) THEN ApplyRealResult(answers, i - first[r] + 1)
                             ELSE item[r][i]]
        <5>2. item' = [item EXCEPT ![r] = new]  BY <3>1, <5>1
        <5> QED  BY <5>2
      <4> QED  BY <4>1, <4>2
    <3> QED  BY <3>1, <3>2
  <2> QED  BY <1>0, <2>1, <2>2, <2>3 DEF Facts, Execute, TypeOK, runVars, bounds
<1>7. InBounds(r)'
  BY <1>0, <1>1, <1>2 DEF Facts, InBounds, Group, Last, Items, InGroup
<1>8. Alive(r)' /\ ~Executing(r)'
  BY <1>0, <1>1, <1>2 DEF Facts, Alive, Executing, Working, InGroup
<1>9. \A s \in Runs \ {r} : /\ Executing(s)' = Executing(s)
                            /\ LockOf(s)' = LockOf(s)
                            /\ OwnerId(s)' = OwnerId(s)
  BY <1>2, OthersOK
<1>10. LocksHeld'
  <2>1. ASSUME NEW s \in Runs, Executing(s)'
        PROVE  owner'[LockOf(s)'] = OwnerId(s)'
    <3>1. s # r  BY <1>8, <2>1
    <3>2. Executing(s) /\ pc[s] \in InGroup  BY <1>9, <2>1, <3>1 DEF Executing, InGroup
    <3>3. owner[LockOf(s)] = OwnerId(s)  BY <3>2 DEF LockInv, LocksHeld
    <3>4. LockOf(s) \in Locks  BY <3>2, OwnerFacts DEF Executing
    <3>5. OwnerId(s) # OwnerId(r)  BY <1>3, <3>1, <3>2
    <3>6. owner'[LockOf(s)] = owner[LockOf(s)]  BY <1>4, <1>5, <3>3, <3>4, <3>5
    <3> QED  BY <1>9, <3>1, <3>3, <3>6
  <2>2. ASSUME NEW k \in Locks, owner'[k] # Free
        PROVE  \E s \in Runs : Executing(s)' /\ LockOf(s)' = k /\ OwnerId(s)' = owner'[k]
    <3>1. owner'[k] = owner[k] /\ k # l
      BY <1>4, <1>5, <2>2, <1>3 DEF PlanRunConstants
    <3>2. PICK s \in Runs : Executing(s) /\ LockOf(s) = k /\ OwnerId(s) = owner[k]
      BY <2>2, <3>1 DEF LockInv, LocksHeld
    <3> QED  BY <1>9, <3>1, <3>2
  <2> QED  BY <2>1, <2>2 DEF LocksHeld
<1>11. WorkingIsCurrent'
  <2>1. pc[r] \in Working /\ pc[r] # "done"  BY <1>1 DEF Working, InGroup
  <2> QED  BY <1>1, <1>2, <2>1, CurrentFrame DEF LockInv
<1>12. \A s \in Runs : InBounds(s)' /\ Alive(s)'
  BY <1>2, <1>7, <1>8, OthersOK DEF LockInv
<1> QED  BY <1>6, <1>10, <1>11, <1>12 DEF LockInv

(* A run that starts takes the place of one that has ended.                *)
LEMMA StartOK ==
  ASSUME PlanRunConstants, LockInv,
         NEW p \in Plans, NEW s \in Sheets, NEW m \in BOOLEAN, Start(p, s, m)
  PROVE  LockInv'
<1>0. TypeOK  BY DEF LockInv
<1>1. PICK r \in Runs : r = started + 1 /\ started < r /\ started' = r
  BY <1>0 DEF Start, TypeOK, Runs, PlanRunConstants
<1>2. pc[r] = "done" /\ summary[r] = None
  BY <1>0, <1>1 DEF LockInv, WorkingIsCurrent, TypeOK
<1>3. /\ sheet' = [sheet EXCEPT ![r] = s] /\ plan' = [plan EXCEPT ![r] = p]
      /\ status' = [status EXCEPT ![r] = "RUNNING"]
      /\ pc' = [pc EXCEPT ![r] = "next"] /\ first' = [first EXCEPT ![r] = 1]
      /\ current' = [current EXCEPT ![p] = r]
      /\ UNCHANGED <<count, at, owner, summary>>
  BY <1>1 DEF Start
<1>4. MayStart(p)  BY DEF Start
<1>5. Others(r)  BY <1>0, <1>1, <1>3 DEF Others, TypeOK
<1>6. /\ pc'[r] = "next" /\ plan'[r] = p /\ status'[r] = "RUNNING" /\ summary'[r] = None
      /\ current' \in [Plans -> 0 .. MaxRuns] /\ current'[p] = r
  <2>1. r \in 0 .. MaxRuns  BY <1>1 DEF Runs
  <2> QED  BY <1>0, <1>1, <1>2, <1>3, <2>1 DEF TypeOK
<1>7. TypeOK'
  <2>1. pc' \in [Runs -> Working \cup Ending] /\ status' \in [Runs -> RunStatus]
    BY <1>0, <1>1, <1>3 DEF TypeOK, Working, RunStatus
  <2>2. /\ plan' \in [Runs -> Plans \cup {None}]
        /\ sheet' \in [Runs -> Sheets \cup {<<>>}]
        /\ first' \in [Runs -> Nat \ {0}]
    BY <1>0, <1>1, <1>3 DEF TypeOK
  <2>3. real' \in [Runs -> BOOLEAN]  BY <1>0 DEF Start, TypeOK
  <2>4. started' \in 0 .. MaxRuns  BY <1>1 DEF Runs
  <2>5. /\ item' = [i \in Runs |-> item'[i]] /\ disk' = [i \in Runs |-> disk'[i]]
        /\ told' = [i \in Runs |-> told'[i]]
    BY <1>0 DEF Start, Persist, State, TypeOK
  <2>6. \A i \in Runs : disk'[i].status \in RunStatus
    <3>1. disk' = [disk EXCEPT ![r] = [status |-> status'[r], item |-> item'[r]]]
      BY <1>1 DEF Start, Persist, State
    <3>2. status'[r] \in RunStatus  BY <1>1, <2>1
    <3> QED  BY <1>0, <1>1, <3>1, <3>2 DEF TypeOK
  <2>7. UNCHANGED <<count, at, owner, summary, crashes, raises>>  BY DEF Start, bounds
  <2> QED  BY <1>0, <1>6, <2>1, <2>2, <2>3, <2>4, <2>5, <2>6, <2>7 DEF TypeOK
<1>8. WorkingIsCurrent'
  <2> SUFFICES ASSUME NEW t \in Runs
      PROVE  /\ pc'[t] \in Working =>
                  /\ status'[t] = "RUNNING" /\ plan'[t] \in Plans
                  /\ current'[plan'[t]] = t
             /\ pc'[t] # "done" \/ summary'[t] # None => t <= started'
    BY DEF WorkingIsCurrent
  <2>1. CASE t = r  BY <1>1, <1>6, <2>1 DEF Runs
  <2>2. CASE t # r
    <3>1. pc'[t] # "done" \/ summary'[t] # None => t <= started'
      BY <1>0, <1>1, <1>5, <2>2 DEF Others, LockInv, WorkingIsCurrent, TypeOK, Runs
    <3>2. ASSUME pc'[t] \in Working
          PROVE  /\ status'[t] = "RUNNING" /\ plan'[t] \in Plans
                 /\ current'[plan'[t]] = t
      <4>1. status[t] = "RUNNING" /\ plan[t] \in Plans /\ current[plan[t]] = t
        BY <1>5, <2>2, <3>2 DEF Others, LockInv, WorkingIsCurrent
      <4>2. plan[t] # p
        <5>1. t # 0  BY DEF Runs
        <5> QED  BY <1>4, <4>1, <5>1 DEF MayStart
      <4> QED  BY <1>0, <1>3, <1>5, <2>2, <4>1, <4>2 DEF Others, TypeOK
    <3> QED  BY <3>1, <3>2
  <2> QED  BY <2>1, <2>2
<1>9. ~Executing(r) /\ ~Executing(r)'  BY <1>2, <1>6 DEF Executing
<1>10. LocksHeld'
  <2>1. \A t \in Runs \ {r} : /\ Executing(t)' = Executing(t)
                              /\ LockOf(t)' = LockOf(t)
                              /\ OwnerId(t)' = OwnerId(t)
    BY <1>1, <1>5, OthersOK
  <2> QED  BY <1>3, <1>9, <2>1 DEF LocksHeld, LockInv
<1>11. \A t \in Runs : InBounds(t)' /\ Alive(t)'
  <2>1. InBounds(r)' /\ Alive(r)'
    BY <1>6 DEF InBounds, InGroup, Alive, Working
  <2> QED  BY <1>1, <1>5, <2>1, OthersOK DEF LockInv
<1> QED  BY <1>7, <1>8, <1>10, <1>11 DEF LockInv

LEMMA RestartOK ==
  ASSUME PlanRunConstants, LockInv, Restart
  PROVE  LockInv'
<1>0. TypeOK  BY DEF LockInv
<1>1. /\ pc' = [r \in Runs |-> "done"] /\ owner' = NewTable
      /\ UNCHANGED <<started, plan, sheet, real, current, disk, told, summary, raises>>
  BY DEF Restart, runVars
<1>2. \A r \in Runs : status'[r] \in RunStatus \ {"RUNNING"}
  BY <1>0 DEF Restart, LoadedStatus, TypeOK, RunStatus
<1>3. TypeOK'
  <2>1. pc' \in [Runs -> Working \cup Ending]  BY <1>1 DEF Ending
  <2>2. status' \in [Runs -> RunStatus]  BY <1>2 DEF Restart
  <2>3. owner' \in [Locks -> (Plans \X Nat) \cup {Free}]  BY <1>1 DEF NewTable
  <2>4. item' = [r \in Runs |-> item'[r]]  BY DEF Restart
  <2>5. /\ first' \in [Runs -> Nat \ {0}] /\ count' \in [Runs -> Nat \ {0}]
        /\ at' \in [Runs -> Nat] /\ crashes' \in Nat
    BY <1>0 DEF Restart, TypeOK
  <2> QED  BY <1>0, <1>1, <2>1, <2>2, <2>3, <2>4, <2>5 DEF TypeOK
<1>4. WorkingIsCurrent'
  BY <1>1 DEF LockInv, WorkingIsCurrent, Working, InGroup
<1>5. LocksHeld'  BY <1>1 DEF LocksHeld, Executing, NewTable
<1>6. \A r \in Runs : InBounds(r)' /\ Alive(r)'
  BY <1>1, <1>2 DEF InBounds, Alive, InGroup
<1> QED  BY <1>3, <1>4, <1>5, <1>6 DEF LockInv

LEMMA StutterOK ==
  ASSUME LockInv, UNCHANGED vars
  PROVE  LockInv'
<1> USE DEF vars, runVars, bounds
<1>1. TypeOK'  BY DEF LockInv, TypeOK
<1>2. WorkingIsCurrent'  BY DEF LockInv, WorkingIsCurrent
<1>3. LocksHeld'  BY DEF LockInv, LocksHeld, Executing, LockOf, OwnerId
<1>4. \A r \in Runs : InBounds(r)' /\ Alive(r)'
  BY DEF LockInv, InBounds, Alive, Items, Last, Group
<1> QED  BY <1>1, <1>2, <1>3, <1>4 DEF LockInv

LEMMA LockStep ==
  ASSUME PlanRunConstants, LockInv, [Next]_vars
  PROVE  LockInv'
<1>1. ASSUME NEW r \in Runs, RunStep(r)  PROVE LockInv'
  BY <1>1, NextGroupOK, MarkStartedOK, TellStartedOK, TakeLockOK, ExecuteOK,
     MarkFinishedOK, TellFinishedOK, FinalizeOK, SaveOK, SummarizeOK,
     CrashItemOK, CrashRunOK, CrashSummaryOK DEF RunStep
<1>2. CASE UNCHANGED vars  BY <1>2, StutterOK
<1> QED  BY <1>1, <1>2, StartOK, RestartOK DEF Next

(* _execute_run_inner, start_plan_run and the resource locks keep LockInv:  *)
(* a run that works is the one its plan answers for, and whoever executes   *)
(* under a lock owns it.                                                   *)
THEOREM Invariance == ASSUME PlanRunConstants PROVE Spec => []LockInv
<1>1. Init => LockInv  BY InitOK
<1>2. LockInv /\ [Next]_vars => LockInv'  BY LockStep
<1> QED  BY <1>1, <1>2, PTL DEF Spec

(* _execute_run_item, _execute_real_bmc_group: no two runs work on the     *)
(* device behind a lock URI at once.                                       *)
THEOREM Exclusion == ASSUME PlanRunConstants PROVE Spec => []ResourceExclusive
<1>1. LockInv => ResourceExclusive
  <2> SUFFICES ASSUME LockInv, NEW r \in Runs, NEW s \in Runs, r # s,
                      Executing(r), Executing(s), LockOf(r) = LockOf(s)
               PROVE  FALSE
    BY DEF ResourceExclusive
  <2>1. OwnerId(r) = OwnerId(s)  BY DEF LockInv, LocksHeld
  <2>2. pc[r] \in InGroup /\ pc[s] \in InGroup  BY DEF Executing, InGroup
  <2> QED  BY <2>1, <2>2, OwnerFacts
<1> QED  BY <1>1, Invariance, PTL

(* A run that is RUNNING has a thread that will end it, also after a crash  *)
(* of the thread or of the process.                                        *)
THEOREM NoZombie == ASSUME PlanRunConstants PROVE Spec => []RunningHasThread
<1>1. LockInv => RunningHasThread
  BY DEF LockInv, Alive, RunningHasThread, Working, InGroup
<1> QED  BY <1>1, Invariance, PTL

-----------------------------------------------------------------------------
(* What PlanRun keeps of the items of a run: memory, state file and outbox  *)
(* agree as far as the server has been told.                               *)

(* A step that leaves a run alone.                                         *)
Same(s) ==
  /\ sheet'[s] = sheet[s] /\ status'[s] = status[s] /\ item'[s] = item[s]
  /\ pc'[s] = pc[s] /\ first'[s] = first[s] /\ count'[s] = count[s] /\ at'[s] = at[s]
  /\ disk'[s] = disk[s] /\ told'[s] = told[s] /\ summary'[s] = summary[s]

LEMMA SameOK ==
  ASSUME NEW s \in Runs, Same(s)
  PROVE  RunOK(s)' = RunOK(s)
<1>1. Items(s)' = Items(s) /\ Last(s)' = Last(s) /\ Group(s)' = Group(s)
  BY DEF Same, Items, Last, Group
<1>2. \A i : Settled(s, i)' = Settled(s, i)  BY DEF Same, Settled
<1>3. \A i : LoadedItem(disk[s], i)' = LoadedItem(disk[s], i)
  BY DEF Same, LoadedItem, LoadedStatus
<1>4. ItemsTyped(s)' = ItemsTyped(s)  BY <1>1 DEF Same, ItemsTyped
<1>5. InBounds(s)' = InBounds(s)  BY <1>1 DEF Same, InBounds
<1>6. ItemsInOrder(s)' = ItemsInOrder(s)
  BY <1>1, <1>2 DEF Same, ItemsInOrder, Reached, Ahead
<1>7. DiskBehind(s)' = DiskBehind(s)  BY <1>1, <1>2 DEF Same, DiskBehind
<1>8. EndOK(s)' = EndOK(s)  BY <1>1 DEF Same, EndOK
<1>9. ServerOK(s)' = ServerOK(s)  BY <1>1, <1>2, <1>3 DEF Same, ServerOK
<1> QED  BY <1>4, <1>5, <1>6, <1>7, <1>8, <1>9 DEF RunOK

(* A step of run r.                                                        *)
LEMMA OneRun ==
  ASSUME RunInv, LockInv', NEW r \in Runs,
         \A s \in Runs \ {r} : Same(s),
         ItemsTyped(r)', ItemsInOrder(r)', DiskBehind(r)', EndOK(r)', ServerOK(r)'
  PROVE  RunInv'
<1>1. \A s \in Runs \ {r} : RunOK(s)'  BY SameOK DEF RunInv
<1>2. RunOK(r)'  BY DEF RunOK, LockInv
<1> QED  BY <1>1, <1>2 DEF RunInv, LockInv

LEMMA RunInvIsLockInv ==
  ASSUME RunInv
  PROVE  LockInv
BY DEF RunInv, LockInv, RunOK, EndOK, Alive

(* What is known before a step of run r, and of its items after a step that *)
(* leaves the sheet alone.                                                 *)
LEMMA Before ==
  ASSUME PlanRunConstants, RunInv, NEW r \in Runs
  PROVE  Facts(r) /\ RunOK(r)
BY RunInvIsLockInv, FactsOK DEF RunInv

LEMMA NextGroupKeeps ==
  ASSUME PlanRunConstants, RunInv, LockInv', NEW r \in Runs, NextGroup(r)
  PROVE  RunInv'
<1>0. Facts(r) /\ RunOK(r)  BY Before
<1>1. /\ pc[r] = "next"
      /\ UNCHANGED <<sheet, status, item, disk, told, summary>>
  BY DEF NextGroup, runVars
<1>2. \/ /\ first[r] > Len(sheet[r])
         /\ pc' = [pc EXCEPT ![r] = "finalize"]
         /\ UNCHANGED <<first, count, at>>
      \/ /\ first[r] <= Len(sheet[r])
         /\ pc' = [pc EXCEPT ![r] = "start"]
         /\ first' = [first EXCEPT ![r] = first[r]]
         /\ count' = [count EXCEPT ![r] = GroupSize(r, sheet[r], first[r])]
         /\ at' = [at EXCEPT ![r] = first[r]]
  BY <1>0 DEF NextGroup, Advance, Facts
<1>3. \/ pc'[r] = "finalize" /\ first[r] > Len(sheet[r])
      \/ pc'[r] = "start" /\ first'[r] = first[r]
  BY <1>0, <1>2 DEF Facts, TypeOK
<1>4. \A s \in Runs \ {r} : Same(s)  BY <1>0, <1>1, <1>2 DEF Facts, TypeOK, Same
<1>5. Items(r)' = Items(r)  BY <1>1 DEF Items
<1>6. ItemsTyped(r)'  BY <1>0, <1>1, <1>5 DEF RunOK, ItemsTyped
<1>7. \A i : Settled(r, i)' = Settled(r, i)  BY <1>1 DEF Settled
<1>8. ItemsInOrder(r)'
  <2>1. \A i \in Items(r) : i \in Nat /\ i <= Len(sheet[r])  BY <1>0 DEF Facts
  <2>2. \A i \in Items(r) : /\ IF i < first[r] THEN Settled(r, i) ELSE told[r][i] \notin FinalItem
                            /\ i >= first[r] => item[r][i] \notin FinalItem
    BY <1>0, <1>1 DEF RunOK, ItemsInOrder, Reached, Ahead
  <2>3. first[r] > Len(sheet[r]) => \A i \in Items(r) : Settled(r, i)
    BY <1>0, <2>1, <2>2 DEF Facts
  <2> QED  BY <1>1, <1>3, <1>5, <1>7, <2>2, <2>3 DEF ItemsInOrder, Reached, Ahead, InGroup
<1>9. DiskBehind(r)'
  BY <1>0, <1>1, <1>3, <1>5, <1>7 DEF RunOK, DiskBehind, Working, InGroup
<1>10. EndOK(r)'
  BY <1>0, <1>1, <1>3 DEF RunOK, EndOK, Working, InGroup
<1>11. ServerOK(r)'
  BY <1>0, <1>1, <1>5, <1>7 DEF RunOK, ServerOK, LoadedItem, LoadedStatus
<1> QED  BY <1>4, <1>6, <1>8, <1>9, <1>10, <1>11, OneRun

(* While a run works, neither memory nor state file says that it has ended. *)
LEMMA WhileWorking ==
  ASSUME RunInv, NEW r \in Runs, pc[r] \in Working
  PROVE  /\ status[r] = "RUNNING" /\ disk[r].status = "RUNNING" /\ summary[r] = None
BY DEF RunInv, RunOK, WorkingIsCurrent, DiskBehind, ServerOK, Working, InGroup

LEMMA MarkStartedKeeps ==
  ASSUME PlanRunConstants, RunInv, LockInv', NEW r \in Runs, MarkStarted(r)
  PROVE  RunInv'
<1>0. Facts(r) /\ RunOK(r)  BY Before
<1>1. /\ pc[r] = "start" /\ pc' = [pc EXCEPT ![r] = "tell_start"]
      /\ UNCHANGED <<sheet, status, first, count, at, told, summary>>
      /\ item' = Marked(r, {at[r]}, "IN_PROGRESS")
      /\ disk' = [disk EXCEPT ![r] = [status |-> status[r], item |-> item'[r]]]
  BY DEF MarkStarted, runVars, Persist, State
<1>2. status[r] = "RUNNING" /\ summary[r] = None  BY <1>1, WhileWorking DEF Working, InGroup
<1>3. \A s \in Runs \ {r} : Same(s)  BY <1>0, <1>1 DEF Facts, TypeOK, Same, Marked
<1>4. /\ pc'[r] = "tell_start"
      /\ item'[r] = [i \in Items(r) |-> IF i = at[r] THEN "IN_PROGRESS" ELSE item[r][i]]
      /\ disk'[r] = [status |-> "RUNNING", item |-> item'[r]]
  BY <1>0, <1>1, <1>2 DEF Facts, TypeOK, Marked
<1>5. Items(r)' = Items(r) /\ at[r] \in Items(r) /\ first[r] <= at[r]
  BY <1>0, <1>1 DEF Items, Facts, InBounds, Group, InGroup
<1>6. ItemsTyped(r)'
  <2>1. item[r] \in [Items(r) -> ItemStatus] /\ told[r] \in [Items(r) -> ItemStatus \cup {None}]
    BY <1>0 DEF RunOK, ItemsTyped
  <2>2. item'[r] \in [Items(r) -> ItemStatus]  BY <1>4, <2>1 DEF ItemStatus
  <2>3. disk'[r] \in [status : RunStatus, item : [Items(r) -> ItemStatus]]
    BY <1>4, <2>2 DEF RunStatus
  <2> QED  BY <1>1, <1>5, <2>1, <2>2, <2>3 DEF ItemsTyped
<1>7. \A i \in Items(r) : /\ i < first[r] => Settled(r, i)
                          /\ i >= first[r] => told[r][i] \notin FinalItem /\ item[r][i] \notin FinalItem
  BY <1>0, <1>1 DEF RunOK, ItemsInOrder, Reached, Ahead, Facts, InGroup
<1>8. \A i \in Items(r) : /\ item'[r][i] \in FinalItem => item'[r][i] = item[r][i]
                          /\ i < first[r] => item'[r][i] = item[r][i]
                          /\ Settled(r, i) /\ i < first[r] => Settled(r, i)'
                          /\ i >= first[r] => item'[r][i] \notin FinalItem
  BY <1>0, <1>1, <1>4, <1>5, <1>7 DEF Settled, FinalItem, Facts
<1>9. ItemsInOrder(r)'
  <2>1. Reached(r)' = first[r] /\ Ahead(r)' = first[r]  BY <1>1, <1>4 DEF Reached, Ahead
  <2>2. \A i \in Items(r) :
          /\ IF i < first[r] THEN Settled(r, i)' ELSE told'[r][i] \notin FinalItem
          /\ i >= first[r] => item'[r][i] \notin FinalItem
    <3> SUFFICES ASSUME NEW i \in Items(r)
        PROVE  /\ i < first[r] => Settled(r, i)'
               /\ ~(i < first[r]) => told'[r][i] \notin FinalItem
               /\ i >= first[r] => item'[r][i] \notin FinalItem
      BY DEF Settled
    <3>1. i \in Nat /\ first[r] \in Nat  BY <1>0 DEF Facts
    <3>2. ~(i < first[r]) => i >= first[r]  BY <3>1
    <3> QED  BY <1>1, <1>7, <1>8, <3>2
  <2>3. item'[r][at[r]] = "IN_PROGRESS"  BY <1>4, <1>5
  <2> QED  BY <1>1, <1>4, <1>5, <2>1, <2>2, <2>3 DEF ItemsInOrder, InGroup
<1>10. DiskBehind(r)'  BY <1>4, <1>5 DEF DiskBehind
<1>11. EndOK(r)'  BY <1>1, <1>2, <1>4 DEF EndOK, Working, InGroup
<1>12. ServerOK(r)'
  BY <1>0, <1>1, <1>2, <1>4, <1>5, <1>7, <1>8
     DEF RunOK, ServerOK, LoadedItem, LoadedStatus, Settled
<1> QED  BY <1>3, <1>6, <1>9, <1>10, <1>11, <1>12, OneRun

LEMMA TellStartedKeeps ==
  ASSUME PlanRunConstants, RunInv, LockInv', NEW r \in Runs, TellStarted(r)
  PROVE  RunInv'
<1>0. Facts(r) /\ RunOK(r)  BY Before
<1>1. /\ pc[r] = "tell_start"
      /\ UNCHANGED <<sheet, status, item, first, count, disk, summary>>
  BY DEF TellStarted, runVars
<1>2. \/ /\ told' = [told EXCEPT ![r][at[r]] = item[r][at[r]]]
         /\ \/ /\ at' = [at EXCEPT ![r] = at[r] + 1] /\ pc' = [pc EXCEPT ![r] = "start"]
            \/ /\ at' = [at EXCEPT ![r] = first[r]] /\ pc' = [pc EXCEPT ![r] = "lock"]
      \/ /\ told' = told
         /\ at' = [at EXCEPT ![r] = 1] /\ pc' = [pc EXCEPT ![r] = "crash"]
  BY <1>0 DEF TellStarted, Tell, Raises, Facts, TypeOK
<1>3. /\ status[r] = "RUNNING" /\ summary[r] = None /\ disk[r].status = "RUNNING"
  BY <1>1, WhileWorking DEF Working, InGroup
<1>4. \A s \in Runs \ {r} : Same(s)  BY <1>0, <1>1, <1>2 DEF Facts, TypeOK, Same
<1>5. Items(r)' = Items(r) /\ at[r] \in Items(r) /\ first[r] <= at[r]
  BY <1>0, <1>1 DEF Items, Facts, InBounds, Group, InGroup
<1>6. item[r][at[r]] = "IN_PROGRESS" /\ told[r] \in [Items(r) -> ItemStatus \cup {None}]
  BY <1>0, <1>1 DEF RunOK, ItemsInOrder, ItemsTyped
<1>7. \/ /\ told'[r] = [told[r] EXCEPT ![at[r]] = "IN_PROGRESS"] /\ pc'[r] \in {"start", "lock"}
      \/ told'[r] = told[r] /\ pc'[r] = "crash" /\ at'[r] = 1
  <2>1. told'[r] = told[r] \/ told'[r] = [told[r] EXCEPT ![at[r]] = item[r][at[r]]]
    BY <1>0, <1>2 DEF Facts, TypeOK
  <2>2. CASE told' = told /\ at' = [at EXCEPT ![r] = 1] /\ pc' = [pc EXCEPT ![r] = "crash"]
    BY <1>0, <2>2 DEF Facts, TypeOK
  <2>3. CASE /\ told' = [told EXCEPT ![r][at[r]] = item[r][at[r]]]
             /\ \/ pc' = [pc EXCEPT ![r] = "start"]
                \/ pc' = [pc EXCEPT ![r] = "lock"]
    <3>1. told'[r] = [told[r] EXCEPT ![at[r]] = item[r][at[r]]]
      BY <1>0, <2>3 DEF Facts, TypeOK
    <3>2. pc'[r] \in {"start", "lock"}  BY <1>0, <2>3 DEF Facts, TypeOK
    <3> QED  BY <1>6, <3>1, <3>2
  <2> QED  BY <1>2, <2>2, <2>3
<1>8. /\ told'[r] \in [Items(r) -> ItemStatus \cup {None}]
      /\ \A i \in Items(r) : \/ told'[r][i] = told[r][i]
                             \/ i = at[r] /\ told'[r][i] = "IN_PROGRESS"
  BY <1>6, <1>7 DEF ItemStatus
<1>9. ItemsTyped(r)'  BY <1>0, <1>1, <1>5, <1>8 DEF RunOK, ItemsTyped
<1>10. \A i \in Items(r) : /\ i < first[r] => Settled(r, i)
                           /\ i >= first[r] => told[r][i] \notin FinalItem /\ item[r][i] \notin FinalItem
  BY <1>0, <1>1 DEF RunOK, ItemsInOrder, Reached, Ahead, Facts, InGroup
<1>11. \A i \in Items(r) : /\ told'[r][i] \in FinalItem => told'[r][i] = told[r][i]
                           /\ i < first[r] => told'[r][i] = told[r][i]
                           /\ Settled(r, i) /\ i < first[r] => Settled(r, i)'
                           /\ i >= first[r] => told'[r][i] \notin FinalItem
  <2>1. first[r] \in Nat /\ at[r] \in Nat /\ "IN_PROGRESS" \notin FinalItem
    BY <1>0 DEF Facts, FinalItem
  <2>2. \A i \in Items(r) : i < first[r] => i # at[r]  BY <1>5, <1>10, <2>1
  <2>3. \A i \in Items(r) : i < first[r] => told'[r][i] = told[r][i]
    BY <1>6, <1>8, <1>10, <2>2
  <2>4. \A i \in Items(r) : told'[r][i] \in FinalItem => told'[r][i] = told[r][i]
    BY <1>8, <2>1
  <2>5. \A i \in Items(r) : Settled(r, i) /\ i < first[r] => Settled(r, i)'
    BY <1>1, <2>3 DEF Settled
  <2>6. \A i \in Items(r) : i >= first[r] => told'[r][i] \notin FinalItem
    BY <1>10, <2>4
  <2> QED  BY <2>3, <2>4, <2>5, <2>6
<1>12. ItemsInOrder(r)'
  <2>1. pc'[r] \in {"start", "lock", "crash"} /\ first[r] \in Nat  BY <1>0, <1>7 DEF Facts
  <2>2. pc'[r] # "crash" => Reached(r)' = first[r] /\ Ahead(r)' = first[r]
    BY <1>1, <2>1 DEF Reached, Ahead
  <2>3. \A i \in Items(r) :
          /\ IF i < first[r] THEN Settled(r, i)' ELSE told'[r][i] \notin FinalItem
          /\ i >= first[r] => item'[r][i] \notin FinalItem
    <3> SUFFICES ASSUME NEW i \in Items(r)
        PROVE  /\ i < first[r] => Settled(r, i)'
               /\ ~(i < first[r]) => told'[r][i] \notin FinalItem
               /\ i >= first[r] => item'[r][i] \notin FinalItem
      BY DEF Settled
    <3>1. i \in Nat /\ first[r] \in Nat  BY <1>0 DEF Facts
    <3>2. ~(i < first[r]) => i >= first[r]  BY <3>1
    <3> QED  BY <1>1, <1>10, <1>11, <3>2
  <2> QED  BY <1>5, <2>1, <2>2, <2>3 DEF ItemsInOrder, InGroup
<1>13. DiskBehind(r)'
  BY <1>0, <1>1, <1>3, <1>5, <1>7 DEF RunOK, DiskBehind
<1>14. EndOK(r)'
  <2>1. \A i \in Items(r) : 1 <= i  BY <1>0 DEF Facts
  <2> QED  BY <1>1, <1>3, <1>5, <1>7, <2>1 DEF EndOK, Working, InGroup
<1>15. ServerOK(r)'
  BY <1>0, <1>1, <1>3, <1>5, <1>11 DEF RunOK, ServerOK, LoadedItem, LoadedStatus
<1> QED  BY <1>4, <1>9, <1>12, <1>13, <1>14, <1>15, OneRun

(* A step in which the items of a group get their ends and nobody is told.  *)
LEMMA GroupEnds ==
  ASSUME PlanRunConstants, RunInv, LockInv', NEW r \in Runs,
         pc[r] \in {"lock", "execute"}, pc' = [pc EXCEPT ![r] = "finish"],
         UNCHANGED <<sheet, status, first, count, at, disk, told, summary>>,
         NEW ends \in [Group(r) -> FinalItem],
         item' = [item EXCEPT ![r] = [i \in Items(r) |->
                    IF i \in Group(r) THEN ends[i] ELSE item[r][i]]]
  PROVE  RunInv'
<1>0. Facts(r) /\ RunOK(r)  BY Before
<1>1. /\ status[r] = "RUNNING" /\ summary[r] = None /\ disk[r].status = "RUNNING"
  BY WhileWorking DEF Working, InGroup
<1>2. \A s \in Runs \ {r} : Same(s)  BY <1>0 DEF Facts, TypeOK, Same
<1>3. /\ pc'[r] = "finish" /\ at[r] = first[r]
      /\ item'[r] = [i \in Items(r) |-> IF i \in Group(r) THEN ends[i] ELSE item[r][i]]
  BY <1>0 DEF Facts, TypeOK, RunOK, InBounds
<1>4. /\ Items(r)' = Items(r) /\ Last(r)' = Last(r) /\ Group(r)' = Group(r)
      /\ Group(r) = first[r] .. Last(r) /\ first[r] \in Nat /\ Last(r) \in Nat
  BY <1>0 DEF Items, Last, Group, Facts
<1>5. ItemsTyped(r)'
  <2>1. item[r] \in [Items(r) -> ItemStatus]  BY <1>0 DEF RunOK, ItemsTyped
  <2>2. item'[r] \in [Items(r) -> ItemStatus]  BY <1>3, <2>1 DEF ItemStatus
  <2> QED  BY <1>0, <1>4, <2>2 DEF RunOK, ItemsTyped
<1>6. \A i \in Items(r) : /\ i \in Nat
                          /\ i < first[r] => Settled(r, i)
                          /\ i >= first[r] => told[r][i] \notin FinalItem /\ item[r][i] \notin FinalItem
  <2>1. pc[r] \in InGroup /\ Reached(r) = first[r] /\ Ahead(r) = first[r]
    BY DEF Reached, Ahead, InGroup
  <2> QED  BY <1>0, <2>1 DEF RunOK, ItemsInOrder, Facts
<1>7. \A i \in Items(r) : /\ i < first[r] => item'[r][i] = item[r][i] /\ Settled(r, i)'
                          /\ i \in Group(r) => item'[r][i] \in FinalItem
                          /\ i >= Last(r) + 1 => item'[r][i] \notin FinalItem
                          /\ item[r][i] \in FinalItem => i < first[r]
  <2> SUFFICES ASSUME NEW i \in Items(r)
      PROVE  /\ i < first[r] => item'[r][i] = item[r][i] /\ Settled(r, i)'
             /\ i \in Group(r) => item'[r][i] \in FinalItem
             /\ i >= Last(r) + 1 => item'[r][i] \notin FinalItem
             /\ item[r][i] \in FinalItem => i < first[r]
    OBVIOUS
  <2>1. i \in Nat /\ first[r] \in Nat /\ Last(r) \in Nat /\ first[r] <= Last(r)
    BY <1>0, <1>4, <1>6 DEF Facts, InGroup
  <2>2. i \in Group(r) => item'[r][i] = ends[i] /\ ends[i] \in FinalItem  BY <1>3
  <2>3. i \notin Group(r) => item'[r][i] = item[r][i]  BY <1>3
  <2>4. i < first[r] \/ i >= Last(r) + 1 => i \notin Group(r)  BY <1>4, <2>1
  <2>5. i < first[r] => item'[r][i] = item[r][i]  BY <2>3, <2>4
  <2>6. i < first[r] => Settled(r, i)'  BY <1>6, <2>5 DEF Settled
  <2>7. i >= Last(r) + 1 => item'[r][i] \notin FinalItem  BY <1>6, <2>1, <2>3, <2>4
  <2>8. item[r][i] \in FinalItem => i < first[r]  BY <1>6, <2>1
  <2> QED  BY <2>2, <2>5, <2>6, <2>7, <2>8
<1>8. ItemsInOrder(r)'
  <2>1. Group(r) \subseteq Items(r)  BY <1>0, <1>4 DEF Facts, InGroup
  <2>2. Reached(r)' = first[r] /\ Ahead(r)' = Last(r) + 1  BY <1>3, <1>4 DEF Reached, Ahead
  <2> QED  BY <1>3, <1>4, <1>6, <1>7, <2>1, <2>2 DEF ItemsInOrder
<1>9. DiskBehind(r)'
  BY <1>0, <1>1, <1>3, <1>4, <1>7 DEF RunOK, DiskBehind
<1>10. EndOK(r)'  BY <1>1, <1>3 DEF EndOK, Working, InGroup
<1>11. ServerOK(r)'
  BY <1>0, <1>1, <1>4, <1>6, <1>7 DEF RunOK, ServerOK, LoadedItem, LoadedStatus, Settled
<1> QED  BY <1>2, <1>5, <1>8, <1>9, <1>10, <1>11, OneRun

LEMMA TakeLockKeeps ==
  ASSUME PlanRunConstants, RunInv, LockInv', NEW r \in Runs, TakeLock(r)
  PROVE  RunInv'
<1>0. Facts(r) /\ RunOK(r)  BY Before
<1>1. /\ pc[r] = "lock"
      /\ UNCHANGED <<sheet, status, first, count, at, disk, told, summary>>
  BY DEF TakeLock, runVars
<1>2. CASE pc' = [pc EXCEPT ![r] = "execute"] /\ UNCHANGED item
  <2>1. pc'[r] = "execute"  BY <1>0, <1>2 DEF Facts, TypeOK
  <2>2. \A s \in Runs \ {r} : Same(s)  BY <1>0, <1>1, <1>2 DEF Facts, TypeOK, Same
  <2>3. Items(r)' = Items(r)  BY <1>1 DEF Items
  <2>4. \A i : Settled(r, i)' = Settled(r, i)  BY <1>1, <1>2 DEF Settled
  <2>5. ItemsTyped(r)'  BY <1>0, <1>1, <1>2, <2>3 DEF RunOK, ItemsTyped
  <2>6. ItemsInOrder(r)'
    <3>1. Reached(r) = first[r] /\ Ahead(r) = first[r]  BY <1>1 DEF Reached, Ahead
    <3>2. Reached(r)' = first[r] /\ Ahead(r)' = first[r]  BY <1>1, <2>1 DEF Reached, Ahead
    <3> QED
      BY <1>0, <1>1, <1>2, <2>1, <2>3, <2>4, <3>1, <3>2 DEF RunOK, ItemsInOrder, InGroup
  <2>7. DiskBehind(r)'
    BY <1>0, <1>1, <1>2, <2>1, <2>3, <2>4 DEF RunOK, DiskBehind, Working, InGroup
  <2>8. EndOK(r)'  BY <1>0, <1>1, <1>2, <2>1 DEF RunOK, EndOK, Working, InGroup
  <2>9. ServerOK(r)'
    BY <1>0, <1>1, <1>2, <2>1, <2>3, <2>4 DEF RunOK, ServerOK, LoadedItem, LoadedStatus
  <2> QED  BY <2>2, <2>5, <2>6, <2>7, <2>8, <2>9, OneRun
<1>3. CASE item' = Marked(r, Group(r), "FAILED") /\ pc' = [pc EXCEPT ![r] = "finish"]
  <2> DEFINE ends == [i \in Group(r) |-> "FAILED"]
  <2>1. ends \in [Group(r) -> FinalItem]  BY DEF FinalItem
  <2>2. item' = [item EXCEPT ![r] = [i \in Items(r) |->
                   IF i \in Group(r) THEN ends[i] ELSE item[r][i]]]
    BY <1>0, <1>3 DEF Facts, TypeOK, Marked
  <2> HIDE DEF ends
  <2> QED  BY <1>1, <1>3, <2>1, <2>2, GroupEnds
<1> QED  BY <1>2, <1>3 DEF TakeLock

LEMMA ExecuteKeeps ==
  ASSUME PlanRunConstants, RunInv, LockInv', NEW r \in Runs, Execute(r)
  PROVE  RunInv'
<1>0. Facts(r) /\ RunOK(r)  BY Before
<1>1. /\ pc[r] = "execute" /\ pc' = [pc EXCEPT ![r] = "finish"]
      /\ UNCHANGED <<sheet, status, first, count, at, disk, told, summary>>
  BY DEF Execute, runVars
<1>2. CASE ~real[r]
  <2> DEFINE ends == [i \in Group(r) |-> "SUCCESS"]
  <2>1. ends \in [Group(r) -> FinalItem]  BY DEF FinalItem
  <2>2. item' = [item EXCEPT ![r] = [i \in Items(r) |->
                   IF i \in Group(r) THEN ends[i] ELSE item[r][i]]]
    BY <1>0, <1>2 DEF Facts, TypeOK, Marked, Execute
  <2> HIDE DEF ends
  <2> QED  BY <1>1, <2>1, <2>2, GroupEnds
<1>3. CASE real[r]
  <2>1. PICK answers \in Answers(r) :
          item' = [item EXCEPT ![r] = [i \in Items(r) |->
                     IF i \in Group(r) THEN ApplyRealResult(answers, i - first[r] + 1) ELSE @[i]]]
    BY <1>3 DEF Execute
  <2> DEFINE ends == [i \in Group(r) |-> ApplyRealResult(answers, i - first[r] + 1)]
  <2>2. ends \in [Group(r) -> FinalItem]  BY DEF FinalItem, ApplyRealResult
  <2>3. item' = [item EXCEPT ![r] = [i \in Items(r) |->
                   IF i \in Group(r) THEN ends[i] ELSE item[r][i]]]
    BY <1>0, <2>1 DEF Facts, TypeOK
  <2> HIDE DEF ends
  <2> QED  BY <1>1, <2>2, <2>3, GroupEnds
<1> QED  BY <1>2, <1>3

LEMMA MarkFinishedKeeps ==
  ASSUME PlanRunConstants, RunInv, LockInv', NEW r \in Runs, MarkFinished(r)
  PROVE  RunInv'
<1>0. Facts(r) /\ RunOK(r)  BY Before
<1>1. /\ pc[r] = "finish" /\ pc' = [pc EXCEPT ![r] = "tell_finish"]
      /\ UNCHANGED <<sheet, status, item, first, count, at, told, summary>>
      /\ disk' = [disk EXCEPT ![r] = [status |-> status[r], item |-> item[r]]]
  BY DEF MarkFinished, runVars, Persist, State
<1>2. status[r] = "RUNNING" /\ summary[r] = None  BY <1>1, WhileWorking DEF Working, InGroup
<1>3. \A s \in Runs \ {r} : Same(s)  BY <1>0, <1>1 DEF Facts, TypeOK, Same
<1>4. /\ pc'[r] = "tell_finish"
      /\ disk'[r] = [status |-> "RUNNING", item |-> item[r]]
  BY <1>0, <1>1, <1>2 DEF Facts, TypeOK
<1>5. Items(r)' = Items(r) /\ Group(r)' = Group(r) /\ Last(r)' = Last(r)
  BY <1>1 DEF Items, Group, Last
<1>6. \A i : Settled(r, i)' = Settled(r, i)  BY <1>1 DEF Settled
<1>7. ItemsTyped(r)'
  BY <1>0, <1>1, <1>4, <1>5 DEF RunOK, ItemsTyped, RunStatus
<1>8. ItemsInOrder(r)'
  BY <1>0, <1>1, <1>4, <1>5, <1>6 DEF RunOK, ItemsInOrder, Reached, Ahead, InGroup
<1>9. DiskBehind(r)'  BY <1>1, <1>4 DEF DiskBehind
<1>10. EndOK(r)'  BY <1>1, <1>2, <1>4 DEF EndOK, Working, InGroup
<1>11. ServerOK(r)'
  BY <1>0, <1>1, <1>2, <1>4, <1>5 DEF RunOK, ServerOK, LoadedItem, LoadedStatus
<1> QED  BY <1>3, <1>7, <1>8, <1>9, <1>10, <1>11, OneRun

LEMMA TellFinishedKeeps ==
  ASSUME PlanRunConstants, RunInv, LockInv', NEW r \in Runs, TellFinished(r)
  PROVE  RunInv'
<1>0. Facts(r) /\ RunOK(r)  BY Before
<1>1. /\ pc[r] = "tell_finish"
      /\ UNCHANGED <<sheet, status, item, count, disk, summary>>
  BY DEF TellFinished, runVars
<1>2. \/ /\ told' = [told EXCEPT ![r][at[r]] = item[r][at[r]]]
         /\ \/ /\ at[r] < Last(r)
               /\ at' = [at EXCEPT ![r] = at[r] + 1] /\ pc' = [pc EXCEPT ![r] = "finish"]
               /\ first' = first
            \/ /\ ~(at[r] < Last(r))
               /\ first' = [first EXCEPT ![r] = Last(r) + 1] /\ pc' = [pc EXCEPT ![r] = "next"]
               /\ at' = at
      \/ /\ told' = told /\ first' = first
         /\ at' = [at EXCEPT ![r] = 1] /\ pc' = [pc EXCEPT ![r] = "crash"]
  BY <1>0 DEF TellFinished, Tell, Raises, Facts, TypeOK
<1>3. status[r] = "RUNNING" /\ summary[r] = None /\ disk[r].status = "RUNNING"
  BY <1>1, WhileWorking DEF Working, InGroup
<1>4. \A s \in Runs \ {r} : Same(s)  BY <1>0, <1>1, <1>2 DEF Facts, TypeOK, Same
<1>5. /\ Items(r)' = Items(r) /\ at[r] \in Items(r) /\ at[r] \in Group(r)
      /\ first[r] \in Nat /\ at[r] \in Nat /\ Last(r) \in Nat /\ at[r] <= Last(r)
      /\ Group(r) = first[r] .. Last(r)
  BY <1>0, <1>1 DEF Items, Facts, InBounds, Group, Last, InGroup
<1>6. /\ item[r][at[r]] \in FinalItem /\ item[r][at[r]] \in ItemStatus
      /\ told[r] \in [Items(r) -> ItemStatus \cup {None}]
      /\ disk[r].item = item[r]
  BY <1>0, <1>1, <1>5 DEF RunOK, ItemsInOrder, ItemsTyped, DiskBehind
<1>7. \A i \in Items(r) : /\ i < at[r] => Settled(r, i)
                          /\ i >= at[r] => told[r][i] \notin FinalItem
                          /\ i >= Last(r) + 1 => item[r][i] \notin FinalItem
  <2>1. Reached(r) = at[r] /\ Ahead(r) = Last(r) + 1  BY <1>1 DEF Reached, Ahead
  <2> QED  BY <1>0, <1>1, <1>5, <2>1 DEF RunOK, ItemsInOrder, Facts, InGroup
<1>8. CASE told' = told
  <2>1. pc'[r] = "crash" /\ at'[r] = 1
    <3>1. ASSUME told' = [told EXCEPT ![r][at[r]] = item[r][at[r]]]  PROVE FALSE
      <4>1. told'[r][at[r]] = item[r][at[r]]  BY <1>0, <1>5, <1>6, <3>1 DEF Facts, TypeOK
      <4> QED  BY <1>5, <1>6, <1>7, <1>8, <4>1
    <3> QED  BY <1>0, <1>2, <3>1 DEF Facts, TypeOK
  <2>2. \A i : Settled(r, i)' = Settled(r, i)  BY <1>1, <1>8 DEF Settled
  <2>3. ItemsTyped(r)'  BY <1>0, <1>1, <1>5, <1>8 DEF RunOK, ItemsTyped
  <2>4. ItemsInOrder(r)'  BY <2>1 DEF ItemsInOrder, InGroup
  <2>5. DiskBehind(r)'  BY <1>0, <1>1, <1>3, <1>5, <2>1 DEF RunOK, DiskBehind, Working, InGroup
  <2>6. EndOK(r)'
    <3>1. \A i \in Items(r) : 1 <= i  BY <1>0 DEF Facts
    <3> QED  BY <1>1, <1>3, <1>5, <2>1, <3>1 DEF EndOK, Working, InGroup
  <2>7. ServerOK(r)'
    BY <1>0, <1>1, <1>3, <1>5, <1>8 DEF RunOK, ServerOK, LoadedItem, LoadedStatus
  <2> QED  BY <1>4, <2>3, <2>4, <2>5, <2>6, <2>7, OneRun
<1>9. CASE told' = [told EXCEPT ![r][at[r]] = item[r][at[r]]] /\ told' # told
  <2>1. /\ told'[r] = [told[r] EXCEPT ![at[r]] = item[r][at[r]]]
        /\ \/ at[r] < Last(r) /\ pc'[r] = "finish" /\ at'[r] = at[r] + 1 /\ first'[r] = first[r]
           \/ ~(at[r] < Last(r)) /\ pc'[r] = "next" /\ first'[r] = Last(r) + 1
    <3>1. told'[r] = [told[r] EXCEPT ![at[r]] = item[r][at[r]]]  BY <1>0, <1>9 DEF Facts, TypeOK
    <3> QED  BY <1>0, <1>2, <1>9, <3>1 DEF Facts, TypeOK
  <2>2. /\ told'[r] \in [Items(r) -> ItemStatus \cup {None}]
        /\ told'[r][at[r]] = item[r][at[r]]
        /\ \A i \in Items(r) : i # at[r] => told'[r][i] = told[r][i]
    BY <1>5, <1>6, <2>1
  <2>3. Reached(r)' = at[r] + 1 /\ Ahead(r)' = Last(r) + 1
    <3>1. CASE pc'[r] = "finish"
      <4>1. Last(r)' = Last(r)  BY <1>1, <2>1, <3>1 DEF Last
      <4> QED  BY <2>1, <3>1, <4>1 DEF Reached, Ahead
    <3>2. CASE pc'[r] = "next"
      <4>1. Last(r) + 1 = at[r] + 1  BY <1>5, <2>1, <3>2
      <4> QED  BY <2>1, <3>2, <4>1 DEF Reached, Ahead
    <3> QED  BY <2>1, <3>1, <3>2
  <2>4. \A i \in Items(r) : /\ i < at[r] + 1 => Settled(r, i)'
                            /\ ~(i < at[r] + 1) => told'[r][i] \notin FinalItem
                            /\ i >= Last(r) + 1 => item'[r][i] \notin FinalItem
    <3> SUFFICES ASSUME NEW i \in Items(r)
        PROVE  /\ i < at[r] + 1 => Settled(r, i)'
               /\ ~(i < at[r] + 1) => told'[r][i] \notin FinalItem
               /\ i >= Last(r) + 1 => item'[r][i] \notin FinalItem
      OBVIOUS
    <3>1. i \in Nat /\ at[r] \in Nat  BY <1>0, <1>5 DEF Facts
    <3>2. CASE i = at[r]
      <4>1. Settled(r, i)'  BY <1>1, <1>6, <2>2, <3>2 DEF Settled
      <4>2. i < at[r] + 1  BY <3>1, <3>2
      <4> QED  BY <1>1, <1>7, <4>1, <4>2
    <3>3. CASE i < at[r]
      <4>1. i # at[r] /\ i < at[r] + 1  BY <3>1, <3>3
      <4>2. Settled(r, i)'  BY <1>1, <1>7, <2>2, <3>3, <4>1 DEF Settled
      <4> QED  BY <1>1, <1>7, <4>1, <4>2
    <3>4. CASE i > at[r]
      <4>1. i # at[r] /\ ~(i < at[r] + 1) /\ i >= at[r]  BY <3>1, <3>4
      <4>2. told'[r][i] \notin FinalItem  BY <1>7, <2>2, <4>1
      <4> QED  BY <1>1, <1>7, <4>1, <4>2
    <3> QED  BY <3>1, <3>2, <3>3, <3>4
  <2>5. ItemsTyped(r)'  BY <1>0, <1>1, <1>5, <2>2 DEF RunOK, ItemsTyped
  <2>6. ItemsInOrder(r)'
    <3>1. \A i \in Items(r) :
            /\ IF i < Reached(r)' THEN Settled(r, i)' ELSE told'[r][i] \notin FinalItem
            /\ i >= Ahead(r)' => item'[r][i] \notin FinalItem
      BY <2>3, <2>4 DEF Settled
    <3>2. pc'[r] = "finish" => \A i \in Group(r)' : item'[r][i] \in FinalItem
      <4>1. pc'[r] = "finish" => Group(r)' = Group(r)  BY <1>1, <2>1 DEF Group, Last
      <4> QED  BY <1>0, <1>1, <4>1 DEF RunOK, ItemsInOrder
    <3>3. pc'[r] \in {"finish", "next"}  BY <2>1
    <3> QED  BY <1>5, <3>1, <3>2, <3>3 DEF ItemsInOrder, InGroup
  <2>7. DiskBehind(r)'  BY <1>0, <1>1, <1>3, <1>5, <2>1 DEF RunOK, DiskBehind
  <2>8. EndOK(r)'  BY <1>1, <1>3, <2>1 DEF EndOK, Working, InGroup
  <2>9. ServerOK(r)'
    <3> SUFFICES ASSUME NEW i \in Items(r), told'[r][i] \in FinalItem
        PROVE  item[r][i] = told'[r][i] /\ LoadedItem(disk[r], i) = told'[r][i]
      BY <1>1, <1>3, <1>5 DEF ServerOK, LoadedItem, LoadedStatus
    <3>1. CASE i = at[r]
      BY <1>6, <2>2, <3>1 DEF LoadedItem
    <3>2. CASE i # at[r]
      BY <1>0, <2>2, <3>2 DEF RunOK, ServerOK
    <3> QED  BY <3>1, <3>2
  <2> QED  BY <1>4, <2>5, <2>6, <2>7, <2>8, <2>9, OneRun
<1> QED  BY <1>2, <1>8, <1>9

LEMMA FinalizeKeeps ==
  ASSUME PlanRunConstants, RunInv, LockInv', NEW r \in Runs, Finalize(r)
  PROVE  RunInv'
<1>0. Facts(r) /\ RunOK(r)  BY Before
<1>1. /\ pc[r] = "finalize" /\ pc' = [pc EXCEPT ![r] = "save"]
      /\ UNCHANGED <<sheet, item, first, count, at, disk, told, summary>>
      /\ status' = [status EXCEPT ![r] = Verdict(r)]
  BY DEF Finalize, runVars
<1>2. summary[r] = None /\ disk[r].status = "RUNNING"  BY <1>1, WhileWorking DEF Working
<1>3. \A s \in Runs \ {r} : Same(s)  BY <1>0, <1>1 DEF Facts, TypeOK, Same
<1>4. pc'[r] = "save" /\ status'[r] \in FinalRun /\ status'[r] # "RUNNING"
  BY <1>0, <1>1 DEF Facts, TypeOK, Verdict, FinalRun
<1>5. Items(r)' = Items(r)  BY <1>1 DEF Items
<1>6. \A i : Settled(r, i)' = Settled(r, i)  BY <1>1 DEF Settled
<1>7. ItemsTyped(r)'  BY <1>0, <1>1, <1>5 DEF RunOK, ItemsTyped
<1>8. ItemsInOrder(r)'
  BY <1>0, <1>1, <1>4, <1>5, <1>6 DEF RunOK, ItemsInOrder, InGroup
<1>9. DiskBehind(r)'
  BY <1>0, <1>1, <1>2, <1>4, <1>5 DEF RunOK, DiskBehind
<1>10. EndOK(r)'  BY <1>4 DEF EndOK
<1>11. ServerOK(r)'
  <2>1. \A i \in Items(r) : Settled(r, i)  BY <1>0, <1>1 DEF RunOK, ItemsInOrder
  <2> QED  BY <1>0, <1>1, <1>2, <1>5, <1>6, <2>1 DEF RunOK, ServerOK, LoadedItem, LoadedStatus
<1> QED  BY <1>3, <1>7, <1>8, <1>9, <1>10, <1>11, OneRun

LEMMA SaveKeeps ==
  ASSUME PlanRunConstants, RunInv, LockInv', NEW r \in Runs, Save(r)
  PROVE  RunInv'
<1>0. Facts(r) /\ RunOK(r)  BY Before
<1>1. /\ pc[r] = "save" /\ pc' = [pc EXCEPT ![r] = "summarize"]
      /\ UNCHANGED <<sheet, status, item, first, count, at, told, summary>>
      /\ disk' = [disk EXCEPT ![r] = [status |-> status[r], item |-> item[r]]]
  BY DEF Save, runVars, Persist, State
<1>2. summary[r] = None /\ status[r] \in FinalRun  BY <1>0, <1>1 DEF RunOK, ServerOK, EndOK
<1>3. \A s \in Runs \ {r} : Same(s)  BY <1>0, <1>1 DEF Facts, TypeOK, Same
<1>4. pc'[r] = "summarize" /\ disk'[r] = [status |-> status[r], item |-> item[r]]
  BY <1>0, <1>1 DEF Facts, TypeOK
<1>5. Items(r)' = Items(r)  BY <1>1 DEF Items
<1>6. \A i \in Items(r) : Settled(r, i) /\ Settled(r, i)'
  BY <1>0, <1>1 DEF Settled, RunOK, ItemsInOrder
<1>7. ItemsTyped(r)'
  BY <1>0, <1>1, <1>2, <1>4, <1>5 DEF RunOK, ItemsTyped, RunStatus
<1>8. ItemsInOrder(r)'  BY <1>4, <1>5, <1>6 DEF ItemsInOrder, InGroup
<1>9. DiskBehind(r)'
  BY <1>1, <1>4, <1>5, <1>6 DEF DiskBehind, Working, InGroup
<1>10. EndOK(r)'  BY <1>1, <1>2, <1>4 DEF EndOK, FinalRun
<1>11. ServerOK(r)'
  BY <1>0, <1>1, <1>2, <1>4, <1>5, <1>6
     DEF RunOK, ServerOK, LoadedItem, LoadedStatus, Settled
<1> QED  BY <1>3, <1>7, <1>8, <1>9, <1>10, <1>11, OneRun

LEMMA SummarizeKeeps ==
  ASSUME PlanRunConstants, RunInv, LockInv', NEW r \in Runs, Summarize(r)
  PROVE  RunInv'
<1>0. Facts(r) /\ RunOK(r)  BY Before
<1>1. pc[r] = "summarize" /\ UNCHANGED <<sheet, status, item, first, count, disk, told>>
  BY DEF Summarize, runVars
<1>2. \/ /\ summary' = [summary EXCEPT ![r] = status[r]]
         /\ pc' = [pc EXCEPT ![r] = "done"] /\ at' = at
      \/ /\ summary' = summary
         /\ pc' = [pc EXCEPT ![r] = "crash"] /\ at' = [at EXCEPT ![r] = 1]
  BY DEF Summarize, Raises
<1>3. /\ summary[r] = None /\ status[r] \in FinalRun /\ status[r] # "RUNNING"
      /\ disk[r].status = status[r]
  BY <1>0, <1>1 DEF RunOK, ServerOK, EndOK, DiskBehind, FinalRun
<1>4. \A s \in Runs \ {r} : Same(s)  BY <1>0, <1>1, <1>2 DEF Facts, TypeOK, Same
<1>5. \/ summary'[r] = status[r] /\ pc'[r] = "done"
      \/ summary'[r] = None /\ pc'[r] = "crash"
  BY <1>0, <1>2, <1>3 DEF Facts, TypeOK
<1>6. Items(r)' = Items(r)  BY <1>1 DEF Items
<1>7. \A i \in Items(r) : Settled(r, i) /\ Settled(r, i)' /\ item[r][i] \in FinalItem
  BY <1>0, <1>1 DEF Settled, RunOK, ItemsInOrder
<1>8. ItemsTyped(r)'  BY <1>0, <1>1, <1>6 DEF RunOK, ItemsTyped
<1>9. ItemsInOrder(r)'  BY <1>5 DEF ItemsInOrder, InGroup
<1>10. DiskBehind(r)'
  BY <1>0, <1>1, <1>5, <1>6, <1>7 DEF RunOK, DiskBehind, Working, InGroup
<1>11. EndOK(r)'  BY <1>1, <1>3, <1>5, <1>6, <1>7 DEF EndOK
<1>12. ServerOK(r)'
  BY <1>0, <1>1, <1>3, <1>5, <1>6, <1>7 DEF RunOK, ServerOK, LoadedItem, LoadedStatus
<1> QED  BY <1>4, <1>8, <1>9, <1>10, <1>11, <1>12, OneRun

LEMMA CrashItemKeeps ==
  ASSUME PlanRunConstants, RunInv, LockInv', NEW r \in Runs, CrashItem(r)
  PROVE  RunInv'
<1>0. Facts(r) /\ RunOK(r)  BY Before
<1>1. /\ pc[r] = "crash" /\ UNCHANGED <<sheet, status, pc, first, count, disk, summary>>
  BY DEF CrashItem, runVars
<1>2. PICK i \in Unfinished(r) :
        /\ \A j \in Unfinished(r) : i <= j
        /\ item' = Marked(r, {i}, "FAILED")
        /\ at' = [at EXCEPT ![r] = i + 1]
        /\ told' = [told EXCEPT ![r][i] = "FAILED"] \/ told' = told
  BY DEF CrashItem
<1>3. \A s \in Runs \ {r} : Same(s)  BY <1>0, <1>1, <1>2 DEF Facts, TypeOK, Same, Marked
<1>4. /\ item'[r] = [j \in Items(r) |-> IF j = i THEN "FAILED" ELSE item[r][j]]
      /\ at'[r] = i + 1
      /\ told'[r] = [told[r] EXCEPT ![i] = "FAILED"] \/ told'[r] = told[r]
  BY <1>0, <1>2 DEF Facts, TypeOK, Marked
<1>5. /\ Items(r)' = Items(r) /\ i \in Items(r) /\ i \in Nat
      /\ item[r][i] \notin FinalItem
  BY <1>0, <1>1, <1>2 DEF Items, Unfinished, Facts
<1>6. /\ disk[r].status = "RUNNING" /\ disk[r].item[i] \notin FinalItem
      /\ told[r][i] \notin FinalItem /\ status[r] # "COMPLETED" /\ summary[r] = None
  BY <1>0, <1>1, <1>5 DEF RunOK, EndOK, DiskBehind, ServerOK, Settled
<1>7. /\ item[r] \in [Items(r) -> ItemStatus]
      /\ told[r] \in [Items(r) -> ItemStatus \cup {None}]
  BY <1>0 DEF RunOK, ItemsTyped
<1>8. /\ item'[r] \in [Items(r) -> ItemStatus]
      /\ told'[r] \in [Items(r) -> ItemStatus \cup {None}]
      /\ item'[r][i] = "FAILED" /\ (told'[r][i] = "FAILED" \/ told'[r][i] = told[r][i])
      /\ \A j \in Items(r) : j # i => item'[r][j] = item[r][j] /\ told'[r][j] = told[r][j]
  BY <1>4, <1>5, <1>7 DEF ItemStatus, FinalItem
<1>9. "FAILED" \in FinalItem  BY DEF FinalItem
<1>10. ItemsTyped(r)'  BY <1>0, <1>1, <1>5, <1>8 DEF RunOK, ItemsTyped
<1>11. ItemsInOrder(r)'  BY <1>1 DEF ItemsInOrder, InGroup
<1>12. DiskBehind(r)'
  <2>1. \A j \in Items(r) : disk[r].item[j] \in FinalItem => item'[r][j] = disk[r].item[j]
    BY <1>0, <1>6, <1>8 DEF RunOK, DiskBehind
  <2> QED  BY <1>1, <1>5, <1>6, <2>1 DEF DiskBehind, Working, InGroup
<1>13. EndOK(r)'
  <2>1. \A j \in Items(r) : item'[r][j] \in FinalItem \/ i + 1 <= j
    <3> SUFFICES ASSUME NEW j \in Items(r), item'[r][j] \notin FinalItem
        PROVE  i + 1 <= j
      OBVIOUS
    <3>1. j # i /\ item[r][j] \notin FinalItem  BY <1>8, <1>9
    <3>2. at[r] <= j  BY <1>0, <1>1, <3>1 DEF RunOK, EndOK
    <3>3. j \in Nat /\ at[r] \in Nat  BY <1>0 DEF Facts
    <3>4. j \in Unfinished(r)  BY <3>1, <3>2, <3>3 DEF Unfinished
    <3>5. i <= j  BY <1>2, <3>4
    <3> QED  BY <1>5, <3>1, <3>3, <3>5
  <2> QED  BY <1>1, <1>4, <1>5, <1>6, <2>1 DEF EndOK
<1>14. ServerOK(r)'
  <2>1. ASSUME NEW j \in Items(r), told'[r][j] \in FinalItem
        PROVE  item'[r][j] = told'[r][j] /\ LoadedItem(disk[r], j) = told'[r][j]
    <3>1. CASE j = i
      BY <1>6, <1>8, <2>1, <3>1 DEF LoadedItem, LoadedStatus
    <3>2. CASE j # i
      BY <1>0, <1>8, <2>1, <3>2 DEF RunOK, ServerOK
    <3> QED  BY <3>1, <3>2
  <2> QED  BY <1>1, <1>5, <1>6, <2>1 DEF ServerOK, LoadedItem, LoadedStatus
<1> QED  BY <1>3, <1>10, <1>11, <1>12, <1>13, <1>14, OneRun

LEMMA CrashRunKeeps ==
  ASSUME PlanRunConstants, RunInv, LockInv', NEW r \in Runs, CrashRun(r)
  PROVE  RunInv'
<1>0. Facts(r) /\ RunOK(r)  BY Before
<1>1. /\ pc[r] = "crash" /\ pc' = [pc EXCEPT ![r] = "crash_summary"]
      /\ UNCHANGED <<sheet, item, first, count, at, told, summary>>
      /\ status' = [status EXCEPT ![r] = "FAILED"]
      /\ disk' = [disk EXCEPT ![r] = [status |-> status'[r], item |-> item[r]]]
  BY DEF CrashRun, runVars, Persist, State
<1>2. summary[r] = None  BY <1>0, <1>1 DEF RunOK, ServerOK
<1>3. \A s \in Runs \ {r} : Same(s)  BY <1>0, <1>1 DEF Facts, TypeOK, Same
<1>4. /\ pc'[r] = "crash_summary" /\ status'[r] = "FAILED"
      /\ disk'[r] = [status |-> "FAILED", item |-> item[r]]
  BY <1>0, <1>1 DEF Facts, TypeOK
<1>5. Items(r)' = Items(r)  BY <1>1 DEF Items
<1>6. \A i \in Items(r) : item[r][i] \in FinalItem
  <2> SUFFICES ASSUME NEW i \in Items(r), item[r][i] \notin FinalItem  PROVE FALSE
    OBVIOUS
  <2>1. at[r] <= i /\ i \in Nat /\ at[r] \in Nat
    BY <1>0, <1>1 DEF RunOK, EndOK, Facts
  <2>2. i \in Unfinished(r)  BY <2>1 DEF Unfinished
  <2> QED  BY <2>2 DEF CrashRun
<1>7. ItemsTyped(r)'
  BY <1>0, <1>1, <1>4, <1>5 DEF RunOK, ItemsTyped, RunStatus, FinalRun
<1>8. ItemsInOrder(r)'  BY <1>4 DEF ItemsInOrder, InGroup
<1>9. DiskBehind(r)'  BY <1>1, <1>4 DEF DiskBehind, Working, InGroup
<1>10. EndOK(r)'  BY <1>4 DEF EndOK, FinalRun
<1>11. ServerOK(r)'
  BY <1>0, <1>1, <1>2, <1>4, <1>5, <1>6 DEF RunOK, ServerOK, LoadedItem, LoadedStatus
<1> QED  BY <1>3, <1>7, <1>8, <1>9, <1>10, <1>11, OneRun

LEMMA CrashSummaryKeeps ==
  ASSUME PlanRunConstants, RunInv, LockInv', NEW r \in Runs, CrashSummary(r)
  PROVE  RunInv'
<1>0. Facts(r) /\ RunOK(r)  BY Before
<1>1. /\ pc[r] = "crash_summary" /\ pc' = [pc EXCEPT ![r] = "done"]
      /\ UNCHANGED <<sheet, status, item, first, count, at, disk, told>>
      /\ summary' = [summary EXCEPT ![r] = status[r]] \/ summary' = summary
  BY DEF CrashSummary, runVars
<1>2. summary[r] = None /\ status[r] \in FinalRun /\ disk[r].status = status[r]
  BY <1>0, <1>1 DEF RunOK, ServerOK, EndOK, DiskBehind
<1>3. \A s \in Runs \ {r} : Same(s)  BY <1>0, <1>1 DEF Facts, TypeOK, Same
<1>4. pc'[r] = "done" /\ summary'[r] \in {status[r], None}
  BY <1>0, <1>1, <1>2 DEF Facts, TypeOK
<1>5. Items(r)' = Items(r)  BY <1>1 DEF Items
<1>6. \A i : Settled(r, i)' = Settled(r, i)  BY <1>1 DEF Settled
<1>7. ItemsTyped(r)'  BY <1>0, <1>1, <1>5 DEF RunOK, ItemsTyped
<1>8. ItemsInOrder(r)'  BY <1>4 DEF ItemsInOrder, InGroup
<1>9. DiskBehind(r)'
  BY <1>0, <1>1, <1>4, <1>5, <1>6 DEF RunOK, DiskBehind, Working, InGroup
<1>10. EndOK(r)'  BY <1>1, <1>2, <1>4 DEF EndOK, FinalRun
<1>11. ServerOK(r)'
  BY <1>0, <1>1, <1>2, <1>4, <1>5, <1>6 DEF RunOK, ServerOK, LoadedItem, LoadedStatus
<1> QED  BY <1>3, <1>7, <1>8, <1>9, <1>10, <1>11, OneRun

LEMMA StartKeeps ==
  ASSUME PlanRunConstants, RunInv, LockInv',
         NEW p \in Plans, NEW s \in Sheets, NEW m \in BOOLEAN, Start(p, s, m)
  PROVE  RunInv'
<1>0. TypeOK  BY DEF RunInv
<1>1. PICK r \in Runs : r = started + 1 /\ started < r
  BY <1>0 DEF Start, TypeOK, Runs, PlanRunConstants
<1>2. /\ sheet' = [sheet EXCEPT ![r] = s]
      /\ status' = [status EXCEPT ![r] = "RUNNING"]
      /\ item' = [item EXCEPT ![r] = [i \in DOMAIN s |-> "PENDING"]]
      /\ told' = [told EXCEPT ![r] = [i \in DOMAIN s |-> None]]
      /\ pc' = [pc EXCEPT ![r] = "next"]
      /\ first' = [first EXCEPT ![r] = 1]
      /\ disk' = [disk EXCEPT ![r] = [status |-> status'[r], item |-> item'[r]]]
      /\ UNCHANGED <<count, at, summary>>
  BY <1>1 DEF Start, Persist, State
<1>3. \A q \in Runs \ {r} : Same(q)  BY <1>0, <1>2 DEF TypeOK, Same
<1>4. summary[r] = None
  <2>1. started \in Nat /\ r \in Nat /\ ~(r <= started)
    BY <1>0, <1>1 DEF TypeOK, Runs
  <2> QED  BY <2>1 DEF RunInv, WorkingIsCurrent
<1>5. /\ sheet'[r] = s /\ status'[r] = "RUNNING" /\ pc'[r] = "next" /\ first'[r] = 1
      /\ item'[r] = [i \in DOMAIN s |-> "PENDING"]
      /\ told'[r] = [i \in DOMAIN s |-> None]
      /\ disk'[r] = [status |-> "RUNNING", item |-> item'[r]]
  BY <1>0, <1>2 DEF TypeOK
<1>6. Items(r)' = DOMAIN s  BY <1>5 DEF Items
<1>7. "PENDING" \notin FinalItem /\ None \notin FinalItem /\ "PENDING" \in ItemStatus
  BY DEF FinalItem, ItemStatus, PlanRunConstants
<1>8. ItemsTyped(r)'  BY <1>5, <1>6, <1>7 DEF ItemsTyped, RunStatus
<1>9. ItemsInOrder(r)'
  <2>1. Reached(r)' = 1 /\ Ahead(r)' = 1  BY <1>5 DEF Reached, Ahead
  <2>2. \A i \in DOMAIN s : i \in Nat /\ ~(i < 1)
    <3>1. Len(s) \in Nat /\ DOMAIN s = 1 .. Len(s)
      <4> DEFINE It == [type : {"BMC", "SSH", "TELNET"},
                        mode : {"BMC", "SSH", "TELNET", "BMC_URL", "BMC_ACTIONS", "SSH_CMD"},
                        lock : Locks \cup {None}, session : Sessions \cup {None}]
      <4>1. s \in Seq(It)  BY DEF PlanRunConstants
      <4> HIDE DEF It
      <4> QED  BY <4>1
    <3> QED  BY <3>1
  <2> QED  BY <1>5, <1>6, <1>7, <2>1, <2>2 DEF ItemsInOrder
<1>10. DiskBehind(r)'  BY <1>5, <1>6 DEF DiskBehind
<1>11. EndOK(r)'  BY <1>5 DEF EndOK, Working
<1>12. ServerOK(r)'  BY <1>2, <1>4, <1>5, <1>6, <1>7 DEF ServerOK
<1> QED  BY <1>3, <1>8, <1>9, <1>10, <1>11, <1>12, OneRun

(* A restart makes of a state file what LoadedStatus and LoadedItem say, and *)
(* the server has been told nothing else.                                  *)
LEMMA RestartKeeps ==
  ASSUME PlanRunConstants, RunInv, LockInv', Restart
  PROVE  RunInv'
<1>1. /\ status' = [r \in Runs |-> LoadedStatus(disk[r])]
      /\ item' = [r \in Runs |-> [i \in DOMAIN disk[r].item |-> LoadedItem(disk[r], i)]]
      /\ pc' = [r \in Runs |-> "done"]
      /\ UNCHANGED <<sheet, disk, told, summary>>
  BY DEF Restart, runVars
<1> SUFFICES ASSUME NEW r \in Runs  PROVE RunOK(r)'
  BY DEF RunInv, LockInv
<1>2. RunOK(r)  BY DEF RunInv
<1>3. /\ pc'[r] = "done" /\ status'[r] = LoadedStatus(disk[r])
      /\ item'[r] = [i \in Items(r) |-> LoadedItem(disk[r], i)]
      /\ Items(r)' = Items(r)
  BY <1>1, <1>2 DEF RunOK, ItemsTyped, Items
<1>4. /\ disk[r] \in [status : RunStatus, item : [Items(r) -> ItemStatus]]
      /\ \A i \in Items(r) : LoadedItem(disk[r], i) \in ItemStatus
  BY <1>2 DEF RunOK, ItemsTyped, LoadedItem, ItemStatus, FinalItem
<1>5. \A i \in Items(r) : disk[r].item[i] \in FinalItem => item'[r][i] = disk[r].item[i]
  BY <1>3 DEF LoadedItem
<1>6. disk[r].status = "COMPLETED" =>
        /\ disk[r].item = item'[r]
        /\ \A i \in Items(r) : Settled(r, i)'
  <2> SUFFICES ASSUME disk[r].status = "COMPLETED"
      PROVE  disk[r].item = item'[r] /\ \A i \in Items(r) : Settled(r, i)'
    OBVIOUS
  <2>1. \A i \in Items(r) : LoadedItem(disk[r], i) = disk[r].item[i]
    BY DEF LoadedItem, LoadedStatus
  <2>2. disk[r].item = [i \in Items(r) |-> disk[r].item[i]]  BY <1>4
  <2>3. disk[r].item = item'[r]  BY <1>3, <2>1, <2>2
  <2>4. disk[r].item = item[r] /\ \A i \in Items(r) : Settled(r, i)
    BY <1>2 DEF RunOK, DiskBehind
  <2>5. \A i \in Items(r) : Settled(r, i)'  BY <1>1, <2>3, <2>4 DEF Settled
  <2> QED  BY <2>3, <2>5
<1>7. ItemsTyped(r)'
  <2>1. item'[r] \in [Items(r) -> ItemStatus]  BY <1>3, <1>4
  <2> QED  BY <1>1, <1>2, <1>3, <1>4, <2>1 DEF RunOK, ItemsTyped
<1>8. ItemsInOrder(r)'  BY <1>3 DEF ItemsInOrder, InGroup
<1>9. DiskBehind(r)'  BY <1>1, <1>3, <1>5, <1>6 DEF DiskBehind, Working, InGroup
<1>10. EndOK(r)'
  <2>1. status'[r] # "RUNNING"  BY <1>3, <1>4 DEF LoadedStatus
  <2> QED  BY <1>3, <2>1 DEF EndOK
<1>11. ServerOK(r)'
  <2>1. \A i \in Items(r) : told'[r][i] \in FinalItem =>
          item'[r][i] = told'[r][i] /\ LoadedItem(disk[r], i) = told'[r][i]
    BY <1>1, <1>2, <1>3 DEF RunOK, ServerOK
  <2>2. summary'[r] # None => status'[r] = summary'[r] /\ disk[r].status = summary'[r]
    <3>1. summary[r] \in FinalRun \cup {None}  BY DEF RunInv, TypeOK
    <3> QED  BY <1>1, <1>2, <1>3, <3>1 DEF RunOK, ServerOK, LoadedStatus, FinalRun
  <2>3. status'[r] = "COMPLETED" => \A i \in Items(r) : Settled(r, i)'
    BY <1>3, <1>6 DEF LoadedStatus
  <2>4. \A i : LoadedItem(disk[r], i)' = LoadedItem(disk[r], i)
    BY <1>1 DEF LoadedItem, LoadedStatus
  <2> QED  BY <1>1, <1>3, <2>1, <2>2, <2>3, <2>4 DEF ServerOK
<1>12. InBounds(r)'  BY DEF LockInv
<1> QED  BY <1>7, <1>8, <1>9, <1>10, <1>11, <1>12 DEF RunOK

LEMMA ItemsInit ==
  ASSUME PlanRunConstants, Init
  PROVE  RunInv
<1>1. LockInv  BY InitOK
<1> SUFFICES ASSUME NEW r \in Runs  PROVE RunOK(r)
  BY <1>1 DEF RunInv, LockInv
<1>2. /\ sheet[r] = <<>> /\ status[r] = "INTERRUPTED" /\ item[r] = <<>> /\ pc[r] = "done"
      /\ disk[r] = [status |-> "INTERRUPTED", item |-> <<>>]
      /\ told[r] = <<>> /\ summary[r] = None
  BY DEF Init
<1>3. Items(r) = {}  BY <1>2 DEF Items
<1>4. <<>> \in [{} -> ItemStatus] /\ <<>> \in [{} -> ItemStatus \cup {None}]  OBVIOUS
<1>5. ItemsTyped(r)  BY <1>2, <1>3, <1>4 DEF ItemsTyped, RunStatus
<1>6. InBounds(r)  BY <1>1 DEF LockInv
<1>7. ItemsInOrder(r)  BY <1>2 DEF ItemsInOrder, InGroup
<1>8. DiskBehind(r)  BY <1>2, <1>3 DEF DiskBehind, Working, InGroup
<1>9. EndOK(r)  BY <1>2 DEF EndOK
<1>10. ServerOK(r)  BY <1>2, <1>3 DEF ServerOK
<1> QED  BY <1>5, <1>6, <1>7, <1>8, <1>9, <1>10 DEF RunOK

LEMMA ItemsStep ==
  ASSUME PlanRunConstants, RunInv, [Next]_vars
  PROVE  RunInv'
<1>1. LockInv'  BY RunInvIsLockInv, LockStep
<1>2. ASSUME NEW r \in Runs, RunStep(r)  PROVE RunInv'
  BY <1>1, <1>2, NextGroupKeeps, MarkStartedKeeps, TellStartedKeeps, TakeLockKeeps,
     ExecuteKeeps, MarkFinishedKeeps, TellFinishedKeeps, FinalizeKeeps, SaveKeeps,
     SummarizeKeeps, CrashItemKeeps, CrashRunKeeps, CrashSummaryKeeps DEF RunStep
<1>3. CASE UNCHANGED vars
  <2>1. \A r \in Runs : Same(r)  BY <1>3 DEF vars, runVars, Same
  <2>2. \A r \in Runs : RunOK(r)'  BY <2>1, SameOK DEF RunInv
  <2> QED  BY <1>1, <2>2 DEF RunInv, LockInv
<1> QED  BY <1>1, <1>2, <1>3, StartKeeps, RestartKeeps DEF Next

(* Memory, state file and outbox of every run of PlanRunService, at any     *)
(* point of its thread, of its crash handler and after any restart.        *)
THEOREM ItemsInvariance == ASSUME PlanRunConstants PROVE Spec => []RunInv
<1>1. Init => RunInv  BY ItemsInit
<1>2. RunInv /\ [Next]_vars => RunInv'  BY ItemsStep
<1> QED  BY <1>1, <1>2, PTL DEF Spec

(* What the server has been told of the end of an item or of a run is what  *)
(* every later query answers, also after a restart of the process: the     *)
(* state file is written before the outbox, and state_to_run makes up for  *)
(* the item the crash handler tells before it saves.                       *)
THEOREM Truthful == ASSUME PlanRunConstants PROVE Spec => []ToldIsTrue
<1>1. RunInv => ToldIsTrue  BY DEF RunInv, RunOK, ServerOK, ToldIsTrue
<1> QED  BY <1>1, ItemsInvariance, PTL

(* _finalize_run_status, state_to_run: a run is COMPLETED only when the end *)
(* of each of its items has been put in the outbox.                        *)
THEOREM Complete == ASSUME PlanRunConstants PROVE Spec => []CompletedIsTold
<1>1. RunInv => CompletedIsTold
  BY DEF RunInv, RunOK, ServerOK, Settled, CompletedIsTold
<1> QED  BY <1>1, ItemsInvariance, PTL

-----------------------------------------------------------------------------
(* PART 2.  The outbox of a plan.                                          *)


(* A prefix of q and the rest of it have no callback in common and all of q *)
(* between them.                                                            *)
LEMMA Split ==
  ASSUME NEW q \in Seq(Callbacks), IsInjective(q), NEW n \in 0 .. Len(q)
  PROVE  LET g == SubSeq(q, 1, n)
             d == SubSeq(q, n + 1, Len(q))
         IN /\ g \in Seq(Callbacks) /\ Len(g) = n
            /\ d \in Seq(Callbacks)
            /\ IsInjective(g) /\ IsInjective(d)
            /\ Range(g) \cap Range(d) = {}
            /\ Range(g) \cup Range(d) = Range(q)
<1> DEFINE g == SubSeq(q, 1, n)
           d == SubSeq(q, n + 1, Len(q))
<1>1. g \in Seq(Callbacks) /\ Len(g) = n /\ \A k \in 1 .. n : g[k] = q[k]
  OBVIOUS
<1>2. /\ d \in Seq(Callbacks) /\ Len(d) = Len(q) - n
      /\ \A k \in 1 .. Len(q) - n : d[k] = q[n + k]
  OBVIOUS
<1> HIDE DEF g, d
<1>3. DOMAIN g = 1 .. n /\ DOMAIN d = 1 .. Len(q) - n /\ DOMAIN q = 1 .. Len(q)
  BY <1>1, <1>2
<1>8. /\ Len(q) \in Nat /\ n \in Nat
      /\ \A k \in 1 .. Len(q) - n : n + k \in 1 .. Len(q) /\ d[k] = q[n + k]
  BY <1>2
<1>9. \A a, b \in 1 .. Len(q) : q[a] = q[b] => a = b  BY <1>3 DEF IsInjective
<1>4. IsInjective(g)  BY <1>1, <1>3 DEF IsInjective
<1>5. IsInjective(d)
  <2>1. ASSUME NEW a \in 1 .. Len(q) - n, NEW b \in 1 .. Len(q) - n, d[a] = d[b]
        PROVE  a = b
    <3>1. n + a = n + b  BY <2>1, <1>8, <1>9
    <3> QED  BY <3>1, <1>8
  <2> QED  BY <2>1, <1>3 DEF IsInjective
<1>6. Range(g) \cap Range(d) = {}
  <2>1. ASSUME NEW a \in 1 .. n, NEW b \in 1 .. Len(q) - n PROVE g[a] # d[b]
    <3>1. a # n + b /\ a \in 1 .. Len(q)  BY <1>8
    <3> QED  BY <3>1, <1>1, <1>8, <1>9
  <2> QED  BY <2>1, <1>3 DEF Range
<1>7. Range(g) \cup Range(d) = Range(q)
  <2>1. ASSUME NEW k \in 1 .. Len(q) PROVE q[k] \in Range(g) \cup Range(d)
    <3>1. CASE k <= n  BY <3>1, <1>1, <1>3 DEF Range
    <3>2. CASE k > n
      <4>1. k - n \in 1 .. Len(q) - n /\ d[k - n] = q[k]  BY <3>2, <1>2
      <4> QED  BY <4>1, <1>3 DEF Range
    <3> QED  BY <3>1, <3>2
  <2>2. Range(g) \subseteq Range(q)  BY <1>1, <1>3 DEF Range
  <2>3. Range(d) \subseteq Range(q)  BY <1>8, <1>3 DEF Range
  <2> QED  BY <2>1, <2>2, <2>3, <1>3 DEF Range
<1> QED  BY <1>1, <1>2, <1>4, <1>5, <1>6, <1>7 DEF g, d

(* What is posted together is there, and something is if there is anything. *)
LEMMA TogetherBounds ==
  ASSUME NEW m, NEW q \in Seq(Callbacks)
  PROVE  Together(m, q) \in 0 .. Len(q) /\ (q # <<>> => Together(m, q) # 0)
<1> DEFINE S == {k \in DOMAIN q : IsItem(q[k])}
<1>1. CASE m = "batch" /\ q # <<>> /\ IsItem(Head(q))
  <2>1. IsFiniteSet(1 .. Len(q)) /\ Cardinality(1 .. Len(q)) = Len(q)
    <3>1. 1 \in Int /\ Len(q) \in Int /\ Len(q) >= 0  OBVIOUS
    <3>2. IsFiniteSet(1 .. Len(q))  BY <3>1, FS_Interval
    <3>3. Cardinality(1 .. Len(q)) = IF 1 > Len(q) THEN 0 ELSE Len(q) - 1 + 1
      BY <3>1, FS_Interval
    <3> QED  BY <3>1, <3>2, <3>3
  <2>2. S \subseteq 1 .. Len(q) /\ 1 \in S
    BY <1>1
  <2>3. IsFiniteSet(S) /\ Cardinality(S) <= Len(q)
    BY <2>1, <2>2, FS_Subset
  <2>4. Cardinality(S) \in Nat /\ Cardinality(S) # 0
    BY <2>2, <2>3, FS_CardinalityType, FS_EmptySet
  <2> QED  BY <1>1, <2>3, <2>4 DEF Together
<1>2. CASE ~(m = "batch" /\ q # <<>> /\ IsItem(Head(q)))
  BY <1>2 DEF Together
<1> QED  BY <1>1, <1>2

(* The types of what the senders have in hand, and how it hangs together.   *)
HandsTyped ==
  /\ stage \in [Senders -> {"idle", "post", "mark", "write"}]
  /\ group \in [Senders -> Seq(Callbacks)] /\ todo \in [Senders -> Seq(Callbacks)]
  /\ posted \in [Senders -> Nat] /\ error \in [Senders -> Replies]

Hand(t) ==
  /\ IsInjective(group[t]) /\ IsInjective(todo[t])
  /\ Range(group[t]) \cap Range(todo[t]) = {}
  /\ stage[t] = "idle" => Held(t) = {}
  /\ stage[t] # "idle" => group[t] # <<>>
  /\ stage[t] = "post" => posted[t] < Len(group[t])

(* What a sender takes up next.                                            *)
Takes(t, q) ==
  /\ HandsTyped' /\ Hand(t)'
  /\ Held(t)' = Range(q) /\ Posted(t)' = {}
  /\ stage'[t] = IF q = <<>> THEN "idle" ELSE "post"
  /\ error'[t] = "none"

(* A step of sender t leaves what the others have in hand alone.           *)
Elsewhere(t) == \A u \in Senders \ {t} :
  /\ stage'[u] = stage[u] /\ group'[u] = group[u] /\ todo'[u] = todo[u]
  /\ posted'[u] = posted[u] /\ error'[u] = error[u]
  /\ copy'[u] = copy[u] /\ fed'[u] = fed[u]

LEMMA ProceedTakes ==
  ASSUME OutboxTypeOK, NEW t \in Senders, NEW m, NEW q \in Seq(Callbacks),
         IsInjective(q), Proceed(t, m, q)
  PROVE  Takes(t, q)
<1> DEFINE n == Together(m, q)
           g == SubSeq(q, 1, n)
           d == SubSeq(q, n + 1, Len(q))
<1>1. n \in 0 .. Len(q) /\ (q # <<>> => n # 0)  BY TogetherBounds
<1> HIDE DEF n
<1>2. /\ g \in Seq(Callbacks) /\ Len(g) = n /\ d \in Seq(Callbacks)
      /\ IsInjective(g) /\ IsInjective(d) /\ Range(g) \cap Range(d) = {}
      /\ Range(g) \cup Range(d) = Range(q)
  BY <1>1, Split
<1> HIDE DEF g, d
<1>3. /\ group' = [group EXCEPT ![t] = g] /\ todo' = [todo EXCEPT ![t] = d]
      /\ stage' = [stage EXCEPT ![t] = IF q = <<>> THEN "idle" ELSE "post"]
      /\ posted' = [posted EXCEPT ![t] = 0]
      /\ error' = [error EXCEPT ![t] = "none"]
  BY DEF Proceed, g, d, n
<1>4. /\ group'[t] = g /\ todo'[t] = d /\ posted'[t] = 0 /\ error'[t] = "none"
      /\ stage'[t] = IF q = <<>> THEN "idle" ELSE "post"
  BY <1>3 DEF OutboxTypeOK
<1>5. /\ group' \in [Senders -> Seq(Callbacks)] /\ todo' \in [Senders -> Seq(Callbacks)]
      /\ stage' \in [Senders -> {"idle", "post", "mark", "write"}]
      /\ posted' \in [Senders -> Nat] /\ error' \in [Senders -> Replies]
  BY <1>2, <1>3 DEF OutboxTypeOK, Replies
<1>6. Posted(t)' = {}
  <2>1. CASE q = <<>>
    <3>1. g = <<>>  BY <2>1, <1>1, <1>2
    <3> QED  BY <3>1, <2>1, <1>4 DEF Posted, Range
  <2>2. CASE q # <<>>  BY <2>2, <1>4 DEF Posted
  <2> QED  BY <2>1, <2>2
<1>7. q # <<>> => g # <<>> /\ 0 < Len(g)  BY <1>1, <1>2
<1>8. Held(t)' = Range(q)  BY <1>2, <1>4 DEF Held
<1>9. q = <<>> => Range(q) = {}  BY DEF Range
<1>10. Hand(t)'
  BY <1>2, <1>4, <1>7, <1>8, <1>9 DEF Hand
<1> QED  BY <1>4, <1>5, <1>6, <1>8, <1>10 DEF Takes, HandsTyped

LEMMA ProceedElsewhere ==
  ASSUME OutboxTypeOK, NEW t \in Senders, NEW m, NEW q, Proceed(t, m, q),
         UNCHANGED <<copy, fed>>
  PROVE  Elsewhere(t)
BY DEF OutboxTypeOK, Proceed, Elsewhere

LEMMA TypeIsHand ==
  ASSUME OutboxTypeOK, NEW t \in Senders, SenderOK(t)
  PROVE  HandsTyped /\ Hand(t)
BY DEF OutboxTypeOK, SenderOK, HandsTyped, Hand

(* What has been posted is in hand.                                        *)
LEMMA PostedHeld ==
  ASSUME NEW t \in Senders, HandsTyped, Hand(t)
  PROVE  Posted(t) \subseteq Held(t)
<1>1. group[t] \in Seq(Callbacks) /\ posted[t] \in Nat  BY DEF HandsTyped
<1>2. CASE stage[t] = "post"
  <2>1. \A k \in 1 .. posted[t] : k \in DOMAIN group[t]
    BY <1>1, <1>2 DEF Hand
  <2> QED  BY <2>1, <1>2 DEF Posted, Held, Range
<1>3. CASE stage[t] # "post"  BY <1>3 DEF Posted, Held
<1> QED  BY <1>2, <1>3

(* The head of the group is marked.                                        *)
Drops(t) ==
  LET i == Head(group[t]) IN
  /\ HandsTyped' /\ Hand(t)'
  /\ i \in Callbacks /\ i \in Posted(t)
  /\ Held(t)' = Held(t) \ {i} /\ Posted(t)' = Posted(t) \ {i}
  /\ stage'[t] # "write"
  /\ \/ error'[t] = error[t] /\ Range(group'[t]) \subseteq Range(group[t])
     \/ error'[t] = "none" /\ Posted(t)' = {}

LEMMA AfterMarkDrops ==
  ASSUME OutboxTypeOK, NEW t \in Senders, SenderOK(t), stage[t] \in {"mark", "write"},
         AfterMark(t)
  PROVE  Drops(t)
<1> DEFINE g == group[t]
           i == Head(g)
<1>1. g \in Seq(Callbacks) /\ g # <<>> /\ todo[t] \in Seq(Callbacks)
  BY DEF OutboxTypeOK, SenderOK
<1>2. Len(g) \in Nat /\ Len(g) >= 1 /\ i = g[1] /\ i \in Callbacks /\ DOMAIN g = 1 .. Len(g)
  BY <1>1
<1>3. IsInjective(g) /\ IsInjective(todo[t]) /\ Range(g) \cap Range(todo[t]) = {}
  BY DEF OutboxTypeOK
<1>4. Posted(t) = Range(g) /\ i \in Range(g)  BY <1>2 DEF Posted, Range
<1>5. CASE Len(g) > 1
  <2>1. /\ group' = [group EXCEPT ![t] = Tail(g)] /\ stage' = [stage EXCEPT ![t] = "mark"]
        /\ UNCHANGED <<todo, posted, error>>
    BY <1>5 DEF AfterMark
  <2> DEFINE d == Tail(g)
  <2>2. /\ d \in Seq(Callbacks) /\ Len(d) = Len(g) - 1
        /\ \A k \in 1 .. Len(g) - 1 : d[k] = g[k + 1]
    BY <1>1, <1>2
  <2> HIDE DEF d
  <2>3. DOMAIN d = 1 .. Len(g) - 1 /\ \A k \in 1 .. Len(g) - 1 : k + 1 \in 1 .. Len(g)
    BY <2>2, <1>2
  <2>4. \A a, b \in 1 .. Len(g) : g[a] = g[b] => a = b  BY <1>2, <1>3 DEF IsInjective
  <2>5. IsInjective(d)
    <3>1. ASSUME NEW a \in 1 .. Len(g) - 1, NEW b \in 1 .. Len(g) - 1, d[a] = d[b]
          PROVE  a = b
      <4>1. a + 1 = b + 1  BY <3>1, <2>2, <2>3, <2>4
      <4> QED  BY <4>1, <1>2
    <3> QED  BY <3>1, <2>3 DEF IsInjective
  <2>6. Range(d) = Range(g) \ {i}
    <3>1. ASSUME NEW k \in 1 .. Len(g) - 1 PROVE d[k] \in Range(g) \ {i}
      <4>1. g[k + 1] # g[1]  BY <2>3, <2>4, <1>2
      <4> QED  BY <4>1, <2>2, <2>3, <1>2 DEF Range
    <3>2. ASSUME NEW k \in 1 .. Len(g), g[k] # i PROVE g[k] \in Range(d)
      <4>3. k # 1  BY <3>2, <1>2
      <4>1. k - 1 \in 1 .. Len(g) - 1 /\ k = (k - 1) + 1  BY <4>3, <1>2
      <4>2. d[k - 1] = g[k]  BY <4>1, <2>2
      <4> QED  BY <4>1, <4>2, <2>3 DEF Range
    <3> QED  BY <3>1, <3>2, <2>3, <1>2 DEF Range
  <2>7. group'[t] = d /\ stage'[t] = "mark" /\ todo'[t] = todo[t] /\ error'[t] = error[t]
    BY <2>1 DEF OutboxTypeOK, d
  <2>8. HandsTyped'  BY <2>1, <2>2 DEF OutboxTypeOK, HandsTyped, d
  <2>9. Len(d) # 0  BY <2>2, <1>5, <1>2
  <2>10. d # <<>>  BY <2>9
  <2>11. Hand(t)'
    BY <2>5, <2>6, <2>7, <2>10, <1>3 DEF Hand
  <2>12. Held(t)' = Held(t) \ {i} /\ Posted(t)' = Posted(t) \ {i}
    BY <2>6, <2>7, <1>3, <1>4 DEF Held, Posted
  <2> QED  BY <2>6, <2>7, <2>8, <2>11, <2>12, <1>2, <1>4 DEF Drops
<1>6. CASE ~(Len(g) > 1)
  <2>1. Takes(t, todo[t])
    BY <1>1, <1>3, <1>6, ProceedTakes DEF AfterMark
  <2>2. Range(g) = {i}
    <3>1. \A k \in DOMAIN g : k = 1  BY <1>2, <1>6
    <3> QED  BY <3>1, <1>2 DEF Range
  <2>3. Held(t)' = Held(t) \ {i} /\ Posted(t)' = Posted(t) \ {i}
    BY <2>1, <2>2, <1>3, <1>4 DEF Takes, Held
  <2> QED  BY <2>1, <2>3, <1>2, <1>4 DEF Takes, Drops
<1> QED  BY <1>5, <1>6

LEMMA AfterMarkElsewhere ==
  ASSUME OutboxTypeOK, NEW t \in Senders, AfterMark(t), UNCHANGED <<copy, fed>>
  PROVE  Elsewhere(t)
<1>1. CASE Len(group[t]) > 1
  BY <1>1 DEF AfterMark, OutboxTypeOK, Elsewhere
<1>2. CASE ~(Len(group[t]) > 1)
  BY <1>2, ProceedElsewhere DEF AfterMark
<1> QED  BY <1>1, <1>2

-----------------------------------------------------------------------------
(* The types, the file, and what the senders have in hand.                  *)
Shape == OutboxTypeOK /\ FileOK /\ \A t \in Senders : SenderOK(t)

(* The types of all but the hands.                                          *)
RecordsTyped ==
  /\ file \in Seq(Callbacks)
  /\ rec \in [Callbacks -> Metadata]
  /\ fed \in [Senders -> Nat]
  /\ mode \in [Senders -> {"batch", "single"}]
  /\ copy \in [Senders -> Metadata]
  /\ posts \in [Callbacks -> Nat]
  /\ got \subseteq Callbacks /\ refused \subseteq Callbacks /\ spoiled \subseteq Callbacks
  /\ retries \in Nat /\ deaths \in Nat

LEMMA ShapeStep ==
  ASSUME Shape, NEW t \in Senders, Elsewhere(t), HandsTyped', Hand(t)', RecordsTyped',
         FileOK', InFile \subseteq InFile',
         fed'[t] <= Len(Feed[t]), Held(t)' \subseteq InFile',
         ~IsRetry(t) /\ stage'[t] # "idle" => fed'[t] # 0 /\ Held(t)' = {Feed[t][fed'[t]]}
  PROVE  Shape'
<1>1. ASSUME NEW u \in Senders \ {t} PROVE Hand(u)' /\ SenderOK(u)'
  <2>1. SenderOK(u) /\ Hand(u)  BY TypeIsHand DEF Shape
  <2>2. Held(u)' = Held(u)  BY DEF Elsewhere, Held
  <2>3. Hand(u)'  BY <2>1, <2>2 DEF Hand, Elsewhere
  <2>4. SenderOK(u)'  BY <2>1, <2>2 DEF SenderOK, Elsewhere
  <2> QED  BY <2>3, <2>4
<1>2. SenderOK(t)'  BY DEF Hand, SenderOK
<1>3. \A u \in Senders : Hand(u)' /\ SenderOK(u)'  BY <1>1, <1>2
<1>4. OutboxTypeOK'
  BY <1>3 DEF OutboxTypeOK, HandsTyped, RecordsTyped, Hand
<1> QED  BY <1>3, <1>4 DEF Shape

LEMMA ShapeTypes ==
  ASSUME Shape, NEW t \in Senders
  PROVE  /\ HandsTyped /\ RecordsTyped /\ Hand(t) /\ SenderOK(t) /\ FileOK
         /\ OutboxTypeOK /\ Posted(t) \subseteq Held(t) /\ Held(t) \subseteq Callbacks
<1>1. OutboxTypeOK /\ SenderOK(t) /\ FileOK  BY DEF Shape
<1>2. HandsTyped /\ Hand(t)  BY <1>1, TypeIsHand
<1>3. RecordsTyped  BY <1>1 DEF OutboxTypeOK, RecordsTyped
<1>4. Posted(t) \subseteq Held(t)  BY <1>2, PostedHeld
<1>5. group[t] \in Seq(Callbacks) /\ todo[t] \in Seq(Callbacks)  BY <1>2 DEF HandsTyped
<1>6. Held(t) \subseteq Callbacks  BY <1>5 DEF Held, Range
<1> QED  BY <1>1, <1>2, <1>3, <1>4, <1>6

(* Two run threads have no callback in common.                             *)
LEMMA RunsApart ==
  ASSUME NEW t \in Senders, NEW u \in Senders, NEW m, NEW n,
         m \in DOMAIN Feed[t], n \in DOMAIN Feed[u], Feed[t][m] = Feed[u][n]
  PROVE  t = u /\ m = n
BY OutboxConstants DEF OutboxConstants

(* The callback a sender delivers is new to the file.                      *)
LEMMA DeliversNew ==
  ASSUME Shape, NEW t \in Senders, Deliver(t)
  PROVE  LET i == Feed[t][fed[t] + 1] IN
         /\ fed[t] + 1 \in DOMAIN Feed[t] /\ i \in Callbacks /\ ~IsRetry(t)
         /\ i \notin InFile /\ InFile' = InFile \cup {i} /\ FileOK'
         /\ file' \in Seq(Callbacks) /\ posts[i] = 0
<1> DEFINE i == Feed[t][fed[t] + 1]
<1>1. fed \in [Senders -> Nat] /\ file \in Seq(Callbacks) /\ posts \in [Callbacks -> Nat]
  BY DEF Shape, OutboxTypeOK
<1>2. Feed[t] \in Seq(Callbacks)  BY OutboxConstants DEF OutboxConstants
<1>3. fed[t] < Len(Feed[t]) /\ file' = Append(file, i) /\ fed' = [fed EXCEPT ![t] = @ + 1]
      /\ UNCHANGED posts
  BY DEF Deliver, history
<1>4. fed[t] + 1 \in DOMAIN Feed[t] /\ i \in Callbacks /\ Feed[t] # <<>>
  BY <1>1, <1>2, <1>3
<1>5. fed'[t] = fed[t] + 1 /\ \A u \in Senders \ {t} : fed'[u] = fed[u]
  BY <1>1, <1>3
<1>6. i \notin InFile
  <2>1. SUFFICES ASSUME i \in InFile PROVE FALSE  OBVIOUS
  <2>2. PICK u \in Senders : \E k \in 1 .. fed[u] : k \in DOMAIN Feed[u] /\ i = Feed[u][k]
    BY <2>1 DEF Shape, FileOK
  <2>3. PICK k \in 1 .. fed[u] : k \in DOMAIN Feed[u] /\ i = Feed[u][k]
    BY <2>2
  <2>4. u = t /\ k = fed[t] + 1  BY <2>3, <1>4, RunsApart
  <2> QED  BY <2>3, <2>4, <1>1
<1> HIDE DEF i
<1>7. /\ file' \in Seq(Callbacks) /\ Len(file') = Len(file) + 1 /\ Len(file) \in Nat
      /\ \A k \in 1 .. Len(file) : file'[k] = file[k]
      /\ file'[Len(file) + 1] = i
  BY <1>1, <1>3, <1>4
<1>8. DOMAIN file = 1 .. Len(file) /\ DOMAIN file' = 1 .. Len(file) + 1
  BY <1>1, <1>7
<1>9. \A k \in 1 .. Len(file) + 1 : k \in 1 .. Len(file) \/ k = Len(file) + 1
  BY <1>7
<1>10. InFile' = InFile \cup {i}
  <2>1. Len(file) + 1 \in 1 .. Len(file) + 1 /\ 1 .. Len(file) \subseteq 1 .. Len(file) + 1
    BY <1>7
  <2> QED  BY <2>1, <1>7, <1>8, <1>9 DEF InFile, Range
<1>11. IsInjective(file')
  <2>1. IsInjective(file)  BY DEF Shape, FileOK
  <2>2. \A k \in 1 .. Len(file) : file[k] # i  BY <1>6, <1>8 DEF InFile, Range
  <2> QED  BY <2>1, <2>2, <1>7, <1>8, <1>9 DEF IsInjective
<1>12. \A j \in InFile' : \E u \in Senders : \E k \in 1 .. fed'[u] :
         k \in DOMAIN Feed[u] /\ j = Feed[u][k]
  <2>1. ASSUME NEW j \in InFile
        PROVE  \E u \in Senders : \E k \in 1 .. fed'[u] : k \in DOMAIN Feed[u] /\ j = Feed[u][k]
    <3>1. PICK u \in Senders : \E k \in 1 .. fed[u] : k \in DOMAIN Feed[u] /\ j = Feed[u][k]
      BY <2>1 DEF Shape, FileOK
    <3>3. fed[u] \in Nat /\ (fed'[u] = fed[u] \/ fed'[u] = fed[u] + 1)
      BY <1>1, <1>5
    <3>2. 1 .. fed[u] \subseteq 1 .. fed'[u]  BY <3>3
    <3> QED  BY <3>1, <3>2
  <2>2. fed[t] + 1 \in 1 .. fed'[t]  BY <1>1, <1>5
  <2> QED  BY <2>1, <2>2, <1>4, <1>10 DEF i
<1>13. FileOK'
  BY <1>3, <1>10, <1>11, <1>12 DEF Shape, FileOK
<1>14. posts[i] = 0  BY <1>4, <1>6 DEF Shape, FileOK, i
<1> QED  BY <1>4, <1>6, <1>7, <1>10, <1>13, <1>14 DEF i, IsRetry

LEMMA DeliverShape ==
  ASSUME Shape, NEW t \in Senders, Deliver(t)
  PROVE  LET i == Feed[t][fed[t] + 1] IN
         /\ Shape' /\ Elsewhere(t)
         /\ \/ /\ rec' = [rec EXCEPT ![i] = Fresh("PENDING")]
               /\ Takes(t, <<i>>)
            \/ /\ rec' = [rec EXCEPT ![i] = Fresh("URL_NOT_CONFIGURED")]
               /\ UNCHANGED <<stage, todo, group, posted, error>>
<1> DEFINE i == Feed[t][fed[t] + 1]
<1>1. /\ fed[t] + 1 \in DOMAIN Feed[t] /\ i \in Callbacks /\ ~IsRetry(t)
      /\ InFile' = InFile \cup {i} /\ FileOK' /\ file' \in Seq(Callbacks)
  BY DeliversNew
<1>2. /\ HandsTyped /\ RecordsTyped /\ Hand(t) /\ OutboxTypeOK /\ Feed[t] \in Seq(Callbacks)
      /\ Posted(t) \subseteq Held(t)
  BY ShapeTypes, OutboxConstants DEF OutboxConstants
<1>3. /\ stage[t] = "idle" /\ fed' = [fed EXCEPT ![t] = @ + 1]
      /\ mode' \in [Senders -> {"batch", "single"}]
      /\ UNCHANGED <<copy, posts, got, refused, spoiled, retries, deaths>>
  BY <1>2 DEF Deliver, history, RecordsTyped
<1>4. fed'[t] = fed[t] + 1 /\ fed'[t] \in Nat /\ fed'[t] <= Len(Feed[t]) /\ fed'[t] # 0
  BY <1>1, <1>2, <1>3 DEF RecordsTyped
<1> HIDE DEF i
<1>5. CASE rec' = [rec EXCEPT ![i] = Fresh("PENDING")] /\ Proceed(t, "single", <<i>>)
  <2>1. <<i>> \in Seq(Callbacks) /\ IsInjective(<<i>>) /\ Range(<<i>>) = {i} /\ <<i>> # <<>>
    BY <1>1 DEF IsInjective, Range
  <2>2. Takes(t, <<i>>)  BY <1>2, <1>5, <2>1, ProceedTakes
  <2>3. Elsewhere(t)
    BY <1>2, <1>3, <1>5 DEF OutboxTypeOK, Proceed, Elsewhere
  <2>4. RecordsTyped'
    <3>1. Fresh("PENDING") \in Metadata  BY DEF Metadata, Delivery, Fresh
    <3>2. rec' \in [Callbacks -> Metadata]  BY <3>1, <1>2, <1>5 DEF RecordsTyped
    <3>3. fed' \in [Senders -> Nat]  BY <1>2, <1>3 DEF RecordsTyped
    <3> QED  BY <3>2, <3>3, <1>1, <1>2, <1>3 DEF RecordsTyped
  <2>5. Held(t)' = {Feed[t][fed'[t]]}
    BY <1>4, <2>1, <2>2 DEF Takes, i
  <2>6. Held(t)' \subseteq InFile'  BY <1>1, <2>1, <2>2 DEF Takes
  <2>7. Shape'
    BY <1>1, <1>4, <2>2, <2>3, <2>4, <2>5, <2>6, ShapeStep DEF Takes
  <2> QED  BY <1>5, <2>2, <2>3, <2>7 DEF i
<1>6. CASE /\ rec' = [rec EXCEPT ![i] = Fresh("URL_NOT_CONFIGURED")]
           /\ UNCHANGED <<stage, todo, group, posted, error>>
  <2>1. Elsewhere(t)
    BY <1>2, <1>3, <1>6 DEF OutboxTypeOK, Elsewhere
  <2>2. HandsTyped' /\ Hand(t)' /\ Held(t)' = Held(t) /\ stage'[t] = "idle"
    BY <1>2, <1>3, <1>6 DEF HandsTyped, Hand, Held
  <2>3. RecordsTyped'
    <3>1. Fresh("URL_NOT_CONFIGURED") \in Metadata  BY DEF Metadata, Delivery, Fresh
    <3>2. rec' \in [Callbacks -> Metadata]  BY <3>1, <1>2, <1>6 DEF RecordsTyped
    <3>3. fed' \in [Senders -> Nat]  BY <1>2, <1>3 DEF RecordsTyped
    <3> QED  BY <3>2, <3>3, <1>1, <1>2, <1>3 DEF RecordsTyped
  <2>4. Shape'
    BY <1>1, <1>2, <1>3, <1>4, <2>1, <2>2, <2>3, ShapeStep DEF Hand
  <2> QED  BY <1>6, <2>1, <2>4 DEF i
<1> QED  BY <1>5, <1>6 DEF Deliver, i

LEMMA BeginRetryShape ==
  ASSUME Shape, NEW t \in Senders, BeginRetry(t)
  PROVE  /\ Shape' /\ Elsewhere(t)
         /\ \E q \in Seq(Callbacks) : Takes(t, q) /\ \A i \in Range(q) : i \in InFile /\ Open(i)
<1>1. /\ HandsTyped /\ RecordsTyped /\ OutboxTypeOK /\ FileOK /\ SenderOK(t)
  BY ShapeTypes
<1>2. PICK due \in SUBSET InFile, m \in {"batch", "single"} :
        LET dueNow == {i \in InFile : Pending(i, due)} IN
        /\ \E q \in [1 .. Cardinality(dueNow) -> dueNow] : Ordered(q) /\ Proceed(t, m, q)
        /\ mode' = [mode EXCEPT ![t] = m]
  BY DEF BeginRetry
<1> DEFINE S == {i \in InFile : Pending(i, due)}
<1>3. PICK q \in [1 .. Cardinality(S) -> S] : Ordered(q) /\ Proceed(t, m, q)
  BY <1>2
<1>4. /\ IsRetry(t) /\ retries' \in Nat
      /\ UNCHANGED <<file, rec, fed, copy, posts, got, refused, spoiled, deaths>>
  BY <1>1 DEF BeginRetry, IsRetry, history, RecordsTyped
<1>5. IsFiniteSet(S) /\ Cardinality(S) \in Nat
  <2>1. file \in Seq(Callbacks) /\ DOMAIN file = 1 .. Len(file) /\ Len(file) \in Nat
    BY <1>1 DEF RecordsTyped
  <2>2. IsFiniteSet(DOMAIN file)  BY <2>1, FS_Interval
  <2>3. file \in Surjection(DOMAIN file, InFile)
    <3>1. file \in [DOMAIN file -> InFile]  BY <2>1 DEF InFile, Range
    <3>2. \A i \in InFile : \E k \in DOMAIN file : file[k] = i  BY DEF InFile, Range
    <3> QED  BY <3>1, <3>2 DEF Surjection
  <2>4. IsFiniteSet(InFile)  BY <2>2, <2>3, FS_Surjection
  <2>5. S \subseteq InFile  OBVIOUS
  <2> HIDE DEF S
  <2> QED  BY <2>4, <2>5, FS_Subset, FS_CardinalityType
<1>6. S \subseteq Callbacks
  BY <1>1 DEF RecordsTyped, InFile, Range
<1>7. q \in Seq(Callbacks) /\ DOMAIN q = 1 .. Cardinality(S)
  <2> DEFINE n == Cardinality(S)
  <2>1. q \in [1 .. n -> Callbacks] /\ n \in Nat  BY <1>5, <1>6
  <2> HIDE DEF n
  <2>2. q \in Seq(Callbacks) /\ DOMAIN q = 1 .. n  BY <2>1
  <2> QED  BY <2>2 DEF n
<1>8. Range(q) \subseteq S  BY DEF Range
<1>9. \A j, k \in DOMAIN q : j < k => q[j] # q[k]
  <2>1. SUFFICES ASSUME NEW j \in DOMAIN q, NEW k \in DOMAIN q, j < k, q[j] = q[k]
                 PROVE FALSE
    OBVIOUS
  <2>2. SentBefore(q[j], q[j])  BY <1>3, <2>1 DEF Ordered
  <2>3. PICK a \in DOMAIN file, b \in DOMAIN file : a < b /\ file[a] = file[b]
    BY <2>2 DEF SentBefore
  <2>4. a = b  BY <1>1, <2>3 DEF FileOK, IsInjective
  <2>5. a \in Int  BY <1>1 DEF RecordsTyped
  <2> QED  BY <2>3, <2>4, <2>5
<1>10. IsInjective(q)
  <2>1. \A j, k \in DOMAIN q : j < k \/ k < j \/ j = k  BY <1>5, <1>7
  <2> QED  BY <2>1, <1>9 DEF IsInjective
<1>11. Takes(t, q)  BY <1>1, <1>3, <1>7, <1>10, ProceedTakes
<1>12. Elsewhere(t)  BY <1>1, <1>3, <1>4, ProceedElsewhere
<1>13. RecordsTyped'
  BY <1>1, <1>2, <1>4 DEF RecordsTyped
<1>14. InFile' = InFile /\ FileOK'  BY <1>1, <1>4 DEF FileOK, InFile
<1>15. fed'[t] <= Len(Feed[t])  BY <1>1, <1>4 DEF SenderOK
<1>16. Held(t)' \subseteq InFile'  BY <1>8, <1>11, <1>14 DEF Takes
<1>17. Shape'
  BY <1>4, <1>11, <1>12, <1>13, <1>14, <1>15, <1>16, ShapeStep DEF Takes
<1>18. \A i \in Range(q) : i \in InFile /\ Open(i)
  BY <1>8 DEF Pending, Open
<1> QED  BY <1>7, <1>11, <1>12, <1>17, <1>18

(* What a post adds to what has been posted.                               *)
Chunk(t) == {group[t][k] : k \in posted[t] + 1 .. posted'[t]}

LEMMA PostShape ==
  ASSUME Shape, NEW t \in Senders, Post(t)
  PROVE  /\ Shape' /\ Elsewhere(t)
         /\ Held(t)' = Held(t) /\ Posted(t)' = Posted(t) \cup Chunk(t)
         /\ Chunk(t) \subseteq Held(t) /\ Chunk(t) \cap Posted(t) = {}
         /\ posts' = [i \in Callbacks |-> IF i \in Chunk(t) THEN posts[i] + 1 ELSE posts[i]]
         /\ UNCHANGED <<file, rec, group, copy, deaths>>
         /\ stage[t] = "post" /\ stage'[t] \in {"post", "mark"}
         /\ \E answer \in Replies, arrived \in BOOLEAN :
              /\ answer = "none" => arrived
              /\ error'[t] = Aggregate(error[t], answer)
              /\ got' = IF arrived THEN got \cup Chunk(t) ELSE got
              /\ refused' = IF answer = "permanent" THEN refused \cup Chunk(t) ELSE refused
         /\ spoiled \subseteq spoiled'
         /\ stage'[t] = "mark" /\ error'[t] = "permanent" =>
              Range(group[t]) \subseteq refused' \cup spoiled'
<1> DEFINE g == group[t]
           last == IF posted[t] + ChunkSize < Len(g) THEN posted[t] + ChunkSize ELSE Len(g)
           chunk == {g[k] : k \in posted[t] + 1 .. last}
<1>1. /\ HandsTyped /\ RecordsTyped /\ OutboxTypeOK /\ FileOK /\ SenderOK(t) /\ Hand(t)
      /\ Held(t) \subseteq Callbacks
  BY ShapeTypes
<1>2. stage[t] = "post" /\ UNCHANGED <<file, rec, fed, mode, todo, group, copy, retries, deaths>>
  BY DEF Post
<1>3. /\ posts' = [i \in Callbacks |-> IF i \in chunk THEN posts[i] + 1 ELSE posts[i]]
      /\ posted' = [posted EXCEPT ![t] = last]
      /\ stage' = [stage EXCEPT ![t] = IF last = Len(g) THEN "mark" ELSE "post"]
      /\ \E answer \in Replies, arrived \in BOOLEAN :
           /\ answer = "none" => arrived
           /\ error' = [error EXCEPT ![t] = Aggregate(@, answer)]
           /\ got' = IF arrived THEN got \cup chunk ELSE got
           /\ refused' = IF answer = "permanent" THEN refused \cup chunk ELSE refused
           /\ spoiled' = IF last = Len(g) /\ error'[t] = "permanent"
                         THEN spoiled \cup (Range(g) \ refused') ELSE spoiled
  BY DEF Post
<1>4. /\ g \in Seq(Callbacks) /\ Len(g) \in Nat /\ DOMAIN g = 1 .. Len(g)
      /\ posted[t] \in Nat /\ posted[t] < Len(g) /\ ChunkSize \in Nat \ {0}
      /\ IsInjective(g) /\ g # <<>>
  BY <1>1, <1>2, OutboxConstants DEF OutboxConstants, HandsTyped, Hand
<1>5. last \in Nat /\ posted[t] < last /\ last <= Len(g)  BY <1>4
<1> HIDE DEF last
<1>6. /\ posted'[t] = last /\ posted' \in [Senders -> Nat]
      /\ stage'[t] = (IF last = Len(g) THEN "mark" ELSE "post")
      /\ stage' \in [Senders -> {"idle", "post", "mark", "write"}]
  BY <1>1, <1>3, <1>5 DEF HandsTyped
<1>7. chunk = Chunk(t)  BY <1>6 DEF Chunk
<1>8. Held(t)' = Held(t)  BY <1>2 DEF Held
<1>9. Posted(t) = {g[k] : k \in 1 .. posted[t]}  BY <1>2 DEF Posted
<1>10. Posted(t)' = {g[k] : k \in 1 .. last}
  <2>1. last = Len(g) => {g[k] : k \in 1 .. last} = Range(g)  BY <1>4 DEF Range
  <2> QED  BY <2>1, <1>2, <1>6 DEF Posted
<1>11. Posted(t)' = Posted(t) \cup chunk
  <2>1. 1 .. last = (1 .. posted[t]) \cup (posted[t] + 1 .. last)  BY <1>4, <1>5
  <2> QED  BY <2>1, <1>9, <1>10
<1>12. chunk \cap Posted(t) = {}
  <2>1. \A j \in 1 .. posted[t], k \in posted[t] + 1 .. last :
          j \in DOMAIN g /\ k \in DOMAIN g /\ j # k
    BY <1>4, <1>5
  <2> QED  BY <2>1, <1>4, <1>9 DEF IsInjective
<1>13. chunk \subseteq Held(t)
  <2>1. \A k \in posted[t] + 1 .. last : k \in DOMAIN g  BY <1>4, <1>5
  <2> QED  BY <2>1 DEF Held, Range
<1>14. PICK answer \in Replies, arrived \in BOOLEAN :
         /\ answer = "none" => arrived
         /\ error' = [error EXCEPT ![t] = Aggregate(@, answer)]
         /\ got' = IF arrived THEN got \cup chunk ELSE got
         /\ refused' = IF answer = "permanent" THEN refused \cup chunk ELSE refused
         /\ spoiled' = IF last = Len(g) /\ error'[t] = "permanent"
                       THEN spoiled \cup (Range(g) \ refused') ELSE spoiled
  BY <1>3
<1>15. error'[t] = Aggregate(error[t], answer) /\ error' \in [Senders -> Replies]
  BY <1>1, <1>14 DEF HandsTyped, Aggregate
<1>16. HandsTyped'
  BY <1>1, <1>2, <1>6, <1>15 DEF HandsTyped
<1>17. Hand(t)'
  BY <1>1, <1>2, <1>4, <1>5, <1>6, <1>8 DEF Hand
<1>18. RecordsTyped'
  <2>1. posts' \in [Callbacks -> Nat]  BY <1>1, <1>3 DEF RecordsTyped
  <2>2. Range(g) \subseteq Callbacks  BY <1>4 DEF Range
  <2>3. got' \subseteq Callbacks /\ refused' \subseteq Callbacks /\ spoiled' \subseteq Callbacks
    BY <2>2, <1>1, <1>13, <1>14 DEF RecordsTyped
  <2> QED  BY <2>1, <2>3, <1>1, <1>2 DEF RecordsTyped
<1>19. Elsewhere(t)
  BY <1>1, <1>2, <1>3, <1>14 DEF HandsTyped, Elsewhere
<1>20. InFile' = InFile  BY <1>2 DEF InFile
<1>21. FileOK'
  <2>1. \A i \in Callbacks \ InFile : posts'[i] = 0
    BY <1>1, <1>3, <1>13 DEF FileOK, SenderOK
  <2> QED  BY <2>1, <1>1, <1>2, <1>20 DEF FileOK
<1>22. Shape'
  <2>1. fed'[t] <= Len(Feed[t]) /\ Held(t)' \subseteq InFile'
    BY <1>1, <1>2, <1>8, <1>20 DEF SenderOK
  <2>2. ~IsRetry(t) => fed'[t] # 0 /\ Held(t)' = {Feed[t][fed'[t]]}
    BY <1>1, <1>2, <1>8 DEF SenderOK
  <2> QED  BY <2>1, <2>2, <1>16, <1>17, <1>18, <1>19, <1>20, <1>21, ShapeStep
<1>23. stage'[t] \in {"post", "mark"}  BY <1>6
<1>24. posts' = [i \in Callbacks |-> IF i \in Chunk(t) THEN posts[i] + 1 ELSE posts[i]]
  BY <1>3, <1>7
<1>25. /\ spoiled \subseteq spoiled'
       /\ stage'[t] = "mark" /\ error'[t] = "permanent" =>
            Range(g) \subseteq refused' \cup spoiled'
  BY <1>6, <1>14
<1> HIDE DEF chunk
<1> QED
  BY <1>2, <1>7, <1>8, <1>11, <1>12, <1>13, <1>14, <1>15, <1>19, <1>22, <1>23, <1>24, <1>25

LEMMA FindItemShape ==
  ASSUME Shape, NEW t \in Senders, FindItem(t)
  PROVE  /\ Shape' /\ Elsewhere(t)
         /\ Held(t)' = Held(t) /\ Posted(t)' = Posted(t)
         /\ UNCHANGED <<file, rec, group, error, posts, got, refused, spoiled, deaths>>
         /\ stage[t] = "mark" /\ stage'[t] = "write" /\ error[t] = "none"
         /\ Head(group[t]) \in Posted(t)
         /\ copy'[t] = rec[Head(group[t])]
<1>1. /\ HandsTyped /\ RecordsTyped /\ FileOK /\ SenderOK(t) /\ Hand(t)
      /\ Posted(t) \subseteq Held(t) /\ Held(t) \subseteq Callbacks
  BY ShapeTypes
<1>2. /\ stage[t] = "mark" /\ error[t] = "none"
      /\ copy' = [copy EXCEPT ![t] = rec[Head(group[t])]]
      /\ stage' = [stage EXCEPT ![t] = "write"]
      /\ UNCHANGED <<file, rec, fed, mode, todo, group, posted, error, posts, got, refused, spoiled,
                     retries, deaths>>
  BY DEF FindItem, history
<1>3. Head(group[t]) \in Posted(t)
  <2>1. group[t] \in Seq(Callbacks) /\ group[t] # <<>>
    BY <1>1, <1>2 DEF HandsTyped, Hand
  <2>2. 1 \in DOMAIN group[t] /\ Head(group[t]) = group[t][1]  BY <2>1
  <2> QED  BY <1>2, <2>2 DEF Posted, Range
<1>4. rec[Head(group[t])] \in Metadata
  BY <1>1, <1>3 DEF RecordsTyped
<1>5. stage'[t] = "write" /\ copy'[t] = rec[Head(group[t])]
  BY <1>1, <1>2 DEF HandsTyped, RecordsTyped
<1>6. Held(t)' = Held(t) /\ Posted(t)' = Posted(t)
  BY <1>2, <1>5 DEF Held, Posted
<1>7. Elsewhere(t)
  BY <1>1, <1>2 DEF HandsTyped, RecordsTyped, Elsewhere
<1>8. HandsTyped' /\ RecordsTyped'
  BY <1>1, <1>2, <1>4 DEF HandsTyped, RecordsTyped
<1>9. Hand(t)'
  BY <1>1, <1>2, <1>5, <1>6 DEF Hand
<1>10. InFile' = InFile /\ FileOK'  BY <1>1, <1>2 DEF InFile, FileOK
<1>11. fed'[t] = fed[t]  BY <1>2
<1>12. Shape'
  BY <1>1, <1>2, <1>6, <1>7, <1>8, <1>9, <1>10, <1>11, ShapeStep DEF SenderOK
<1> QED  BY <1>2, <1>3, <1>5, <1>6, <1>7, <1>12

(* Marking the head of the group with r.                                    *)
LEMMA MarkShape ==
  ASSUME Shape, NEW t \in Senders, stage[t] \in {"mark", "write"}, NEW r \in Metadata,
         rec' = [rec EXCEPT ![Head(group[t])] = r], AfterMark(t),
         UNCHANGED <<file, fed, mode, copy, history, retries, deaths>>
  PROVE  /\ Shape' /\ Elsewhere(t) /\ Drops(t)
         /\ rec'[Head(group[t])] = r
         /\ \A i \in Callbacks : i # Head(group[t]) => rec'[i] = rec[i]
<1>1. /\ HandsTyped /\ RecordsTyped /\ FileOK /\ SenderOK(t) /\ Hand(t) /\ OutboxTypeOK
      /\ Posted(t) \subseteq Held(t) /\ Held(t) \subseteq Callbacks
  BY ShapeTypes
<1>2. Drops(t)  BY <1>1, AfterMarkDrops
<1>3. Elsewhere(t)  BY <1>1, AfterMarkElsewhere
<1> DEFINE h == Head(group[t])
<1>4. h \in Callbacks /\ h \in Held(t) /\ Held(t)' = Held(t) \ {h}
  BY <1>1, <1>2 DEF Drops
<1>5. rec'[h] = r /\ \A i \in Callbacks : i # h => rec'[i] = rec[i]
  BY <1>1, <1>4 DEF RecordsTyped
<1>6. RecordsTyped'
  BY <1>1, <1>4 DEF RecordsTyped, history
<1>7. InFile' = InFile /\ FileOK'  BY <1>1 DEF InFile, FileOK, history
<1>8. ~IsRetry(t) => Held(t)' = {}
  BY <1>1, <1>4 DEF SenderOK
<1>9. stage'[t] # "idle" => Held(t)' # {}
  <2>1. SUFFICES ASSUME stage'[t] # "idle" PROVE Held(t)' # {}  OBVIOUS
  <2>2. group'[t] \in Seq(Callbacks) /\ group'[t] # <<>>
    BY <1>2, <2>1 DEF Drops, HandsTyped, Hand
  <2>3. 1 \in DOMAIN group'[t]  BY <2>2
  <2> QED  BY <2>3 DEF Held, Range
<1>10. Shape'
  BY <1>1, <1>2, <1>3, <1>4, <1>6, <1>7, <1>8, <1>9, ShapeStep DEF Drops, SenderOK
<1> QED  BY <1>2, <1>3, <1>5, <1>10

(* What the two actions that mark put into the file.                        *)
LEMMA WriteSentShape ==
  ASSUME Shape, NEW t \in Senders, WriteSent(t)
  PROVE  LET h == Head(group[t]) IN
         /\ Shape' /\ Elsewhere(t) /\ Drops(t)
         /\ rec'[h].status = "SENT" /\ rec'[h].attempts = copy[t].attempts
         /\ \A i \in Callbacks : i # h => rec'[i] = rec[i]
         /\ stage[t] = "write" /\ UNCHANGED <<file, copy, posts, got, refused, spoiled, deaths>>
<1> DEFINE r == [copy[t] EXCEPT !.status = "SENT"]
<1>1. copy[t] \in Metadata  BY ShapeTypes DEF RecordsTyped
<1>2. r \in Metadata /\ r.status = "SENT" /\ r.attempts = copy[t].attempts
  BY <1>1 DEF Metadata, Delivery
<1>3. /\ stage[t] = "write" /\ rec' = [rec EXCEPT ![Head(group[t])] = r] /\ AfterMark(t)
      /\ UNCHANGED <<file, fed, mode, copy, history, retries, deaths>>
  BY DEF WriteSent
<1> HIDE DEF r
<1>4. /\ Shape' /\ Elsewhere(t) /\ Drops(t)
      /\ rec'[Head(group[t])] = r
      /\ \A i \in Callbacks : i # Head(group[t]) => rec'[i] = rec[i]
  BY <1>2, <1>3, MarkShape
<1> QED  BY <1>2, <1>3, <1>4 DEF history

LEMMA MarkFailedShape ==
  ASSUME Shape, NEW t \in Senders, MarkFailed(t)
  PROVE  LET h == Head(group[t])
             n == rec[h].attempts + 1
         IN /\ Shape' /\ Elsewhere(t) /\ Drops(t)
            /\ rec'[h].attempts = n
            /\ \/ /\ rec'[h].status = "FAILED_FINAL"
                  /\ error[t] = "permanent" \/ Exhausted(n)
               \/ rec'[h].status = "FAILED_RETRYABLE" /\ ~Exhausted(n)
            /\ \A i \in Callbacks : i # h => rec'[i] = rec[i]
            /\ stage[t] = "mark" /\ UNCHANGED <<file, copy, posts, got, refused, spoiled, deaths>>
<1> DEFINE h == Head(group[t])
           n == rec[h].attempts + 1
           final == error[t] = "permanent" \/ Exhausted(n)
           r == [status |-> IF final THEN "FAILED_FINAL" ELSE "FAILED_RETRYABLE",
                 attempts |-> n]
<1>1. /\ stage[t] = "mark" /\ rec' = [rec EXCEPT ![h] = r] /\ AfterMark(t)
      /\ UNCHANGED <<file, fed, mode, copy, history, retries, deaths>>
  BY DEF MarkFailed
<1>2. h \in Callbacks
  <2>1. OutboxTypeOK /\ SenderOK(t)  BY ShapeTypes
  <2>2. Drops(t)  BY <1>1, <2>1, AfterMarkDrops
  <2> QED  BY <2>2 DEF Drops
<1>3. rec[h] \in Metadata  BY <1>2, ShapeTypes DEF RecordsTyped
<1>4. n \in Nat  BY <1>3 DEF Metadata
<1> HIDE DEF n
<1>5. r \in Metadata  BY <1>4 DEF Metadata, Delivery
<1>6. /\ r.attempts = n
      /\ \/ r.status = "FAILED_FINAL" /\ (error[t] = "permanent" \/ Exhausted(n))
         \/ r.status = "FAILED_RETRYABLE" /\ ~Exhausted(n)
  OBVIOUS
<1> HIDE DEF r
<1>7. /\ Shape' /\ Elsewhere(t) /\ Drops(t) /\ rec'[h] = r
      /\ \A i \in Callbacks : i # h => rec'[i] = rec[i]
  BY <1>1, <1>5, MarkShape
<1> QED  BY <1>1, <1>6, <1>7 DEF history, n

LEMMA CrashShape ==
  ASSUME Shape, Crash
  PROVE  /\ Shape'
         /\ \A t \in Senders : Held(t)' = {} /\ Posted(t)' = {} /\ stage'[t] = "idle"
         /\ deaths' = deaths + 1
         /\ UNCHANGED <<file, rec, error, posts, got, refused, spoiled>>
<1>1. /\ deaths' = deaths + 1
      /\ stage' = [t \in Senders |-> "idle"]
      /\ todo' = [t \in Senders |-> <<>>]
      /\ group' = [t \in Senders |-> <<>>]
      /\ UNCHANGED <<file, rec, fed, mode, posted, error, copy, posts, got, refused, spoiled,
                     retries>>
  BY DEF Crash, history
<1>2. OutboxTypeOK /\ FileOK /\ \A t \in Senders : SenderOK(t)  BY DEF Shape
<1>3. Range(<<>>) = {} /\ IsInjective(<<>>) /\ <<>> \in Seq(Callbacks)
  BY DEF Range, IsInjective
<1>4. OutboxTypeOK'
  <2>1. \A t \in Senders : group'[t] = <<>> /\ todo'[t] = <<>>  BY <1>1
  <2>2. \A t \in Senders :
          /\ IsInjective(group'[t]) /\ IsInjective(todo'[t])
          /\ Range(group'[t]) \cap Range(todo'[t]) = {}
    BY <1>3, <2>1
  <2> QED  BY <1>1, <1>2, <1>3, <2>2 DEF OutboxTypeOK
<1>5. \A t \in Senders : Held(t)' = {} /\ Posted(t)' = {} /\ stage'[t] = "idle"
  BY <1>1, <1>3 DEF Held, Posted
<1>6. InFile' = InFile /\ FileOK'  BY <1>1, <1>2 DEF InFile, FileOK
<1>7. \A t \in Senders : SenderOK(t)'  BY <1>1, <1>2, <1>5 DEF SenderOK
<1> QED  BY <1>1, <1>4, <1>5, <1>6, <1>7 DEF Shape

-----------------------------------------------------------------------------
(* Nothing is dropped silently.                                            *)
DropInv == Shape /\ (\A t \in Senders : AnswersOK(t)) /\ NoSilentDrop

LEMMA AnswersStep ==
  ASSUME NEW t \in Senders, Elsewhere(t),
         got \subseteq got', refused \subseteq refused', spoiled \subseteq spoiled',
         \A u \in Senders : AnswersOK(u), AnswersOK(t)'
  PROVE  \A u \in Senders : AnswersOK(u)'
<1>1. ASSUME NEW u \in Senders \ {t} PROVE AnswersOK(u)'
  <2>1. Posted(u)' = Posted(u)  BY DEF Elsewhere, Posted
  <2>2. AnswersOK(u)  OBVIOUS
  <2> QED  BY <2>1, <2>2 DEF AnswersOK, Elsewhere
<1> QED  BY <1>1

LEMMA DeliverDrops ==
  ASSUME DropInv, NEW t \in Senders, Deliver(t)
  PROVE  DropInv'
<1> DEFINE i == Feed[t][fed[t] + 1]
<1>1. i \in Callbacks /\ InFile' = InFile \cup {i}  BY DeliversNew DEF DropInv
<1>2. /\ Shape' /\ Elsewhere(t)
      /\ \/ rec' = [rec EXCEPT ![i] = Fresh("PENDING")] /\ Takes(t, <<i>>)
         \/ /\ rec' = [rec EXCEPT ![i] = Fresh("URL_NOT_CONFIGURED")]
            /\ UNCHANGED <<stage, todo, group, posted, error>>
  BY DeliverShape DEF DropInv
<1>3. UNCHANGED <<got, refused, spoiled>> /\ stage[t] = "idle"  BY DEF Deliver, history
<1>4. rec \in [Callbacks -> Metadata]  BY ShapeTypes DEF DropInv, RecordsTyped
<1> HIDE DEF i
<1>5. AnswersOK(t)'
  <2>1. CASE Takes(t, <<i>>)
    <3>1. Held(t)' = {i} /\ Posted(t)' = {} /\ error'[t] = "none" /\ stage'[t] = "post"
      BY <2>1 DEF Takes, Range
    <3> QED  BY <3>1 DEF AnswersOK
  <2>2. CASE UNCHANGED <<stage, todo, group, posted, error>>
    BY <1>3, <2>2 DEF DropInv, AnswersOK, Posted
  <2> QED  BY <1>2, <2>1, <2>2
<1>6. \A u \in Senders : AnswersOK(u)'
  BY <1>2, <1>3, <1>5, AnswersStep DEF DropInv
<1>7. rec'[i].status \in {"PENDING", "URL_NOT_CONFIGURED"}
      /\ \A j \in Callbacks : j # i => rec'[j] = rec[j]
  BY <1>1, <1>2, <1>4 DEF Fresh
<1>8. InFile \subseteq Callbacks  BY ShapeTypes DEF DropInv, RecordsTyped, InFile, Range
<1>9. NoSilentDrop'
  BY <1>1, <1>3, <1>7, <1>8 DEF DropInv, NoSilentDrop, Exhausted
<1> QED  BY <1>2, <1>6, <1>9 DEF DropInv

LEMMA BeginRetryDrops ==
  ASSUME DropInv, NEW t \in Senders, BeginRetry(t)
  PROVE  DropInv'
<1>1. PICK q \in Seq(Callbacks) : Takes(t, q)
  BY BeginRetryShape DEF DropInv
<1>2. Shape' /\ Elsewhere(t)  BY BeginRetryShape DEF DropInv
<1>3. UNCHANGED <<file, rec, got, refused, spoiled>>  BY DEF BeginRetry, history
<1>4. AnswersOK(t)'
  BY <1>1 DEF Takes, AnswersOK, Hand, Held
<1>5. \A u \in Senders : AnswersOK(u)'
  BY <1>2, <1>3, <1>4, AnswersStep DEF DropInv
<1>6. NoSilentDrop'  BY <1>3 DEF DropInv, NoSilentDrop, InFile, Exhausted
<1> QED  BY <1>2, <1>5, <1>6 DEF DropInv

LEMMA PostDrops ==
  ASSUME DropInv, NEW t \in Senders, Post(t)
  PROVE  DropInv'
<1>1. /\ Shape' /\ Elsewhere(t)
      /\ Posted(t)' = Posted(t) \cup Chunk(t)
      /\ UNCHANGED <<file, rec, group>>
      /\ stage'[t] \in {"post", "mark"}
      /\ \E answer \in Replies, arrived \in BOOLEAN :
           /\ answer = "none" => arrived
           /\ error'[t] = Aggregate(error[t], answer)
           /\ got' = IF arrived THEN got \cup Chunk(t) ELSE got
           /\ refused' = IF answer = "permanent" THEN refused \cup Chunk(t) ELSE refused
      /\ spoiled \subseteq spoiled'
      /\ stage'[t] = "mark" /\ error'[t] = "permanent" =>
           Range(group[t]) \subseteq refused' \cup spoiled'
  BY PostShape DEF DropInv
<1>2. PICK answer \in Replies, arrived \in BOOLEAN :
        /\ answer = "none" => arrived
        /\ error'[t] = Aggregate(error[t], answer)
        /\ got' = IF arrived THEN got \cup Chunk(t) ELSE got
        /\ refused' = IF answer = "permanent" THEN refused \cup Chunk(t) ELSE refused
  BY <1>1
<1>3. AnswersOK(t)  BY DEF DropInv
<1>4. got \subseteq got' /\ refused \subseteq refused' /\ spoiled \subseteq spoiled'
  BY <1>1, <1>2
<1>5. error'[t] = "none" => Posted(t)' \subseteq got'
  BY <1>1, <1>2, <1>3 DEF Aggregate, AnswersOK
<1>6. stage'[t] # "post" /\ error'[t] = "permanent" =>
         Range(group'[t]) \subseteq refused' \cup spoiled'
  BY <1>1
<1>7. AnswersOK(t)'  BY <1>1, <1>5, <1>6 DEF AnswersOK
<1>8. \A u \in Senders : AnswersOK(u)'
  BY <1>1, <1>4, <1>7, AnswersStep DEF DropInv
<1>9. NoSilentDrop'  BY <1>1, <1>4 DEF DropInv, NoSilentDrop, InFile, Exhausted
<1> QED  BY <1>1, <1>8, <1>9 DEF DropInv

LEMMA FindItemDrops ==
  ASSUME DropInv, NEW t \in Senders, FindItem(t)
  PROVE  DropInv'
<1>1. /\ Shape' /\ Elsewhere(t)
      /\ Posted(t)' = Posted(t)
      /\ UNCHANGED <<file, rec, group, error, got, refused, spoiled>>
      /\ error[t] = "none"
  BY FindItemShape DEF DropInv
<1>2. AnswersOK(t)'  BY <1>1 DEF DropInv, AnswersOK
<1>3. \A u \in Senders : AnswersOK(u)'
  BY <1>1, <1>2, AnswersStep DEF DropInv
<1>4. NoSilentDrop'  BY <1>1 DEF DropInv, NoSilentDrop, InFile, Exhausted
<1> QED  BY <1>1, <1>3, <1>4 DEF DropInv

LEMMA DroppedAnswers ==
  ASSUME NEW t \in Senders, AnswersOK(t), Drops(t), stage[t] # "post",
         UNCHANGED <<got, refused, spoiled>>
  PROVE  AnswersOK(t)'
<1>1. CASE error'[t] = error[t] /\ Range(group'[t]) \subseteq Range(group[t])
  BY <1>1 DEF Drops, AnswersOK
<1>2. CASE error'[t] = "none" /\ Posted(t)' = {}
  BY <1>2 DEF Drops, AnswersOK
<1> QED  BY <1>1, <1>2 DEF Drops

LEMMA WriteSentDrops ==
  ASSUME DropInv, NEW t \in Senders, WriteSent(t)
  PROVE  DropInv'
<1> DEFINE h == Head(group[t])
<1>1. /\ Shape' /\ Elsewhere(t) /\ Drops(t)
      /\ \A i \in Callbacks : i # h => rec'[i] = rec[i]
      /\ stage[t] = "write" /\ UNCHANGED <<file, got, refused, spoiled>>
  BY WriteSentShape DEF DropInv
<1>2. AnswersOK(t)'  BY <1>1, DroppedAnswers DEF DropInv
<1>3. \A u \in Senders : AnswersOK(u)'
  BY <1>1, <1>2, AnswersStep DEF DropInv
<1>4. h \in got  BY <1>1 DEF DropInv, AnswersOK, Drops
<1>5. InFile' = InFile /\ InFile \subseteq Callbacks
  BY <1>1, ShapeTypes DEF DropInv, RecordsTyped, InFile, Range
<1>6. NoSilentDrop'  BY <1>1, <1>4, <1>5 DEF DropInv, NoSilentDrop, Exhausted
<1> QED  BY <1>1, <1>3, <1>6 DEF DropInv

LEMMA MarkFailedDrops ==
  ASSUME DropInv, NEW t \in Senders, MarkFailed(t)
  PROVE  DropInv'
<1> DEFINE h == Head(group[t])
           n == rec[h].attempts + 1
<1>1. /\ Shape' /\ Elsewhere(t) /\ Drops(t)
      /\ rec'[h].attempts = n
      /\ \/ /\ rec'[h].status = "FAILED_FINAL"
            /\ error[t] = "permanent" \/ Exhausted(n)
         \/ rec'[h].status = "FAILED_RETRYABLE" /\ ~Exhausted(n)
      /\ \A i \in Callbacks : i # h => rec'[i] = rec[i]
      /\ stage[t] = "mark" /\ UNCHANGED <<file, got, refused, spoiled>>
  BY MarkFailedShape DEF DropInv
<1>2. AnswersOK(t)'  BY <1>1, DroppedAnswers DEF DropInv
<1>3. \A u \in Senders : AnswersOK(u)'
  BY <1>1, <1>2, AnswersStep DEF DropInv
<1>4. error[t] = "permanent" => h \in refused \cup spoiled
  <2>1. Posted(t) = Range(group[t]) /\ h \in Posted(t)  BY <1>1 DEF Posted, Drops
  <2> QED  BY <1>1, <2>1 DEF DropInv, AnswersOK
<1>5. InFile' = InFile /\ InFile \subseteq Callbacks
  BY <1>1, ShapeTypes DEF DropInv, RecordsTyped, InFile, Range
<1>6. NoSilentDrop'
  BY <1>1, <1>4, <1>5 DEF DropInv, NoSilentDrop, Exhausted
<1> QED  BY <1>1, <1>3, <1>6 DEF DropInv

LEMMA CrashDrops ==
  ASSUME DropInv, Crash
  PROVE  DropInv'
<1>1. /\ Shape'
      /\ \A t \in Senders : Held(t)' = {} /\ Posted(t)' = {} /\ stage'[t] = "idle"
      /\ UNCHANGED <<file, rec, got, refused, spoiled>>
  BY CrashShape DEF DropInv
<1>2. \A t \in Senders : AnswersOK(t)'  BY <1>1 DEF AnswersOK, Held
<1>3. NoSilentDrop'  BY <1>1 DEF DropInv, NoSilentDrop, InFile, Exhausted
<1> QED  BY <1>1, <1>2, <1>3 DEF DropInv

LEMMA ShapeInit == ASSUME OutboxInit PROVE Shape
<1>1. Range(<<>>) = {} /\ IsInjective(<<>>) /\ <<>> \in Seq(Callbacks)
  BY DEF Range, IsInjective
<1>2. Fresh("PENDING") \in Metadata  BY DEF Fresh, Metadata, Delivery
<1>3. OutboxTypeOK
  BY <1>1, <1>2 DEF OutboxInit, OutboxTypeOK, Replies
<1>4. FileOK  BY <1>1 DEF OutboxInit, FileOK, InFile
<1>5. ASSUME NEW t \in Senders PROVE SenderOK(t)
  <2>1. Feed[t] \in Seq(Callbacks)  BY OutboxConstants DEF OutboxConstants
  <2>2. Held(t) = {} /\ fed[t] = 0 /\ stage[t] = "idle"
    BY <1>1 DEF OutboxInit, Held
  <2>3. 0 <= Len(Feed[t])  BY <2>1
  <2> QED  BY <2>2, <2>3 DEF SenderOK
<1> QED  BY <1>3, <1>4, <1>5 DEF Shape

LEMMA DropInit == ASSUME OutboxInit PROVE DropInv
<1>1. Shape  BY ShapeInit
<1>2. Range(<<>>) = {}  BY DEF Range
<1>3. \A t \in Senders : AnswersOK(t)
  BY <1>2 DEF OutboxInit, AnswersOK, Posted
<1>4. NoSilentDrop  BY <1>2 DEF OutboxInit, NoSilentDrop, InFile
<1> QED  BY <1>1, <1>3, <1>4 DEF DropInv

LEMMA StutterShape ==
  ASSUME UNCHANGED outboxVars
  PROVE  /\ UNCHANGED <<file, rec, stage, fed, mode, todo, group, posted, error, copy,
                        posts, got, refused, spoiled, retries, deaths>>
         /\ \A t \in Senders : Held(t)' = Held(t) /\ Posted(t)' = Posted(t)
<1>1. UNCHANGED <<file, rec, stage, fed, mode, todo, group, posted, error, copy,
                  posts, got, refused, spoiled, retries, deaths>>
  BY DEF outboxVars, senderVars, history
<1>2. \A t \in Senders : Held(t)' = Held(t) /\ Posted(t)' = Posted(t)
  BY <1>1 DEF Held, Posted
<1> QED  BY <1>1, <1>2

LEMMA ShapeStutter == ASSUME Shape, UNCHANGED outboxVars PROVE Shape'
<1>1. /\ UNCHANGED <<file, rec, stage, fed, mode, todo, group, posted, error, copy,
                     posts, got, refused, spoiled, retries, deaths>>
      /\ \A t \in Senders : Held(t)' = Held(t)
  BY StutterShape
<1>2. OutboxTypeOK'  BY <1>1 DEF Shape, OutboxTypeOK
<1>3. FileOK'  BY <1>1 DEF Shape, FileOK, InFile
<1>4. \A t \in Senders : SenderOK(t)'  BY <1>1 DEF Shape, SenderOK, InFile
<1> QED  BY <1>2, <1>3, <1>4 DEF Shape

LEMMA DropStutter == ASSUME DropInv, UNCHANGED outboxVars PROVE DropInv'
<1>1. /\ UNCHANGED <<file, rec, stage, group, error, got, refused, spoiled>>
      /\ \A t \in Senders : Posted(t)' = Posted(t)
  BY StutterShape
<1>2. Shape'  BY ShapeStutter DEF DropInv
<1>3. \A t \in Senders : AnswersOK(t)'  BY <1>1 DEF DropInv, AnswersOK
<1>4. NoSilentDrop'  BY <1>1 DEF DropInv, NoSilentDrop, InFile, Exhausted
<1> QED  BY <1>2, <1>3, <1>4 DEF DropInv

LEMMA DropStep == ASSUME DropInv, [OutboxNext]_outboxVars PROVE DropInv'
<1>1. CASE UNCHANGED outboxVars  BY <1>1, DropStutter
<1>2. CASE Crash  BY <1>2, CrashDrops
<1>3. ASSUME NEW t \in Senders, SenderStep(t) PROVE DropInv'
  <2>1. CASE Deliver(t)  BY <2>1, DeliverDrops
  <2>2. CASE BeginRetry(t)  BY <2>2, BeginRetryDrops
  <2>3. CASE Post(t)  BY <2>3, PostDrops
  <2>4. CASE FindItem(t)  BY <2>4, FindItemDrops
  <2>5. CASE WriteSent(t)  BY <2>5, WriteSentDrops
  <2>6. CASE MarkFailed(t)  BY <2>6, MarkFailedDrops
  <2> QED  BY <1>3, <2>1, <2>2, <2>3, <2>4, <2>5, <2>6 DEF SenderStep
<1> QED  BY <1>1, <1>2, <1>3 DEF OutboxNext

(* No callback of the outbox is dropped silently: one that is given up     *)
(* before its attempts are used up had no URL, or its own chunk was        *)
(* refused for good, or that of another item of the batch it was cut from  *)
(* (callback_delivery.py:234 gives every item the last error of the        *)
(* batch).                                                                 *)
THEOREM Drop == OutboxSpec => []NoSilentDrop
<1>1. OutboxInit => DropInv  BY DropInit
<1>2. DropInv /\ [OutboxNext]_outboxVars => DropInv'  BY DropStep
<1>3. DropInv => NoSilentDrop  BY DEF DropInv
<1> QED  BY <1>1, <1>2, <1>3, PTL DEF OutboxSpec

-----------------------------------------------------------------------------
(* The posts of a callback are bounded.                                    *)
PostsInv == Shape /\ \A i \in Callbacks : PostsOK(i)

LEMMA Numbers ==
  ASSUME Shape, Shape', NEW i \in Callbacks
  PROVE  /\ posts[i] \in Nat /\ rec[i].attempts \in Nat /\ deaths \in Nat
         /\ posts'[i] \in Nat /\ rec'[i].attempts \in Nat /\ deaths' \in Nat
         /\ RunPost(i) \in {0, 1} /\ RetryPost(i) \in {0, 1}
         /\ RunPost(i)' \in {0, 1} /\ RetryPost(i)' \in {0, 1}
         /\ MaxAttempts \in Nat /\ MaxAttempts >= 1
<1>1. /\ posts \in [Callbacks -> Nat] /\ rec \in [Callbacks -> Metadata] /\ deaths \in Nat
      /\ posts' \in [Callbacks -> Nat] /\ rec' \in [Callbacks -> Metadata] /\ deaths' \in Nat
  BY DEF Shape, OutboxTypeOK
<1>2. rec[i] \in Metadata /\ rec'[i] \in Metadata  BY <1>1
<1>3. rec[i].attempts \in Nat /\ rec'[i].attempts \in Nat  BY <1>2 DEF Metadata
<1>4. MaxAttempts \in Nat /\ MaxAttempts >= 1  BY OutboxConstants DEF OutboxConstants
<1> QED  BY <1>1, <1>3, <1>4 DEF RunPost, RetryPost

(* Who has i in hand, before and after a step of a retry.                   *)
LEMMA RetryView ==
  ASSUME NEW t \in Senders, IsRetry(t), Elsewhere(t), NEW i
  PROVE  /\ HeldByRun(i)' <=> HeldByRun(i)
         /\ RunPost(i)' = RunPost(i)
         /\ HeldByRetry(i) <=> i \in Held(t)
         /\ HeldByRetry(i)' <=> i \in Held(t)'
         /\ RetryPost(i) = IF i \in Posted(t) THEN 1 ELSE 0
         /\ RetryPost(i)' = IF i \in Posted(t)' THEN 1 ELSE 0
<1>1. \A u \in Senders : IsRetry(u) => u = t  BY OutboxConstants DEF OutboxConstants, IsRetry
<1>2. \A u \in Senders \ {t} : Held(u)' = Held(u) /\ Posted(u)' = Posted(u)
  BY DEF Elsewhere, Held, Posted
<1>3. \A u \in Senders : ~IsRetry(u) => Held(u)' = Held(u) /\ Posted(u)' = Posted(u)
  BY <1>2
<1>4. HeldByRun(i)' <=> HeldByRun(i)  BY <1>3 DEF HeldByRun
<1>5. RunPost(i)' = RunPost(i)  BY <1>3 DEF RunPost
<1>6. (HeldByRetry(i) <=> i \in Held(t)) /\ (HeldByRetry(i)' <=> i \in Held(t)')
  BY <1>1 DEF HeldByRetry
<1>7. /\ RetryPost(i) = IF i \in Posted(t) THEN 1 ELSE 0
      /\ RetryPost(i)' = IF i \in Posted(t)' THEN 1 ELSE 0
  BY <1>1 DEF RetryPost
<1> QED  BY <1>4, <1>5, <1>6, <1>7

(* The same for a step of a run thread.                                    *)
LEMMA RunView ==
  ASSUME Shape, Shape', NEW t \in Senders, ~IsRetry(t), Elsewhere(t), NEW i
  PROVE  /\ HeldByRetry(i)' <=> HeldByRetry(i)
         /\ RetryPost(i)' = RetryPost(i)
         /\ i \in Held(t) \cup Held(t)' =>
              /\ HeldByRun(i) <=> i \in Held(t)
              /\ HeldByRun(i)' <=> i \in Held(t)'
              /\ RunPost(i) = IF i \in Posted(t) THEN 1 ELSE 0
              /\ RunPost(i)' = IF i \in Posted(t)' THEN 1 ELSE 0
         /\ i \notin Held(t) \cup Held(t)' =>
              /\ HeldByRun(i)' <=> HeldByRun(i)
              /\ RunPost(i)' = RunPost(i)
<1>1. \A u \in Senders \ {t} : Held(u)' = Held(u) /\ Posted(u)' = Posted(u)
  BY DEF Elsewhere, Held, Posted
<1>2. \A u \in Senders : IsRetry(u) => Held(u)' = Held(u) /\ Posted(u)' = Posted(u)
  BY <1>1
<1>3. (HeldByRetry(i)' <=> HeldByRetry(i)) /\ RetryPost(i)' = RetryPost(i)
  BY <1>2 DEF HeldByRetry, RetryPost
<1>4. \A u \in Senders : Posted(u) \subseteq Held(u)  BY ShapeTypes
<1>5. Posted(t)' \subseteq Held(t)'
  <2>1. SenderOK(t)' /\ OutboxTypeOK'  BY DEF Shape
  <2>2. group'[t] \in Seq(Callbacks) /\ posted'[t] \in Nat  BY <2>1 DEF OutboxTypeOK
  <2>3. CASE stage'[t] = "post"
    <3>1. \A k \in 1 .. posted'[t] : k \in DOMAIN group'[t]
      BY <2>1, <2>2, <2>3 DEF SenderOK
    <3> QED  BY <3>1, <2>3 DEF Posted, Held, Range
  <2>4. CASE stage'[t] # "post"  BY <2>4 DEF Posted, Held
  <2> QED  BY <2>3, <2>4
<1>6. CASE i \in Held(t) \cup Held(t)'
  <2>1. ASSUME NEW u \in Senders \ {t}, ~IsRetry(u), i \in Held(u) PROVE FALSE
    <3>1. SenderOK(u) /\ SenderOK(t) /\ SenderOK(t)' /\ OutboxTypeOK /\ OutboxTypeOK'
      BY DEF Shape
    <3>2. fed[u] \in Nat /\ fed[t] \in Nat /\ fed'[t] \in Nat  BY <3>1 DEF OutboxTypeOK
    <3>3. /\ Feed[u] \in Seq(Callbacks) /\ Feed[t] \in Seq(Callbacks)
      BY OutboxConstants DEF OutboxConstants
    <3>4. fed[u] \in DOMAIN Feed[u] /\ i = Feed[u][fed[u]]
      BY <2>1, <3>1, <3>2, <3>3 DEF SenderOK
    <3>5. \E k \in DOMAIN Feed[t] : i = Feed[t][k]
      <4>1. CASE i \in Held(t)
        <5>1. fed[t] \in DOMAIN Feed[t] /\ i = Feed[t][fed[t]]
          BY <4>1, <3>1, <3>2, <3>3 DEF SenderOK
        <5> QED  BY <5>1
      <4>2. CASE i \in Held(t)'
        <5>1. fed'[t] \in DOMAIN Feed[t] /\ i = Feed[t][fed'[t]]
          BY <4>2, <3>1, <3>2, <3>3 DEF SenderOK
        <5> QED  BY <5>1
      <4> QED  BY <1>6, <4>1, <4>2
    <3> QED  BY <3>4, <3>5, RunsApart
  <2>2. \A u \in Senders : ~IsRetry(u) /\ (i \in Held(u) \/ i \in Held(u)') => u = t
    BY <2>1, <1>1
  <2>3. (HeldByRun(i) <=> i \in Held(t)) /\ (HeldByRun(i)' <=> i \in Held(t)')
    BY <2>2 DEF HeldByRun
  <2>4. \A u \in Senders : ~IsRetry(u) /\ (i \in Posted(u) \/ i \in Posted(u)') => u = t
    BY <2>2, <1>1, <1>4, <1>5
  <2>5. RunPost(i) = IF i \in Posted(t) THEN 1 ELSE 0
    BY <2>4 DEF RunPost
  <2>6. RunPost(i)' = IF i \in Posted(t)' THEN 1 ELSE 0
    BY <2>4 DEF RunPost
  <2> QED  BY <1>3, <1>6, <2>3, <2>5, <2>6
<1>7. CASE i \notin Held(t) \cup Held(t)'
  <2>1. \A u \in Senders :
          (i \in Held(u)' <=> i \in Held(u)) /\ (i \in Posted(u)' <=> i \in Posted(u))
    BY <1>1, <1>4, <1>5, <1>7
  <2>2. HeldByRun(i)' <=> HeldByRun(i)  BY <2>1 DEF HeldByRun
  <2>3. RunPost(i)' = RunPost(i)  BY <2>1 DEF RunPost
  <2> QED  BY <1>3, <1>7, <2>2, <2>3
<1> QED  BY <1>6, <1>7

(* A callback the step does not touch.                                     *)
LEMMA PostsFrame ==
  ASSUME NEW i, PostsOK(i), rec'[i] = rec[i], posts'[i] = posts[i], deaths' = deaths,
         HeldByRun(i)' <=> HeldByRun(i), HeldByRetry(i)' <=> HeldByRetry(i),
         RunPost(i)' = RunPost(i), RetryPost(i)' = RetryPost(i),
         CopyFresh(i) => CopyFresh(i)'
  PROVE  PostsOK(i)'
<1>1. Open(i)' <=> Open(i)  BY DEF Open
<1>2. Budget' = Budget  BY DEF Budget
<1>3. PostsLive(i) => PostsLive(i)'  BY <1>1 DEF PostsLive
<1>4. PostsLeft(i) => PostsLeft(i)'  BY <1>1, <1>2 DEF PostsLeft
<1> QED  BY <1>1, <1>3, <1>4 DEF PostsOK

(* CopyFresh depends on the retry and on the attempts of i.                *)
LEMMA FreshOfRun ==
  ASSUME NEW t \in Senders, ~IsRetry(t), Elsewhere(t), NEW i, CopyFresh(i),
         rec'[i] = rec[i]
  PROVE  CopyFresh(i)'
BY DEF CopyFresh, Elsewhere, IsRetry

LEMMA FreshOfRetry ==
  ASSUME NEW t \in Senders, IsRetry(t), Elsewhere(t), stage'[t] # "write", NEW i
  PROVE  CopyFresh(i)'
<1>1. \A u \in Senders : IsRetry(u) => u = t  BY OutboxConstants DEF OutboxConstants, IsRetry
<1> QED  BY <1>1 DEF CopyFresh, IsRetry

LEMMA HeadHeld ==
  ASSUME Shape, NEW t \in Senders, stage[t] \in {"mark", "write"}
  PROVE  Head(group[t]) \in Held(t) /\ Head(group[t]) \in Posted(t)
<1>1. group[t] \in Seq(Callbacks) /\ group[t] # <<>>
  BY ShapeTypes DEF HandsTyped, Hand
<1>2. 1 \in DOMAIN group[t] /\ Head(group[t]) = group[t][1]  BY <1>1
<1> QED  BY <1>2 DEF Posted, Held, Range

LEMMA TwiceNat ==
  ASSUME NEW m \in Nat, NEW n \in Nat
  PROVE  2 * m + n \in Nat
OBVIOUS

LEMMA DeliverPosts ==
  ASSUME PostsInv, NEW t \in Senders, Deliver(t), NEW i \in Callbacks
  PROVE  PostsOK(i)'
<1> DEFINE d == Feed[t][fed[t] + 1]
<1>1. d \in Callbacks /\ d \notin InFile /\ posts[d] = 0 /\ ~IsRetry(t)
  BY DeliversNew DEF PostsInv
<1>2. /\ Shape' /\ Elsewhere(t)
      /\ \/ rec' = [rec EXCEPT ![d] = Fresh("PENDING")] /\ Takes(t, <<d>>)
         \/ /\ rec' = [rec EXCEPT ![d] = Fresh("URL_NOT_CONFIGURED")]
            /\ UNCHANGED <<stage, todo, group, posted, error>>
  BY DeliverShape DEF PostsInv
<1>3. Shape /\ PostsOK(i)  BY DEF PostsInv
<1>4. stage[t] = "idle" /\ UNCHANGED <<posts, deaths>>  BY DEF Deliver, history
<1>5. Held(t) = {} /\ Posted(t) = {} /\ rec \in [Callbacks -> Metadata]
  BY <1>3, <1>4, ShapeTypes DEF Hand, RecordsTyped
<1> HIDE DEF d
<1>6. Held(t)' \subseteq {d} /\ Posted(t)' = {}
  <2>1. Range(<<d>>) = {d}  BY DEF Range
  <2>2. CASE Takes(t, <<d>>)  BY <2>1, <2>2 DEF Takes
  <2>3. CASE UNCHANGED <<stage, todo, group, posted, error>>
    BY <1>5, <2>3 DEF Held, Posted
  <2> QED  BY <1>2, <2>2, <2>3
<1>7. CASE i # d
  <2>1. rec'[i] = rec[i]  BY <1>2, <1>5, <1>7
  <2>2. i \notin Held(t) \cup Held(t)'  BY <1>5, <1>6, <1>7
  <2>3. /\ HeldByRun(i)' <=> HeldByRun(i)
        /\ HeldByRetry(i)' <=> HeldByRetry(i)
        /\ RunPost(i)' = RunPost(i) /\ RetryPost(i)' = RetryPost(i)
    BY <1>1, <1>2, <1>3, <2>2, RunView
  <2>4. CopyFresh(i) => CopyFresh(i)'  BY <1>1, <1>2, <2>1, FreshOfRun
  <2> QED  BY <1>3, <1>4, <2>1, <2>3, <2>4, PostsFrame
<1>8. CASE i = d
  <2>1. \A u \in Senders : i \notin Held(u) /\ i \notin Posted(u)
    BY <1>1, <1>3, <1>8, ShapeTypes DEF SenderOK
  <2>2. ~HeldByRun(i) /\ ~HeldByRetry(i) /\ RunPost(i) = 0 /\ RetryPost(i) = 0
    BY <2>1 DEF HeldByRun, HeldByRetry, RunPost, RetryPost
  <2>3. ~HeldByRetry(i)' /\ RetryPost(i)' = 0
    BY <1>1, <1>2, <1>3, <2>2, RunView
  <2>4. CopyFresh(i)'
    <3>1. ASSUME NEW u \in Senders, IsRetry(u), stage'[u] = "write", Head(group'[u]) = i
          PROVE  FALSE
      <4>1. stage[u] = "write" /\ Head(group[u]) = i  BY <1>1, <1>2, <3>1 DEF Elsewhere
      <4> QED  BY <4>1, <2>1, <1>3, HeadHeld
    <3> QED  BY <3>1 DEF CopyFresh, IsRetry
  <2>5. posts'[i] = 0  BY <1>1, <1>4, <1>8
  <2>6. /\ MaxAttempts \in Nat /\ MaxAttempts >= 1 /\ deaths' \in Nat
        /\ RunPost(i)' \in {0, 1}
    BY <1>1, <1>2, <1>3, Numbers
  <2>7. CASE rec' = [rec EXCEPT ![d] = Fresh("PENDING")] /\ Takes(t, <<d>>)
    <3>1. rec'[i].status = "PENDING" /\ rec'[i].attempts = 0  BY <1>1, <1>5, <1>8, <2>7 DEF Fresh
    <3>2. HeldByRun(i)'
      <4>1. i \in Held(t)'  BY <1>8, <2>7 DEF Takes, Range
      <4> QED  BY <4>1, <1>1 DEF HeldByRun, IsRetry
    <3>3. Open(i)'  BY <3>1 DEF Open
    <3>4. PostsLive(i)'  BY <2>3, <2>4, <2>5, <2>6, <3>1, <3>3 DEF PostsLive
    <3> QED  BY <1>8, <2>6, <3>1, <3>2, <3>4 DEF PostsOK
  <2>8. CASE /\ rec' = [rec EXCEPT ![d] = Fresh("URL_NOT_CONFIGURED")]
             /\ UNCHANGED <<stage, todo, group, posted, error>>
    <3>1. rec'[i].status = "URL_NOT_CONFIGURED"  BY <1>1, <1>5, <1>8, <2>8 DEF Fresh
    <3>2. ~Open(i)'  BY <3>1 DEF Open
    <3>3. ~HeldByRun(i)'
      <4>1. Held(t)' = {}  BY <1>5, <2>8 DEF Held
      <4>2. i \notin Held(t) \cup Held(t)'  BY <4>1, <1>5
      <4> QED  BY <4>2, <1>1, <1>2, <1>3, <2>2, RunView
    <3>7. MaxAttempts \in Nat /\ deaths' \in Nat  BY <2>6
    <3>8. Budget' = 2 * MaxAttempts + deaths'  BY DEF Budget
    <3>5. Budget' \in Nat  BY <3>7, <3>8, TwiceNat
    <3>6. posts'[i] <= Budget'  BY <2>5, <3>5
    <3>4. PostsLeft(i)'  BY <2>3, <3>2, <3>6 DEF PostsLeft
    <3> QED  BY <1>8, <3>2, <3>3, <3>4 DEF PostsOK
  <2> QED  BY <1>2, <2>7, <2>8
<1> QED  BY <1>7, <1>8

LEMMA BeginRetryPosts ==
  ASSUME PostsInv, NEW t \in Senders, BeginRetry(t), NEW i \in Callbacks
  PROVE  PostsOK(i)'
<1>1. Shape /\ Shape' /\ Elsewhere(t) /\ PostsOK(i)  BY BeginRetryShape DEF PostsInv
<1>2. PICK q \in Seq(Callbacks) : Takes(t, q) /\ \A k \in Range(q) : Open(k)
  BY BeginRetryShape DEF PostsInv
<1>3. stage[t] = "idle" /\ IsRetry(t) /\ UNCHANGED <<rec, posts, deaths>>
  BY DEF BeginRetry, IsRetry, history
<1>4. Held(t) = {} /\ Posted(t) = {} /\ Held(t)' = Range(q) /\ Posted(t)' = {}
  BY <1>1, <1>2, <1>3, ShapeTypes DEF Hand, Takes
<1>5. /\ HeldByRun(i)' <=> HeldByRun(i)
      /\ RunPost(i)' = RunPost(i) /\ ~HeldByRetry(i) /\ RetryPost(i) = 0 /\ RetryPost(i)' = 0
      /\ HeldByRetry(i)' <=> i \in Range(q)
  BY <1>1, <1>3, <1>4, RetryView
<1>6. CopyFresh(i)'
  <2>1. stage'[t] # "write"  BY <1>2 DEF Takes
  <2> QED  BY <2>1, <1>1, <1>3, FreshOfRetry
<1>7. CASE i \notin Range(q)
  BY <1>1, <1>3, <1>5, <1>6, <1>7, PostsFrame
<1>8. CASE i \in Range(q)
  <2>1. Open(i) /\ Open(i)' /\ Budget' = Budget
    BY <1>2, <1>3, <1>8 DEF Open, Budget
  <2>2. /\ posts[i] \in Nat /\ rec[i].attempts \in Nat /\ deaths \in Nat
        /\ MaxAttempts \in Nat /\ RunPost(i) \in {0, 1}
    BY <1>1, Numbers
  <2>3. CASE HeldByRun(i)
    BY <1>1, <1>3, <1>5, <1>6, <2>1, <2>2, <2>3 DEF PostsOK, PostsLive
  <2>4. CASE ~HeldByRun(i)
    BY <1>1, <1>3, <1>5, <2>1, <2>2, <2>4 DEF PostsOK, PostsLeft, Budget
  <2> QED  BY <2>3, <2>4
<1> QED  BY <1>7, <1>8

LEMMA PostPosts ==
  ASSUME PostsInv, NEW t \in Senders, Post(t), NEW i \in Callbacks
  PROVE  PostsOK(i)'
<1>1. /\ Shape /\ Shape' /\ Elsewhere(t) /\ PostsOK(i)
      /\ Held(t)' = Held(t) /\ Posted(t)' = Posted(t) \cup Chunk(t)
      /\ Chunk(t) \subseteq Held(t) /\ Chunk(t) \cap Posted(t) = {}
      /\ posts' = [k \in Callbacks |-> IF k \in Chunk(t) THEN posts[k] + 1 ELSE posts[k]]
      /\ UNCHANGED <<rec, deaths>>
      /\ stage'[t] # "write"
  BY PostShape DEF PostsInv
<1>2. rec'[i] = rec[i]  BY <1>1
<1>3. CopyFresh(i) => CopyFresh(i)'
  BY <1>1, <1>2, FreshOfRun, FreshOfRetry
<1>4. /\ posts[i] \in Nat /\ rec[i].attempts \in Nat /\ deaths \in Nat
      /\ MaxAttempts \in Nat /\ RunPost(i) \in {0, 1} /\ RetryPost(i) \in {0, 1}
  BY <1>1, Numbers
<1>5. Posted(t) \subseteq Held(t)  BY <1>1, ShapeTypes
<1>6. CASE i \notin Chunk(t)
  <2>1. posts'[i] = posts[i] /\ (i \in Posted(t)' <=> i \in Posted(t))  BY <1>1, <1>6
  <2>2. /\ HeldByRun(i)' <=> HeldByRun(i)
        /\ HeldByRetry(i)' <=> HeldByRetry(i)
        /\ RunPost(i)' = RunPost(i) /\ RetryPost(i)' = RetryPost(i)
    <3>1. CASE IsRetry(t)  BY <3>1, <1>1, <2>1, RetryView
    <3>2. CASE ~IsRetry(t)
      <4>1. CASE i \in Held(t)  BY <4>1, <3>2, <1>1, <2>1, RunView
      <4>2. CASE i \notin Held(t)  BY <4>2, <3>2, <1>1, <2>1, RunView
      <4> QED  BY <4>1, <4>2
    <3> QED  BY <3>1, <3>2
  <2> QED  BY <1>1, <1>2, <1>3, <2>1, <2>2, PostsFrame
<1>7. CASE i \in Chunk(t)
  <2>1. /\ posts'[i] = posts[i] + 1
        /\ i \in Held(t) /\ i \in Held(t)' /\ i \notin Posted(t) /\ i \in Posted(t)'
    BY <1>1, <1>7
  <2>2. (Open(i)' <=> Open(i)) /\ Budget' = Budget /\ rec'[i] = rec[i]
    BY <1>1 DEF Open, Budget
  <2>3. CASE IsRetry(t)
    <3>1. /\ HeldByRun(i)' <=> HeldByRun(i)
          /\ HeldByRetry(i) /\ HeldByRetry(i)'
          /\ RunPost(i)' = RunPost(i) /\ RetryPost(i) = 0 /\ RetryPost(i)' = 1
      BY <1>1, <2>1, <2>3, RetryView
    <3>2. CASE HeldByRun(i)
      BY <1>1, <1>3, <1>4, <2>1, <2>2, <3>1, <3>2 DEF PostsOK, PostsLive, Open
    <3>3. CASE ~HeldByRun(i)
      BY <1>1, <1>4, <2>1, <2>2, <3>1, <3>3 DEF PostsOK, PostsLeft, Budget
    <3> QED  BY <3>2, <3>3
  <2>4. CASE ~IsRetry(t)
    <3>1. /\ HeldByRun(i) /\ HeldByRun(i)'
          /\ HeldByRetry(i)' <=> HeldByRetry(i)
          /\ RetryPost(i)' = RetryPost(i) /\ RunPost(i) = 0 /\ RunPost(i)' = 1
      BY <1>1, <2>1, <2>4, RunView
    <3> QED
      BY <1>1, <1>3, <1>4, <2>1, <2>2, <3>1 DEF PostsOK, PostsLive, Open
  <2> QED  BY <2>3, <2>4
<1> QED  BY <1>6, <1>7

LEMMA FindItemPosts ==
  ASSUME PostsInv, NEW t \in Senders, FindItem(t), NEW i \in Callbacks
  PROVE  PostsOK(i)'
<1>1. /\ Shape /\ Shape' /\ Elsewhere(t) /\ PostsOK(i)
      /\ Held(t)' = Held(t) /\ Posted(t)' = Posted(t)
      /\ UNCHANGED <<rec, group, posts, deaths>>
      /\ copy'[t] = rec[Head(group[t])]
  BY FindItemShape DEF PostsInv
<1>2. /\ HeldByRun(i)' <=> HeldByRun(i)
      /\ HeldByRetry(i)' <=> HeldByRetry(i)
      /\ RunPost(i)' = RunPost(i) /\ RetryPost(i)' = RetryPost(i)
  <2>1. CASE IsRetry(t)  BY <2>1, <1>1, RetryView
  <2>2. CASE ~IsRetry(t)
    <3>1. CASE i \in Held(t)  BY <3>1, <2>2, <1>1, RunView
    <3>2. CASE i \notin Held(t)  BY <3>2, <2>2, <1>1, RunView
    <3> QED  BY <3>1, <3>2
  <2> QED  BY <2>1, <2>2
<1>3. CopyFresh(i) => CopyFresh(i)'
  <2>1. CASE ~IsRetry(t)  BY <2>1, <1>1, FreshOfRun
  <2>2. CASE IsRetry(t)
    <3>1. \A u \in Senders : IsRetry(u) => u = t
      BY <2>2, OutboxConstants DEF OutboxConstants, IsRetry
    <3> QED  BY <1>1, <3>1 DEF CopyFresh, IsRetry
  <2> QED  BY <2>1, <2>2
<1> QED  BY <1>1, <1>2, <1>3, PostsFrame

(* Who has i in hand, before and after the head of the group is marked.     *)
LEMMA MarkView ==
  ASSUME Shape, Shape', NEW t \in Senders, Elsewhere(t), Drops(t), NEW i
  PROVE  /\ i # Head(group[t]) =>
              /\ HeldByRun(i)' <=> HeldByRun(i)
              /\ HeldByRetry(i)' <=> HeldByRetry(i)
              /\ RunPost(i)' = RunPost(i) /\ RetryPost(i)' = RetryPost(i)
         /\ i = Head(group[t]) /\ IsRetry(t) =>
              /\ HeldByRun(i)' <=> HeldByRun(i)
              /\ RunPost(i)' = RunPost(i)
              /\ HeldByRetry(i) /\ RetryPost(i) = 1
              /\ ~HeldByRetry(i)' /\ RetryPost(i)' = 0
         /\ i = Head(group[t]) /\ ~IsRetry(t) =>
              /\ HeldByRetry(i)' <=> HeldByRetry(i)
              /\ RetryPost(i)' = RetryPost(i)
              /\ HeldByRun(i) /\ RunPost(i) = 1
              /\ ~HeldByRun(i)' /\ RunPost(i)' = 0
<1>1. /\ Held(t)' = Held(t) \ {Head(group[t])} /\ Posted(t)' = Posted(t) \ {Head(group[t])}
      /\ Head(group[t]) \in Posted(t) /\ Posted(t) \subseteq Held(t)
  BY ShapeTypes DEF Drops
<1>2. CASE i # Head(group[t])
  <2>1. (i \in Held(t)' <=> i \in Held(t)) /\ (i \in Posted(t)' <=> i \in Posted(t))
    BY <1>1, <1>2
  <2>2. CASE IsRetry(t)  BY <2>1, <2>2, <1>2, RetryView
  <2>3. CASE ~IsRetry(t)
    <3>1. CASE i \in Held(t)  BY <3>1, <2>1, <2>3, <1>2, RunView
    <3>2. CASE i \notin Held(t)  BY <3>2, <2>1, <2>3, <1>2, RunView
    <3> QED  BY <3>1, <3>2
  <2> QED  BY <2>2, <2>3
<1>3. CASE i = Head(group[t])
  <2>1. i \in Held(t) /\ i \in Posted(t) /\ i \notin Held(t)' /\ i \notin Posted(t)'
    BY <1>1, <1>3
  <2>2. CASE IsRetry(t)  BY <2>1, <2>2, <1>3, RetryView
  <2>3. CASE ~IsRetry(t)  BY <2>1, <2>3, <1>3, RunView
  <2> QED  BY <2>2, <2>3
<1> QED  BY <1>2, <1>3

(* Another callback than the one that is marked.                            *)
LEMMA MarkFrame ==
  ASSUME Shape, Shape', NEW t \in Senders, Elsewhere(t), Drops(t), NEW i, PostsOK(i),
         i # Head(group[t]), rec'[i] = rec[i], UNCHANGED <<posts, deaths>>
  PROVE  PostsOK(i)'
<1>1. stage'[t] # "write"  BY DEF Drops
<1>2. CopyFresh(i) => CopyFresh(i)'  BY <1>1, FreshOfRun, FreshOfRetry
<1>3. /\ HeldByRun(i)' <=> HeldByRun(i)
      /\ HeldByRetry(i)' <=> HeldByRetry(i)
      /\ RunPost(i)' = RunPost(i) /\ RetryPost(i)' = RetryPost(i)
  BY MarkView
<1> QED  BY <1>2, <1>3, PostsFrame

LEMMA ShapeStatus ==
  ASSUME Shape, NEW i \in Callbacks
  PROVE  rec[i].status \in Delivery
<1>1. rec[i] \in Metadata  BY DEF Shape, OutboxTypeOK
<1> QED  BY <1>1 DEF Metadata

(* How often a callback the run thread has posted can have been posted.     *)
LEMMA RunEnds ==
  ASSUME Shape, Shape', NEW i \in Callbacks, PostsOK(i), HeldByRun(i)
  PROVE  /\ posts[i] <= MaxAttempts + RunPost(i) + RetryPost(i)
         /\ posts[i] <= MaxAttempts + 1
         /\ HeldByRetry(i) \/ Open(i) =>
              /\ rec[i].attempts < MaxAttempts
              /\ posts[i] <= rec[i].attempts + RunPost(i) + RetryPost(i)
<1>1. /\ posts[i] \in Nat /\ rec[i].attempts \in Nat
      /\ RunPost(i) \in {0, 1} /\ RetryPost(i) \in {0, 1}
      /\ MaxAttempts \in Nat /\ MaxAttempts >= 1
  BY Numbers
<1>2. PostsLive(i) /\ (Open(i) => rec[i].attempts < MaxAttempts)  BY DEF PostsOK
<1>3. rec[i].status \in Delivery  BY ShapeStatus
<1>4. CASE Open(i)  BY <1>1, <1>2, <1>4 DEF PostsLive
<1>5. CASE rec[i].status = "SENT"  BY <1>1, <1>2, <1>5 DEF PostsLive, Open
<1>6. CASE rec[i].status = "FAILED_FINAL"  BY <1>1, <1>2, <1>6 DEF PostsLive, Open
<1> QED  BY <1>2, <1>3, <1>4, <1>5, <1>6 DEF PostsLive, Delivery, Open

LEMMA WriteSentPosts ==
  ASSUME PostsInv, NEW t \in Senders, WriteSent(t), NEW i \in Callbacks
  PROVE  PostsOK(i)'
<1>1. /\ Shape /\ PostsOK(i) /\ Shape' /\ Elsewhere(t) /\ Drops(t)
      /\ i = Head(group[t]) =>
           rec'[i].status = "SENT" /\ rec'[i].attempts = copy[t].attempts
      /\ i # Head(group[t]) => rec'[i] = rec[i]
      /\ stage[t] = "write" /\ UNCHANGED <<posts, deaths>>
  BY WriteSentShape DEF PostsInv
<1>2. CASE i # Head(group[t])  BY <1>1, <1>2, MarkFrame
<1>3. CASE i = Head(group[t])
  <2>1. /\ posts[i] \in Nat /\ rec[i].attempts \in Nat /\ deaths \in Nat
        /\ rec'[i].attempts \in Nat /\ posts'[i] = posts[i]
        /\ RunPost(i) \in {0, 1} /\ RetryPost(i) \in {0, 1}
        /\ MaxAttempts \in Nat /\ MaxAttempts >= 1
    BY <1>1, Numbers
  <2>2. ~Open(i)' /\ rec'[i].status = "SENT" /\ Budget' = Budget
    BY <1>1, <1>3 DEF Open, Budget
  <2>3. CASE IsRetry(t)
    <3>1. /\ HeldByRun(i)' <=> HeldByRun(i)
          /\ RunPost(i)' = RunPost(i)
          /\ HeldByRetry(i) /\ RetryPost(i) = 1
          /\ ~HeldByRetry(i)' /\ RetryPost(i)' = 0
      BY <1>1, <1>3, <2>3, MarkView
    <3>2. CASE HeldByRun(i)
      <4>1. stage'[t] # "write"  BY <1>1 DEF Drops
      <4>2. CopyFresh(i)'  BY <4>1, <1>1, <2>3, FreshOfRetry
      <4>3. PostsLive(i) /\ rec[i].attempts < MaxAttempts
            /\ posts[i] <= rec[i].attempts + 1 + RunPost(i)
        BY <1>1, <2>1, <3>1, <3>2, RunEnds DEF PostsOK
      <4>4. rec'[i].attempts = rec[i].attempts
        BY <1>1, <1>3, <2>3, <4>3 DEF PostsLive, CopyFresh
      <4> QED  BY <4>2, <4>3, <4>4, <2>1, <2>2, <3>1, <3>2 DEF PostsOK, PostsLive
    <3>3. CASE ~HeldByRun(i)
      BY <1>1, <2>1, <2>2, <3>1, <3>3 DEF PostsOK, PostsLeft
    <3> QED  BY <3>2, <3>3
  <2>4. CASE ~IsRetry(t)
    <3>1. /\ HeldByRetry(i)' <=> HeldByRetry(i)
          /\ RetryPost(i)' = RetryPost(i)
          /\ HeldByRun(i) /\ RunPost(i) = 1
          /\ ~HeldByRun(i)'
      BY <1>1, <1>3, <2>4, MarkView
    <3>2. /\ posts[i] <= MaxAttempts + 1
          /\ HeldByRetry(i) =>
               /\ rec[i].attempts < MaxAttempts
               /\ posts[i] <= rec[i].attempts + 1 + RetryPost(i)
      BY <1>1, <3>1, RunEnds
    <3> QED  BY <2>1, <2>2, <3>1, <3>2 DEF PostsOK, PostsLeft, Budget
  <2> QED  BY <2>3, <2>4
<1> QED  BY <1>2, <1>3

LEMMA MarkFailedPosts ==
  ASSUME PostsInv, NEW t \in Senders, MarkFailed(t), NEW i \in Callbacks
  PROVE  PostsOK(i)'
<1>1. /\ Shape /\ PostsOK(i) /\ Shape' /\ Elsewhere(t) /\ Drops(t)
      /\ i = Head(group[t]) =>
           /\ rec'[i].attempts = rec[i].attempts + 1
           /\ \/ rec'[i].status = "FAILED_FINAL"
              \/ rec'[i].status = "FAILED_RETRYABLE" /\ ~Exhausted(rec[i].attempts + 1)
      /\ i # Head(group[t]) => rec'[i] = rec[i]
      /\ stage[t] = "mark" /\ UNCHANGED <<posts, deaths>>
  BY MarkFailedShape DEF PostsInv
<1>2. CASE i # Head(group[t])  BY <1>1, <1>2, MarkFrame
<1>3. CASE i = Head(group[t])
  <2>1. /\ posts[i] \in Nat /\ rec[i].attempts \in Nat /\ deaths \in Nat
        /\ posts'[i] = posts[i]
        /\ RunPost(i) \in {0, 1} /\ RetryPost(i) \in {0, 1}
        /\ MaxAttempts \in Nat /\ MaxAttempts >= 1
    BY <1>1, Numbers
  <2>2. /\ rec'[i].attempts = rec[i].attempts + 1 /\ Budget' = Budget
        /\ rec'[i].status \in {"FAILED_FINAL", "FAILED_RETRYABLE"}
        /\ Open(i)' => rec'[i].attempts < MaxAttempts
    BY <1>1, <1>3, <2>1 DEF Open, Budget, Exhausted
  <2>3. CASE IsRetry(t)
    <3>1. /\ HeldByRun(i)' <=> HeldByRun(i)
          /\ RunPost(i)' = RunPost(i)
          /\ HeldByRetry(i) /\ RetryPost(i) = 1
          /\ ~HeldByRetry(i)' /\ RetryPost(i)' = 0
      BY <1>1, <1>3, <2>3, MarkView
    <3>2. CASE HeldByRun(i)
      <4>1. stage'[t] # "write"  BY <1>1 DEF Drops
      <4>2. CopyFresh(i)'  BY <4>1, <1>1, <2>3, FreshOfRetry
      <4>3. rec[i].attempts < MaxAttempts /\ posts[i] <= rec[i].attempts + 1 + RunPost(i)
        BY <1>1, <2>1, <3>1, <3>2, RunEnds
      <4> QED  BY <4>2, <4>3, <2>1, <2>2, <3>1, <3>2 DEF PostsOK, PostsLive
    <3>3. CASE ~HeldByRun(i)
      <4>1. PostsLeft(i)  BY <1>1, <3>3 DEF PostsOK
      <4>2. Budget \in Nat  BY <2>1 DEF Budget
      <4>3. PostsLeft(i)'  BY <4>1, <4>2, <2>1, <2>2, <3>1 DEF PostsLeft
      <4> QED  BY <4>3, <2>2, <3>1, <3>3 DEF PostsOK
    <3> QED  BY <3>2, <3>3
  <2>4. CASE ~IsRetry(t)
    <3>1. /\ HeldByRetry(i)' <=> HeldByRetry(i)
          /\ RetryPost(i)' = RetryPost(i)
          /\ HeldByRun(i) /\ RunPost(i) = 1
          /\ ~HeldByRun(i)'
      BY <1>1, <1>3, <2>4, MarkView
    <3>2. /\ posts[i] <= MaxAttempts + 1
          /\ HeldByRetry(i) =>
               /\ rec[i].attempts < MaxAttempts
               /\ posts[i] <= rec[i].attempts + 1 + RetryPost(i)
      BY <1>1, <3>1, RunEnds
    <3>3. PostsLeft(i)'
      <4>1. posts[i] <= Budget  BY <2>1, <3>2 DEF Budget
      <4>2. HeldByRetry(i) /\ RetryPost(i) = 0 => posts[i] < Budget
        BY <2>1, <3>2 DEF Budget
      <4>3. HeldByRetry(i) => posts[i] + MaxAttempts <= Budget + rec[i].attempts + 1 + RetryPost(i)
        BY <2>1, <3>2 DEF Budget
      <4>4. ~HeldByRetry(i) => posts[i] + MaxAttempts <= Budget + rec[i].attempts + 1
        BY <2>1, <3>2 DEF Budget
      <4>5. posts[i] + MaxAttempts <= Budget + rec[i].attempts + 1 + RetryPost(i)
        BY <4>3, <4>4, <2>1 DEF Budget
      <4>6. Budget \in Nat  BY <2>1 DEF Budget
      <4>7. posts'[i] + MaxAttempts <= Budget' + rec'[i].attempts + RetryPost(i)'
        BY <4>5, <4>6, <2>1, <2>2, <3>1
      <4>8. posts'[i] <= Budget'  BY <4>1, <2>1, <2>2
      <4>9. HeldByRetry(i)' /\ RetryPost(i)' = 0 => posts'[i] < Budget'
        BY <4>2, <2>1, <2>2, <3>1
      <4> QED  BY <4>7, <4>8, <4>9 DEF PostsLeft
    <3> QED  BY <2>2, <3>1, <3>3 DEF PostsOK
  <2> QED  BY <2>3, <2>4
<1> QED  BY <1>2, <1>3

LEMMA CrashPosts ==
  ASSUME PostsInv, Crash, NEW i \in Callbacks
  PROVE  PostsOK(i)'
<1>1. /\ Shape /\ PostsOK(i) /\ Shape'
      /\ \A t \in Senders : Held(t)' = {} /\ Posted(t)' = {}
      /\ deaths' = deaths + 1
      /\ UNCHANGED <<rec, posts>>
  BY CrashShape DEF PostsInv
<1>2. ~HeldByRun(i)' /\ ~HeldByRetry(i)' /\ RunPost(i)' = 0 /\ RetryPost(i)' = 0
  BY <1>1 DEF HeldByRun, HeldByRetry, RunPost, RetryPost
<1>3. /\ posts[i] \in Nat /\ rec[i].attempts \in Nat /\ deaths \in Nat
      /\ RunPost(i) \in {0, 1} /\ RetryPost(i) \in {0, 1}
      /\ MaxAttempts \in Nat /\ MaxAttempts >= 1
  BY <1>1, Numbers
<1>4. (Open(i)' <=> Open(i)) /\ Budget' = Budget + 1 /\ Budget = 2 * MaxAttempts + deaths
  BY <1>1, <1>3 DEF Open, Budget
<1>5. CASE HeldByRun(i)
  <2>1. /\ posts[i] <= MaxAttempts + 1
        /\ Open(i) => posts[i] <= rec[i].attempts + RunPost(i) + RetryPost(i)
    BY <1>1, <1>5, RunEnds
  <2>2. PostsLeft(i)'  BY <1>1, <1>2, <1>3, <1>4, <2>1 DEF PostsLeft
  <2> QED  BY <1>1, <1>2, <1>4, <2>2 DEF PostsOK
<1>6. CASE ~HeldByRun(i)
  <2>1. PostsLeft(i)  BY <1>1, <1>6 DEF PostsOK
  <2>2. PostsLeft(i)'  BY <1>1, <1>2, <1>3, <1>4, <2>1 DEF PostsLeft
  <2> QED  BY <1>1, <1>2, <1>4, <2>2 DEF PostsOK
<1> QED  BY <1>5, <1>6

LEMMA PostsInit == ASSUME OutboxInit PROVE PostsInv
<1>1. Shape  BY ShapeInit
<1>2. ASSUME NEW i \in Callbacks PROVE PostsOK(i)
  <2>1. /\ posts[i] = 0 /\ rec[i].attempts = 0 /\ deaths = 0
        /\ MaxAttempts \in Nat /\ MaxAttempts >= 1
    BY OutboxConstants DEF OutboxInit, Fresh, OutboxConstants
  <2>2. \A t \in Senders : Held(t) = {}
    BY DEF OutboxInit, Held, Range
  <2>3. ~HeldByRun(i) /\ ~HeldByRetry(i)  BY <2>2 DEF HeldByRun, HeldByRetry
  <2>4. RetryPost(i) \in {0, 1}  BY DEF RetryPost
  <2> QED  BY <2>1, <2>3, <2>4 DEF PostsOK, PostsLeft, Budget
<1> QED  BY <1>1, <1>2 DEF PostsInv

LEMMA PostsStutter ==
  ASSUME PostsInv, UNCHANGED outboxVars, NEW i \in Callbacks
  PROVE  PostsOK(i)'
<1>1. /\ UNCHANGED <<rec, stage, group, copy, posts, deaths>>
      /\ \A t \in Senders : Held(t)' = Held(t) /\ Posted(t)' = Posted(t)
  BY StutterShape
<1>2. /\ HeldByRun(i)' <=> HeldByRun(i)
      /\ HeldByRetry(i)' <=> HeldByRetry(i)
  BY <1>1 DEF HeldByRun, HeldByRetry
<1>3. RunPost(i)' = RunPost(i) /\ RetryPost(i)' = RetryPost(i)
  BY <1>1 DEF RunPost, RetryPost
<1>4. CopyFresh(i) => CopyFresh(i)'  BY <1>1 DEF CopyFresh
<1>5. PostsOK(i)  BY DEF PostsInv
<1> QED  BY <1>1, <1>2, <1>3, <1>4, <1>5, PostsFrame

LEMMA PostsStep == ASSUME PostsInv, [OutboxNext]_outboxVars PROVE PostsInv'
<1>1. CASE UNCHANGED outboxVars
  BY <1>1, PostsStutter, ShapeStutter DEF PostsInv
<1>2. CASE Crash
  BY <1>2, CrashPosts, CrashShape DEF PostsInv
<1>3. ASSUME NEW t \in Senders, SenderStep(t) PROVE PostsInv'
  <2>1. CASE Deliver(t)
    BY <2>1, DeliverPosts, DeliverShape DEF PostsInv
  <2>2. CASE BeginRetry(t)
    BY <2>2, BeginRetryPosts, BeginRetryShape DEF PostsInv
  <2>3. CASE Post(t)
    BY <2>3, PostPosts, PostShape DEF PostsInv
  <2>4. CASE FindItem(t)
    BY <2>4, FindItemPosts, FindItemShape DEF PostsInv
  <2>5. CASE WriteSent(t)
    BY <2>5, WriteSentPosts, WriteSentShape DEF PostsInv
  <2>6. CASE MarkFailed(t)
    BY <2>6, MarkFailedPosts, MarkFailedShape DEF PostsInv
  <2> QED  BY <1>3, <2>1, <2>2, <2>3, <2>4, <2>5, <2>6 DEF SenderStep
<1> QED  BY <1>1, <1>2, <1>3 DEF OutboxNext

LEMMA Bounded == ASSUME PostsInv PROVE PostsBounded
<1>1. Shape  BY DEF PostsInv
<1>2. ASSUME NEW i \in Callbacks PROVE posts[i] <= 2 * MaxAttempts + deaths
  <2>1. PostsOK(i)  BY DEF PostsInv
  <2>2. /\ posts[i] \in Nat /\ deaths \in Nat /\ rec[i].attempts \in Nat
        /\ MaxAttempts \in Nat /\ MaxAttempts >= 1
        /\ RunPost(i) \in {0, 1} /\ RetryPost(i) \in {0, 1}
    BY <1>1, OutboxConstants DEF Shape, OutboxTypeOK, OutboxConstants, RunPost, RetryPost,
      Metadata
  <2>3. rec[i].status \in Delivery  BY <1>1, ShapeStatus
  <2>4. CASE HeldByRun(i)
    BY <2>1, <2>2, <2>3, <2>4 DEF PostsOK, PostsLive, Delivery, Open
  <2>5. CASE ~HeldByRun(i)
    BY <2>1, <2>2, <2>5 DEF PostsOK, PostsLeft, Budget
  <2> QED  BY <2>4, <2>5
<1> QED  BY <1>2 DEF PostsBounded

(* The posts of a callback are bounded.                                    *)
THEOREM BoundedPosts == OutboxSpec => []PostsBounded
<1>1. OutboxInit => PostsInv  BY PostsInit
<1>2. PostsInv /\ [OutboxNext]_outboxVars => PostsInv'  BY PostsStep
<1>3. PostsInv => PostsBounded  BY Bounded
<1> QED  BY <1>1, <1>2, <1>3, PTL DEF OutboxSpec

(* The whole invariant of the outbox, its type correctness included.       *)
THEOREM OutboxInvariance == OutboxSpec => []OutboxInv
<1>1. OutboxInit => DropInv /\ PostsInv  BY DropInit, PostsInit
<1>2. DropInv /\ PostsInv /\ [OutboxNext]_outboxVars => DropInv' /\ PostsInv'
  BY DropStep, PostsStep
<1>3. DropInv /\ PostsInv => OutboxInv  BY DEF DropInv, PostsInv, Shape, OutboxInv
<1> QED  BY <1>1, <1>2, <1>3, PTL DEF OutboxSpec

-----------------------------------------------------------------------------
(* PART 3.  The two services in one process.                               *)

(* A step of the plan runs crashes nothing.                                *)
LEMMA PlanStepCounts ==
  ASSUME PlanStep
  PROVE  Next /\ UNCHANGED crashes /\ UNCHANGED directVars
<1>1. ASSUME NEW p, NEW s, NEW m, Start(p, s, m) PROVE UNCHANGED crashes
  BY <1>1 DEF Start, bounds
<1>2. ASSUME NEW r, RunStep(r) PROVE UNCHANGED crashes
  BY <1>2 DEF RunStep, NextGroup, MarkStarted, TellStarted, TakeLock, Execute, MarkFinished,
    TellFinished, Finalize, Save, Summarize, CrashItem, CrashRun, CrashSummary, bounds
<1> QED  BY <1>1, <1>2 DEF PlanStep, Next

(* The executor server implements both of its services: a step of the      *)
(* process is a step of the plan runs or none, and one of the direct jobs   *)
(* or none, and the two restart together.                                  *)
THEOREM Composition == ServerSpec => Spec /\ Direct!Spec
<1>1. ServerInit => Init /\ Direct!Init  BY DEF ServerInit
<1>2. ServerNext \/ UNCHANGED serverVars =>
        (Next \/ UNCHANGED vars) /\ (Direct!Next \/ UNCHANGED Direct!vars)
  <2>1. ASSUME PlanStep PROVE Next /\ UNCHANGED Direct!vars
    <3>1. Next /\ UNCHANGED crashes /\ UNCHANGED directVars  BY <2>1, PlanStepCounts
    <3> QED  BY <3>1 DEF directVars, Direct!vars, Direct!work
  <2>2. ASSUME DirectStep PROVE Direct!Next /\ UNCHANGED vars
    BY <2>2 DEF DirectStep, Direct!Next
  <2>3. ASSUME ServerRestart PROVE Next /\ Direct!Next
    BY <2>3 DEF ServerRestart, Next, Direct!Next
  <2>4. ASSUME UNCHANGED serverVars PROVE UNCHANGED vars /\ UNCHANGED Direct!vars
    <3>1. UNCHANGED vars /\ UNCHANGED directVars  BY <2>4 DEF serverVars
    <3>2. UNCHANGED crashes  BY <3>1 DEF vars, bounds
    <3> QED  BY <3>1, <3>2 DEF directVars, Direct!vars, Direct!work
  <2> QED  BY <2>1, <2>2, <2>3, <2>4 DEF ServerNext
<1>3. [ServerNext]_serverVars => [Next]_vars /\ [Direct!Next]_Direct!vars
  BY <1>2
<1> QED  BY <1>1, <1>3, PTL DEF ServerSpec, Spec, Direct!Spec

(* What the plan runs promise they keep in the process they share with the *)
(* direct jobs.                                                            *)
THEOREM ServerKeeps ==
  ASSUME PlanRunConstants
  PROVE  ServerSpec =>
           []ResourceExclusive /\ []RunningHasThread /\ []ToldIsTrue /\ []CompletedIsTold
BY Composition, Exclusion, NoZombie, Truthful, Complete, PTL

(* DirectDispatch as the process has it, with the theorems about it.        *)
Jobs1 == INSTANCE DirectDispatch_proofs WITH status <- jobStatus, at <- workerAt

(* That module extends DirectDispatch, so the two instances are one.        *)
LEMMA SameJobs ==
  /\ Direct!vars = Jobs1!vars
  /\ Direct!Init <=> Jobs1!Init
  /\ Direct!Next <=> Jobs1!Next
<1>1. Direct!vars = Jobs1!vars  BY DEF Direct!vars, Jobs1!vars, Direct!work, Jobs1!work
<1>2. Direct!Init <=> Jobs1!Init
  BY DEF Direct!Init, Jobs1!Init, Direct!NewTable, Jobs1!NewTable
<1>3. \A j : Direct!Submit(j) <=> Jobs1!Submit(j)
  BY DEF Direct!Submit, Jobs1!Submit, Direct!Fresh, Jobs1!Fresh, Direct!work, Jobs1!work
<1>4. ASSUME NEW w PROVE Direct!WorkerStep(w) <=> Jobs1!WorkerStep(w)
  <2>1. Direct!Take(w) <=> Jobs1!Take(w)
    BY DEF Direct!Take, Jobs1!Take, Direct!Go, Jobs1!Go
  <2>2. Direct!Lock(w) <=> Jobs1!Lock(w)
    BY DEF Direct!Lock, Jobs1!Lock, Direct!Go, Jobs1!Go, Direct!Grants, Jobs1!Grants,
      Direct!Acquired, Jobs1!Acquired
  <2>3. Direct!Requeue(w) <=> Jobs1!Requeue(w)
    BY DEF Direct!Requeue, Jobs1!Requeue, Direct!Go, Jobs1!Go, Direct!Grants, Jobs1!Grants,
      Direct!Requeued, Jobs1!Requeued
  <2>4. Direct!MarkRunning(w) <=> Jobs1!MarkRunning(w)
    BY DEF Direct!MarkRunning, Jobs1!MarkRunning, Direct!Go, Jobs1!Go
  <2>5. Direct!RunJob(w) <=> Jobs1!RunJob(w)
    BY DEF Direct!RunJob, Jobs1!RunJob, Direct!Go, Jobs1!Go, Direct!Ended, Jobs1!Ended
  <2>6. Direct!MarkFinished(w) <=> Jobs1!MarkFinished(w)
    BY DEF Direct!MarkFinished, Jobs1!MarkFinished, Direct!Go, Jobs1!Go
  <2>7. Direct!Callback(w) <=> Jobs1!Callback(w)
    BY DEF Direct!Callback, Jobs1!Callback, Direct!Go, Jobs1!Go, Direct!Received,
      Jobs1!Received, Direct!After, Jobs1!After
  <2>8. Direct!MarkCallbackFailed(w) <=> Jobs1!MarkCallbackFailed(w)
    BY DEF Direct!MarkCallbackFailed, Jobs1!MarkCallbackFailed, Direct!Go, Jobs1!Go
  <2>9. Direct!Release(w) <=> Jobs1!Release(w)
    BY DEF Direct!Release, Jobs1!Release, Direct!Go, Jobs1!Go, Direct!Released,
      Jobs1!Released
  <2> QED
    BY <2>1, <2>2, <2>3, <2>4, <2>5, <2>6, <2>7, <2>8, <2>9
    DEF Direct!WorkerStep, Jobs1!WorkerStep
<1>5. Direct!Crash <=> Jobs1!Crash
  BY DEF Direct!Crash, Jobs1!Crash, Direct!NewTable, Jobs1!NewTable
<1> QED  BY <1>1, <1>2, <1>3, <1>4, <1>5 DEF Direct!Next, Jobs1!Next

(* What the direct jobs promise they keep in the process they share with    *)
(* the plan runs: jobs that execute hold locks of their own, no accepted    *)
(* job is lost or run twice, and an end at rest was heard by the server.    *)
THEOREM ServerKeepsJobs ==
  ASSUME Direct!DirectConstants
  PROVE  ServerSpec =>
           []Direct!DirectExclusive /\ []Direct!JobsAccountedFor /\ []Direct!EndWasHeard
<1>1. Jobs1!Spec => []Jobs1!DirectExclusive  BY Jobs1!Exclusion DEF Direct!DirectConstants
<1>2. Jobs1!Spec => []Jobs1!JobsAccountedFor  BY Jobs1!Accounted DEF Direct!DirectConstants
<1>3. Jobs1!Spec => []Jobs1!EndWasHeard  BY Jobs1!Heard DEF Direct!DirectConstants
<1>4. Direct!Init => Jobs1!Init  BY SameJobs
<1>5. [Direct!Next]_Direct!vars => [Jobs1!Next]_Jobs1!vars
  <2>1. Direct!Next => Jobs1!Next  BY SameJobs
  <2>2. UNCHANGED Direct!vars => UNCHANGED Jobs1!vars
    BY DEF Direct!vars, Jobs1!vars, Direct!work, Jobs1!work
  <2> QED  BY <2>1, <2>2
<1>6. Jobs1!DirectExclusive => Direct!DirectExclusive
  BY DEF Jobs1!DirectExclusive, Direct!DirectExclusive, Jobs1!Executing, Direct!Executing
<1>7. Jobs1!Queued = Direct!Queued  BY DEF Jobs1!Queued, Direct!Queued
<1>8. Jobs1!Taken = Direct!Taken  BY DEF Jobs1!Taken, Direct!Taken
<1>9. \A S : Jobs1!Cardinality(S) = Direct!Cardinality(S)
  BY DEF Jobs1!Cardinality, Direct!Cardinality
<1>10. Jobs1!JobsAccountedFor => Direct!JobsAccountedFor
  <2> SUFFICES ASSUME Jobs1!JobsAccountedFor  PROVE Direct!JobsAccountedFor
    OBVIOUS
  <2>1. Len(pending) = Direct!Cardinality(Direct!Queued)
    BY <1>7, <1>9 DEF Jobs1!JobsAccountedFor
  <2>2. Direct!Queued \cap Direct!Taken = {}
    BY <1>7, <1>8 DEF Jobs1!JobsAccountedFor
  <2>3. \A v, w \in Workers : v # w /\ job[v] # NoJob => job[v] # job[w]
    BY Zenon DEF Jobs1!JobsAccountedFor
  <2>4. \A j \in Jobs :
          jobStatus[j] \in {"ACCEPTED", "RUNNING"} => j \in Direct!Queued \cup Direct!Taken
    BY <1>7, <1>8, Zenon DEF Jobs1!JobsAccountedFor
  <2>5. \A j \in Jobs : ran[j] <= 1
    BY Zenon DEF Jobs1!JobsAccountedFor
  <2> QED  BY <2>1, <2>2, <2>3, <2>4, <2>5, Zenon DEF Direct!JobsAccountedFor
<1>11. Jobs1!EndWasHeard => Direct!EndWasHeard
  BY <1>8, Zenon DEF Jobs1!EndWasHeard, Direct!EndWasHeard, Jobs1!Ended, Direct!Ended
<1> QED
  BY Composition, <1>1, <1>2, <1>3, <1>4, <1>5, <1>6, <1>10, <1>11, PTL
  DEF Direct!Spec, Jobs1!Spec
=============================================================================
