------------------------------- MODULE App_proofs ------------------------------
(***************************************************************************)
(* Theorems about App, for every workbook and any number of stops, pauses  *)
(* and route changes: no plan is come to after the stop, and the results   *)
(* of a batch account for its plans.                                       *)
(***************************************************************************)
EXTENDS App, FiniteSetTheorems, WellFoundedInduction, TLAPS

(* A stop stays until the next run clears it, and no plan is come to under *)
(* it: the plan that is waited for was come to before the stop.            *)
LateInv ==
  /\ lateStarts \in {0, 1}
  /\ lateStarts = 1 => stop /\ pc # "wait"

LEMMA InitOK == Init => LateInv
BY DEF Init, LateInv

(* The steps of the main thread but the three that matter here.            *)
LEMMA Elsewhere ==
  ASSUME LateInv, UNCHANGED <<stop, lateStarts>>, pc' # "wait" \/ pc' = pc
  PROVE  LateInv'
BY DEF LateInv

LEMMA MainKeeps ==
  ASSUME LateInv, MainStep
  PROVE  LateInv'
<1> USE DEF batchVars, stopVars, world, ghosts
<1>1. CASE ClearEvents  BY <1>1 DEF ClearEvents, LateInv
<1>2. CASE StartPlan  BY <1>2 DEF StartPlan, LateInv
<1>3. CASE LoopStep
  <2>1. UNCHANGED <<stop, lateStarts>>  BY <1>3 DEF LoopStep
  <2>2. pc' = "wait" => ~stop  BY <1>3 DEF LoopStep, HeedsStop
  <2> QED  BY <2>1, <2>2 DEF LateInv
<1>4. CASE ClearMetadata \/ Load \/ Preflight
  <2>1. UNCHANGED <<stop, lateStarts>> /\ pc' # "wait"
    BY <1>4 DEF ClearMetadata, Load, Preflight
  <2> QED  BY <2>1, Elsewhere
<1>5. CASE StartGuard \/ EndPlan
  <2>1. UNCHANGED <<stop, lateStarts>> /\ pc' # "wait"  BY <1>5 DEF StartGuard, EndPlan
  <2> QED  BY <2>1, Elsewhere
<1>6. CASE Schedule \/ TakeResults
  <2>1. UNCHANGED <<stop, lateStarts>> /\ (pc' # "wait" \/ pc' = pc)
    BY <1>6 DEF Schedule, TakeResults
  <2> QED  BY <2>1, Elsewhere
<1>7. CASE StopGuard \/ JoinGuard \/ Write
  <2>1. UNCHANGED <<stop, lateStarts>> /\ pc' # "wait"  BY <1>7 DEF StopGuard, JoinGuard, Write
  <2> QED  BY <2>1, Elsewhere
<1>8. CASE Prompt \/ Merge
  <2>1. UNCHANGED <<stop, lateStarts>> /\ pc' # "wait"  BY <1>8 DEF Prompt, Merge
  <2> QED  BY <2>1, Elsewhere
<1> QED  BY <1>1, <1>2, <1>3, <1>4, <1>5, <1>6, <1>7, <1>8 DEF MainStep

(* The other threads raise the stop, or leave it alone.                    *)
LEMMA OthersKeep ==
  ASSUME LateInv, UNCHANGED <<pc, lateStarts>>, stop' = stop \/ stop' = TRUE
  PROVE  LateInv'
BY DEF LateInv

LEMMA StepKeeps ==
  ASSUME LateInv, [Next]_vars
  PROVE  LateInv'
<1> USE DEF batchVars, stopVars, world, ghosts
<1>1. CASE AuthCheck \/ Interrupted
  <2>1. UNCHANGED <<stop, lateStarts>> /\ pc' # "wait"  BY <1>1 DEF AuthCheck, Interrupted
  <2> QED  BY <2>1, Elsewhere
<1>2. CASE AppStop \/ Pause \/ Resume \/ RouteChange
  <2>1. UNCHANGED <<pc, lateStarts>> /\ (stop' = stop \/ stop' = TRUE)
    BY <1>2 DEF AppStop, Stops, Pause, Resume, RouteChange
  <2> QED  BY <2>1, OthersKeep
<1>3. ASSUME NEW g \in 1 .. 2, GuardStep(g)  PROVE LateInv'
  <2>1. UNCHANGED <<pc, lateStarts>> /\ (stop' = stop \/ stop' = TRUE)
    BY <1>3 DEF GuardStep, GuardLooks, GuardCalls, GuardEnds, Stops
  <2> QED  BY <2>1, OthersKeep
<1>4. CASE UNCHANGED vars  BY <1>4, OthersKeep DEF vars
<1> QED  BY <1>1, <1>2, <1>3, <1>4, MainKeeps DEF Next

(* _execute_sequential looks at the stop before it waits for a pause to    *)
(* end: however stops, pauses and the route guard fall, it starts at most  *)
(* one plan after a stop.                                                  *)
THEOREM LateStarts == Spec => []AtMostOneLateStart
<1>1. Init => LateInv  BY InitOK
<1>2. LateInv /\ [Next]_vars => LateInv'  BY StepKeeps
<1>3. LateInv => AtMostOneLateStart  BY DEF LateInv, AtMostOneLateStart
<1> QED  BY <1>1, <1>2, <1>3, PTL DEF Spec

-----------------------------------------------------------------------------

(* Where an element of a finite set stands in a strict order of it.        *)
Rank(S, R, x) == Cardinality({y \in S : y = x \/ <<y, x>> \in R})

StrictOrder(S, R) ==
  /\ \A x \in S : <<x, x>> \notin R
  /\ \A x, y, z \in S : <<x, y>> \in R /\ <<y, z>> \in R => <<x, z>> \in R
  /\ \A x, y \in S : x # y => <<x, y>> \in R \/ <<y, x>> \in R

LEMMA RankGrows ==
  ASSUME NEW S, NEW R, IsFiniteSet(S), StrictOrder(S, R),
         NEW x \in S, NEW y \in S, <<x, y>> \in R
  PROVE  Rank(S, R, x) < Rank(S, R, y)
<1> DEFINE Upto(z) == {w \in S : w = z \/ <<w, z>> \in R}
<1>1. Upto(x) \subseteq Upto(y)  BY DEF StrictOrder
<1>2. y \in Upto(y) /\ y \notin Upto(x)  BY DEF StrictOrder
<1>3. IsFiniteSet(Upto(y))  BY FS_Subset
<1> HIDE DEF Upto
<1>4. /\ IsFiniteSet(Upto(x)) /\ Cardinality(Upto(x)) <= Cardinality(Upto(y))
      /\ Cardinality(Upto(y)) = Cardinality(Upto(x)) => Upto(y) = Upto(x)
  BY <1>1, <1>3, FS_Subset
<1>5. Cardinality(Upto(x)) \in Nat /\ Cardinality(Upto(y)) \in Nat
  BY <1>3, <1>4, FS_CardinalityType
<1>6. Cardinality(Upto(x)) < Cardinality(Upto(y))  BY <1>2, <1>4, <1>5
<1> QED  BY <1>6 DEF Rank, Upto

(* Ranks number the elements of a finite set.                              *)
LEMMA RanksNumber ==
  ASSUME NEW S, NEW R, IsFiniteSet(S), StrictOrder(S, R)
  PROVE  /\ Cardinality(S) \in Nat
         /\ \A x \in S : Rank(S, R, x) \in 1 .. Cardinality(S)
         /\ \A k \in 1 .. Cardinality(S) : \E x \in S : Rank(S, R, x) = k
         /\ \A x, y \in S : Rank(S, R, x) = Rank(S, R, y) => x = y
<1> DEFINE n == Cardinality(S)
           f == [x \in S |-> Rank(S, R, x)]
<1>1. n \in Nat  BY FS_CardinalityType
<1>2. ASSUME NEW x \in S PROVE Rank(S, R, x) \in 1 .. n
  <2> DEFINE U == {w \in S : w = x \/ <<w, x>> \in R}
  <2>1. IsFiniteSet(U) /\ Cardinality(U) <= n  BY FS_Subset
  <2>2. Cardinality(U) \in Nat  BY <2>1, FS_CardinalityType
  <2>3. Cardinality(U) # 0  BY <2>1, FS_EmptySet
  <2> HIDE DEF U
  <2>4. Cardinality(U) \in 1 .. n  BY <1>1, <2>1, <2>2, <2>3
  <2> QED  BY <2>4 DEF U, Rank
<1>3. \A x, y \in S : Rank(S, R, x) = Rank(S, R, y) => x = y
  <2> SUFFICES ASSUME NEW x \in S, NEW y \in S, Rank(S, R, x) = Rank(S, R, y), x # y
               PROVE  FALSE
    OBVIOUS
  <2>1. <<x, y>> \in R \/ <<y, x>> \in R  BY DEF StrictOrder
  <2>2. Rank(S, R, x) < Rank(S, R, y) \/ Rank(S, R, y) < Rank(S, R, x)
    BY <2>1, RankGrows
  <2>3. Rank(S, R, x) \in Int  BY <1>1, <1>2
  <2> QED  BY <2>2, <2>3
<1>4. \A k \in 1 .. n : \E x \in S : Rank(S, R, x) = k
  <2>1. f \in Injection(S, 1 .. n)
    <3>1. f \in [S -> 1 .. n]  BY <1>2
    <3>2. IsInjective(f)  BY <1>3 DEF IsInjective
    <3> QED  BY <3>1, <3>2 DEF Injection
  <2>2. IsFiniteSet(1 .. n) /\ Cardinality(1 .. n) = n
    BY <1>1, FS_Interval
  <2>3. f \in Surjection(S, 1 .. n)
    <3> HIDE DEF f
    <3> QED  BY <2>1, <2>2, FS_Injection
  <2>4. ASSUME NEW k \in 1 .. n PROVE \E x \in S : f[x] = k
    BY <2>3 DEF Surjection
  <2> QED  BY <2>4
<1> QED  BY <1>1, <1>2, <1>3, <1>4

(* The k-th number of a set.                                               *)
Place(I, k) == CHOOSE i \in I : Cardinality({j \in I : j <= i}) = k

LEMMA Places ==
  ASSUME NEW I, I \subseteq Nat, IsFiniteSet(I)
  PROVE  /\ Cardinality(I) \in Nat
         /\ \A k \in 1 .. Cardinality(I) :
              Place(I, k) \in I /\ Cardinality({j \in I : j <= Place(I, k)}) = k
         /\ \A i \in I : \E k \in 1 .. Cardinality(I) : Place(I, k) = i
<1> DEFINE R == {r \in I \X I : r[1] < r[2]}
           n == Cardinality(I)
<1>1. StrictOrder(I, R)  BY DEF StrictOrder
<1>2. ASSUME NEW i \in I PROVE Rank(I, R, i) = Cardinality({j \in I : j <= i})
  <2>1. {y \in I : y = i \/ <<y, i>> \in R} = {j \in I : j <= i}
    <3>1. \A y \in I : (y = i \/ <<y, i>> \in R) <=> y <= i  OBVIOUS
    <3> QED  BY <3>1
  <2> QED  BY <2>1 DEF Rank
<1> HIDE DEF R
<1>6. /\ n \in Nat
      /\ \A i \in I : Rank(I, R, i) \in 1 .. n
      /\ \A i, j \in I : Rank(I, R, i) = Rank(I, R, j) => i = j
      /\ \A k \in 1 .. n : \E i \in I : Rank(I, R, i) = k
  <2>1. ASSUME NEW Q, StrictOrder(I, Q)
        PROVE  /\ Cardinality(I) \in Nat
               /\ \A x \in I : Rank(I, Q, x) \in 1 .. Cardinality(I)
               /\ \A k \in 1 .. Cardinality(I) : \E x \in I : Rank(I, Q, x) = k
               /\ \A x, y \in I : Rank(I, Q, x) = Rank(I, Q, y) => x = y
    BY <2>1, RanksNumber
  <2> QED  BY <1>1, <2>1
<1> HIDE DEF n
<1>3. /\ n \in Nat
      /\ \A i \in I : Cardinality({j \in I : j <= i}) \in 1 .. n
      /\ \A k \in 1 .. n : \E i \in I : Cardinality({j \in I : j <= i}) = k
      /\ \A i, j \in I : Rank(I, R, i) = Rank(I, R, j) => i = j
  BY <1>2, <1>6
<1> USE DEF n
<1>4. ASSUME NEW k \in 1 .. n
      PROVE  Place(I, k) \in I /\ Cardinality({j \in I : j <= Place(I, k)}) = k
  BY <1>3 DEF Place
<1>5. ASSUME NEW i \in I PROVE \E k \in 1 .. n : Place(I, k) = i
  <2> DEFINE k == Cardinality({j \in I : j <= i})
  <2>1. k \in 1 .. n  BY <1>3
  <2>2. Rank(I, R, Place(I, k)) = k /\ Rank(I, R, i) = k  BY <1>2, <1>4, <2>1
  <2>3. Place(I, k) = i  BY <1>3, <1>4, <2>1, <2>2
  <2> QED  BY <2>1, <2>3
<1> QED  BY <1>3, <1>4, <1>5

(* Of a sequence, Select keeps what is at the places asked for.            *)
LEMMA SelectAt ==
  ASSUME NEW s, NEW I
  PROVE  Select(s, I) = [k \in 1 .. Cardinality(I) |-> s[Place(I, k)]]
BY DEF Select, Place

LEMMA SelectIs ==
  ASSUME NEW T, NEW s \in Seq(T), NEW I \in SUBSET DOMAIN s
  PROVE  /\ Cardinality(I) \in Nat /\ IsFiniteSet(I)
         /\ \A k \in 1 .. Cardinality(I) : Place(I, k) \in I
         /\ Select(s, I) \in Seq(T) /\ Len(Select(s, I)) = Cardinality(I)
         /\ \A k \in 1 .. Cardinality(I) : \E i \in I : Select(s, I)[k] = s[i]
         /\ \A i \in I : \E k \in 1 .. Cardinality(I) : Select(s, I)[k] = s[i]
         /\ IsInjective(s) => IsInjective(Select(s, I))
<1> DEFINE n == Cardinality(I)
<1>1. IsFiniteSet(I) /\ I \subseteq Nat
  <2>1. IsFiniteSet(1 .. Len(s))  BY FS_Interval
  <2> QED  BY <2>1, FS_Subset
<1>2. /\ n \in Nat
      /\ \A k \in 1 .. n : Place(I, k) \in I /\ Cardinality({j \in I : j <= Place(I, k)}) = k
      /\ \A i \in I : \E k \in 1 .. n : Place(I, k) = i
  BY <1>1, Places
<1>3. Select(s, I) = [k \in 1 .. n |-> s[Place(I, k)]]  BY SelectAt
<1> HIDE DEF n
<1>4. ASSUME NEW k \in 1 .. n PROVE Select(s, I)[k] = s[Place(I, k)] /\ s[Place(I, k)] \in T
  <2>1. Place(I, k) \in DOMAIN s  BY <1>2
  <2>2. s[Place(I, k)] \in T  BY <2>1
  <2>3. Select(s, I)[k] = s[Place(I, k)]  BY <1>3
  <2> QED  BY <2>2, <2>3
<1>5. Select(s, I) \in Seq(T) /\ Len(Select(s, I)) = n
  <2>1. Select(s, I) \in [1 .. n -> T]  BY <1>3, <1>4
  <2> QED  BY <1>2, <2>1
<1>6. IsInjective(s) => IsInjective(Select(s, I))
  <2> SUFFICES ASSUME IsInjective(s), NEW k \in 1 .. n, NEW l \in 1 .. n,
                      Select(s, I)[k] = Select(s, I)[l]
               PROVE  k = l
    BY <1>3 DEF IsInjective
  <2>1. Place(I, k) = Place(I, l)
    <3>1. Place(I, k) \in DOMAIN s /\ Place(I, l) \in DOMAIN s  BY <1>2
    <3> QED  BY <1>4, <3>1 DEF IsInjective
  <2> QED  BY <1>2, <2>1
<1> QED  BY <1>1, <1>2, <1>4, <1>5, <1>6 DEF n

(* A strict order of a finite set can be written down.                     *)
LEMMA InOrder ==
  ASSUME NEW S, NEW R, IsFiniteSet(S), StrictOrder(S, R)
  PROVE  \E f \in [1 .. Cardinality(S) -> S] :
           \A i, j \in DOMAIN f : i < j => <<f[i], f[j]>> \in R
<1> DEFINE n == Cardinality(S)
           f == [k \in 1 .. n |-> CHOOSE x \in S : Rank(S, R, x) = k]
<1>1. ASSUME NEW k \in 1 .. n PROVE f[k] \in S /\ Rank(S, R, f[k]) = k
  <2>1. \E x \in S : Rank(S, R, x) = k  BY RanksNumber
  <2> QED  BY <2>1
<1>2. ASSUME NEW i \in 1 .. n, NEW j \in 1 .. n, i < j PROVE <<f[i], f[j]>> \in R
  <2> HIDE DEF f
  <2>1. n \in Nat  BY FS_CardinalityType
  <2>2. f[i] # f[j]  BY <1>1, <1>2, <2>1
  <2>3. <<f[i], f[j]>> \in R \/ <<f[j], f[i]>> \in R  BY <1>1, <2>2 DEF StrictOrder
  <2>4. ASSUME <<f[j], f[i]>> \in R PROVE FALSE
    <3>1. Rank(S, R, f[j]) < Rank(S, R, f[i])  BY <1>1, <2>4, RankGrows
    <3> QED  BY <1>1, <1>2, <2>1, <3>1
  <2> QED  BY <2>3, <2>4
<1>3. f \in [1 .. n -> S] /\ DOMAIN f = 1 .. n  BY <1>1
<1> HIDE DEF f
<1> QED  BY <1>2, <1>3

-----------------------------------------------------------------------------
(* The plans of a batch.                                                   *)

WorkbookOK ==
  /\ workbook.devices \in Seq(ToSet(workbook.devices))
  /\ workbook.tasks \in Seq(ToSet(workbook.tasks))
  /\ \A i \in DOMAIN workbook.devices :
       workbook.devices[i].group \in Int /\ workbook.devices[i].name \in Int
  /\ \A i \in DOMAIN workbook.tasks : workbook.tasks[i].sequence \in Int

LEMMA Books == workbook \in Workbooks => WorkbookOK
BY AppAssumption DEF WorkbookOK, ToSet

Rows == EnabledDevices \X EnabledTasks

LEMMA KeysAre ==
  ASSUME WorkbookOK, NEW p \in Rows
  PROVE  /\ SortKey(p) = [k \in 1 .. 5 |-> SortKey(p)[k]]
         /\ \A k \in 1 .. 5 : SortKey(p)[k] \in Int
         /\ SortKey(p)[4] = p[1] /\ SortKey(p)[5] = p[2]
         /\ p = <<p[1], p[2]>>
<1>1. /\ p[1] \in DOMAIN workbook.devices /\ p[2] \in DOMAIN workbook.tasks
      /\ p = <<p[1], p[2]>>
  BY DEF Rows, EnabledDevices, EnabledTasks
<1>2. /\ Device(p).group \in Int /\ Device(p).name \in Int /\ Task(p).sequence \in Int
      /\ p[1] \in Int /\ p[2] \in Int
  BY <1>1 DEF WorkbookOK, Device, Task
<1>3. /\ SortKey(p)[1] = Device(p).group /\ SortKey(p)[2] = Device(p).name
      /\ SortKey(p)[3] = Task(p).sequence /\ SortKey(p)[4] = p[1] /\ SortKey(p)[5] = p[2]
      /\ SortKey(p) = [k \in 1 .. 5 |-> SortKey(p)[k]]
  BY DEF SortKey
<1>4. \A k \in 1 .. 5 : k = 1 \/ k = 2 \/ k = 3 \/ k = 4 \/ k = 5  OBVIOUS
<1>5. \A k \in 1 .. 5 : SortKey(p)[k] \in Int
  <2> TAKE k \in 1 .. 5
  <2> QED  BY <1>2, <1>3, <1>4
<1> QED  BY <1>1, <1>3, <1>5

(* The sort key of a plan ends in its rows: no two plans are alike.        *)
LEMMA PrecedesOrders ==
  ASSUME WorkbookOK, NEW P \in SUBSET Rows
  PROVE  StrictOrder(P, {r \in P \X P : Precedes(r[1], r[2])})
<1> DEFINE R == {r \in P \X P : Precedes(r[1], r[2])}
<1>1. \A x, y \in P : <<x, y>> \in R <=> Precedes(x, y)  OBVIOUS
<1>2. ASSUME NEW x \in P PROVE ~Precedes(x, x)
  BY KeysAre DEF Precedes
<1>3. ASSUME NEW x \in P, NEW y \in P, NEW z \in P, Precedes(x, y), Precedes(y, z)
      PROVE  Precedes(x, z)
  <2> DEFINE a == SortKey(x)
             b == SortKey(y)
             c == SortKey(z)
  <2>1. /\ \A k \in 1 .. 5 : a[k] \in Int
        /\ \A k \in 1 .. 5 : b[k] \in Int
        /\ \A k \in 1 .. 5 : c[k] \in Int
    BY KeysAre
  <2>2. PICK k \in 1 .. 5 : a[k] < b[k] /\ \A m \in 1 .. k - 1 : a[m] = b[m]
    BY <1>3 DEF Precedes
  <2>3. PICK l \in 1 .. 5 : b[l] < c[l] /\ \A m \in 1 .. l - 1 : b[m] = c[m]
    BY <1>3 DEF Precedes
  <2> HIDE DEF a, b, c
  <2>4. \E h \in 1 .. 5 : a[h] < c[h] /\ \A m \in 1 .. h - 1 : a[m] = c[m]
    <3>1. CASE k < l
      <4>1. b[k] = c[k] /\ a[k] < c[k]  BY <2>2, <2>3, <3>1
      <4>2. \A m \in 1 .. k - 1 : a[m] = c[m]  BY <2>2, <2>3, <3>1
      <4> QED  BY <4>1, <4>2
    <3>2. CASE l < k
      <4>1. a[l] = b[l] /\ a[l] < c[l]  BY <2>2, <2>3, <3>2
      <4>2. \A m \in 1 .. l - 1 : a[m] = c[m]  BY <2>2, <2>3, <3>2
      <4> QED  BY <4>1, <4>2
    <3>3. CASE k = l
      <4>1. a[k] < c[k]  BY <2>1, <2>2, <2>3, <3>3
      <4>2. \A m \in 1 .. k - 1 : a[m] = c[m]  BY <2>2, <2>3, <3>3
      <4> QED  BY <4>1, <4>2
    <3> QED  BY <3>1, <3>2, <3>3
  <2> QED  BY <2>4 DEF Precedes, a, c
<1>4. ASSUME NEW x \in P, NEW y \in P, x # y
      PROVE  Precedes(x, y) \/ Precedes(y, x)
  <2> DEFINE a == SortKey(x)
             b == SortKey(y)
  <2>1. /\ \A k \in 1 .. 5 : a[k] \in Int
        /\ \A k \in 1 .. 5 : b[k] \in Int
    BY KeysAre
  <2>2. a[4] # b[4] \/ a[5] # b[5]
    <3>1. x = <<x[1], x[2]>> /\ y = <<y[1], y[2]>>  BY KeysAre
    <3>2. x[1] # y[1] \/ x[2] # y[2]  BY <1>4, <3>1
    <3> QED  BY <3>2, KeysAre
  <2> HIDE DEF a, b
  <2>3. \E h \in 1 .. 5 : a[h] # b[h] /\ \A m \in 1 .. h - 1 : a[m] = b[m]
    <3>1. CASE a[1] # b[1]  BY <3>1
    <3>2. CASE a[1] = b[1] /\ a[2] # b[2]
      <4>1. \A m \in 1 .. 2 - 1 : m = 1  OBVIOUS
      <4> QED  BY <3>2, <4>1
    <3>3. CASE a[1] = b[1] /\ a[2] = b[2] /\ a[3] # b[3]
      <4>1. \A m \in 1 .. 3 - 1 : m = 1 \/ m = 2  OBVIOUS
      <4> QED  BY <3>3, <4>1
    <3>4. CASE a[1] = b[1] /\ a[2] = b[2] /\ a[3] = b[3] /\ a[4] # b[4]
      <4>1. \A m \in 1 .. 4 - 1 : m = 1 \/ m = 2 \/ m = 3  OBVIOUS
      <4> QED  BY <3>4, <4>1
    <3>5. CASE a[1] = b[1] /\ a[2] = b[2] /\ a[3] = b[3] /\ a[4] = b[4] /\ a[5] # b[5]
      <4>1. \A m \in 1 .. 5 - 1 : m = 1 \/ m = 2 \/ m = 3 \/ m = 4  OBVIOUS
      <4> QED  BY <3>5, <4>1
    <3> QED  BY <2>2, <3>1, <3>2, <3>3, <3>4, <3>5
  <2>4. PICK h \in 1 .. 5 : a[h] # b[h] /\ \A m \in 1 .. h - 1 : a[m] = b[m]
    BY <2>3
  <2>5. a[h] < b[h] \/ b[h] < a[h]  BY <2>1, <2>4
  <2> QED  BY <2>4, <2>5 DEF Precedes, a, b
<1> HIDE DEF R
<1>5. StrictOrder(P, R)
  BY <1>1, <1>2, <1>3, <1>4 DEF StrictOrder
<1> QED  BY <1>5 DEF R

(* plan_generator.py names no plan twice.                                  *)
LEMMA GeneratedOnce ==
  ASSUME WorkbookOK
  PROVE  GeneratePlans \in Seq(Rows) /\ IsInjective(GeneratePlans)
<1> DEFINE P == {p \in EnabledDevices \X EnabledTasks : Matches(Device(p), Task(p))}
           R == {r \in P \X P : Precedes(r[1], r[2])}
           n == Cardinality(P)
<1>1. P \subseteq Rows  BY DEF Rows
<1>2. IsFiniteSet(P)
  <2>1. IsFiniteSet(EnabledDevices)
    <3>1. IsFiniteSet(1 .. Len(workbook.devices))  BY FS_Interval DEF WorkbookOK
    <3>2. EnabledDevices \subseteq 1 .. Len(workbook.devices)
      BY DEF WorkbookOK, EnabledDevices
    <3> QED  BY <3>1, <3>2, FS_Subset
  <2>2. IsFiniteSet(EnabledTasks)
    <3>1. IsFiniteSet(1 .. Len(workbook.tasks))  BY FS_Interval DEF WorkbookOK
    <3>2. EnabledTasks \subseteq 1 .. Len(workbook.tasks)
      BY DEF WorkbookOK, EnabledTasks
    <3> QED  BY <3>1, <3>2, FS_Subset
  <2>3. IsFiniteSet(Rows)  BY <2>1, <2>2, FS_Product DEF Rows
  <2> HIDE DEF P
  <2> QED  BY <1>1, <2>3, FS_Subset
<1>3. n \in Nat  BY <1>2, FS_CardinalityType
<1>4. StrictOrder(P, R)  BY <1>1, PrecedesOrders
<1>5. \A x, y \in P : <<x, y>> \in R <=> Precedes(x, y)  OBVIOUS
<1>6. GeneratePlans = CHOOSE ps \in [1 .. n -> P] :
                        \A i, j \in DOMAIN ps : i < j => Precedes(ps[i], ps[j])
  BY DEF GeneratePlans
<1> HIDE DEF P, R, n
<1>7. \E f \in [1 .. n -> P] : \A i, j \in DOMAIN f : i < j => Precedes(f[i], f[j])
  <2>1. PICK f \in [1 .. n -> P] : \A i, j \in DOMAIN f : i < j => <<f[i], f[j]>> \in R
    BY <1>2, <1>4, InOrder DEF n
  <2>2. \A i, j \in DOMAIN f : i < j => Precedes(f[i], f[j])
    BY <1>5, <2>1
  <2> QED  BY <2>2
<1>8. /\ GeneratePlans \in [1 .. n -> P]
      /\ \A i, j \in 1 .. n : i < j => Precedes(GeneratePlans[i], GeneratePlans[j])
  BY <1>6, <1>7
<1>9. IsInjective(GeneratePlans)
  <2> SUFFICES ASSUME NEW i \in 1 .. n, NEW j \in 1 .. n, i < j
               PROVE  GeneratePlans[i] # GeneratePlans[j]
    BY <1>3, <1>8 DEF IsInjective
  <2>1. GeneratePlans[i] \in P /\ <<GeneratePlans[i], GeneratePlans[j]>> \in R
    BY <1>5, <1>8
  <2> QED  BY <1>4, <2>1 DEF StrictOrder
<1> QED  BY <1>1, <1>3, <1>8, <1>9
-----------------------------------------------------------------------------
(* The results of a batch.                                                 *)

AllRows == (DOMAIN workbook.devices) \X (DOMAIN workbook.tasks)

Skips == {"EXEC_SKIPPED_PORT_BLOCKED", "EXEC_SKIPPED_PRECHECK_FAILED"}

LateStatuses ==
  {"EXEC_SUCCESS", "EXEC_FAILED", "EXEC_ERROR",
   "EXEC_SKIPPED_ROUTE_CHANGED", "EXEC_SKIPPED_STOPPED"}

AllResults == [plan : AllRows, status : Skips \cup LateStatuses, good : BOOLEAN]

\* Every plan is in its list once.
Lists ==
  /\ workbook \in Workbooks /\ mode \in Modes
  /\ batch \in Seq(AllRows) /\ IsInjective(batch)
  /\ readyPlans \in Seq(AllRows) /\ IsInjective(readyPlans)
  /\ results \in Seq(AllResults) /\ original \in Seq(AllResults)
  /\ next \in Nat \ {0}

\* Before the preflight nothing is there that could be counted.
Begun ==
  /\ run \in {1, 2}
  /\ pc \in {"idle", "load", "prompt"} => run = 1
  /\ pc = "retry" => run = 2
  /\ run = 1 => ToSet(batch) \subseteq Rows
  /\ pc \in {"idle", "load"} => batch = <<>>
  /\ pc = "idle" => results = <<>>
  /\ pc \in {"cleared", "load", "preflight"} => results = <<>> /\ next = 1 /\ unreported = {}
  /\ pc \in {"idle", "load"} \/ (pc = "cleared" /\ run = 1) => batch = <<>> /\ readyPlans = <<>>

Listed == ToSet(Plans(results))

\* What the preflight has skipped has its result before the others.
Skipped1 == ToSet(batch) \ ToSet(readyPlans)

Executing == {"guard", "schedule", "loop", "wait", "executing"}
Through == {"stopGuard", "join", "write", "prompt", "merge"}

\* How far the plans have got, by the position of the main thread.
Progress ==
  /\ pc \in Executing \cup Through =>
       /\ NoneTwice(results)
       /\ ToSet(readyPlans) \subseteq ToSet(batch)
  /\ pc = "guard" => Listed = Skipped1 /\ next = 1
  /\ pc \in {"guard", "loop", "wait", "executing"} => unreported = {}
  /\ pc \in {"loop", "wait", "executing"} =>
       /\ Listed = Skipped1 \cup {readyPlans[i] : i \in 1 .. next - 1}
       /\ mode = "sequential"
  /\ pc = "loop" => next <= Len(readyPlans) + 1
  /\ pc \in {"wait", "executing"} => next <= Len(readyPlans)
  /\ pc = "schedule" =>
       /\ Skipped1 \subseteq Listed /\ Listed \subseteq ToSet(batch)
       /\ unreported \subseteq ToSet(readyPlans) \ Listed
  /\ pc \in Through => Listed = ToSet(batch) \ unreported

\* Just what the preflight has skipped says so.
Labels ==
  pc \in Executing \cup Through =>
    /\ \A i \in DOMAIN results : results[i].status \in Skips <=> results[i].plan \in Skipped1
    /\ \A p \in ToSet(batch) : p \in ToSet(readyPlans) <=> PlanStatus(p, probe) = "PENDING"

\* The rows of the merged report are those of the first run, or the retries of
\* their failures.
Retried ==
  pc = "merged" =>
    /\ Len(results) = Len(original)
    /\ \A i \in DOMAIN original :
         \/ results[i] = original[i]
         \/ Failed(original[i]) /\ results[i].plan = original[i].plan

BatchInv == Lists /\ Begun /\ Progress /\ Labels /\ Retried

-----------------------------------------------------------------------------
(* What the preflight finds.                                               *)

(* The numbers of a set that is not empty have a least one.                *)
LEMMA Least ==
  ASSUME NEW T, T \subseteq Nat, T # {}
  PROVE  \E x \in T : \A y \in T : x <= y
<1> DEFINE R == OpToRel(<, Nat)
<1>1. IsWellFoundedOn(R, Nat)  BY NatLessThanWellFounded, Zenon
<1>2. \A x, y \in Nat : y < x => <<y, x>> \in R  BY DEF OpToRel
<1>3. PICK x \in T : \A y \in T : <<y, x>> \notin R
  <2> HIDE DEF R
  <2> QED  BY <1>1, WFMin
<1>4. ASSUME NEW y \in T PROVE x <= y
  <2>1. ~(y < x)  BY <1>2, <1>3
  <2> QED  BY <2>1
<1> QED  BY <1>4

(* Where devices have names of their own, a device's row of the report has *)
(* the status of its own endpoint.                                         *)
LEMMA OwnHost ==
  ASSUME WorkbookOK, run = 1, UniqueNames, NEW p \in Rows, NEW protocol
  PROVE  ReportedHost(ProbedDevices, protocol, Device(p).name) = Host(Device(p), protocol)
<1> DEFINE ds == ProbedDevices
           h == Host(Device(p), protocol)
           First == FirstWith(ds, protocol, h)
           places == {d[1] : d \in {c \in ds : Host(c[2], protocol) = h}}
           hosts == {Host(d[2], protocol) : d \in {c \in ds : c[2].name = Device(p).name}}
<1>1. p[1] \in EnabledDevices /\ Device(p) = workbook.devices[p[1]]
  BY DEF Rows, Device
<1>2. \A c \in ds : \E i \in EnabledDevices : c = <<i, workbook.devices[i]>>
  BY DEF ProbedDevices
<1>3. <<p[1], Device(p)>> \in ds  BY <1>1 DEF ProbedDevices
<1>4. hosts = {h}
  <2>1. ASSUME NEW c \in ds, c[2].name = Device(p).name PROVE Host(c[2], protocol) = h
    <3>1. PICK i \in EnabledDevices : c = <<i, workbook.devices[i]>>  BY <1>2
    <3>2. c[2] = workbook.devices[i]  BY <3>1
    <3>3. i = p[1]  BY <1>1, <2>1, <3>2 DEF UniqueNames
    <3> QED  BY <1>1, <3>2, <3>3
  <2>2. h \in hosts
    <3> DEFINE c == <<p[1], Device(p)>>
    <3>1. c \in ds /\ c[2] = Device(p)  BY <1>3
    <3> HIDE DEF c
    <3> QED  BY <3>1
  <2> QED  BY <2>1, <2>2
<1>5. First \in Nat
  <2>1. EnabledDevices \subseteq Nat  BY DEF EnabledDevices, WorkbookOK
  <2>2. places \subseteq Nat
    <3> SUFFICES ASSUME NEW c \in ds PROVE c[1] \in Nat  OBVIOUS
    <3>1. PICK i \in EnabledDevices : c = <<i, workbook.devices[i]>>  BY <1>2
    <3> QED  BY <2>1, <3>1
  <2>3. places # {}
    <3> DEFINE c == <<p[1], Device(p)>>
    <3>1. c \in ds /\ c[2] = Device(p)  BY <1>3
    <3> HIDE DEF c
    <3>2. c[1] \in places  BY <3>1
    <3> QED  BY <3>2
  <2>4. First = CHOOSE i \in places : \A j \in places : i <= j  BY DEF FirstWith
  <2> HIDE DEF places, First
  <2>5. \E i \in places : \A j \in places : i <= j  BY <2>2, <2>3, Least
  <2>6. First \in places  BY <2>4, <2>5
  <2> QED  BY <2>2, <2>6
<1>6. ReportedHost(ds, protocol, Device(p).name) =
        CHOOSE x \in hosts :
          \A g \in hosts : FirstWith(ds, protocol, g) <= FirstWith(ds, protocol, x)
  BY DEF ReportedHost
<1>7. \A g \in hosts : FirstWith(ds, protocol, g) <= FirstWith(ds, protocol, h)
  BY <1>4, <1>5
<1> HIDE DEF ds, hosts, h, First
<1> QED  BY <1>4, <1>6, <1>7 DEF ds, h

(* A plan is left to execute just when its endpoint was found in order.    *)
LEMMA ReadyIsReachable ==
  ASSUME WorkbookOK, run = 1, UniqueNames, NEW p \in Rows
  PROVE  PlanStatus(p, probe) = "PENDING" <=> Reachable(p)
<1>1. ReportedHost(ProbedDevices, Protocol(p), Device(p).name) = Host(Device(p), Protocol(p))
  BY OwnHost
<1> QED  BY <1>1 DEF PlanStatus, Reachable

(* A plan that is skipped has one of two statuses.                         *)
LEMMA StatusIs ==
  ASSUME NEW p, NEW f
  PROVE  PlanStatus(p, f) = "PENDING" \/ PlanStatus(p, f) \in Skips
BY DEF PlanStatus, Skips

-----------------------------------------------------------------------------
(* Lists of results.                                                       *)

LEMMA PlansAre ==
  ASSUME NEW rs \in Seq(AllResults)
  PROVE  /\ Plans(rs) \in Seq(AllRows) /\ Len(Plans(rs)) = Len(rs)
         /\ DOMAIN Plans(rs) = 1 .. Len(rs) /\ DOMAIN rs = 1 .. Len(rs)
         /\ \A i \in 1 .. Len(rs) : Plans(rs)[i] = rs[i].plan /\ rs[i] \in AllResults
         /\ ToSet(Plans(rs)) = {rs[i].plan : i \in 1 .. Len(rs)}
<1>1. \A i \in 1 .. Len(rs) : rs[i] \in AllResults /\ rs[i].plan \in AllRows
  <2>1. \A r \in AllResults : r.plan \in AllRows  BY DEF AllResults
  <2> QED  BY <2>1
<1>2. Plans(rs) = [i \in 1 .. Len(rs) |-> rs[i].plan]  BY DEF Plans
<1>3. Plans(rs) \in Seq(AllRows) /\ Len(Plans(rs)) = Len(rs)  BY <1>1, <1>2
<1> QED  BY <1>1, <1>2, <1>3 DEF ToSet

(* A list that names no plan twice.                                        *)
LEMMA OnceEach ==
  ASSUME NEW rs \in Seq(AllResults), IsInjective(Plans(rs))
  PROVE  NoneTwice(rs)
<1>1. \A i \in DOMAIN rs : i \in DOMAIN Plans(rs) /\ Plans(rs)[i] = rs[i].plan  BY PlansAre
<1>2. \A i, j \in DOMAIN rs : rs[i].plan = rs[j].plan => i = j
  BY <1>1 DEF IsInjective
<1>3. \A i, j \in DOMAIN rs : i < j => i # j  OBVIOUS
<1> QED  BY <1>2, <1>3 DEF NoneTwice

(* Results of other plans are added to a list.                             *)
LEMMA Adds ==
  ASSUME NEW rs \in Seq(AllResults), NEW new \in Seq(AllResults),
         NoneTwice(rs), NoneTwice(new),
         ToSet(Plans(rs)) \cap ToSet(Plans(new)) = {}
  PROVE  /\ rs \o new \in Seq(AllResults)
         /\ NoneTwice(rs \o new)
         /\ ToSet(Plans(rs \o new)) = ToSet(Plans(rs)) \cup ToSet(Plans(new))
         /\ \A i \in DOMAIN (rs \o new) :
              \/ \E j \in DOMAIN rs : (rs \o new)[i] = rs[j]
              \/ \E j \in DOMAIN new : (rs \o new)[i] = new[j]
<1> DEFINE all == rs \o new
<1>1. /\ all \in Seq(AllResults) /\ Len(all) = Len(rs) + Len(new)
      /\ \A i \in 1 .. Len(rs) : all[i] = rs[i]
      /\ \A i \in 1 .. Len(new) : all[Len(rs) + i] = new[i]
      /\ \A i \in 1 .. Len(all) : i \in 1 .. Len(rs) \/ i - Len(rs) \in 1 .. Len(new)
      /\ Len(rs) \in Nat /\ Len(new) \in Nat
  OBVIOUS
<1> HIDE DEF all
<1>2. \A i \in 1 .. Len(rs) : i \in 1 .. Len(all)  BY <1>1
<1>3. \A i \in 1 .. Len(new) : Len(rs) + i \in 1 .. Len(all)  BY <1>1
<1>4. \A i \in 1 .. Len(all) :
        \/ i \in 1 .. Len(rs) /\ all[i] = rs[i]
        \/ \E j \in 1 .. Len(new) : i = Len(rs) + j /\ all[i] = new[j]
  <2> TAKE i \in 1 .. Len(all)
  <2>1. CASE i \in 1 .. Len(rs)  BY <1>1, <2>1
  <2>2. CASE i - Len(rs) \in 1 .. Len(new)
    <3> DEFINE j == i - Len(rs)
    <3>1. i = Len(rs) + j  BY <1>1
    <3> HIDE DEF j
    <3>2. j \in 1 .. Len(new)  BY <2>2 DEF j
    <3> QED  BY <1>1, <3>1, <3>2
  <2> QED  BY <1>1, <2>1, <2>2
<1>5. /\ \A i \in 1 .. Len(rs) : rs[i].plan \in ToSet(Plans(rs))
      /\ \A i \in 1 .. Len(new) : new[i].plan \in ToSet(Plans(new))
  BY PlansAre
<1>6. NoneTwice(all)
  <2> DEFINE Told(qs, i, j) == mode = "sequential" /\ j = i + 1 /\ qs[j].status = "EXEC_ERROR"
  <2>0. /\ \A i, j \in 1 .. Len(rs) : i < j /\ rs[i].plan = rs[j].plan => Told(rs, i, j)
        /\ \A i, j \in 1 .. Len(new) : i < j /\ new[i].plan = new[j].plan => Told(new, i, j)
    <3>1. DOMAIN rs = 1 .. Len(rs) /\ DOMAIN new = 1 .. Len(new)  OBVIOUS
    <3> QED  BY <3>1 DEF NoneTwice
  <2> SUFFICES ASSUME NEW i \in 1 .. Len(all), NEW j \in 1 .. Len(all),
                      i < j, all[i].plan = all[j].plan
               PROVE  Told(all, i, j)
    BY <1>1 DEF NoneTwice
  <2>1. CASE i \in 1 .. Len(rs) /\ all[i] = rs[i]
    <3>1. CASE j \in 1 .. Len(rs) /\ all[j] = rs[j]  BY <2>0, <2>1, <3>1
    <3>2. CASE \E l \in 1 .. Len(new) : j = Len(rs) + l /\ all[j] = new[l]
      BY <1>5, <2>1, <3>2
    <3> QED  BY <1>4, <3>1, <3>2
  <2>2. CASE \E k \in 1 .. Len(new) : i = Len(rs) + k /\ all[i] = new[k]
    <3>0. PICK k \in 1 .. Len(new) : i = Len(rs) + k /\ all[i] = new[k]  BY <2>2
    <3>1. CASE j \in 1 .. Len(rs) /\ all[j] = rs[j]  BY <1>5, <3>0, <3>1
    <3>2. CASE \E l \in 1 .. Len(new) : j = Len(rs) + l /\ all[j] = new[l]
      <4>1. PICK l \in 1 .. Len(new) : j = Len(rs) + l /\ all[j] = new[l]  BY <3>2
      <4>2. k < l /\ new[k].plan = new[l].plan  BY <1>1, <3>0, <4>1
      <4>3. Told(new, k, l)  BY <2>0, <4>2
      <4> QED  BY <1>1, <3>0, <4>1, <4>3
    <3> QED  BY <1>4, <3>1, <3>2
  <2> QED  BY <1>4, <2>1, <2>2
<1>7. ToSet(Plans(all)) = ToSet(Plans(rs)) \cup ToSet(Plans(new))
  <2>1. /\ ToSet(Plans(all)) = {all[i].plan : i \in 1 .. Len(all)}
        /\ ToSet(Plans(rs)) = {rs[i].plan : i \in 1 .. Len(rs)}
        /\ ToSet(Plans(new)) = {new[i].plan : i \in 1 .. Len(new)}
    BY <1>1, PlansAre
  <2>2. ASSUME NEW i \in 1 .. Len(all)
        PROVE  all[i].plan \in ToSet(Plans(rs)) \cup ToSet(Plans(new))
    BY <1>4, <1>5
  <2>3. ASSUME NEW i \in 1 .. Len(rs) PROVE rs[i].plan \in ToSet(Plans(all))
    BY <1>1, <1>2, <2>1
  <2>4. ASSUME NEW i \in 1 .. Len(new) PROVE new[i].plan \in ToSet(Plans(all))
    <3>1. Len(rs) + i \in 1 .. Len(all) /\ all[Len(rs) + i] = new[i]  BY <1>1, <1>3
    <3> QED  BY <2>1, <3>1
  <2> QED  BY <2>1, <2>2, <2>3, <2>4
<1>8. DOMAIN all = 1 .. Len(all) /\ DOMAIN rs = 1 .. Len(rs) /\ DOMAIN new = 1 .. Len(new)
  BY <1>1
<1> QED  BY <1>1, <1>4, <1>6, <1>7, <1>8 DEF all

(* One result for each of some plans.                                      *)
LEMMA OneEach ==
  ASSUME NEW ps \in Seq(AllRows), IsInjective(ps), NEW new,
         new \in Seq(AllResults), Len(new) = Len(ps),
         \A i \in 1 .. Len(ps) : new[i].plan = ps[i]
  PROVE  NoneTwice(new) /\ ToSet(Plans(new)) = ToSet(ps)
<1>1. Plans(new) = ps
  <2>1. /\ Plans(new) \in Seq(AllRows) /\ Len(Plans(new)) = Len(ps)
        /\ \A i \in 1 .. Len(ps) : Plans(new)[i] = ps[i]
    BY PlansAre
  <2> QED  BY <2>1
<1> QED  BY <1>1, OnceEach

-----------------------------------------------------------------------------
(* The steps.                                                              *)

countVars ==
  <<workbook, mode, run, batch, probe, readyPlans, results, unreported, original, next>>

LEMMA SameBooks ==
  ASSUME UNCHANGED workbook
  PROVE  Rows' = Rows /\ AllRows' = AllRows /\ AllResults' = AllResults
BY DEF Rows, AllRows, AllResults, EnabledDevices, EnabledTasks

LEMMA SameStatus ==
  ASSUME UNCHANGED <<workbook, run, batch>>, NEW p, NEW f
  PROVE  (PlanStatus(p, f))' = PlanStatus(p, f')
<1>1. EnabledDevices' = EnabledDevices  BY DEF EnabledDevices
<1>2. Device(p)' = Device(p) /\ Protocol(p)' = Protocol(p)
  BY DEF Device, Protocol, Task
<1>3. ProbedDevices' = ProbedDevices  BY <1>1 DEF ProbedDevices, Device
<1> QED  BY <1>2, <1>3 DEF PlanStatus

LEMMA Same ==
  ASSUME BatchInv, UNCHANGED countVars
  PROVE  /\ Lists' /\ Rows' = Rows
         /\ Listed' = Listed /\ Skipped1' = Skipped1
         /\ ToSet(batch)' = ToSet(batch) /\ ToSet(readyPlans)' = ToSet(readyPlans)
         /\ NoneTwice(results)' <=> NoneTwice(results)
         /\ \A p : (PlanStatus(p, probe))' = PlanStatus(p, probe)
<1> USE DEF countVars
<1>1. Rows' = Rows /\ AllRows' = AllRows /\ AllResults' = AllResults  BY SameBooks
<1>2. Lists'  BY <1>1 DEF BatchInv, Lists, IsInjective
<1>3. \A p : (PlanStatus(p, probe))' = PlanStatus(p, probe)
  BY SameStatus
<1>4. Plans(results)' = Plans(results)  BY DEF Plans
<1>5. NoneTwice(results)' <=> NoneTwice(results)  BY DEF NoneTwice
<1> QED  BY <1>1, <1>2, <1>3, <1>4, <1>5 DEF Listed, Skipped1, ToSet

(* The steps that leave the plans and results alone.                       *)
LEMMA Rests ==
  ASSUME BatchInv, UNCHANGED countVars, UNCHANGED pc
  PROVE  BatchInv'
<1> USE DEF countVars
<1>1. Begun' /\ Progress'
  BY Same DEF BatchInv, Begun, Progress
<1>2. Labels'  BY Same DEF BatchInv, Labels
<1>3. Retried'  BY DEF BatchInv, Retried, Failed
<1> QED  BY <1>1, <1>2, <1>3, Same DEF BatchInv

(* The main thread goes on from where all that it takes is done.           *)
LEMMA GoesOn ==
  ASSUME BatchInv, UNCHANGED countVars,
         \/ pc = "guard" /\ pc' = "schedule"
         \/ pc = "guard" /\ pc' = "loop" /\ mode # "full"
         \/ pc = "loop" /\ pc' = "stopGuard" /\ next > Len(readyPlans)
         \/ pc = "loop" /\ pc' = "wait" /\ next <= Len(readyPlans)
         \/ pc = "wait" /\ pc' = "executing"
         \/ pc = "stopGuard" /\ pc' = "join"
         \/ pc = "join" /\ pc' = "write"
         \/ pc = "write" /\ pc' = "prompt" /\ run = 1
         \/ pc = "write" /\ pc' = "merge" /\ run # 1
  PROVE  BatchInv'
<1> USE DEF countVars
<1>0. pc \in Executing \cup Through /\ pc' \in Executing \cup Through
  BY DEF Executing, Through
<1>1. Begun'
  BY Same DEF BatchInv, Begun
<1>2. /\ next \in Nat \ {0} /\ Len(readyPlans) \in Nat
      /\ readyPlans \in Seq(AllRows) /\ ToSet(readyPlans) \subseteq ToSet(batch)
      /\ DOMAIN readyPlans = 1 .. Len(readyPlans)
  BY <1>0 DEF BatchInv, Lists, Progress
<1>3. Skipped1 \cup ToSet(readyPlans) = ToSet(batch)
  BY <1>2 DEF Skipped1
<1>4. pc = "loop" /\ next > Len(readyPlans) => Listed = ToSet(batch)
  <2> SUFFICES ASSUME pc = "loop", next > Len(readyPlans) PROVE Listed = ToSet(batch)
    OBVIOUS
  <2>1. next - 1 = Len(readyPlans)  BY <1>2 DEF BatchInv, Progress
  <2>2. Listed = Skipped1 \cup {readyPlans[i] : i \in 1 .. Len(readyPlans)}
    BY <2>1 DEF BatchInv, Progress
  <2> QED  BY <1>2, <1>3, <2>2 DEF ToSet
<1>5. Progress'
  <2>1. NoneTwice(results)' /\ (ToSet(readyPlans) \subseteq ToSet(batch))'
    BY <1>0, Same DEF BatchInv, Progress
  <2>2. pc' # "guard"  OBVIOUS
  <2>8. pc' \in {"loop", "wait", "executing"} => unreported = {} /\ mode = "sequential"
    BY AppAssumption DEF BatchInv, Progress, Lists
  <2>3. pc' \in {"loop", "wait", "executing"} =>
          Listed = Skipped1 \cup {readyPlans[i] : i \in 1 .. next - 1}
    <3>1. CASE pc = "guard"
      <4>1. Listed = Skipped1 /\ 1 .. next - 1 = {}  BY <3>1 DEF BatchInv, Progress
      <4> QED  BY <4>1
    <3>2. CASE pc # "guard"  BY <3>2 DEF BatchInv, Progress
    <3> QED  BY <3>1, <3>2
  <2>4. pc' = "loop" => next <= Len(readyPlans) + 1
    BY <1>2 DEF BatchInv, Progress
  <2>5. pc' \in {"wait", "executing"} => next <= Len(readyPlans)
    BY DEF BatchInv, Progress
  <2>6. pc' = "schedule" =>
          /\ Skipped1 \subseteq Listed /\ Listed \subseteq ToSet(batch)
          /\ unreported \subseteq ToSet(readyPlans) \ Listed
    BY <1>3 DEF BatchInv, Progress
  <2>7. pc' \in Through => Listed = ToSet(batch) \ unreported
    BY <1>4 DEF BatchInv, Progress, Through
  <2> QED  BY <2>1, <2>2, <2>3, <2>4, <2>5, <2>6, <2>7, <2>8, Same DEF Progress
<1>6. Labels'  BY <1>0, Same DEF BatchInv, Labels
<1>7. Retried'  BY DEF BatchInv, Retried, Failed
<1> QED  BY <1>1, <1>5, <1>6, <1>7, Same DEF BatchInv

(* The command ends.                                                       *)
LEMMA Exits ==
  ASSUME BatchInv, UNCHANGED countVars, pc' = "exit"
  PROVE  BatchInv'
<1> USE DEF countVars
<1>1. Begun' /\ Progress' /\ Labels'
  BY Same DEF BatchInv, Begun, Progress, Labels, Executing, Through
<1>2. Retried'  BY DEF Retried
<1> QED  BY <1>1, <1>2, Same DEF BatchInv

(* Results of plans that had none are added.                               *)
LEMMA Tells ==
  ASSUME BatchInv, pc \in Executing,
         UNCHANGED <<workbook, mode, run, batch, probe, readyPlans, unreported, original>>,
         NEW new \in Seq(AllResults), results' = results \o new,
         NoneTwice(new), ToSet(Plans(new)) \cap Listed = {},
         ToSet(Plans(new)) \subseteq ToSet(readyPlans) \ unreported,
         \A i \in DOMAIN new : new[i].status \notin Skips,
         next' \in Nat \ {0}, pc' \in {"schedule", "loop", "stopGuard"},
         pc' = "schedule" => pc = "schedule",
         pc' = "loop" =>
           /\ Listed \cup ToSet(Plans(new)) = Skipped1 \cup {readyPlans[i] : i \in 1 .. next' - 1}
           /\ next' <= Len(readyPlans) + 1 /\ mode = "sequential" /\ unreported = {},
         pc' = "stopGuard" => Listed \cup ToSet(Plans(new)) = ToSet(batch) \ unreported
  PROVE  BatchInv'
<1>1. /\ results \in Seq(AllResults) /\ NoneTwice(results)
      /\ ToSet(readyPlans) \subseteq ToSet(batch)
  BY DEF BatchInv, Lists, Progress
<1>2. /\ results' \in Seq(AllResults)
      /\ NoneTwice(results \o new)
      /\ ToSet(Plans(results')) = Listed \cup ToSet(Plans(new))
      /\ \A i \in DOMAIN results' :
           \/ \E j \in DOMAIN results : results'[i] = results[j]
           \/ \E j \in DOMAIN new : results'[i] = new[j]
  BY <1>1, Adds DEF Listed
<1>3. Rows' = Rows /\ AllRows' = AllRows /\ AllResults' = AllResults  BY SameBooks
<1>4. \A p : (PlanStatus(p, probe))' = PlanStatus(p, probe)  BY SameStatus
<1>5. /\ Listed' = Listed \cup ToSet(Plans(new)) /\ Skipped1' = Skipped1
      /\ ToSet(batch)' = ToSet(batch) /\ ToSet(readyPlans)' = ToSet(readyPlans)
      /\ NoneTwice(results)'
  <2>1. Listed' = ToSet(Plans(results'))  BY DEF Listed, ToSet, Plans
  <2>2. NoneTwice(results)'  BY <1>2 DEF NoneTwice
  <2>3. ToSet(batch)' = ToSet(batch) /\ ToSet(readyPlans)' = ToSet(readyPlans)  BY DEF ToSet
  <2>4. Skipped1' = Skipped1  BY <2>3 DEF Skipped1
  <2> QED  BY <1>2, <2>1, <2>2, <2>3, <2>4
<1>6. Lists'  BY <1>2, <1>3 DEF BatchInv, Lists, IsInjective
<1>7. Begun'
  <2>1. pc' \notin {"idle", "prompt", "cleared", "load", "preflight"}  OBVIOUS
  <2> QED  BY <1>3, <1>5, <2>1 DEF BatchInv, Begun
<1>8. Progress'
  <2>1. pc' \notin {"guard", "wait", "executing"}  OBVIOUS
  <2>2. pc' = "schedule" =>
          /\ Skipped1 \subseteq Listed' /\ Listed' \subseteq ToSet(batch)
          /\ unreported \subseteq ToSet(readyPlans) \ Listed'
    BY <1>1, <1>5 DEF BatchInv, Progress
  <2>3. pc' \in Through => pc' = "stopGuard"  BY DEF Through
  <2> QED  BY <1>1, <1>5, <2>1, <2>2, <2>3 DEF Progress
<1>9. Labels'
  <2>1. \A i \in DOMAIN results : results[i].status \in Skips <=> results[i].plan \in Skipped1
    BY DEF BatchInv, Labels
  <2>2. ASSUME NEW i \in DOMAIN new PROVE new[i].plan \notin Skipped1
    <3>1. new[i].plan \in ToSet(Plans(new))  BY PlansAre
    <3> QED  BY <3>1 DEF Skipped1
  <2>3. \A i \in DOMAIN results' : results'[i].status \in Skips <=> results'[i].plan \in Skipped1
    BY <1>2, <2>1, <2>2
  <2>4. \A p \in ToSet(batch) : p \in ToSet(readyPlans) <=> PlanStatus(p, probe) = "PENDING"
    BY DEF BatchInv, Labels
  <2> QED  BY <1>4, <1>5, <2>3, <2>4 DEF Labels
<1>10. Retried'
  <2>1. pc' # "merged"  OBVIOUS
  <2> QED  BY <2>1 DEF Retried
<1> QED  BY <1>6, <1>7, <1>8, <1>9, <1>10 DEF BatchInv

LEMMA ResultIs ==
  ASSUME NEW p \in AllRows, NEW status \in Skips \cup LateStatuses, NEW good \in BOOLEAN
  PROVE  /\ Result(p, status, good) \in AllResults
         /\ Result(p, status, good).plan = p /\ Result(p, status, good).status = status
         /\ Result(p, status, good).good = good
BY DEF Result, AllResults

(* What is left over is skipped, with a status that the preflight has not. *)
LEMMA SkipsRest ==
  ASSUME NEW ps \in Seq(AllRows), IsInjective(ps), NEW why, NEW new,
         new = [i \in DOMAIN ps |-> Skipped(ps[i], why)]
  PROVE  /\ new \in Seq(AllResults) /\ NoneTwice(new) /\ ToSet(Plans(new)) = ToSet(ps)
         /\ \A i \in DOMAIN new : new[i].status \notin Skips
<1>1. ASSUME NEW p \in AllRows
      PROVE  /\ Skipped(p, why) \in AllResults /\ Skipped(p, why).plan = p
             /\ Skipped(p, why).status \notin Skips
  <2> DEFINE status == IF why = "route_change" THEN "EXEC_SKIPPED_ROUTE_CHANGED"
                       ELSE "EXEC_SKIPPED_STOPPED"
  <2>1. status \in LateStatuses /\ status \notin Skips  BY DEF Skips, LateStatuses
  <2>2. PICK good \in BOOLEAN : good = FALSE  OBVIOUS
  <2>3. Skipped(p, why) = Result(p, status, good)  BY <2>2 DEF Skipped
  <2> HIDE DEF status
  <2> QED  BY <2>1, <2>3, ResultIs
<1>2. /\ new = [i \in 1 .. Len(ps) |-> Skipped(ps[i], why)]
      /\ \A i \in 1 .. Len(ps) : ps[i] \in AllRows
  OBVIOUS
<1> HIDE DEF AllRows, AllResults
<1>3. new \in [1 .. Len(ps) -> AllResults]  BY <1>1, <1>2
<1>4. new \in Seq(AllResults) /\ Len(new) = Len(ps) /\ DOMAIN new = 1 .. Len(ps)
  <2>1. Len(ps) \in Nat  OBVIOUS
  <2> QED  BY <1>3, <2>1
<1>5. \A i \in 1 .. Len(ps) : new[i].plan = ps[i] /\ new[i].status \notin Skips
  BY <1>1, <1>2
<1> QED  BY <1>4, <1>5, OneEach

LEMMA LoopKeeps ==
  ASSUME BatchInv, LoopStep
  PROVE  BatchInv'
<1> USE DEF batchVars, resultVars
<1>1. CASE /\ UNCHANGED results /\ pc = "loop"
           /\ \/ next > Len(readyPlans) /\ pc' = "stopGuard"
              \/ next <= Len(readyPlans) /\ pc' = "wait"
  <2>1. UNCHANGED countVars  BY <1>1 DEF LoopStep, countVars
  <2> QED  BY <1>1, <2>1, GoesOn
<1>2. CASE /\ next <= Len(readyPlans) /\ pc = "loop" /\ pc' = "stopGuard"
           /\ results' = results \o [i \in DOMAIN Remaining |-> Skipped(Remaining[i], reason)]
  <2> DEFINE new == [i \in DOMAIN Remaining |-> Skipped(Remaining[i], reason)]
             n == Len(readyPlans)
  <2>1. /\ readyPlans \in Seq(AllRows) /\ IsInjective(readyPlans) /\ next \in Nat \ {0}
        /\ n \in Nat /\ DOMAIN readyPlans = 1 .. n
        /\ ToSet(readyPlans) \subseteq ToSet(batch)
        /\ Listed = Skipped1 \cup {readyPlans[i] : i \in 1 .. next - 1}
        /\ unreported = {}
    BY <1>2 DEF BatchInv, Lists, Progress, Executing
  <2>2. /\ Remaining \in Seq(AllRows) /\ DOMAIN Remaining = 1 .. n - next + 1
        /\ \A i \in 1 .. n - next + 1 : Remaining[i] = readyPlans[next + i - 1]
    BY <1>2, <2>1 DEF Remaining
  <2>3. IsInjective(Remaining)
    <3> SUFFICES ASSUME NEW i \in 1 .. n - next + 1, NEW j \in 1 .. n - next + 1,
                        Remaining[i] = Remaining[j]
                 PROVE  i = j
      BY <2>2 DEF IsInjective
    <3>1. next + i - 1 \in 1 .. n /\ next + j - 1 \in 1 .. n  BY <2>1
    <3>2. readyPlans[next + i - 1] = readyPlans[next + j - 1]  BY <2>2
    <3>3. next + i - 1 = next + j - 1  BY <2>1, <3>1, <3>2 DEF IsInjective
    <3> QED  BY <2>1, <3>3
  <2>4. ToSet(Remaining) = {readyPlans[i] : i \in next .. n}
    <3>1. ASSUME NEW i \in next .. n PROVE readyPlans[i] \in ToSet(Remaining)
      <4>1. i - next + 1 \in 1 .. n - next + 1 /\ next + (i - next + 1) - 1 = i  BY <2>1
      <4>2. Remaining[i - next + 1] = readyPlans[i]  BY <2>2, <4>1
      <4> QED  BY <2>2, <4>1, <4>2 DEF ToSet
    <3>2. ASSUME NEW i \in 1 .. n - next + 1
          PROVE  Remaining[i] \in {readyPlans[j] : j \in next .. n}
      <4>1. next + i - 1 \in next .. n  BY <2>1
      <4> QED  BY <2>2, <4>1
    <3> QED  BY <2>2, <3>1, <3>2 DEF ToSet
  <2>5. /\ new \in Seq(AllResults) /\ NoneTwice(new)
        /\ ToSet(Plans(new)) = {readyPlans[i] : i \in next .. n}
        /\ \A i \in DOMAIN new : new[i].status \notin Skips
    BY <2>2, <2>3, <2>4, SkipsRest
  <2> HIDE DEF new
  <2>6. ToSet(Plans(new)) \cap Listed = {}
    <3> SUFFICES ASSUME NEW i \in next .. n PROVE readyPlans[i] \notin Listed
      BY <2>5
    <3>1. i \in 1 .. n  BY <2>1
    <3>2. readyPlans[i] \notin Skipped1  BY <2>1, <3>1 DEF Skipped1, ToSet
    <3>3. ASSUME NEW j \in 1 .. next - 1 PROVE readyPlans[i] # readyPlans[j]
      <4>1. j \in 1 .. n /\ i # j  BY <1>2, <2>1
      <4> QED  BY <2>1, <3>1, <4>1 DEF IsInjective
    <3> QED  BY <2>1, <3>2, <3>3
  <2>7. ToSet(Plans(new)) \subseteq ToSet(readyPlans)
    <3>1. \A i \in next .. n : i \in 1 .. n  BY <2>1
    <3> QED  BY <2>1, <2>5, <3>1 DEF ToSet
  <2>8. Listed \cup ToSet(Plans(new)) = ToSet(batch)
    <3>1. \A i \in 1 .. n : i \in 1 .. next - 1 \/ i \in next .. n  BY <2>1
    <3>2. \A i \in 1 .. next - 1 : i \in 1 .. n  BY <1>2, <2>1
    <3>3. ToSet(readyPlans) = {readyPlans[i] : i \in 1 .. next - 1} \cup ToSet(Plans(new))
      BY <2>1, <2>5, <2>7, <3>1, <3>2 DEF ToSet
    <3> QED  BY <2>1, <3>3 DEF Skipped1
  <2>9. /\ UNCHANGED <<workbook, mode, run, batch, probe, readyPlans, unreported, original, next>>
        /\ results' = results \o new
    BY <1>2 DEF LoopStep, new
  <2>10. next' \in Nat \ {0}  BY <2>1, <2>9
  <2>11. pc \in Executing /\ pc' \in {"schedule", "loop", "stopGuard"}
         /\ pc' # "schedule" /\ pc' # "loop"
    BY <1>2 DEF Executing
  <2> QED  BY <2>1, <2>5, <2>6, <2>7, <2>8, <2>9, <2>10, <2>11, Tells
<1> QED  BY <1>1, <1>2 DEF LoopStep

Crash(p) == Result(p, "EXEC_ERROR", FALSE)

(* What was executed has a status that the preflight has not.              *)
LEMMA ExecutedIs ==
  ASSUME NEW p \in AllRows, NEW r, r \in Executed(p) \/ r = Crash(p)
  PROVE  r \in AllResults /\ r.plan = p /\ r.status \notin Skips
<1>1. PICK status \in {"EXEC_FAILED", "EXEC_SUCCESS", "EXEC_ERROR"}, good \in BOOLEAN :
        r = Result(p, status, good)
  BY DEF Executed, Crash
<1>2. status \in LateStatuses /\ status \notin Skips  BY DEF Skips, LateStatuses
<1> QED  BY <1>1, <1>2, ResultIs

(* One result of a plan.                                                   *)
LEMMA OneIs ==
  ASSUME NEW p \in AllRows, NEW r, r \in Executed(p) \/ r = Crash(p)
  PROVE  /\ <<r>> \in Seq(AllResults) /\ NoneTwice(<<r>>)
         /\ ToSet(Plans(<<r>>)) = {p}
         /\ \A i \in DOMAIN <<r>> : <<r>>[i].status \notin Skips
<1>1. r \in AllResults /\ r.plan = p /\ r.status \notin Skips  BY ExecutedIs
<1>2. <<r>> \in Seq(AllResults) /\ DOMAIN <<r>> = {1} /\ <<r>>[1] = r /\ Len(<<r>>) = 1
  BY <1>1
<1>3. <<p>> \in Seq(AllRows) /\ IsInjective(<<p>>) /\ Len(<<p>>) = 1 /\ <<p>>[1] = p
      /\ ToSet(<<p>>) = {p}
  BY DEF IsInjective, ToSet
<1>4. \A i \in 1 .. Len(<<p>>) : <<r>>[i].plan = <<p>>[i]
  BY <1>1, <1>2, <1>3
<1> QED  BY <1>1, <1>2, <1>3, <1>4, OneEach

(* A result and the EXEC_ERROR of the same plan after it.                  *)
LEMMA TwoAre ==
  ASSUME NEW p \in AllRows, NEW r \in Executed(p), mode = "sequential", NEW new,
         new = <<r, Crash(p)>>
  PROVE  /\ new \in Seq(AllResults) /\ NoneTwice(new)
         /\ ToSet(Plans(new)) = {p}
         /\ \A i \in DOMAIN new : new[i].status \notin Skips
<1>1. /\ r \in AllResults /\ r.plan = p /\ r.status \notin Skips
      /\ Crash(p) \in AllResults /\ Crash(p).plan = p /\ Crash(p).status \notin Skips
  BY ExecutedIs
<1>2. Crash(p).status = "EXEC_ERROR"  BY DEF Crash, Result
<1>3. /\ new \in Seq(AllResults) /\ DOMAIN new = {1, 2} /\ Len(new) = 2
      /\ new[1] = r /\ new[2] = Crash(p)
  <2> DEFINE q == Crash(p)
  <2>1. q \in AllResults /\ new = <<r, q>>  BY <1>1
  <2> HIDE DEF q
  <2>2. <<r, q>> \in Seq(AllResults) /\ Len(<<r, q>>) = 2  BY <1>1, <2>1
  <2> QED  BY <2>1, <2>2 DEF q
<1>4. NoneTwice(new)
  <2>1. \A i, j \in DOMAIN new : i < j => i = 1 /\ j = 2  BY <1>3
  <2> QED  BY <1>2, <1>3, <2>1 DEF NoneTwice
<1>5. \A i \in DOMAIN new : new[i].plan = p /\ new[i].status \notin Skips  BY <1>1, <1>3
<1>6. ToSet(Plans(new)) = {p}
  <2>1. ToSet(Plans(new)) = {new[i].plan : i \in 1 .. Len(new)}  BY <1>3, PlansAre
  <2> QED  BY <1>3, <1>5, <2>1
<1> QED  BY <1>3, <1>4, <1>5, <1>6

LEMMA EndKeeps ==
  ASSUME BatchInv, EndPlan
  PROVE  BatchInv'
<1> USE DEF batchVars, resultVars
<1> DEFINE p == readyPlans[next]
           n == Len(readyPlans)
<1>1. /\ pc = "executing" /\ pc' = "loop" /\ next' = next + 1
      /\ UNCHANGED <<workbook, mode, run, batch, probe, readyPlans, unreported, original>>
  BY DEF EndPlan
<1>3. /\ readyPlans \in Seq(AllRows) /\ IsInjective(readyPlans) /\ next \in Nat \ {0}
      /\ n \in Nat /\ DOMAIN readyPlans = 1 .. n /\ next \in 1 .. n
      /\ ToSet(readyPlans) \subseteq ToSet(batch) /\ results \in Seq(AllResults)
      /\ Listed = Skipped1 \cup {readyPlans[i] : i \in 1 .. next - 1}
      /\ mode = "sequential" /\ unreported = {}
  BY <1>1 DEF BatchInv, Lists, Progress, Executing
<1>4. p \in AllRows /\ p \in ToSet(readyPlans)  BY <1>3 DEF ToSet
<1>6. p \notin Listed
  <2>1. p \notin Skipped1  BY <1>4 DEF Skipped1
  <2>2. ASSUME NEW j \in 1 .. next - 1 PROVE p # readyPlans[j]
    <3>1. j \in 1 .. n /\ j # next  BY <1>3
    <3> QED  BY <1>3, <3>1 DEF IsInjective
  <2> QED  BY <1>3, <2>1, <2>2
<1>7. Listed \cup {p} = Skipped1 \cup {readyPlans[i] : i \in 1 .. next' - 1}
  <2>1. \A i \in 1 .. next' - 1 : i \in 1 .. next - 1 \/ i = next  BY <1>1, <1>3
  <2>2. \A i \in 1 .. next - 1 : i \in 1 .. next' - 1  BY <1>1, <1>3
  <2>3. next \in 1 .. next' - 1  BY <1>1, <1>3
  <2> QED  BY <1>3, <2>1, <2>2, <2>3
<1>8. next' \in Nat \ {0} /\ next' <= n + 1  BY <1>1, <1>3
<1>9. pc \in Executing /\ pc' \in {"schedule", "loop", "stopGuard"}
      /\ pc' # "schedule" /\ pc' # "stopGuard"
  BY <1>1 DEF Executing
<1>2. \/ \E r : (r \in Executed(p) \/ r = Crash(p)) /\ results' = Append(results, r)
      \/ \E r \in Executed(p) : results' = results \o <<r, Crash(p)>>
  BY DEF EndPlan, Crash
<1> HIDE DEF p
<1>5. \E new \in Seq(AllResults) :
        /\ results' = results \o new /\ NoneTwice(new) /\ ToSet(Plans(new)) = {p}
        /\ \A i \in DOMAIN new : new[i].status \notin Skips
  <2>1. ASSUME NEW r, r \in Executed(p) \/ r = Crash(p), results' = Append(results, r)
        PROVE  results' = results \o <<r>>
    <3>1. r \in AllResults  BY <1>4, <2>1, ExecutedIs
    <3> QED  BY <1>3, <2>1, <3>1
  <2>2. CASE \E r : (r \in Executed(p) \/ r = Crash(p)) /\ results' = Append(results, r)
    <3>1. PICK r : (r \in Executed(p) \/ r = Crash(p)) /\ results' = Append(results, r)
      BY <2>2
    <3> DEFINE new == <<r>>
    <3>2. results' = results \o new  BY <2>1, <3>1
    <3>3. /\ new \in Seq(AllResults) /\ NoneTwice(new) /\ ToSet(Plans(new)) = {p}
          /\ \A i \in DOMAIN new : new[i].status \notin Skips
      BY <1>4, <3>1, OneIs
    <3> HIDE DEF new
    <3> QED  BY <3>2, <3>3
  <2>3. CASE \E r \in Executed(p) : results' = results \o <<r, Crash(p)>>
    <3>1. PICK r \in Executed(p) : results' = results \o <<r, Crash(p)>>  BY <2>3
    <3> DEFINE new == <<r, Crash(p)>>
    <3>2. results' = results \o new  BY <3>1
    <3>3. new = <<r, Crash(p)>>  OBVIOUS
    <3> HIDE DEF new
    <3>4. /\ new \in Seq(AllResults) /\ NoneTwice(new) /\ ToSet(Plans(new)) = {p}
          /\ \A i \in DOMAIN new : new[i].status \notin Skips
      BY <1>3, <1>4, <3>1, <3>3, TwoAre
    <3> QED  BY <3>2, <3>4
  <2> QED  BY <1>2, <2>2, <2>3
<1>10. PICK new \in Seq(AllResults) :
         /\ results' = results \o new /\ NoneTwice(new) /\ ToSet(Plans(new)) = {p}
         /\ \A i \in DOMAIN new : new[i].status \notin Skips
  BY <1>5
<1>11. /\ ToSet(Plans(new)) \cap Listed = {}
       /\ ToSet(Plans(new)) \subseteq ToSet(readyPlans) \ unreported
  BY <1>3, <1>4, <1>6, <1>10
<1> QED  BY <1>1, <1>3, <1>7, <1>8, <1>9, <1>10, <1>11, Tells

(* What the scheduler has not come to has neither a result nor a loss.     *)
LEMMA PendingIs ==
  ASSUME BatchInv
  PROVE  /\ Pending \in Seq(AllRows) /\ IsInjective(Pending)
         /\ ToSet(Pending) = ToSet(readyPlans) \ (Listed \cup unreported)
<1> DEFINE left == {i \in DOMAIN readyPlans :
                      readyPlans[i] \notin ToSet(Plans(results)) \cup unreported}
<1>1. readyPlans \in Seq(AllRows) /\ IsInjective(readyPlans)  BY DEF BatchInv, Lists
<1>2. left \in SUBSET DOMAIN readyPlans  OBVIOUS
<1>3. Pending = Select(readyPlans, left)  BY DEF Pending
<1>4. {readyPlans[i] : i \in left} = ToSet(readyPlans) \ (Listed \cup unreported)
  BY DEF ToSet, Listed
<1> HIDE DEF left
<1>5. /\ Pending \in Seq(AllRows) /\ IsInjective(Pending)
      /\ Len(Pending) = Cardinality(left)
      /\ \A k \in 1 .. Cardinality(left) : \E i \in left : Pending[k] = readyPlans[i]
      /\ \A i \in left : \E k \in 1 .. Cardinality(left) : Pending[k] = readyPlans[i]
  BY <1>1, <1>2, <1>3, SelectIs
<1>6. ToSet(Pending) = {readyPlans[i] : i \in left}
  <2> DEFINE ps == Pending
  <2>1. DOMAIN ps = 1 .. Cardinality(left)  BY <1>5
  <2>2. /\ \A k \in 1 .. Cardinality(left) : \E i \in left : ps[k] = readyPlans[i]
        /\ \A i \in left : \E k \in 1 .. Cardinality(left) : ps[k] = readyPlans[i]
    BY <1>5
  <2> HIDE DEF ps
  <2>3. ToSet(ps) = {readyPlans[i] : i \in left}  BY <2>1, <2>2 DEF ToSet
  <2> QED  BY <2>3 DEF ps
<1> QED  BY <1>4, <1>5, <1>6

LEMMA ScheduleKeeps ==
  ASSUME BatchInv, Schedule
  PROVE  BatchInv'
<1> USE DEF batchVars, resultVars
<1>1. /\ pc = "schedule" /\ pc' = "schedule" /\ pc \in Executing
      /\ UNCHANGED <<workbook, mode, run, batch, probe, readyPlans, original, next>>
  BY DEF Schedule, Executing
<1>2. /\ results \in Seq(AllResults) /\ next \in Nat \ {0}
      /\ NoneTwice(results) /\ ToSet(readyPlans) \subseteq ToSet(batch)
      /\ Skipped1 \subseteq Listed /\ Listed \subseteq ToSet(batch)
      /\ unreported \subseteq ToSet(readyPlans) \ Listed
  BY <1>1 DEF BatchInv, Lists, Progress
<1>3. PICK p \in ToSet(Pending) :
        \/ \E r \in Executed(p) : results' = Append(results, r) /\ UNCHANGED unreported
        \/ unreported' = unreported \cup {p} /\ UNCHANGED results
  BY DEF Schedule, ToSet
<1>4. p \in AllRows /\ p \in ToSet(readyPlans) \ (Listed \cup unreported)
  <2>1. \A q \in ToSet(Pending) : q \in AllRows
    <3>1. \A i \in DOMAIN Pending : Pending[i] \in AllRows  BY PendingIs
    <3> QED  BY <3>1 DEF ToSet
  <2> QED  BY <1>3, <2>1, PendingIs
<1>5. CASE \E r \in Executed(p) : results' = Append(results, r) /\ UNCHANGED unreported
  <2>1. PICK r \in Executed(p) : results' = Append(results, r) /\ UNCHANGED unreported
    BY <1>5
  <2>2. r \in AllResults  BY <1>4, ExecutedIs
  <2> DEFINE new == <<r>>
  <2>3. results' = results \o new  BY <1>2, <2>1, <2>2
  <2>4. /\ new \in Seq(AllResults) /\ NoneTwice(new) /\ ToSet(Plans(new)) = {p}
        /\ \A i \in DOMAIN new : new[i].status \notin Skips
    BY <1>4, OneIs
  <2> HIDE DEF new
  <2>5. /\ ToSet(Plans(new)) \cap Listed = {}
        /\ ToSet(Plans(new)) \subseteq ToSet(readyPlans) \ unreported
    BY <1>4, <2>4
  <2>6. pc' \in {"schedule", "loop", "stopGuard"} /\ pc' # "loop" /\ pc' # "stopGuard"
        /\ next' \in Nat \ {0}
    BY <1>1, <1>2
  <2> QED  BY <1>1, <2>1, <2>3, <2>4, <2>5, <2>6, Tells
<1>6. CASE unreported' = unreported \cup {p} /\ UNCHANGED results
  <2>1. Rows' = Rows /\ AllRows' = AllRows /\ AllResults' = AllResults  BY <1>1, SameBooks
  <2>2. /\ Listed' = Listed /\ Skipped1' = Skipped1
        /\ ToSet(batch)' = ToSet(batch) /\ ToSet(readyPlans)' = ToSet(readyPlans)
        /\ NoneTwice(results)'
    BY <1>1, <1>2, <1>6 DEF Listed, Skipped1, ToSet, Plans, NoneTwice
  <2>3. \A q : (PlanStatus(q, probe))' = PlanStatus(q, probe)  BY <1>1, SameStatus
  <2>4. Lists'  BY <1>1, <1>6, <2>1 DEF BatchInv, Lists, IsInjective
  <2>5. Begun'  BY <1>1, <2>1, <2>2 DEF BatchInv, Begun
  <2>6. Progress'
    <3>1. pc' \notin {"guard", "loop", "wait", "executing"} \cup Through  BY <1>1 DEF Through
    <3> QED  BY <1>1, <1>2, <1>4, <1>6, <2>2, <3>1 DEF Progress
  <2>7. Labels'  BY <1>1, <1>6, <2>2, <2>3 DEF BatchInv, Labels
  <2>8. Retried'  BY <1>1 DEF Retried
  <2> QED  BY <2>4, <2>5, <2>6, <2>7, <2>8 DEF BatchInv
<1> QED  BY <1>3, <1>5, <1>6

LEMMA TakeKeeps ==
  ASSUME BatchInv, TakeResults
  PROVE  BatchInv'
<1> USE DEF batchVars, resultVars
<1>1. /\ pc = "schedule" /\ pc' = "stopGuard" /\ pc \in Executing
      /\ UNCHANGED <<workbook, mode, run, batch, probe, readyPlans, unreported, original, next>>
  BY DEF TakeResults, Executing
<1>2. PICK why : results' = results \o [i \in DOMAIN Pending |-> Skipped(Pending[i], why)]
  BY DEF TakeResults
<1> DEFINE new == [i \in DOMAIN Pending |-> Skipped(Pending[i], why)]
<1>3. /\ new \in Seq(AllResults) /\ NoneTwice(new) /\ ToSet(Plans(new)) = ToSet(Pending)
      /\ \A i \in DOMAIN new : new[i].status \notin Skips
  BY PendingIs, SkipsRest
<1>4. results' = results \o new  BY <1>2
<1> HIDE DEF new
<1>5. /\ ToSet(Plans(new)) \cap Listed = {}
      /\ ToSet(Plans(new)) \subseteq ToSet(readyPlans) \ unreported
  BY <1>3, PendingIs
<1>6. Listed \cup ToSet(Plans(new)) = ToSet(batch) \ unreported
  BY <1>1, <1>3, PendingIs DEF BatchInv, Progress, Skipped1, Executing
<1>7. pc' \in {"schedule", "loop", "stopGuard"} /\ pc' # "loop" /\ pc' # "schedule"
      /\ next' \in Nat \ {0}
  BY <1>1 DEF BatchInv, Lists
<1> QED  BY <1>1, <1>3, <1>4, <1>5, <1>6, <1>7, Tells

LEMMA BatchInit ==
  ASSUME Init
  PROVE  BatchInv
<1>1. /\ workbook \in Workbooks /\ mode \in Modes /\ pc = "idle" /\ run = 1 /\ batch = <<>> /\ next = 1
      /\ readyPlans = <<>> /\ results = <<>> /\ original = <<>>
  BY DEF Init
<1>2. ToSet(batch) = {} /\ IsInjective(batch) /\ IsInjective(readyPlans)
  BY <1>1 DEF ToSet, IsInjective
<1>3. Lists  BY <1>1, <1>2 DEF Lists
<1>4. Begun  BY <1>1, <1>2 DEF Begun
<1>5. Progress /\ Labels /\ Retried
  BY <1>1 DEF Progress, Labels, Retried, Executing, Through
<1> QED  BY <1>3, <1>4, <1>5 DEF BatchInv

(* A run begins with nothing.                                              *)
LEMMA ClearKeeps ==
  ASSUME BatchInv, ClearEvents \/ ClearMetadata
  PROVE  BatchInv'
<1> USE DEF batchVars, resultVars
<1>1. /\ UNCHANGED <<workbook, mode, run, batch, probe, readyPlans, original>>
      /\ results' = <<>> /\ next' = 1 /\ unreported' = {} /\ pc \in {"idle", "retry", "cleared"}
      /\ \/ pc' = "cleared"
         \/ pc' = "load" /\ run = 1
         \/ pc' = "preflight" /\ run # 1
      /\ run = 1 => batch = <<>> /\ readyPlans = <<>>
  <2>1. CASE ClearEvents
    BY <2>1 DEF ClearEvents, BatchInv, Begun
  <2>2. CASE ClearMetadata
    BY <2>2 DEF ClearMetadata, BatchInv, Begun
  <2> QED  BY <2>1, <2>2
<1>2. Rows' = Rows /\ AllRows' = AllRows /\ AllResults' = AllResults  BY <1>1, SameBooks
<1>3. Lists'  BY <1>1, <1>2 DEF BatchInv, Lists, IsInjective
<1>4. Begun'
  <2>1. pc' \notin {"idle", "prompt"} /\ run' = run  BY <1>1
  <2>2. ToSet(batch)' = ToSet(batch)  BY <1>1 DEF ToSet
  <2> QED  BY <1>1, <1>2, <2>1, <2>2 DEF BatchInv, Begun
<1>5. Progress' /\ Labels'
  BY <1>1 DEF Progress, Labels, Executing, Through
<1>6. Retried'
  <2>1. pc' # "merged"  BY <1>1
  <2> QED  BY <2>1 DEF Retried
<1> QED  BY <1>3, <1>4, <1>5, <1>6 DEF BatchInv

LEMMA LoadKeeps ==
  ASSUME BatchInv, Load
  PROVE  BatchInv'
<1>1. /\ UNCHANGED <<workbook, mode, run, probe, readyPlans, original, results, unreported, next>>
      /\ pc = "load" /\ run = 1 /\ results = <<>> /\ next = 1 /\ readyPlans = <<>>
      /\ unreported = {}
      /\ \/ pc' = "preflight" /\ batch' = GeneratePlans
         \/ pc' = "prompt" /\ UNCHANGED batch
      /\ batch = <<>>
  BY DEF Load, BatchInv, Begun, resultVars
<1>2. Rows' = Rows /\ AllRows' = AllRows /\ AllResults' = AllResults  BY <1>1, SameBooks
<1>3. batch' \in Seq(Rows) /\ IsInjective(batch')
  <2>1. WorkbookOK  BY Books DEF BatchInv, Lists
  <2>2. <<>> \in Seq(Rows) /\ IsInjective(<<>>)  BY DEF IsInjective
  <2> QED  BY <1>1, <2>1, <2>2, GeneratedOnce
<1>4. Lists'
  <2>1. \A p \in Rows : p \in AllRows
    BY DEF Rows, AllRows, EnabledDevices, EnabledTasks
  <2>2. batch' \in Seq(AllRows)  BY <1>3, <2>1
  <2>3. IsInjective(batch)'  BY <1>3 DEF IsInjective
  <2> QED  BY <1>1, <1>2, <2>2, <2>3 DEF BatchInv, Lists, IsInjective
<1>5. Begun'
  <2>1. ToSet(batch)' \subseteq Rows
    <3>1. \A i \in DOMAIN batch' : batch'[i] \in Rows  BY <1>3
    <3> QED  BY <3>1 DEF ToSet
  <2> QED  BY <1>1, <1>2, <2>1 DEF Begun
<1>6. pc' = "prompt" => ToSet(batch)' = {} /\ ToSet(readyPlans)' = {} /\ Listed' = {}
  BY <1>1 DEF ToSet, Listed, Plans
<1>7. Progress'
  <2>1. NoneTwice(results)'  BY <1>1 DEF NoneTwice
  <2> QED  BY <1>1, <1>6, <2>1 DEF Progress, Executing, Through
<1>8. Labels'
  BY <1>1, <1>6 DEF Labels, Executing, Through
<1>9. Retried'  BY <1>1 DEF Retried
<1> QED  BY <1>4, <1>5, <1>7, <1>8, <1>9 DEF BatchInv

(* Either a plan is left to execute, or it has its result.                 *)
LEMMA PreflightKeeps ==
  ASSUME BatchInv, Preflight
  PROVE  BatchInv'
<1>1. /\ UNCHANGED <<workbook, mode, run, batch, original, unreported, next>>
      /\ pc = "preflight" /\ pc' = "guard" /\ next = 1 /\ unreported = {}
  BY DEF Preflight, BatchInv, Begun
<1> DEFINE f == probe'
           out == (DOMAIN batch) \ Ready(f)
           skipped == Select(batch, out)
           new == [i \in DOMAIN skipped |-> Result(skipped[i], PlanStatus(skipped[i], f), FALSE)]
<1>2. readyPlans' = Select(batch, Ready(f)) /\ results' = new
  BY DEF Preflight
<1>3. Rows' = Rows /\ AllRows' = AllRows /\ AllResults' = AllResults  BY <1>1, SameBooks
<1>4. batch \in Seq(AllRows) /\ IsInjective(batch)  BY DEF BatchInv, Lists
<1>5. /\ readyPlans' \in Seq(AllRows) /\ IsInjective(readyPlans')
      /\ ToSet(readyPlans') = {batch[i] : i \in Ready(f)}
  <2> DEFINE I == Ready(f)
             kept == Select(batch, I)
  <2>1. I \in SUBSET DOMAIN batch  BY DEF Ready
  <2>2. readyPlans' = kept  BY <1>2
  <2> HIDE DEF I
  <2>3. /\ kept \in Seq(AllRows) /\ Len(kept) = Cardinality(I)
        /\ \A k \in 1 .. Cardinality(I) : \E i \in I : kept[k] = batch[i]
        /\ \A i \in I : \E k \in 1 .. Cardinality(I) : kept[k] = batch[i]
        /\ IsInjective(kept)
    BY <1>4, <2>1, SelectIs
  <2> HIDE DEF kept
  <2>4. ToSet(kept) = {batch[i] : i \in I}  BY <2>3 DEF ToSet
  <2> QED  BY <2>2, <2>3, <2>4 DEF I
<1>6. /\ skipped \in Seq(AllRows) /\ IsInjective(skipped)
      /\ ToSet(skipped) = {batch[i] : i \in out}
  <2>1. out \in SUBSET DOMAIN batch  OBVIOUS
  <2> HIDE DEF out
  <2>2. /\ skipped \in Seq(AllRows) /\ Len(skipped) = Cardinality(out)
        /\ \A k \in 1 .. Cardinality(out) : \E i \in out : skipped[k] = batch[i]
        /\ \A i \in out : \E k \in 1 .. Cardinality(out) : skipped[k] = batch[i]
        /\ IsInjective(skipped)
    BY <1>4, <2>1, SelectIs
  <2> HIDE DEF skipped
  <2>3. ToSet(skipped) = {batch[i] : i \in out}  BY <2>2 DEF ToSet
  <2> QED  BY <2>2, <2>3
<1>7. \A i \in DOMAIN batch : i \in Ready(f) <=> PlanStatus(batch[i], f) = "PENDING"
  BY DEF Ready
<1>8. ToSet(batch) = {batch[i] : i \in DOMAIN batch}  BY DEF ToSet
<1>9. /\ ToSet(readyPlans') \subseteq ToSet(batch)
      /\ ToSet(skipped) = ToSet(batch) \ ToSet(readyPlans')
      /\ \A p \in ToSet(batch) : p \in ToSet(readyPlans') <=> PlanStatus(p, f) = "PENDING"
  <2> HIDE DEF skipped, f
  <2>1. Ready(f) \subseteq DOMAIN batch  BY DEF Ready
  <2>2. \A p \in ToSet(batch) : p \in ToSet(readyPlans') <=> PlanStatus(p, f) = "PENDING"
    BY <1>5, <1>7, <1>8, <2>1
  <2>3. \A p \in ToSet(batch) : p \in ToSet(skipped) <=> PlanStatus(p, f) # "PENDING"
    BY <1>6, <1>7, <1>8
  <2> QED  BY <1>5, <1>6, <1>8, <2>1, <2>2, <2>3
<1>10. ASSUME NEW i \in 1 .. Len(skipped)
       PROVE  /\ new[i] \in AllResults /\ new[i].plan = skipped[i] /\ new[i].status \in Skips
  <2> DEFINE p == skipped[i]
             status == PlanStatus(p, f)
  <2>1. p \in AllRows /\ p \in ToSet(skipped)
    <3> HIDE DEF skipped
    <3> QED  BY <1>6 DEF ToSet
  <2>2. status \in Skips
    <3>1. status # "PENDING"
      <4> HIDE DEF skipped
      <4> QED  BY <1>9, <2>1
    <3> HIDE DEF p
    <3> QED  BY <3>1, StatusIs
  <2>3. PICK good \in BOOLEAN : good = FALSE  OBVIOUS
  <2>4. i \in DOMAIN skipped
    <3> HIDE DEF skipped
    <3> QED  BY <1>6
  <2>5. new[i] = Result(p, status, good)  BY <2>3, <2>4
  <2> HIDE DEF p, status, new
  <2> QED  BY <2>1, <2>2, <2>5, ResultIs DEF p
<1>11. /\ new \in Seq(AllResults) /\ Len(new) = Len(skipped) /\ DOMAIN new = 1 .. Len(skipped)
  <2>1. Len(skipped) \in Nat /\ DOMAIN skipped = 1 .. Len(skipped)
    <3> HIDE DEF skipped
    <3> QED  BY <1>6
  <2>2. DOMAIN new = 1 .. Len(skipped) /\ new = [i \in DOMAIN new |-> new[i]]  BY <2>1
  <2> HIDE DEF new, skipped
  <2>3. new \in [1 .. Len(skipped) -> AllResults]  BY <1>10, <2>2
  <2> QED  BY <2>1, <2>3
<1> HIDE DEF new, skipped, f
<1>12. NoneTwice(new) /\ ToSet(Plans(new)) = ToSet(skipped)
  BY <1>6, <1>10, <1>11, OneEach
<1>13. /\ Listed' = ToSet(skipped) /\ Skipped1' = ToSet(skipped)
       /\ ToSet(batch)' = ToSet(batch) /\ ToSet(readyPlans)' = ToSet(readyPlans')
  <2>1. Listed' = ToSet(Plans(results'))  BY DEF Listed, ToSet, Plans
  <2>2. ToSet(batch)' = ToSet(batch) /\ ToSet(readyPlans)' = ToSet(readyPlans')
    BY <1>1 DEF ToSet
  <2>3. Skipped1' = ToSet(batch) \ ToSet(readyPlans')  BY <2>2 DEF Skipped1
  <2> QED  BY <1>2, <1>9, <1>12, <2>1, <2>2, <2>3
<1>14. Lists'
  <2>1. IsInjective(batch)' /\ IsInjective(readyPlans)'  BY <1>1, <1>4, <1>5 DEF IsInjective
  <2> QED  BY <1>1, <1>2, <1>3, <1>5, <1>11, <2>1 DEF BatchInv, Lists
<1>15. Begun'
  <2>1. (run = 1 => ToSet(batch) \subseteq Rows)'  BY <1>1, <1>3, <1>13 DEF BatchInv, Begun
  <2> QED  BY <1>1, <2>1 DEF BatchInv, Begun
<1>16. Progress'
  <2>1. NoneTwice(results)'  BY <1>1, <1>2, <1>12 DEF NoneTwice
  <2> QED  BY <1>1, <1>9, <1>13, <2>1 DEF Progress, Through
<1>17. Labels'
  <2>1. \A i \in DOMAIN results' :
          results'[i].status \in Skips /\ results'[i].plan \in ToSet(skipped)
    <3>1. \A i \in 1 .. Len(skipped) : skipped[i] \in ToSet(skipped)
      BY <1>6 DEF ToSet
    <3> QED  BY <1>2, <1>10, <1>11, <3>1
  <2>2. \A p : (PlanStatus(p, probe))' = PlanStatus(p, f)  BY <1>1, SameStatus DEF f
  <2> QED  BY <1>9, <1>13, <2>1, <2>2 DEF Labels
<1>18. Retried'  BY <1>1 DEF Retried
<1> QED  BY <1>14, <1>15, <1>16, <1>17, <1>18 DEF BatchInv

(* A retry is of the plans that failed, each once.                         *)
LEMMA PromptKeeps ==
  ASSUME BatchInv, Prompt
  PROVE  BatchInv'
<1> USE DEF batchVars, resultVars
<1>1. CASE pc' = "exit" /\ UNCHANGED <<run, batch, original>>
  <2>1. UNCHANGED countVars  BY <1>1 DEF Prompt, countVars
  <2> QED  BY <1>1, <2>1, Exits
<1>2. CASE pc' = "retry" /\ run' = 2 /\ batch' = RetryPlans /\ original' = results
  <2> DEFINE I == {i \in DOMAIN results : Retryable(results[i])}
             J == Firsts(results, I)
             kept == Select(results, J)
  <2>1. UNCHANGED <<workbook, mode, probe, readyPlans, results, next>> /\ pc = "prompt"
    BY <1>2 DEF Prompt
  <2>2. /\ results \in Seq(AllResults)
        /\ readyPlans \in Seq(AllRows) /\ IsInjective(readyPlans)
    BY DEF BatchInv, Lists
  <2>3. J \in SUBSET DOMAIN results  BY DEF Firsts
  <2>4. batch' = Plans(kept)  BY <1>2 DEF RetryPlans
  <2>5. \A i, j \in J : results[i].plan = results[j].plan => i = j
    <3>1. \A i, j \in J : i < j => results[i].plan # results[j].plan  BY DEF Firsts
    <3>2. J \subseteq Nat  BY <2>2, <2>3
    <3> HIDE DEF J
    <3>3. \A i, j \in J : i = j \/ i < j \/ j < i  BY <3>2
    <3> QED  BY <3>1, <3>3
  <2> HIDE DEF J
  <2>6. /\ kept \in Seq(AllResults) /\ Len(kept) = Cardinality(J) /\ Cardinality(J) \in Nat
        /\ IsFiniteSet(J)
    BY <2>2, <2>3, SelectIs
  <2>7. IsInjective(Plans(kept))
    <3>1. J \subseteq Nat  BY <2>2, <2>3
    <3>2. \A k \in 1 .. Cardinality(J) :
            Place(J, k) \in J /\ Cardinality({j \in J : j <= Place(J, k)}) = k
      BY <2>6, <3>1, Places
    <3>3. kept = [k \in 1 .. Cardinality(J) |-> results[Place(J, k)]]  BY SelectAt
    <3> HIDE DEF kept
    <3>4. /\ DOMAIN Plans(kept) = 1 .. Cardinality(J)
          /\ \A k \in 1 .. Cardinality(J) : Plans(kept)[k] = results[Place(J, k)].plan
      BY <3>3 DEF Plans
    <3> SUFFICES ASSUME NEW k \in 1 .. Cardinality(J), NEW l \in 1 .. Cardinality(J),
                        Plans(kept)[k] = Plans(kept)[l]
                 PROVE  k = l
      BY <3>4 DEF IsInjective
    <3>5. Place(J, k) = Place(J, l)  BY <2>5, <3>2, <3>4
    <3> QED  BY <3>2, <3>5
  <2> HIDE DEF kept
  <2>8. Plans(kept) \in Seq(AllRows)  BY <2>6, PlansAre
  <2>9. Rows' = Rows /\ AllRows' = AllRows /\ AllResults' = AllResults  BY <2>1, SameBooks
  <2>10. Lists'
    <3>1. IsInjective(batch)' /\ IsInjective(readyPlans)'
      BY <2>1, <2>2, <2>4, <2>7 DEF IsInjective
    <3> QED  BY <1>2, <2>1, <2>4, <2>8, <2>9, <3>1 DEF BatchInv, Lists
  <2>11. Begun' /\ Progress' /\ Labels' /\ Retried'
    BY <1>2 DEF Begun, Progress, Labels, Retried, Executing, Through
  <2> QED  BY <2>10, <2>11 DEF BatchInv
<1> QED  BY <1>1, <1>2 DEF Prompt

(* The merge keeps every row, but puts the result of its retry in the      *)
(* place of one that had failed.                                           *)
LEMMA MergeKeeps ==
  ASSUME BatchInv, Merge
  PROVE  BatchInv'
<1> USE DEF batchVars, resultVars
<1>1. /\ UNCHANGED <<workbook, mode, run, batch, probe, readyPlans, original, next>>
      /\ pc = "merge" /\ pc' \in {"merged", "exit"} /\ results' = Merged
  BY DEF Merge
<1>2. results \in Seq(AllResults) /\ original \in Seq(AllResults)
  BY DEF BatchInv, Lists
<1> DEFINE failures == {i \in DOMAIN original : Failed(original[i])}
           From(p) == {j \in Firsts(results, DOMAIN results) : results[j].plan = p}
           row(i) == IF i \in Firsts(original, failures) /\ From(original[i].plan) # {}
                     THEN results[CHOOSE j \in From(original[i].plan) : TRUE]
                     ELSE original[i]
<1>3. Merged = [i \in DOMAIN original |-> row(i)]  BY DEF Merged
<1>4. ASSUME NEW i \in DOMAIN original
      PROVE  /\ row(i) \in AllResults
             /\ \/ row(i) = original[i]
                \/ Failed(original[i]) /\ row(i).plan = original[i].plan
  <2>1. original[i] \in AllResults  BY <1>2
  <2>2. i \in Firsts(original, failures) => Failed(original[i])  BY DEF Firsts
  <2>3. ASSUME NEW p, From(p) # {}
        PROVE  /\ results[CHOOSE j \in From(p) : TRUE] \in AllResults
               /\ results[CHOOSE j \in From(p) : TRUE].plan = p
    <3>1. (CHOOSE j \in From(p) : TRUE) \in From(p)  BY <2>3
    <3>2. \A j \in From(p) : results[j] \in AllResults /\ results[j].plan = p
      BY <1>2 DEF Firsts
    <3> HIDE DEF From
    <3> QED  BY <3>1, <3>2
  <2> HIDE DEF From, failures
  <2> QED  BY <2>1, <2>2, <2>3
<1> HIDE DEF row
<1>5. results' \in Seq(AllResults) /\ Len(results') = Len(original)
  <2>1. DOMAIN original = 1 .. Len(original) /\ Len(original) \in Nat  BY <1>2
  <2>2. Merged \in [1 .. Len(original) -> AllResults]  BY <1>3, <1>4, <2>1
  <2> QED  BY <1>1, <2>1, <2>2
<1>6. Rows' = Rows /\ AllRows' = AllRows /\ AllResults' = AllResults  BY <1>1, SameBooks
<1>7. Lists'  BY <1>1, <1>5, <1>6 DEF BatchInv, Lists, IsInjective
<1>8. Begun' /\ Progress' /\ Labels'
  <2>1. ToSet(batch)' = ToSet(batch)  BY <1>1 DEF ToSet
  <2>2. pc' \notin Executing \cup Through
        /\ pc' \notin {"idle", "load", "prompt", "retry", "cleared", "preflight"}
        /\ pc' \notin {"guard", "loop", "wait", "executing", "schedule"}
    BY <1>1 DEF Executing, Through
  <2> QED  BY <1>1, <1>6, <2>1, <2>2 DEF BatchInv, Begun, Progress, Labels
<1>9. Retried'
  <2>1. \A i \in DOMAIN original :
          \/ results'[i] = original[i]
          \/ Failed(original[i]) /\ results'[i].plan = original[i].plan
    BY <1>1, <1>3, <1>4
  <2> QED  BY <1>1, <1>5, <2>1 DEF Retried, Failed
<1> QED  BY <1>7, <1>8, <1>9 DEF BatchInv

LEMMA BatchMain ==
  ASSUME BatchInv, MainStep
  PROVE  BatchInv'
<1> USE DEF batchVars, resultVars
<1>1. CASE ClearEvents \/ ClearMetadata  BY <1>1, ClearKeeps
<1>2. CASE Load  BY <1>2, LoadKeeps
<1>3. CASE Preflight  BY <1>3, PreflightKeeps
<1>4. CASE StartGuard
  <2>1. UNCHANGED countVars  BY <1>4 DEF StartGuard, countVars
  <2>2. \/ pc = "guard" /\ pc' = "schedule"
        \/ pc = "guard" /\ pc' = "loop" /\ mode # "full"
    BY <1>4 DEF StartGuard
  <2> QED  BY <2>1, <2>2, GoesOn
<1>5. CASE LoopStep  BY <1>5, LoopKeeps
<1>6. CASE StartPlan \/ StopGuard \/ JoinGuard
  <2>1. UNCHANGED countVars
    BY <1>6 DEF StartPlan, StopGuard, JoinGuard, countVars
  <2>2. \/ pc = "wait" /\ pc' = "executing"
        \/ pc' = "exit"
        \/ pc = "stopGuard" /\ pc' = "join"
        \/ pc = "join" /\ pc' = "write"
    BY <1>6 DEF StartPlan, StopGuard, JoinGuard
  <2> QED  BY <2>1, <2>2, GoesOn, Exits
<1>7. CASE EndPlan  BY <1>7, EndKeeps
<1>8. CASE Schedule \/ TakeResults  BY <1>8, ScheduleKeeps, TakeKeeps
<1>9. CASE Write
  <2>1. UNCHANGED countVars /\ pc = "write"  BY <1>9 DEF Write, countVars
  <2>2. \/ pc' = "prompt" /\ run = 1
        \/ pc' = "merge" /\ run # 1
        \/ pc' = "exit"
    BY <1>9 DEF Write
  <2> QED  BY <2>1, <2>2, GoesOn, Exits
<1>10. CASE Prompt  BY <1>10, PromptKeeps
<1>11. CASE Merge  BY <1>11, MergeKeeps
<1> QED  BY <1>1, <1>2, <1>3, <1>4, <1>5, <1>6, <1>7, <1>8, <1>9, <1>10, <1>11 DEF MainStep

LEMMA BatchStep ==
  ASSUME BatchInv, [Next]_vars
  PROVE  BatchInv'
<1> USE DEF batchVars, resultVars
<1>1. CASE AuthCheck \/ Interrupted
  <2>1. UNCHANGED countVars /\ pc' = "exit"  BY <1>1 DEF AuthCheck, Interrupted, countVars
  <2> QED  BY <2>1, Exits
<1>2. CASE AppStop \/ Pause \/ Resume \/ RouteChange
  <2>1. UNCHANGED countVars /\ UNCHANGED pc
    BY <1>2 DEF AppStop, Pause, Resume, RouteChange, countVars
  <2> QED  BY <2>1, Rests
<1>3. ASSUME NEW g \in 1 .. 2, GuardStep(g)  PROVE BatchInv'
  <2>1. UNCHANGED countVars /\ UNCHANGED pc
    BY <1>3 DEF GuardStep, GuardLooks, GuardCalls, GuardEnds, countVars
  <2> QED  BY <2>1, Rests
<1>4. CASE UNCHANGED vars
  <2>1. UNCHANGED countVars /\ UNCHANGED pc  BY <1>4 DEF vars, countVars
  <2> QED  BY <2>1, Rests
<1> QED  BY <1>1, <1>2, <1>3, <1>4, BatchMain DEF Next

(* However preflight, stops, pauses, the route guard and failures fall, a  *)
(* run that is reported has a result for every plan it was given, but for  *)
(* what the scheduler had dispatched and returned nothing of               *)
(* (app.py:662), and none has two, but for an EXEC_ERROR that the          *)
(* sequential executor lists right after the first (app.py:616); the       *)
(* merged report puts the result of a retry only in the place of a failure *)
(* of its plan (failed_retry.py:138); and what the preflight skips is what *)
(* it found out of order (app.py:144).                                     *)
THEOREM Accounted == Spec => []BatchAccounted
<1>1. Init => BatchInv  BY BatchInit
<1>2. BatchInv /\ [Next]_vars => BatchInv'  BY BatchStep
<1>3. BatchInv => BatchAccounted
  <2> SUFFICES ASSUME BatchInv PROVE BatchAccounted  OBVIOUS
  <2>1. pc \in {"prompt", "merge"} =>
          ToSet(Plans(results)) = ToSet(batch) \ unreported /\ NoneTwice(results)
    BY DEF BatchInv, Progress, Listed, Through
  <2>2. pc = "merged" =>
          /\ Len(results) = Len(original)
          /\ \A i \in DOMAIN original :
               \/ results[i] = original[i]
               \/ Failed(original[i]) /\ results[i].plan = original[i].plan
    BY DEF BatchInv, Retried
  <2>3. ASSUME pc = "prompt", UniqueNames, NEW i \in DOMAIN results
        PROVE  Reachable(results[i].plan) <=> results[i].status \notin Skips
    <3> DEFINE p == results[i].plan
    <3>1. results[i].status \in Skips <=> p \in Skipped1
      BY <2>3 DEF BatchInv, Labels, Through
    <3>2. p \in ToSet(batch)
      <4>1. results \in Seq(AllResults) /\ Listed \subseteq ToSet(batch)
        BY <2>3 DEF BatchInv, Lists, Progress, Through
      <4>2. p \in ToSet(Plans(results))  BY <4>1, PlansAre
      <4> QED  BY <4>1, <4>2 DEF Listed
    <3>3. run = 1 /\ p \in Rows /\ WorkbookOK
      BY <2>3, <3>2, Books DEF BatchInv, Begun, Lists
    <3>4. p \in ToSet(readyPlans) <=> PlanStatus(p, probe) = "PENDING"
      BY <2>3, <3>2 DEF BatchInv, Labels, Through
    <3>5. PlanStatus(p, probe) = "PENDING" <=> Reachable(p)
      BY <2>3, <3>3, ReadyIsReachable
    <3> HIDE DEF p
    <3>6. Reachable(p) <=> results[i].status \notin Skips
      BY <3>1, <3>2, <3>4, <3>5 DEF Skipped1
    <3> QED  BY <3>6 DEF p
  <2> QED  BY <2>1, <2>2, <2>3 DEF BatchAccounted, Skips
<1> QED  BY <1>1, <1>2, <1>3, PTL DEF Spec

==============================================================================
