--------------------------- MODULE BMCSession_proofs ---------------------------
(***************************************************************************)
(* Theorems about BMCSession, for groups of any size and any retry counts. *)
(***************************************************************************)
EXTENDS BMCSession, WellFoundedInduction, TLAPS

(* Recording the next plan keeps the results in the order of the plans.    *)
LEMMA RecordNext ==
  ASSUME TypeOK, ResultsFollowPlans,
         NEW p \in Plans, p = Len(results) + 1,
         NEW s \in Finished, Record(p, s)
  PROVE  /\ results' = Append(results, [plan |-> p, status |-> s])
         /\ Len(results') = Len(results) + 1
         /\ results' \in Seq([plan : Plans, status : Finished])
         /\ status' \in [Plans -> Finished \cup {"PENDING", "RUNNING"}]
         /\ ResultsFollowPlans'
<1>1. /\ results \in Seq([plan : Plans, status : Finished])
      /\ status \in [Plans -> Finished \cup {"PENDING", "RUNNING"}]
      /\ NPlans \in Nat
  BY SessionAssumption DEF TypeOK
<1>2. ~ \E i \in 1 .. Len(results) : results[i].plan = p
  <2>1. ASSUME NEW i \in 1 .. Len(results) PROVE results[i].plan = i
    <3>1. results[i] = [plan |-> i, status |-> status[i]]
      BY DEF ResultsFollowPlans
    <3> QED  BY <3>1
  <2>2. Len(results) \in Nat
    BY <1>1
  <2> QED  BY <2>1, <2>2
<1>3. /\ results' = Append(results, [plan |-> p, status |-> s])
      /\ status' = [status EXCEPT ![p] = s]
  BY <1>2 DEF Record
<1>4. /\ Len(results') = Len(results) + 1
      /\ results' \in Seq([plan : Plans, status : Finished])
      /\ \A i \in 1 .. Len(results) : results'[i] = results[i]
      /\ results'[p] = [plan |-> p, status |-> s]
  BY <1>1, <1>3 DEF Plans
<1>5. status' \in [Plans -> Finished \cup {"PENDING", "RUNNING"}]
  BY <1>1, <1>3
<1>6. ResultsFollowPlans'
  <2>1. Len(results') <= NPlans
    BY <1>1, <1>4 DEF Plans
  <2>2. ASSUME NEW i \in 1 .. Len(results')
        PROVE  results'[i] = [plan |-> i, status |-> status'[i]]
    <3>1. CASE i = p
      BY <1>1, <1>3, <1>4, <3>1
    <3>2. CASE i # p
      <4>1. i \in 1 .. Len(results)
        BY <1>1, <1>4, <3>2 DEF Plans
      <4> QED  BY <1>1, <1>3, <1>4, <3>2, <4>1 DEF ResultsFollowPlans, Plans
    <3> QED  BY <3>1, <3>2
  <2>3. ASSUME NEW q \in Plans
        PROVE  status'[q] \in Finished <=> q <= Len(results')
    <3>1. CASE q = p
      BY <1>1, <1>3, <1>4, <3>1 DEF Plans
    <3>2. CASE q # p
      <4>1. status'[q] = status[q]
        BY <1>1, <1>3, <3>2
      <4>2. q <= Len(results) <=> q <= Len(results')
        BY <1>1, <1>4, <3>2 DEF Plans
      <4> QED  BY <4>1, <4>2 DEF ResultsFollowPlans
    <3> QED  BY <3>1, <3>2
  <2> QED  BY <2>1, <2>2, <2>3 DEF ResultsFollowPlans
<1> QED  BY <1>3, <1>4, <1>5, <1>6

(* A recovery closes the page it replaces or counts the close that failed. *)
LEMMA RecoverKeepsCount ==
  ASSUME TypeOK, PageCount, page # "none", NEW ok \in BOOLEAN, RecoverSession(ok)
  PROVE  /\ page' \in {"open", "lost", "closed"}
         /\ pages' \in Nat /\ unclosed' \in Nat /\ logins' \in Nat
         /\ Alive(page)' => pages' > 0
         /\ pages' <= unclosed' + (IF Alive(page') THEN 1 ELSE 0)
<1>1. PICK closed \in BOOLEAN, opened \in BOOLEAN :
        /\ ok => opened
        /\ page' = IF opened THEN (IF ok THEN "open" ELSE "lost")
                   ELSE ClosePage(page, closed).page
        /\ pages' = IF opened THEN ClosePage(page, closed).pages + 1
                    ELSE ClosePage(page, closed).pages
        /\ unclosed' = ClosePage(page, closed).unclosed
        /\ logins' = IF opened THEN logins + 1 ELSE logins
  BY DEF RecoverSession
<1>2. /\ page \in {"open", "lost", "closed"}
      /\ pages \in Nat /\ unclosed \in Nat /\ logins \in Nat
      /\ Alive(page) => pages > 0
      /\ pages <= unclosed + (IF Alive(page) THEN 1 ELSE 0)
  BY DEF TypeOK, PageCount
<1>3. CASE closed
  BY <1>1, <1>2, <1>3 DEF ClosePage, Alive
<1>4. CASE ~closed
  BY <1>1, <1>2, <1>4 DEF ClosePage, Alive
<1> QED  BY <1>3, <1>4

(* The loop records the plan it is at.                                     *)
LEMMA LoopRecord ==
  ASSUME SessionInv, idx \in Plans, pc \in {"rejected", "before", "record"},
         NEW s \in Finished, Record(idx, s)
  PROVE  /\ Len(results') = idx
         /\ results' \in Seq([plan : Plans, status : Finished])
         /\ status' \in [Plans -> Finished \cup {"PENDING", "RUNNING"}]
         /\ ResultsFollowPlans'
<1>1. TypeOK /\ ResultsFollowPlans /\ idx = Len(results) + 1
  BY DEF SessionInv, LoopPosition, Attempting, TypeOK
<1> QED  BY <1>1, RecordNext

(* The handler records the first plan that has no result.                  *)
LEMMA FillRecord ==
  ASSUME SessionInv, NEW p \in Unfinished, \A q \in Unfinished : p <= q,
         NEW s \in Finished, Record(p, s)
  PROVE  /\ Len(results') = Len(results) + 1
         /\ results' \in Seq([plan : Plans, status : Finished])
         /\ status' \in [Plans -> Finished \cup {"PENDING", "RUNNING"}]
         /\ ResultsFollowPlans'
<1>1. TypeOK /\ ResultsFollowPlans /\ NPlans \in Nat /\ Len(results) \in Nat
  BY SessionAssumption DEF SessionInv, TypeOK
<1>2. p \in Plans /\ ~ (p <= Len(results))
  BY <1>1 DEF Unfinished, ResultsFollowPlans
<1>3. Len(results) + 1 \in Plans /\ ~ (Len(results) + 1 <= Len(results))
  BY <1>1, <1>2 DEF Plans
<1>4. Len(results) + 1 \in Unfinished
  BY <1>1, <1>3 DEF Unfinished, ResultsFollowPlans
<1>5. p = Len(results) + 1
  BY <1>1, <1>2, <1>4 DEF Plans
<1> QED  BY <1>1, <1>2, <1>5, RecordNext

(* Every variable keeps its type, and the results stay in plan order.      *)
LEMMA TypeStep ==
  ASSUME SessionInv, [Next]_vars
  PROVE  TypeOK' /\ ResultsFollowPlans'
<1>1. /\ TypeOK /\ ResultsFollowPlans /\ LoopPosition /\ PageCount /\ AttemptCount
      /\ NPlans \in Nat /\ RetryCount \in [Plans -> Nat]
  BY SessionAssumption DEF SessionInv, Plans
<1> USE DEF loopVars, pageVars, endVars, GoOn, Handle, Handled
<1>2. CASE OpenPage
  BY <1>1, <1>2 DEF OpenPage, TypeOK, ResultsFollowPlans
<1>3. CASE Login
  BY <1>1, <1>3 DEF Login, TypeOK, ResultsFollowPlans
<1>4. CASE RejectPlan
  <2>1. "EXEC_FAILED" \in Finished
    BY DEF Finished
  <2>2. /\ results' \in Seq([plan : Plans, status : Finished])
        /\ status' \in [Plans -> Finished \cup {"PENDING", "RUNNING"}]
        /\ ResultsFollowPlans'
    BY <1>4, <2>1, LoopRecord DEF RejectPlan
  <2> QED  BY <1>1, <1>4, <2>2 DEF RejectPlan, TypeOK, Plans
<1>5. CASE EndRejection
  BY <1>1, <1>5 DEF EndRejection, TypeOK, ResultsFollowPlans
<1>6. ASSUME NEW s \in {"RUNNING"}, idx \in Plans,
             pc \in {"before", "capture"},
             status' = [status EXCEPT ![idx] = s], UNCHANGED results
      PROVE  /\ status' \in [Plans -> Finished \cup {"PENDING", "RUNNING"}]
             /\ ResultsFollowPlans'
  <2>1. status' \in [Plans -> Finished \cup {"PENDING", "RUNNING"}]
    BY <1>1, <1>6 DEF TypeOK
  <2>2. Len(results) = idx - 1 /\ idx \in Nat /\ Len(results) \in Nat
    BY <1>1, <1>6 DEF LoopPosition, Attempting, TypeOK, Plans
  <2>3. \A i \in 1 .. Len(results) : i # idx /\ i \in Plans
    BY <1>1, <1>6, <2>2 DEF Plans
  <2>4. \A i \in 1 .. Len(results) : status'[i] = status[i]
    BY <1>1, <1>6, <2>3 DEF TypeOK
  <2>5. ASSUME NEW q \in Plans PROVE status'[q] \in Finished <=> q <= Len(results)
    <3>1. CASE q = idx
      BY <1>1, <1>6, <2>2, <3>1 DEF TypeOK, Finished
    <3>2. CASE q # idx
      BY <1>1, <1>6, <3>2 DEF TypeOK, ResultsFollowPlans
    <3> QED  BY <3>1, <3>2
  <2> QED  BY <1>1, <1>6, <2>1, <2>4, <2>5 DEF ResultsFollowPlans
<1>7. CASE BeginPlan
  <2>1. /\ status' \in [Plans -> Finished \cup {"PENDING", "RUNNING"}]
        /\ ResultsFollowPlans'
    BY <1>6, <1>7 DEF BeginPlan
  <2> QED  BY <1>1, <1>7, <2>1 DEF BeginPlan, StartAttempts, TypeOK
<1>8. ASSUME NEW ok \in BOOLEAN, RecoverSession(ok),
             pc \in {"before", "decide"}
      PROVE  /\ page' \in {"none", "open", "lost", "closed"}
             /\ pages' \in Nat /\ unclosed' \in Nat /\ logins' \in Nat
  <2>1. page # "none"
    BY <1>1, <1>8 DEF PageCount, Closing
  <2> QED  BY <1>1, <1>8, <2>1, RecoverKeepsCount
<1>9. CASE BeginAfterRelogin
  <2>1. /\ status' \in [Plans -> Finished \cup {"PENDING", "RUNNING"}]
        /\ ResultsFollowPlans'
    BY <1>6, <1>9 DEF BeginAfterRelogin
  <2> QED  BY <1>1, <1>8, <1>9, <2>1 DEF BeginAfterRelogin, StartAttempts, TypeOK
<1>10. CASE ReloginFails
  <2>1. "EXEC_FAILED" \in Finished
    BY DEF Finished
  <2>2. /\ results' \in Seq([plan : Plans, status : Finished])
        /\ status' \in [Plans -> Finished \cup {"PENDING", "RUNNING"}]
        /\ ResultsFollowPlans'
    BY <1>10, <2>1, LoopRecord DEF ReloginFails
  <2>3. /\ page' \in {"none", "open", "lost", "closed"}
        /\ pages' \in Nat /\ unclosed' \in Nat /\ logins' \in Nat
    BY <1>8, <1>10 DEF ReloginFails
  <2>4. /\ idx' \in 1 .. NPlans + 1
        /\ UNCHANGED <<attempt, recovered, last, tries, raising>>
    BY <1>1, <1>10 DEF ReloginFails, Plans
  <2>5. /\ pc' \in {"before", "fill"}
        /\ fill' \in Handled \cup {"NONE"}
    BY <1>1, <1>10 DEF ReloginFails, TypeOK
  <2> QED  BY <1>1, <2>2, <2>3, <2>4, <2>5 DEF TypeOK
<1>11. CASE OutputFails
  <2>1. /\ status' \in [Plans -> Finished \cup {"PENDING", "RUNNING"}]
        /\ ResultsFollowPlans'
    BY <1>6, <1>11 DEF OutputFails
  <2> QED  BY <1>1, <1>11, <2>1 DEF OutputFails, TypeOK
<1>12. CASE Capture
  <2>1. last' \in Outcomes
    <3>1. PICK o \in Outcomes : last' \in CheckedAfter(o, page')
      BY <1>12 DEF Capture
    <3> QED  BY <3>1 DEF CheckedAfter, HealthyChoices, Gates
  <2>2. page' \in {"none", "open", "lost", "closed"}
    BY <1>1, <1>12 DEF Capture, TypeOK
  <2>3. tries' \in [Plans -> Nat]
    <3>1. tries \in [Plans -> Nat] /\ tries' = [tries EXCEPT ![idx] = @ + 1]
      BY <1>1, <1>12 DEF Capture, TypeOK
    <3>2. idx \in Plans
      BY <1>1, <1>12 DEF Capture, LoopPosition, Attempting
    <3> QED  BY <3>1, <3>2
  <2> QED  BY <1>1, <1>12, <2>1, <2>2, <2>3 DEF Capture, TypeOK, ResultsFollowPlans
<1>13. CASE StopAttempts
  BY <1>1, <1>13 DEF StopAttempts, TypeOK, ResultsFollowPlans
<1>14. CASE TryAgain
  <2>1. recovered' \in {0, 1}
    BY <1>1, <1>14 DEF TryAgain, WantsRecovery, TypeOK
  <2>2. PICK ok \in BOOLEAN :
          /\ RecoverSession(ok)
          /\ attempt' = IF ok THEN attempt + 1 ELSE attempt
          /\ pc' = IF ok /\ attempt' <= RetryCount[idx] + recovered'
                   THEN "capture" ELSE "record"
    BY <1>14 DEF TryAgain
  <2>3. /\ page' \in {"none", "open", "lost", "closed"}
        /\ pages' \in Nat /\ unclosed' \in Nat /\ logins' \in Nat
    BY <1>8, <1>14, <2>2 DEF TryAgain
  <2>4. UNCHANGED <<idx, last, tries, status, results, fill, raising>>
    BY <1>14 DEF TryAgain
  <2>5. ResultsFollowPlans'
    BY <1>1, <2>4 DEF ResultsFollowPlans
  <2> QED  BY <1>1, <2>1, <2>2, <2>3, <2>4, <2>5 DEF TypeOK
<1>15. CASE RecordPlan
  <2>1. idx \in Plans /\ pc = "record" /\ last \in Outcomes
    BY <1>1, <1>15 DEF RecordPlan, LoopPosition, Attempting
  <2>2. (IF last.status = "EXEC_SUCCESS" THEN "SUCCESS" ELSE last.status) \in Finished
    BY <2>1 DEF Outcomes, Finished
  <2>3. /\ results' \in Seq([plan : Plans, status : Finished])
        /\ status' \in [Plans -> Finished \cup {"PENDING", "RUNNING"}]
        /\ ResultsFollowPlans'
    BY <1>15, <2>1, <2>2, LoopRecord DEF RecordPlan
  <2> QED  BY <1>1, <1>15, <2>1, <2>3 DEF RecordPlan, TypeOK, Plans
<1>16. CASE Logout
  BY <1>1, <1>16 DEF Logout, TypeOK, ResultsFollowPlans
<1>17. CASE FillPlan
  <2>1. fill \in Finished
    BY <1>1, <1>17 DEF FillPlan, LoopPosition, Finished
  <2>2. /\ results' \in Seq([plan : Plans, status : Finished])
        /\ status' \in [Plans -> Finished \cup {"PENDING", "RUNNING"}]
        /\ ResultsFollowPlans'
    BY <1>17, <2>1, FillRecord DEF FillPlan
  <2> QED  BY <1>1, <1>17, <2>2 DEF FillPlan, TypeOK
<1>18. CASE EndFill
  BY <1>1, <1>18 DEF EndFill, TypeOK, ResultsFollowPlans
<1>19. CASE ClosingPage
  <2>1. /\ page' \in {"none", "open", "lost", "closed"}
        /\ pages' \in Nat /\ unclosed' \in Nat /\ logins' \in Nat
    BY <1>1, <1>19 DEF ClosingPage, ClosePage, TypeOK, PageCount
  <2> QED  BY <1>1, <1>19, <2>1 DEF ClosingPage, TypeOK, ResultsFollowPlans
<1>20. CASE Ended \/ UNCHANGED vars
  BY <1>1, <1>20 DEF Ended, vars, TypeOK, ResultsFollowPlans
<1> QED
  BY <1>2, <1>3, <1>4, <1>5, <1>7, <1>9, <1>10, <1>11, <1>12, <1>13, <1>14, <1>15,
     <1>16, <1>17, <1>18, <1>19, <1>20 DEF Next

(* Where the loop is agrees with what has been reported.                   *)
LEMMA PositionStep ==
  ASSUME SessionInv, [Next]_vars
  PROVE  LoopPosition'
<1>1. /\ TypeOK /\ ResultsFollowPlans /\ LoopPosition /\ TypeOK' /\ ResultsFollowPlans'
      /\ NPlans \in Nat \ {0}
  BY TypeStep, SessionAssumption DEF SessionInv
<1>2. Len(results) \in Nat /\ Len(results') \in Nat
  BY <1>1 DEF TypeOK
<1> USE DEF loopVars, pageVars, endVars, GoOn, Handle, Handled, Attempting, Closing
<1>3. CASE OpenPage
  BY <1>1, <1>3 DEF OpenPage, LoopPosition
<1>4. CASE Login
  <2>1. idx = 1 /\ Len(results) = 0
    BY <1>1, <1>4 DEF Login, LoopPosition
  <2> QED  BY <1>1, <1>4, <2>1 DEF Login, LoopPosition, TypeOK
<1>5. ASSUME NEW s \in Finished, Record(idx, s), idx \in Plans, idx' = idx + 1,
             pc \in {"rejected", "before", "record"},
             NEW next \in {"rejected", "before"}, GoOn(next)
      PROVE  LoopPosition'
  <2>1. Len(results') = idx
    BY <1>5, LoopRecord
  <2>2. Len(results') = idx' - 1
    BY <1>1, <1>5, <2>1 DEF Plans
  <2> QED  BY <1>1, <1>5, <2>2 DEF LoopPosition, TypeOK
<1>6. "EXEC_FAILED" \in Finished
  BY DEF Finished
<1>7. CASE RejectPlan
  BY <1>5, <1>6, <1>7 DEF RejectPlan
<1>8. CASE EndRejection
  <2>1. Len(results) = NPlans
    BY <1>1, <1>2, <1>8 DEF EndRejection, LoopPosition, TypeOK, Plans, ResultsFollowPlans
  <2> QED  BY <1>1, <1>8, <2>1 DEF EndRejection, LoopPosition
<1>9. CASE BeginPlan
  BY <1>1, <1>9 DEF BeginPlan, LoopPosition
<1>10. CASE BeginAfterRelogin
  BY <1>1, <1>10 DEF BeginAfterRelogin, LoopPosition
<1>11. CASE ReloginFails
  BY <1>5, <1>6, <1>11 DEF ReloginFails
<1>12. CASE OutputFails
  BY <1>1, <1>12 DEF OutputFails, LoopPosition
<1>13. CASE Capture
  <2>1. last' \in Outcomes
    <3>1. PICK o \in Outcomes : last' \in CheckedAfter(o, page')
      BY <1>13 DEF Capture
    <3> QED  BY <3>1 DEF CheckedAfter, HealthyChoices, Gates
  <2> QED  BY <1>1, <1>13, <2>1 DEF Capture, LoopPosition
<1>14. CASE StopAttempts
  BY <1>1, <1>14 DEF StopAttempts, LoopPosition
<1>15. CASE TryAgain
  BY <1>1, <1>15 DEF TryAgain, LoopPosition
<1>16. CASE RecordPlan
  <2>1. idx \in Plans /\ last \in Outcomes
    BY <1>1, <1>16 DEF RecordPlan, LoopPosition
  <2>2. (IF last.status = "EXEC_SUCCESS" THEN "SUCCESS" ELSE last.status) \in Finished
    BY <2>1 DEF Outcomes, Finished
  <2> QED  BY <1>5, <1>16, <2>1, <2>2 DEF RecordPlan
<1>17. CASE Logout
  <2>1. Len(results) = NPlans
    BY <1>1, <1>2, <1>17 DEF Logout, LoopPosition, TypeOK, Plans, ResultsFollowPlans
  <2> QED  BY <1>1, <1>17, <2>1 DEF Logout, LoopPosition
<1>18. CASE FillPlan
  BY <1>1, <1>18 DEF FillPlan, LoopPosition
<1>19. CASE EndFill
  <2>1. \A p \in Plans : p <= Len(results)
    BY <1>1, <1>19 DEF EndFill, Unfinished, ResultsFollowPlans
  <2>2. NPlans \in Plans
    BY <1>1 DEF Plans
  <2>3. Len(results) = NPlans
    BY <1>1, <1>2, <2>1, <2>2 DEF ResultsFollowPlans
  <2> QED  BY <1>1, <1>19, <2>3 DEF EndFill, LoopPosition
<1>20. CASE ClosingPage
  BY <1>1, <1>20 DEF ClosingPage, LoopPosition
<1>21. CASE Ended \/ UNCHANGED vars
  BY <1>1, <1>21 DEF Ended, vars, LoopPosition
<1> QED
  BY <1>3, <1>4, <1>7, <1>8, <1>9, <1>10, <1>11, <1>12, <1>13, <1>14, <1>15,
     <1>16, <1>17, <1>18, <1>19, <1>20, <1>21 DEF Next

(* Pages are closed or counted.                                            *)
LEMMA PageStep ==
  ASSUME SessionInv, [Next]_vars
  PROVE  PageCount'
<1>1. TypeOK /\ PageCount /\ LoopPosition
  BY DEF SessionInv
<1> USE DEF loopVars, pageVars, endVars, GoOn, Handle, Handled, Closing, Alive
<1>2. CASE OpenPage
  BY <1>1, <1>2 DEF OpenPage, PageCount, TypeOK
<1>3. CASE Login
  BY <1>1, <1>3 DEF Login, PageCount, TypeOK
<1>4. ASSUME pc \in {"before", "decide"}, NEW ok \in BOOLEAN, RecoverSession(ok),
             pc' \notin {"start", "login", "returned", "raised"}
      PROVE  PageCount'
  <2>1. page # "none"
    BY <1>1, <1>4 DEF PageCount
  <2> QED  BY <1>1, <1>4, <2>1, RecoverKeepsCount DEF PageCount
<1>5. CASE BeginAfterRelogin
  BY <1>4, <1>5 DEF BeginAfterRelogin
<1>6. CASE ReloginFails
  BY <1>4, <1>6 DEF ReloginFails
<1>7. CASE TryAgain
  BY <1>4, <1>7 DEF TryAgain
<1>8. CASE Capture
  BY <1>1, <1>8 DEF Capture, PageCount
<1>9. CASE ClosingPage
  <2>1. CASE page = "none"
    BY <1>1, <1>9, <2>1 DEF ClosingPage, PageCount, TypeOK
  <2>2. CASE page # "none"
    BY <1>1, <1>9, <2>2 DEF ClosingPage, ClosePage, PageCount, TypeOK
  <2> QED  BY <2>1, <2>2
<1>10. CASE RejectPlan \/ EndRejection \/ BeginPlan \/ OutputFails \/ StopAttempts
            \/ RecordPlan \/ Logout \/ FillPlan \/ EndFill \/ Ended \/ UNCHANGED vars
  BY <1>1, <1>10 DEF RejectPlan, EndRejection, BeginPlan, OutputFails, StopAttempts,
     RecordPlan, Logout, FillPlan, EndFill, Ended, vars, PageCount
<1> QED
  BY <1>2, <1>3, <1>5, <1>6, <1>7, <1>8, <1>9, <1>10 DEF Next

(* The attempt counter agrees with the records and stays within its limit. *)
LEMMA AttemptStep ==
  ASSUME SessionInv, [Next]_vars
  PROVE  AttemptCount'
<1>1. /\ TypeOK /\ LoopPosition /\ AttemptCount
      /\ NPlans \in Nat \ {0} /\ RetryCount \in [Plans -> Nat]
  BY SessionAssumption DEF SessionInv, Plans
<1>2. /\ tries \in [Plans -> Nat] /\ idx \in Nat
      /\ \A p \in Plans : p \in Nat
  BY <1>1 DEF TypeOK, Plans
<1> USE DEF loopVars, pageVars, endVars, GoOn, Handle, Attempting, Closing
<1>3. CASE OpenPage \/ Login
  BY <1>1, <1>2, <1>3 DEF OpenPage, Login, AttemptCount
<1>4. ASSUME idx' = idx + 1, UNCHANGED tries, pc \in {"rejected", "before", "record"},
             pc' \in {"rejected", "before", "fill"}
      PROVE  AttemptCount'
  BY <1>1, <1>2, <1>4 DEF AttemptCount
<1>5. CASE RejectPlan \/ ReloginFails \/ RecordPlan
  BY <1>4, <1>5 DEF RejectPlan, ReloginFails, RecordPlan
<1>6. CASE BeginPlan \/ BeginAfterRelogin
  <2>1. /\ pc = "before" /\ pc' = "capture" /\ attempt' = 0 /\ recovered' = 0
        /\ idx \in Plans /\ UNCHANGED <<idx, tries>>
    BY <1>6 DEF BeginPlan, BeginAfterRelogin, StartAttempts
  <2>2. tries[idx] = 0
    BY <1>1, <1>2, <2>1 DEF AttemptCount
  <2> QED  BY <1>1, <1>2, <2>1, <2>2 DEF AttemptCount
<1>7. CASE EndRejection \/ OutputFails \/ Logout \/ FillPlan \/ EndFill
           \/ ClosingPage \/ Ended \/ UNCHANGED vars
  BY <1>1, <1>2, <1>7 DEF EndRejection, OutputFails, Logout, FillPlan, EndFill,
     ClosingPage, Ended, vars, AttemptCount
<1>8. CASE Capture
  <2>1. /\ pc = "capture" /\ pc' = "decide" /\ idx \in Plans
        /\ tries' = [tries EXCEPT ![idx] = @ + 1]
        /\ UNCHANGED <<idx, attempt, recovered>>
    BY <1>1, <1>8 DEF Capture, LoopPosition
  <2>2. /\ attempt \in Nat /\ recovered \in {0, 1} /\ RetryCount[idx] \in Nat
        /\ attempt <= RetryCount[idx] + recovered /\ tries[idx] = attempt
    BY <1>1, <2>1 DEF AttemptCount, TypeOK
  <2>3. tries'[idx] = attempt + 1 /\ \A p \in Plans \ {idx} : tries'[p] = tries[p]
    BY <1>2, <2>1, <2>2
  <2>4. tries'[idx] <= RetryCount[idx] + 2
    BY <2>2, <2>3
  <2>5. ASSUME NEW p \in Plans PROVE tries'[p] <= RetryCount[p] + 2
    BY <1>1, <2>3, <2>4 DEF AttemptCount
  <2>6. ASSUME NEW p \in Plans, tries'[p] # 0
        PROVE  p < idx' \/ (p = idx' /\ Attempting')
    BY <1>1, <1>2, <2>1, <2>3, <2>6 DEF AttemptCount
  <2> QED  BY <2>1, <2>2, <2>3, <2>5, <2>6 DEF AttemptCount
<1>9. CASE StopAttempts
  BY <1>1, <1>2, <1>9 DEF StopAttempts, AttemptCount
<1>10. CASE TryAgain
  <2>1. /\ pc = "decide" /\ idx \in Plans /\ UNCHANGED <<idx, tries>>
        /\ attempt \in Nat /\ recovered \in {0, 1} /\ RetryCount[idx] \in Nat
        /\ attempt <= RetryCount[idx] + recovered /\ tries[idx] = attempt + 1
    BY <1>1, <1>10 DEF TryAgain, LoopPosition, AttemptCount, TypeOK
  <2>2. PICK ok \in BOOLEAN :
          /\ attempt' = IF ok THEN attempt + 1 ELSE attempt
          /\ pc' = IF ok /\ attempt' <= RetryCount[idx] + recovered'
                   THEN "capture" ELSE "record"
    BY <1>10 DEF TryAgain
  <2>3. /\ recovered' \in {0, 1} /\ recovered <= recovered'
        /\ recovered' = recovered => attempt < RetryCount[idx]
        /\ recovered' # recovered => recovered = 0 /\ recovered' = 1
    BY <1>10, <2>1 DEF TryAgain, WantsRecovery, WantsRetry
  <2>4. attempt + 1 <= RetryCount[idx] + recovered'
    BY <2>1, <2>3
  <2>5. /\ attempt' <= RetryCount[idx] + recovered'
        /\ tries[idx] = IF pc' = "capture" THEN attempt' ELSE attempt' + 1
        /\ pc' \in {"capture", "record"}
    BY <2>1, <2>2, <2>3, <2>4
  <2> QED  BY <1>1, <2>1, <2>5 DEF AttemptCount
<1> QED
  BY <1>3, <1>5, <1>6, <1>7, <1>8, <1>9, <1>10 DEF Next

(* The bookkeeping of a session agrees wherever it is left.                *)
THEOREM Invariance == Spec => []SessionInv
<1>1. Init => SessionInv
  <2> SUFFICES ASSUME Init PROVE SessionInv
    OBVIOUS
  <2>1. NPlans \in Nat \ {0} /\ RetryCount \in [Plans -> Nat]
    BY SessionAssumption DEF Plans
  <2>2. TypeOK
    <3>1. results \in Seq([plan : Plans, status : Finished])
      BY DEF Init
    <3>2. /\ tries \in [Plans -> Nat]
          /\ status \in [Plans -> Finished \cup {"PENDING", "RUNNING"}]
      BY DEF Init
    <3>3. idx \in 1 .. NPlans + 1
      BY <2>1 DEF Init
    <3> QED  BY <3>1, <3>2, <3>3 DEF Init, TypeOK
  <2>3. ResultsFollowPlans
    BY <2>1 DEF Init, ResultsFollowPlans, Finished, Plans
  <2>4. LoopPosition /\ AttemptCount /\ PageCount
    BY <2>1 DEF Init, LoopPosition, AttemptCount, PageCount, Attempting, Closing, Alive,
       Handled
  <2> QED  BY <2>2, <2>3, <2>4 DEF SessionInv
<1>2. SessionInv /\ [Next]_vars => SessionInv'
  BY TypeStep, PositionStep, AttemptStep, PageStep DEF SessionInv
<1> QED  BY <1>1, <1>2, PTL DEF Spec

(* No page outlives the session unless the browser refused to close it.    *)
THEOREM PagesClosed == Spec => []NoPageLeak
<1>1. SessionInv => NoPageLeak
  BY DEF SessionInv, PageCount, NoPageLeak
<1> QED  BY <1>1, Invariance, PTL

(* The session keeps the promise the scheduler relies on.                  *)
THEOREM Refinement == Spec => KeepsContract
<1>1. Init => Contract!Init
  BY DEF Init, Contract!Init
<1>2. SessionInv /\ SessionInv' /\ [Next]_vars => [Contract!Next]_(Contract!vars)
  <2> SUFFICES ASSUME SessionInv, SessionInv', [Next]_vars
               PROVE  [Contract!Next]_(Contract!vars)
    OBVIOUS
  <2>1. /\ Len(results) \in Nat /\ Len(results') <= NPlans /\ NPlans \in Nat
        /\ Len(results') = Len(results) + 1 => Len(results) < NPlans
    BY SessionAssumption DEF SessionInv, ResultsFollowPlans, TypeOK
  <2> USE DEF Contract!Next, Contract!vars, Contract!ReportNext, Contract!Return,
              Contract!Raise
  <2>2. CASE RejectPlan \/ ReloginFails \/ RecordPlan
    <3>1. PICK s \in Finished : Record(idx, s)
      <4>1. pc = "record" => last.status \in Finished \cup {"EXEC_SUCCESS"}
        BY DEF SessionInv, LoopPosition, Outcomes, Finished
      <4>2. "EXEC_FAILED" \in Finished /\ "SUCCESS" \in Finished
        BY DEF Finished
      <4> QED  BY <2>2, <4>1, <4>2 DEF RejectPlan, ReloginFails, RecordPlan
    <3>2. /\ idx \in Plans /\ pc \in {"rejected", "before", "record"}
          /\ pc' \in {"rejected", "before", "fill"}
      BY <2>2 DEF RejectPlan, ReloginFails, RecordPlan, GoOn, Handle, SessionInv,
         LoopPosition, Attempting
    <3>3. Len(results') = Len(results) + 1
      <4>1. Len(results') = idx
        BY <3>1, <3>2, LoopRecord
      <4>2. Len(results) = idx - 1 /\ idx \in Nat
        BY <3>2 DEF SessionInv, LoopPosition, Attempting, TypeOK, Plans
      <4> QED  BY <2>1, <4>1, <4>2
    <3> QED  BY <2>1, <3>2, <3>3
  <2>3. CASE FillPlan
    <3>1. PICK p \in Unfinished : (\A q \in Unfinished : p <= q) /\ Record(p, fill)
      BY <2>3 DEF FillPlan
    <3>2. fill \in Finished /\ pc = "fill" /\ pc' \in {"fill", "close"}
      BY <2>3 DEF FillPlan, SessionInv, LoopPosition, Handled, Finished
    <3>3. Len(results') = Len(results) + 1
      BY <3>1, <3>2, FillRecord
    <3> QED  BY <2>1, <3>2, <3>3
  <2>4. CASE ClosingPage
    <3>1. /\ pc = "close" /\ UNCHANGED results
          /\ pc' = IF raising THEN "raised" ELSE "returned"
          /\ ~raising => Len(results) = NPlans
      BY <2>4 DEF ClosingPage, SessionInv, LoopPosition, Closing
    <3> QED  BY <2>1, <3>1
  <2>5. CASE OpenPage \/ Login \/ EndRejection \/ BeginPlan \/ BeginAfterRelogin
             \/ OutputFails \/ Capture \/ StopAttempts \/ TryAgain \/ Logout \/ EndFill
             \/ Ended \/ UNCHANGED vars
    BY <2>5 DEF OpenPage, Login, EndRejection, BeginPlan, BeginAfterRelogin, OutputFails,
       Capture, StopAttempts, TryAgain, Logout, EndFill, Ended, Handle, vars, loopVars,
       pageVars, endVars
  <2> QED  BY <2>2, <2>3, <2>4, <2>5 DEF Next
<1> QED  BY <1>1, <1>2, Invariance, PTL DEF Spec, KeepsContract, Contract!Spec
-----------------------------------------------------------------------------
(* The number of logins, for any number of plans and retries.              *)

(* A set of naturals that is closed under successor is all of them.        *)
LEMMA Induction ==
  ASSUME NEW S, 0 \in S, \A n \in S \cap Nat : n + 1 \in S
  PROVE  Nat \subseteq S
<1> DEFINE T == Nat \ S
           R == OpToRel(<, Nat)
<1>1. IsWellFoundedOn(R, Nat)  BY NatLessThanWellFounded, Zenon
<1>2. SUFFICES ASSUME T # {} PROVE FALSE  OBVIOUS
<1>3. PICK x \in T : \A y \in T : <<y, x>> \notin R
  <2> HIDE DEF T, R
  <2>1. T \subseteq Nat  BY DEF T
  <2> QED  BY <1>1, <1>2, <2>1, WFMin
<1>4. x \in Nat /\ x - 1 \in Nat /\ x - 1 < x
  OBVIOUS
<1>5. x - 1 \in T
  <2>1. ASSUME x - 1 \in S PROVE FALSE
    <3>1. x - 1 \in S \cap Nat  BY <1>4, <2>1
    <3>2. (x - 1) + 1 \in S  BY <3>1, Zenon
    <3>3. (x - 1) + 1 = x  BY <1>4
    <3> QED  BY <3>2, <3>3
  <2> QED  BY <1>4, <2>1
<1>6. <<x - 1, x>> \in R
  BY <1>4 DEF OpToRel
<1> QED  BY <1>3, <1>5, <1>6

(* LoginsUpTo is the function its equation describes.                      *)
LEMMA LoginsUpToIs ==
  LoginsUpTo = [n \in 0 .. NPlans |->
                  IF n = 0 THEN 1 ELSE LoginsUpTo[n - 1] + RetryCount[n] + 2]
<1> DEFINE Solves(f, n) ==
             f = [i \in 0 .. n |-> IF i = 0 THEN 1 ELSE f[i - 1] + RetryCount[i] + 2]
           S == {n \in Nat : \E f : Solves(f, n)}
<1>1. 0 \in S
  <2>1. Solves([i \in 0 .. 0 |-> 1], 0)  OBVIOUS
  <2> QED  BY <2>1
<1>2. ASSUME NEW n \in S PROVE n + 1 \in S
  <2>1. PICK f : Solves(f, n)  OBVIOUS
  <2> DEFINE g == [i \in 0 .. n + 1 |->
                     IF i = n + 1 THEN f[n] + RetryCount[n + 1] + 2 ELSE f[i]]
  <2>2. n \in Nat  OBVIOUS
  <2>3. \A i \in 0 .. n : g[i] = f[i]
    BY <2>2
  <2>4. ASSUME NEW i \in 0 .. n + 1
        PROVE  g[i] = IF i = 0 THEN 1 ELSE g[i - 1] + RetryCount[i] + 2
    <3>1. CASE i = n + 1
      <4>1. g[i] = f[n] + RetryCount[i] + 2 /\ i # 0 /\ i - 1 = n  BY <2>2, <3>1
      <4>2. g[i - 1] = f[n]  BY <2>2, <2>3, <4>1
      <4> QED  BY <4>1, <4>2
    <3>2. CASE i # n + 1
      <4>1. i \in 0 .. n /\ (i # 0 => i - 1 \in 0 .. n)  BY <2>2, <3>2
      <4>2. f[i] = IF i = 0 THEN 1 ELSE f[i - 1] + RetryCount[i] + 2
        BY <2>1, <4>1
      <4> HIDE DEF g
      <4> QED  BY <2>3, <4>1, <4>2
    <3> QED  BY <3>1, <3>2
  <2>5. g = [i \in 0 .. n + 1 |-> g[i]]  OBVIOUS
  <2>6. Solves(g, n + 1)
    <3> HIDE DEF g
    <3> QED  BY <2>4, <2>5
  <2>7. \E f2 : Solves(f2, n + 1)  BY <2>6
  <2> HIDE DEF Solves, g
  <2> QED  BY <2>2, <2>7
<1>3. NPlans \in S
  <2> HIDE DEF S
  <2> QED  BY <1>1, <1>2, Induction, SessionAssumption
<1>4. \E f : Solves(f, NPlans)
  BY <1>3
<1> QED  BY <1>4 DEF LoginsUpTo

(* It grows with the plans, by what each of them may cost.                 *)
LEMMA LoginsUpToGrows ==
  /\ LoginsUpTo[0] = 1
  /\ \A n \in Plans : LoginsUpTo[n] = LoginsUpTo[n - 1] + RetryCount[n] + 2
  /\ \A n \in 0 .. NPlans : LoginsUpTo[n] \in Nat /\ LoginsUpTo[n] <= LoginsUpTo[NPlans]
<1>0. NPlans \in Nat \ {0} /\ RetryCount \in [Plans -> Nat]
  BY SessionAssumption DEF Plans
<1>1. /\ LoginsUpTo[0] = 1
      /\ \A n \in Plans : LoginsUpTo[n] = LoginsUpTo[n - 1] + RetryCount[n] + 2
  <2>1. \A n \in 0 .. NPlans :
          LoginsUpTo[n] = IF n = 0 THEN 1 ELSE LoginsUpTo[n - 1] + RetryCount[n] + 2
    <3> DEFINE L == LoginsUpTo
    <3>1. L = [n \in 0 .. NPlans |-> IF n = 0 THEN 1 ELSE L[n - 1] + RetryCount[n] + 2]
      BY LoginsUpToIs
    <3> HIDE DEF L
    <3>2. \A n \in 0 .. NPlans : L[n] = IF n = 0 THEN 1 ELSE L[n - 1] + RetryCount[n] + 2
      BY <3>1
    <3> QED  BY <3>2 DEF L
  <2> QED  BY <1>0, <2>1 DEF Plans
<1> DEFINE S == {n \in Nat : n <= NPlans => LoginsUpTo[n] \in Nat}
           Q == {n \in Nat : n <= NPlans => LoginsUpTo[NPlans - n] <= LoginsUpTo[NPlans]}
<1>2. \A n \in Nat : n <= NPlans => LoginsUpTo[n] \in Nat
  <2>1. 0 \in S  BY <1>1
  <2>2. ASSUME NEW n \in S PROVE n + 1 \in S
    <3>1. CASE n + 1 <= NPlans
      <4>1. n + 1 \in Plans /\ n + 1 - 1 = n /\ LoginsUpTo[n] \in Nat
        BY <1>0, <3>1 DEF Plans
      <4>2. LoginsUpTo[n + 1] = LoginsUpTo[n] + RetryCount[n + 1] + 2
        BY <1>1, <4>1
      <4>3. RetryCount[n + 1] \in Nat  BY <1>0, <4>1
      <4> QED  BY <4>1, <4>2, <4>3
    <3> QED  BY <3>1
  <2>3. Nat \subseteq S
    <3> HIDE DEF S
    <3> QED  BY <2>1, <2>2, Induction
  <2> QED  BY <2>3
<1>3. \A n \in Nat : n <= NPlans => LoginsUpTo[NPlans - n] <= LoginsUpTo[NPlans]
  <2>1. 0 \in Q  BY <1>0, <1>2
  <2>2. ASSUME NEW n \in Q PROVE n + 1 \in Q
    <3>1. CASE n + 1 <= NPlans
      <4> DEFINE m == NPlans - n
      <4>1. m \in Plans /\ m - 1 = NPlans - (n + 1) /\ m - 1 \in Nat /\ m \in Nat
            /\ m <= NPlans /\ m - 1 <= NPlans
        BY <1>0, <3>1 DEF Plans
      <4>2. LoginsUpTo[m] <= LoginsUpTo[NPlans]  BY <1>0, <3>1
      <4>3. LoginsUpTo[m] = LoginsUpTo[m - 1] + RetryCount[m] + 2  BY <1>1, <4>1
      <4>4. /\ LoginsUpTo[m] \in Nat /\ LoginsUpTo[m - 1] \in Nat
            /\ RetryCount[m] \in Nat /\ LoginsUpTo[NPlans] \in Nat
        BY <1>0, <1>2, <4>1
      <4>5. LoginsUpTo[m - 1] <= LoginsUpTo[NPlans]
        <5> HIDE DEF m
        <5> QED  BY <4>2, <4>3, <4>4
      <4> QED  BY <4>1, <4>5
    <3> QED  BY <3>1
  <2>3. Nat \subseteq Q
    <3> HIDE DEF Q
    <3> QED  BY <2>1, <2>2, Induction
  <2> QED  BY <2>3
<1>4. ASSUME NEW n \in 0 .. NPlans
      PROVE  LoginsUpTo[n] \in Nat /\ LoginsUpTo[n] <= LoginsUpTo[NPlans]
  <2>1. NPlans - n \in Nat /\ NPlans - n <= NPlans /\ NPlans - (NPlans - n) = n
    BY <1>0
  <2> QED  BY <1>2, <1>3, <2>1
<1> QED  BY <1>1, <1>4

(* How many logins there were by the time the session is where it is.      *)
LoginCount ==
  /\ pc \in {"start", "login"} => logins = 0
  /\ pc = "rejected" => logins = 1
  /\ pc = "before" => logins <= LoginsUpTo[idx - 1]
  /\ pc \in {"capture", "decide"} => logins <= LoginsUpTo[idx - 1] + 1 + attempt
  /\ pc = "record" => logins <= LoginsUpTo[idx]
  /\ LoginsBounded

(* What LoginsUpTo says of the plan the session is at.                     *)
LEMMA CostOfPlan ==
  ASSUME SessionInv, idx \in Plans
  PROVE  /\ LoginsUpTo[idx - 1] \in Nat /\ LoginsUpTo[idx] \in Nat
         /\ LoginsUpTo[NPlans] \in Nat
         /\ RetryCount[idx] \in Nat /\ idx + 1 - 1 = idx
         /\ LoginsUpTo[idx] = LoginsUpTo[idx - 1] + RetryCount[idx] + 2
         /\ LoginsUpTo[idx] <= LoginsUpTo[NPlans]
<1>1. /\ NPlans \in Nat \ {0} /\ RetryCount \in [Plans -> Nat]
      /\ idx \in 0 .. NPlans /\ idx - 1 \in 0 .. NPlans /\ NPlans \in 0 .. NPlans
  BY SessionAssumption DEF Plans
<1> QED  BY <1>1, LoginsUpToGrows

LEMMA LoginStep ==
  ASSUME SessionInv, LoginCount, [Next]_vars
  PROVE  LoginCount'
<1>1. /\ TypeOK /\ LoopPosition /\ AttemptCount /\ PageCount
      /\ logins \in Nat /\ attempt \in Nat /\ recovered \in {0, 1}
  BY DEF SessionInv, TypeOK
<1>2. /\ LoginsUpTo[0] = 1 /\ LoginsUpTo[NPlans] \in Nat /\ 1 <= LoginsUpTo[NPlans]
      /\ idx \in Plans \/ idx = NPlans + 1
      /\ NPlans \in Nat \ {0}
  <2>1. 0 \in 0 .. NPlans /\ NPlans \in 0 .. NPlans /\ NPlans \in Nat \ {0}
    BY SessionAssumption
  <2>2. idx \in Plans \/ idx = NPlans + 1
    BY <1>1, <2>1 DEF TypeOK, Plans
  <2> QED  BY <2>1, <2>2, LoginsUpToGrows
<1>3. idx \in Plans =>
        /\ LoginsUpTo[idx - 1] \in Nat /\ LoginsUpTo[idx] \in Nat /\ RetryCount[idx] \in Nat
        /\ LoginsUpTo[idx] = LoginsUpTo[idx - 1] + RetryCount[idx] + 2
        /\ LoginsUpTo[idx] <= LoginsUpTo[NPlans]
        /\ idx + 1 - 1 = idx
  BY CostOfPlan
<1> USE DEF loopVars, pageVars, endVars, GoOn, Handle, Handled, LoginCount, LoginsBounded
<1>4. ASSUME NEW ok \in BOOLEAN, RecoverSession(ok)
      PROVE  logins' = logins \/ logins' = logins + 1
  BY <1>4 DEF RecoverSession
<1>5. CASE OpenPage
  BY <1>1, <1>2, <1>5 DEF OpenPage
<1>6. CASE Login
  <2>1. pc = "login" /\ idx = 1 /\ logins = 0  BY <1>1, <1>6 DEF Login, LoopPosition
  <2>2. /\ logins' = 1 /\ idx' = 1 /\ idx' - 1 = 0 /\ pc' \in {"before", "rejected"}
    BY <1>6, <2>1 DEF Login
  <2> QED  BY <1>2, <2>2
<1>7. CASE RejectPlan
  BY <1>1, <1>2, <1>7 DEF RejectPlan
<1>8. CASE EndRejection
  BY <1>1, <1>2, <1>8 DEF EndRejection
<1>9. CASE BeginPlan
  <2>1. /\ idx \in Plans /\ pc = "before" /\ pc' = "capture" /\ UNCHANGED <<idx, logins>>
        /\ attempt' = 0
    BY <1>9 DEF BeginPlan, StartAttempts
  <2> QED  BY <1>1, <1>3, <2>1
<1>10. CASE BeginAfterRelogin
  <2>1. /\ idx \in Plans /\ pc = "before" /\ pc' = "capture" /\ UNCHANGED idx
        /\ attempt' = 0 /\ RecoverSession(TRUE)
    BY <1>10 DEF BeginAfterRelogin, StartAttempts
  <2>2. logins' = logins \/ logins' = logins + 1  BY <1>4, <2>1
  <2>3. logins' <= LoginsUpTo[idx - 1] + 1 /\ logins' <= LoginsUpTo[NPlans]
    BY <1>1, <1>2, <1>3, <2>1, <2>2
  <2> QED  BY <1>1, <1>3, <2>1, <2>3
<1>11. CASE ReloginFails
  <2>1. /\ idx \in Plans /\ pc = "before" /\ pc' \in {"before", "fill"} /\ idx' = idx + 1
        /\ RecoverSession(FALSE)
    BY <1>11 DEF ReloginFails
  <2>2. logins' = logins \/ logins' = logins + 1  BY <1>4, <2>1
  <2>3. logins' <= LoginsUpTo[idx] /\ logins' <= LoginsUpTo[NPlans]
    BY <1>1, <1>2, <1>3, <2>1, <2>2
  <2>4. idx' - 1 = idx  BY <1>2, <2>1 DEF Plans
  <2> QED  BY <2>1, <2>3, <2>4
<1>12. CASE OutputFails
  BY <1>1, <1>12 DEF OutputFails
<1>13. CASE Capture
  BY <1>1, <1>13 DEF Capture
<1>14. CASE StopAttempts
  <2>1. pc = "decide" /\ pc' = "record" /\ UNCHANGED <<idx, logins>> /\ idx \in Plans
    BY <1>1, <1>14 DEF StopAttempts, LoopPosition, Attempting
  <2>2. attempt <= RetryCount[idx] + recovered
    BY <1>1, <2>1 DEF AttemptCount, Attempting
  <2>3. logins <= LoginsUpTo[idx]
    BY <1>1, <1>3, <2>1, <2>2
  <2> QED  BY <2>1, <2>3
<1>15. CASE TryAgain
  <2>1. PICK ok \in BOOLEAN :
          /\ RecoverSession(ok)
          /\ attempt' = IF ok THEN attempt + 1 ELSE attempt
          /\ pc' = IF ok /\ attempt' <= RetryCount[idx] + recovered' THEN "capture" ELSE "record"
    BY <1>15 DEF TryAgain
  <2>2. pc = "decide" /\ idx \in Plans /\ UNCHANGED idx
    BY <1>1, <1>15 DEF TryAgain, LoopPosition, Attempting
  <2>3. attempt <= RetryCount[idx] + recovered
    BY <1>1, <2>2 DEF AttemptCount, Attempting
  <2>4. attempt <= RetryCount[idx]
    <3>1. WantsRecovery \/ WantsRetry  BY <1>15 DEF TryAgain
    <3>2. CASE WantsRecovery  BY <1>1, <1>3, <2>2, <2>3, <3>2 DEF WantsRecovery
    <3>3. CASE WantsRetry  BY <1>1, <1>3, <2>2, <3>3 DEF WantsRetry
    <3> QED  BY <3>1, <3>2, <3>3
  <2>5. logins' = logins \/ logins' = logins + 1  BY <1>4, <2>1
  <2>6. logins <= LoginsUpTo[idx - 1] + 1 + attempt  BY <2>2
  <2>7. logins' <= LoginsUpTo[idx]  BY <1>1, <1>3, <2>2, <2>4, <2>5, <2>6
  <2>8. logins' <= LoginsUpTo[NPlans]  BY <1>1, <1>2, <1>3, <2>2, <2>5, <2>7
  <2>9. pc' = "capture" => logins' <= LoginsUpTo[idx - 1] + 1 + attempt'
    BY <1>1, <1>3, <2>1, <2>2, <2>5, <2>6
  <2> QED  BY <2>1, <2>2, <2>7, <2>8, <2>9
<1>16. CASE RecordPlan
  <2>1. /\ idx \in Plans /\ pc = "record" /\ pc' \in {"before", "fill"} /\ idx' = idx + 1
        /\ UNCHANGED logins
    BY <1>1, <1>16 DEF RecordPlan, LoopPosition, Attempting
  <2>2. idx' - 1 = idx  BY <1>2, <2>1 DEF Plans
  <2> QED  BY <2>1, <2>2
<1>17. CASE Logout
  BY <1>17 DEF Logout
<1>18. CASE FillPlan
  BY <1>18 DEF FillPlan
<1>19. CASE EndFill
  BY <1>19 DEF EndFill
<1>20. CASE ClosingPage
  BY <1>20 DEF ClosingPage
<1>21. CASE UNCHANGED vars
  BY <1>21 DEF vars
<1> QED
  BY <1>5, <1>6, <1>7, <1>8, <1>9, <1>10, <1>11, <1>12, <1>13, <1>14, <1>15, <1>16,
     <1>17, <1>18, <1>19, <1>20, <1>21 DEF Next, Ended

(* bmc_session_runner.py logs in at three places, one of which does not    *)
(* count as a retry: a group never asks for more logins than one, and per  *)
(* plan one before it, one per retry and one recovery.                     *)
THEOREM Logins == Spec => []LoginsBounded
<1>1. Init => LoginCount
  <2>1. 1 <= LoginsUpTo[NPlans] /\ LoginsUpTo[NPlans] \in Nat
    <3>1. 0 \in 0 .. NPlans /\ NPlans \in 0 .. NPlans  BY SessionAssumption
    <3> QED  BY <3>1, LoginsUpToGrows
  <2> QED  BY <2>1 DEF Init, LoginCount, LoginsBounded
<1>2. SessionInv /\ LoginCount /\ [Next]_vars => LoginCount'  BY LoginStep
<1>3. LoginCount => LoginsBounded  BY DEF LoginCount
<1> QED  BY <1>1, <1>2, <1>3, Invariance, PTL DEF Spec
==============================================================================
