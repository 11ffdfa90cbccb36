----------------------- MODULE ResourceRegistry_proofs -----------------------
(***************************************************************************)
(* Theorems about ResourceRegistry, for every number of processes, threads *)
(* and endpoints, with or without the file lock, timeouts and crashes.     *)
(***************************************************************************)
EXTENDS ResourceRegistry, TLAPS

(* Every variable keeps its type.                                          *)
LEMMA TypeStep ==
  ASSUME RegistryInv, [Next]_vars
  PROVE  TypeOK'
<1>0. TypeOK /\ FileInsideMutex  BY DEF RegistryInv
<1>1. /\ ProcOf \in [Threads -> Procs] /\ None \notin Threads \cup Procs \cup Inodes
      /\ Methods \subseteq {"try_hold", "wait_and_hold", "acquire"}
  BY RegistryConstants, RegistryNone
<1> USE DEF Goto, Pcs
<1>2. ASSUME NEW t \in Threads, Call(t) PROVE TypeOK'
  BY <1>0, <1>1, <1>2 DEF Call, TypeOK, tableVars, fileVars
<1>3. ASSUME NEW t \in Threads, EnterReentrant(t) PROVE TypeOK'
  BY <1>0, <1>3 DEF EnterReentrant, TypeOK, tableVars, fileVars
<1>4. ASSUME NEW t \in Threads, FindHeld(t) PROVE TypeOK'
  BY <1>0, <1>4 DEF FindHeld, TypeOK, tableVars, fileVars
<1>5. ASSUME NEW t \in Threads, TimeOut(t) PROVE TypeOK'
  BY <1>0, <1>5 DEF TimeOut, TypeOK, tableVars, fileVars
<1>6. ASSUME NEW t \in Threads, TakeLease(t) PROVE TypeOK'
  BY <1>0, <1>1, <1>6 DEF TakeLease, TypeOK, fileVars
<1>7. ASSUME NEW t \in Threads, GoForFile(t) PROVE TypeOK'
  BY <1>0, <1>1, <1>7 DEF GoForFile, TypeOK, fileVars
<1>8. ASSUME NEW t \in Threads, OpenFile(t) PROVE TypeOK'
  BY <1>0, <1>8 DEF OpenFile, TypeOK, tableVars, FreeInodes
<1>9. ASSUME NEW t \in Threads, LockFile(t) PROVE TypeOK'
  BY <1>0, <1>1, <1>9 DEF LockFile, TypeOK
<1>10. ASSUME NEW t \in Threads, FindLocked(t) PROVE TypeOK'
  BY <1>0, <1>10 DEF FindLocked, TypeOK, fileVars
<1>11. ASSUME NEW t \in Threads, ExitReentrant(t) PROVE TypeOK'
  BY <1>0, <1>11 DEF ExitReentrant, TypeOK, tableVars, fileVars
<1>12. ASSUME NEW t \in Threads, DeleteLease(t) PROVE TypeOK'
  BY <1>0, <1>12 DEF DeleteLease, TypeOK, fileVars, Woken
<1>13. ASSUME NEW t \in Threads, PopContext(t) PROVE TypeOK'
  <2>1. /\ key[t] \in Endpoints /\ ProcOf[t] \in Procs
        /\ ContextOf(t) \in Inodes \cup {None}
    BY <1>0, <1>1, <1>13 DEF PopContext, TypeOK, ContextOf
  <2>2. /\ pc' \in [Threads -> Pcs]
        /\ \A u \in Threads : pc'[u] # "idle" => key[u] \in Endpoints
    BY <1>0, <1>13 DEF PopContext, TypeOK
  <2>3. fd' \in [Threads -> Inodes \cup {None}]
    BY <1>0, <1>13, <2>1 DEF PopContext, TypeOK
  <2>4. context' \in [Procs -> [Endpoints -> Inodes \cup {None}]]
    <3>1. \/ context' = [context EXCEPT ![ProcOf[t]][key[t]] = None]
          \/ context' = context
      BY <1>13 DEF PopContext
    <3>2. context \in [Procs -> [Endpoints -> Inodes \cup {None}]]
      BY <1>0 DEF TypeOK
    <3> QED  BY <2>1, <3>1, <3>2
  <2>5. UNCHANGED <<method, key, did, calls, lease, mutex, fileVars, crashes>>
    BY <1>13 DEF PopContext
  <2> QED  BY <1>0, <2>2, <2>3, <2>4, <2>5 DEF TypeOK, fileVars
<1>14. ASSUME NEW t \in Threads, UnlockFile(t) PROVE TypeOK'
  BY <1>0, <1>14 DEF UnlockFile, TypeOK, tableVars
<1>15. ASSUME NEW t \in Threads, UnlinkPath(t) PROVE TypeOK'
  BY <1>0, <1>15 DEF UnlinkPath, TypeOK, tableVars
<1>16. ASSUME NEW p \in Procs, Crash(p) PROVE TypeOK'
  <2>1. /\ pc' \in [Threads -> Pcs]
        /\ fd' \in [Threads -> Inodes \cup {None}]
        /\ lease' \in [Procs -> [Endpoints -> Threads \cup {None}]]
        /\ context' \in [Procs -> [Endpoints -> Inodes \cup {None}]]
        /\ mutex' \in [Procs -> Threads \cup {None}]
        /\ flock' \in [Inodes -> Procs \cup {None}]
        /\ crashes' \in Nat
    BY <1>0, <1>16 DEF Crash, TypeOK
  <2>2. did' \in [Threads -> BOOLEAN]
    <3>1. did' = [t \in Threads |-> IF ProcOf[t] = p THEN FALSE ELSE did[t]]
      BY <1>16 DEF Crash
    <3>2. \A t \in Threads : did[t] \in BOOLEAN
      BY <1>0 DEF TypeOK
    <3>3. \A t \in Threads :
            (IF ProcOf[t] = p THEN FALSE ELSE did[t]) \in BOOLEAN
      BY <3>2
    <3> QED  BY <3>1, <3>3
  <2>3. \A t \in Threads : pc'[t] # "idle" => key'[t] \in Endpoints
    BY <1>0, <1>16 DEF Crash, TypeOK
  <2>4. UNCHANGED <<method, key, calls, path>>
    BY <1>16 DEF Crash
  <2> QED  BY <1>0, <2>1, <2>2, <2>3, <2>4 DEF TypeOK
<1>17. CASE UNCHANGED vars
  BY <1>0, <1>17 DEF TypeOK, vars, threadVars, tableVars, fileVars
<1> QED
  BY <1>2, <1>3, <1>4, <1>5, <1>6, <1>7, <1>8, <1>9, <1>10, <1>11, <1>12,
     <1>13, <1>14, <1>15, <1>16, <1>17 DEF Next, ThreadStep, Quiet

(* Steps that neither take nor give back a lease.                          *)
QuietStep(t) ==
  \/ Call(t) \/ EnterReentrant(t) \/ FindHeld(t) \/ TimeOut(t) \/ GoForFile(t)
  \/ OpenFile(t) \/ FindLocked(t) \/ ExitReentrant(t) \/ PopContext(t)
  \/ UnlockFile(t) \/ UnlinkPath(t)

LEMMA QuietFrame ==
  ASSUME TypeOK, AskingHasNothing, NEW t \in Threads, QuietStep(t)
  PROVE  /\ UNCHANGED lease
         /\ \A u \in Threads : Holds(u)' <=> Holds(u)
         /\ \A u \in Threads : Holds(u) => key'[u] = key[u]
<1>0. /\ pc \in [Threads -> Pcs] /\ did \in [Threads -> BOOLEAN]
      /\ key \in [Threads -> Endpoints \cup {None}]
  BY DEF TypeOK
<1> USE DEF Holds, Goto
<1>1. CASE Call(t)
  <2>1. /\ UNCHANGED lease /\ pc[t] = "idle"
        /\ pc' = [pc EXCEPT ![t] = "enter"]
        /\ did' = [did EXCEPT ![t] = FALSE]
        /\ \A u \in Threads \ {t} : key'[u] = key[u]
    BY <1>0, <1>1 DEF Call, tableVars
  <2> QED  BY <1>0, <2>1
<1>2. CASE EnterReentrant(t)
  BY <1>0, <1>2 DEF EnterReentrant, tableVars, AskingHasNothing
<1>3. CASE FindHeld(t)
  <2>1. /\ pc[t] \in {"enter", "woken"} /\ UNCHANGED <<lease, did, key>>
        /\ \E l \in {"idle", "waiting"} : pc' = [pc EXCEPT ![t] = l]
    BY <1>3 DEF FindHeld, tableVars
  <2> QED  BY <1>0, <2>1
<1>4. CASE TimeOut(t)  BY <1>0, <1>4 DEF TimeOut, tableVars
<1>5. CASE GoForFile(t)  BY <1>0, <1>5 DEF GoForFile
<1>6. CASE OpenFile(t)  BY <1>0, <1>6 DEF OpenFile, tableVars
<1>7. CASE FindLocked(t)
  <2>1. /\ pc[t] = "flock" /\ UNCHANGED <<lease, did, key>>
        /\ \E l \in {"idle", "open"} : pc' = [pc EXCEPT ![t] = l]
    BY <1>7 DEF FindLocked
  <2> QED  BY <1>0, <2>1
<1>8. CASE ExitReentrant(t)  BY <1>0, <1>8 DEF ExitReentrant, tableVars
<1>9. CASE PopContext(t)
  <2>1. /\ pc[t] = "closing" /\ UNCHANGED <<lease, did, key>>
        /\ \E l \in {"idle", "unlock"} : pc' = [pc EXCEPT ![t] = l]
    BY <1>9 DEF PopContext
  <2> QED  BY <1>0, <2>1
<1>10. CASE UnlockFile(t)  BY <1>0, <1>10 DEF UnlockFile, tableVars
<1>11. CASE UnlinkPath(t)  BY <1>0, <1>11 DEF UnlinkPath, tableVars
<1> QED
  BY <1>1, <1>2, <1>3, <1>4, <1>5, <1>6, <1>7, <1>8, <1>9, <1>10, <1>11
  DEF QuietStep

(* What taking a lease, by either way, does to the table and its holders.  *)
LEMMA TakeFacts ==
  ASSUME RegistryInv, NEW t \in Threads, TakeLease(t) \/ LockFile(t)
  PROVE  /\ key[t] \in Endpoints /\ ProcOf[t] \in Procs
         /\ lease[ProcOf[t]][key[t]] = None
         /\ lease' = [lease EXCEPT ![ProcOf[t]][key[t]] = t]
         /\ Holds(t)' /\ ~Holds(t)
         /\ \A u \in Threads \ {t} : Holds(u)' <=> Holds(u)
         /\ UNCHANGED key
<1>0. /\ pc \in [Threads -> Pcs] /\ did \in [Threads -> BOOLEAN]
      /\ pc[t] # "idle" => key[t] \in Endpoints
      /\ FileInsideMutex /\ ProcOf[t] \in Procs
  BY RegistryConstants DEF RegistryInv, TypeOK
<1>1. /\ pc[t] \in {"enter", "woken", "flock"}
      /\ pc' = [pc EXCEPT ![t] = "holding"]
      /\ did' = [did EXCEPT ![t] = TRUE]
      /\ lease' = [lease EXCEPT ![ProcOf[t]][key[t]] = t]
      /\ UNCHANGED key
  BY DEF TakeLease, LockFile, Goto
<1>2. lease[ProcOf[t]][key[t]] = None
  BY <1>0 DEF TakeLease, LockFile, IsFree, LeaseOf, FileInsideMutex
<1> QED  BY <1>0, <1>1, <1>2 DEF Holds

(* A holder that gives its lease back stops holding before it is free.     *)
LEMMA GiveFacts ==
  ASSUME RegistryInv, NEW t \in Threads, DeleteLease(t)
  PROVE  /\ key[t] \in Endpoints /\ ProcOf[t] \in Procs
         /\ lease[ProcOf[t]][key[t]] = t
         /\ lease' = [lease EXCEPT ![ProcOf[t]][key[t]] = None]
         /\ Holds(t) /\ ~Holds(t)'
         /\ \A u \in Threads \ {t} : Holds(u)' <=> Holds(u)
         /\ UNCHANGED <<key, did>>
<1>0. /\ pc \in [Threads -> Pcs]
      /\ pc[t] # "idle" => key[t] \in Endpoints
      /\ ProcOf[t] \in Procs /\ LeaseIsHeld
  BY RegistryConstants DEF RegistryInv, TypeOK
<1>1. /\ pc[t] = "holding" /\ did[t] /\ UNCHANGED <<key, did>>
      /\ lease' = [lease EXCEPT ![ProcOf[t]][key[t]] = None]
      /\ \A u \in Threads :
           pc'[u] = IF u = t THEN "closing"
                    ELSE IF u \in Woken(t) THEN "woken" ELSE pc[u]
  BY <1>0 DEF DeleteLease
<1>2. \A u \in Threads \ {t} : pc'[u] = "holding" <=> pc[u] = "holding"
  BY <1>1 DEF Woken
<1>3. lease[ProcOf[t]][key[t]] = t
  BY <1>0, <1>1 DEF LeaseIsHeld, Holds
<1> QED  BY <1>0, <1>1, <1>2, <1>3 DEF Holds

(* Leases go on naming exactly the threads that hold their endpoints.      *)
LEMMA HeldStep ==
  ASSUME RegistryInv, [Next]_vars
  PROVE  LeaseIsHeld'
<1>0. /\ TypeOK /\ LeaseIsHeld /\ AskingHasNothing
      /\ lease \in [Procs -> [Endpoints -> Threads \cup {None}]]
      /\ ProcOf \in [Threads -> Procs] /\ None \notin Threads
  BY RegistryConstants, RegistryNone DEF RegistryInv, TypeOK
<1>1. ASSUME NEW t \in Threads, QuietStep(t) PROVE LeaseIsHeld'
  BY <1>0, <1>1, QuietFrame DEF LeaseIsHeld
<1>2. ASSUME NEW t \in Threads, TakeLease(t) \/ LockFile(t) PROVE LeaseIsHeld'
  BY <1>0, <1>2, TakeFacts DEF LeaseIsHeld
<1>3. ASSUME NEW t \in Threads, DeleteLease(t) PROVE LeaseIsHeld'
  BY <1>0, <1>3, GiveFacts DEF LeaseIsHeld
<1>4. ASSUME NEW p \in Procs, Crash(p) PROVE LeaseIsHeld'
  <2>1. /\ pc' = [t \in Threads |-> IF ProcOf[t] = p THEN "idle" ELSE pc[t]]
        /\ did' = [t \in Threads |-> IF ProcOf[t] = p THEN FALSE ELSE did[t]]
        /\ lease' = [lease EXCEPT ![p] = [e \in Endpoints |-> None]]
        /\ UNCHANGED key
    BY <1>4 DEF Crash
  <2>2. \A t \in Threads : Holds(t)' <=> Holds(t) /\ ProcOf[t] # p
    BY <2>1 DEF Holds
  <2> QED  BY <1>0, <2>1, <2>2 DEF LeaseIsHeld
<1>5. CASE UNCHANGED vars
  BY <1>0, <1>5 DEF LeaseIsHeld, Holds, vars, threadVars, tableVars
<1> QED
  BY <1>1, <1>2, <1>3, <1>4, <1>5 DEF Next, ThreadStep, QuietStep, Quiet

(* A thread that is asking is told whether it acquired only at the end.    *)
LEMMA AskingStep ==
  ASSUME RegistryInv, [Next]_vars
  PROVE  AskingHasNothing'
<1>0. /\ pc \in [Threads -> Pcs] /\ did \in [Threads -> BOOLEAN]
      /\ AskingHasNothing
  BY DEF RegistryInv, TypeOK
<1> USE DEF AskingHasNothing, Goto
<1>1. ASSUME NEW t \in Threads, Call(t) PROVE AskingHasNothing'
  BY <1>0, <1>1 DEF Call
<1>2. ASSUME NEW t \in Threads,
             \/ EnterReentrant(t) \/ FindHeld(t) \/ TimeOut(t) \/ GoForFile(t)
             \/ OpenFile(t) \/ FindLocked(t) \/ ExitReentrant(t)
             \/ PopContext(t) \/ UnlockFile(t) \/ UnlinkPath(t)
      PROVE  AskingHasNothing'
  <2>1. UNCHANGED did
    BY <1>2 DEF EnterReentrant, FindHeld, TimeOut, GoForFile, OpenFile,
       FindLocked, ExitReentrant, PopContext, UnlockFile, UnlinkPath
  <2>2. \E l \in Pcs : /\ pc' = [pc EXCEPT ![t] = l]
                       /\ l \in {"waiting", "open", "flock"} =>
                            pc[t] \in {"enter", "waiting", "woken", "open", "flock"}
                       /\ l \notin {"enter", "woken"}
    BY <1>2 DEF EnterReentrant, FindHeld, TimeOut, GoForFile, OpenFile,
       FindLocked, ExitReentrant, PopContext, UnlockFile, UnlinkPath, Pcs
  <2> QED  BY <1>0, <2>1, <2>2
<1>3. ASSUME NEW t \in Threads, TakeLease(t) \/ LockFile(t)
      PROVE  AskingHasNothing'
  BY <1>0, <1>3 DEF TakeLease, LockFile
<1>4. ASSUME NEW t \in Threads, DeleteLease(t) PROVE AskingHasNothing'
  BY <1>0, <1>4 DEF DeleteLease, Woken
<1>5. ASSUME NEW p \in Procs, Crash(p) PROVE AskingHasNothing'
  BY <1>0, <1>5 DEF Crash
<1>6. CASE UNCHANGED vars
  BY <1>0, <1>6 DEF vars, threadVars
<1> QED
  BY <1>1, <1>2, <1>3, <1>4, <1>5, <1>6 DEF Next, ThreadStep, Quiet

(* A step outside the lock files of thread t's registry leaves the others  *)
(* there alone.                                                            *)
LEMMA MutexFrame ==
  ASSUME RegistryInv, NEW t \in Threads, UNCHANGED <<lease, mutex, key>>,
         \A u \in Threads \ {t} : pc'[u] = pc[u] /\ fd'[u] = fd[u],
         pc'[t] \in {"open", "flock"} => pc[t] \in {"open", "flock"},
         pc'[t] \in {"flock", "unlock"} => fd'[t] \in Inodes
  PROVE  FileInsideMutex'
BY DEF RegistryInv, FileInsideMutex, LeaseOf

(* Whoever is at a lock file has its registry to itself.                   *)
LEMMA FileStep ==
  ASSUME RegistryInv, [Next]_vars
  PROVE  FileInsideMutex'
<1>0. /\ TypeOK /\ FileInsideMutex /\ LeaseIsHeld
      /\ pc \in [Threads -> Pcs] /\ fd \in [Threads -> Inodes \cup {None}]
      /\ key \in [Threads -> Endpoints \cup {None}]
      /\ \A t \in Threads : pc[t] # "idle" => key[t] \in Endpoints
      /\ lease \in [Procs -> [Endpoints -> Threads \cup {None}]]
      /\ mutex \in [Procs -> Threads \cup {None}]
      /\ ProcOf \in [Threads -> Procs] /\ None \notin Threads
  BY RegistryConstants, RegistryNone DEF RegistryInv, TypeOK
<1> USE DEF Goto
<1>1. ASSUME NEW t \in Threads, Call(t) PROVE FileInsideMutex'
  <2>1. /\ pc' = [pc EXCEPT ![t] = "enter"]
        /\ \A u \in Threads \ {t} : key'[u] = key[u]
        /\ UNCHANGED <<fd, lease, mutex>>
    BY <1>0, <1>1 DEF Call, tableVars
  <2> QED  BY <1>0, <2>1 DEF FileInsideMutex, LeaseOf
<1>2. ASSUME NEW t \in Threads, EnterReentrant(t) \/ TimeOut(t) \/ ExitReentrant(t)
      PROVE  FileInsideMutex'
  <2>1. /\ \E l \in {"holding", "idle"} : pc' = [pc EXCEPT ![t] = l]
        /\ UNCHANGED <<fd, lease, mutex, key>>
    BY <1>2 DEF EnterReentrant, TimeOut, ExitReentrant, tableVars
  <2> QED  BY <1>0, <2>1, MutexFrame
<1>3. ASSUME NEW t \in Threads, FindHeld(t) PROVE FileInsideMutex'
  <2>1. /\ \E l \in {"idle", "waiting"} : pc' = [pc EXCEPT ![t] = l]
        /\ UNCHANGED <<fd, lease, mutex, key>>
    BY <1>3 DEF FindHeld, tableVars
  <2> QED  BY <1>0, <2>1, MutexFrame
<1>4. ASSUME NEW t \in Threads, TakeLease(t) PROVE FileInsideMutex'
  <2>1. /\ mutex[ProcOf[t]] = None
        /\ pc' = [pc EXCEPT ![t] = "holding"]
        /\ lease' = [lease EXCEPT ![ProcOf[t]][key[t]] = t]
        /\ UNCHANGED <<fd, mutex, key>>
    BY <1>4 DEF TakeLease, MutexFree
  <2>2. ASSUME NEW u \in Threads, pc'[u] \in {"open", "flock"}
        PROVE  mutex'[ProcOf[u]] = u /\ LeaseOf(u)' = None
    <3>1. u # t /\ pc[u] \in {"open", "flock"}  BY <1>0, <2>1, <2>2
    <3>2. mutex[ProcOf[u]] = u /\ LeaseOf(u) = None
      BY <1>0, <3>1 DEF FileInsideMutex
    <3>3. ProcOf[u] # ProcOf[t]  BY <1>0, <2>1, <3>2
    <3> QED  BY <1>0, <2>1, <3>2, <3>3 DEF LeaseOf
  <2>3. \A u \in Threads : pc'[u] \in {"flock", "unlock"} => fd'[u] \in Inodes
    BY <1>0, <2>1 DEF FileInsideMutex
  <2> QED  BY <2>2, <2>3 DEF FileInsideMutex
<1>5. ASSUME NEW t \in Threads, GoForFile(t) PROVE FileInsideMutex'
  <2>1. /\ mutex[ProcOf[t]] = None /\ LeaseOf(t) = None
        /\ pc' = [pc EXCEPT ![t] = "open"]
        /\ mutex' = [mutex EXCEPT ![ProcOf[t]] = t]
        /\ UNCHANGED <<fd, lease, key>>
    BY <1>5 DEF GoForFile, MutexFree, IsFree
  <2>2. ASSUME NEW u \in Threads, pc'[u] \in {"open", "flock"}
        PROVE  mutex'[ProcOf[u]] = u /\ LeaseOf(u)' = None
    <3>1. CASE u = t  BY <1>0, <2>1, <3>1 DEF LeaseOf
    <3>2. CASE u # t
      <4>1. mutex[ProcOf[u]] = u /\ LeaseOf(u) = None
        BY <1>0, <2>1, <2>2, <3>2 DEF FileInsideMutex
      <4>2. ProcOf[u] # ProcOf[t]  BY <1>0, <2>1, <4>1
      <4> QED  BY <1>0, <2>1, <4>1, <4>2 DEF LeaseOf
    <3> QED  BY <3>1, <3>2
  <2>3. \A u \in Threads : pc'[u] \in {"flock", "unlock"} => fd'[u] \in Inodes
    BY <1>0, <2>1 DEF FileInsideMutex
  <2> QED  BY <2>2, <2>3 DEF FileInsideMutex
<1>6. ASSUME NEW t \in Threads, OpenFile(t) PROVE FileInsideMutex'
  <2>1. /\ pc[t] = "open" /\ pc' = [pc EXCEPT ![t] = "flock"]
        /\ fd' = [fd EXCEPT ![t] = path'[key[t]]]
        /\ UNCHANGED <<lease, mutex, key>>
    BY <1>6 DEF OpenFile, tableVars
  <2>2. path'[key[t]] \in Inodes
    BY <1>0, <1>6 DEF OpenFile, FreeInodes, TypeOK
  <2> QED  BY <1>0, <2>1, <2>2, MutexFrame
<1>7. ASSUME NEW t \in Threads, LockFile(t) PROVE FileInsideMutex'
  <2>1. /\ pc[t] = "flock" /\ pc' = [pc EXCEPT ![t] = "holding"]
        /\ lease' = [lease EXCEPT ![ProcOf[t]][key[t]] = t]
        /\ mutex' = [mutex EXCEPT ![ProcOf[t]] = None]
        /\ \A u \in Threads \ {t} : fd'[u] = fd[u]
        /\ UNCHANGED key
    BY <1>0, <1>7 DEF LockFile
  <2>2. mutex[ProcOf[t]] = t  BY <1>0, <2>1 DEF FileInsideMutex
  <2>3. ASSUME NEW u \in Threads, pc'[u] \in {"open", "flock"}
        PROVE  mutex'[ProcOf[u]] = u /\ LeaseOf(u)' = None
    <3>1. u # t /\ pc[u] \in {"open", "flock"}  BY <1>0, <2>1, <2>3
    <3>2. mutex[ProcOf[u]] = u /\ LeaseOf(u) = None
      BY <1>0, <3>1 DEF FileInsideMutex
    <3>3. ProcOf[u] # ProcOf[t]  BY <2>2, <3>1, <3>2
    <3> QED  BY <1>0, <2>1, <3>2, <3>3 DEF LeaseOf
  <2>4. \A u \in Threads : pc'[u] \in {"flock", "unlock"} => fd'[u] \in Inodes
    BY <1>0, <2>1 DEF FileInsideMutex
  <2> QED  BY <2>3, <2>4 DEF FileInsideMutex
<1>8. ASSUME NEW t \in Threads, FindLocked(t) PROVE FileInsideMutex'
  <2>1. /\ pc[t] = "flock" /\ fd' = [fd EXCEPT ![t] = None]
        /\ UNCHANGED <<lease, key>>
    BY <1>8 DEF FindLocked
  <2>2. mutex[ProcOf[t]] = t  BY <1>0, <2>1 DEF FileInsideMutex
  <2>3. CASE UNCHANGED mutex /\ pc' = [pc EXCEPT ![t] = "open"]
    BY <1>0, <2>1, <2>3, MutexFrame
  <2>4. CASE mutex' = [mutex EXCEPT ![ProcOf[t]] = None]
             /\ pc' = [pc EXCEPT ![t] = "idle"]
    <3>1. ASSUME NEW u \in Threads, pc'[u] \in {"open", "flock"}
          PROVE  mutex'[ProcOf[u]] = u /\ LeaseOf(u)' = None
      <4>1. mutex[ProcOf[u]] = u /\ LeaseOf(u) = None /\ u # t
        BY <1>0, <2>4, <3>1 DEF FileInsideMutex
      <4>2. ProcOf[u] # ProcOf[t]  BY <2>2, <4>1
      <4> QED  BY <1>0, <2>1, <2>4, <4>1, <4>2 DEF LeaseOf
    <3>2. \A u \in Threads : pc'[u] \in {"flock", "unlock"} => fd'[u] \in Inodes
      BY <1>0, <2>1, <2>4 DEF FileInsideMutex
    <3> QED  BY <3>1, <3>2 DEF FileInsideMutex
  <2> QED  BY <1>8, <2>3, <2>4 DEF FindLocked
<1>9. ASSUME NEW t \in Threads, DeleteLease(t) PROVE FileInsideMutex'
  <2>1. /\ lease' = [lease EXCEPT ![ProcOf[t]][key[t]] = None]
        /\ UNCHANGED <<key, fd, mutex>>
        /\ \A u \in Threads :
             pc'[u] = IF u = t THEN "closing"
                      ELSE IF u \in Woken(t) THEN "woken" ELSE pc[u]
    BY <1>0, <1>9 DEF DeleteLease
  <2>2. \A u \in Threads : pc'[u] \in {"open", "flock", "unlock"} => pc'[u] = pc[u]
    BY <2>1
  <2>3. \A u \in Threads : pc[u] \in {"open", "flock"} => LeaseOf(u)' = None
    BY <1>0, <2>1 DEF FileInsideMutex, LeaseOf
  <2> QED  BY <1>0, <2>1, <2>2, <2>3 DEF FileInsideMutex
<1>10. ASSUME NEW t \in Threads, PopContext(t) \/ UnlockFile(t) \/ UnlinkPath(t)
       PROVE  FileInsideMutex'
  <2>1. /\ \E l \in {"unlock", "unlink", "idle"} : pc' = [pc EXCEPT ![t] = l]
        /\ \A u \in Threads \ {t} : fd'[u] = fd[u]
        /\ UNCHANGED <<lease, mutex, key>>
    BY <1>0, <1>10 DEF PopContext, UnlockFile, UnlinkPath, tableVars
  <2>2. ASSUME pc'[t] = "unlock" PROVE fd'[t] \in Inodes
    <3>1. /\ PopContext(t) /\ HasContext(t) /\ key[t] \in Endpoints
      BY <1>0, <1>10, <2>2 DEF PopContext, UnlockFile, UnlinkPath
    <3>2. ContextOf(t) \in Inodes
      BY <1>0, <3>1 DEF HasContext, ContextOf, TypeOK
    <3> QED  BY <1>0, <3>1, <3>2 DEF PopContext
  <2> QED  BY <1>0, <2>1, <2>2, MutexFrame
<1>11. ASSUME NEW p \in Procs, Crash(p) PROVE FileInsideMutex'
  <2>1. /\ pc' = [t \in Threads |-> IF ProcOf[t] = p THEN "idle" ELSE pc[t]]
        /\ fd' = [t \in Threads |-> IF ProcOf[t] = p THEN None ELSE fd[t]]
        /\ lease' = [lease EXCEPT ![p] = [e \in Endpoints |-> None]]
        /\ mutex' = [mutex EXCEPT ![p] = None]
        /\ UNCHANGED key
    BY <1>11 DEF Crash
  <2> QED  BY <1>0, <2>1 DEF FileInsideMutex, LeaseOf
<1>12. CASE UNCHANGED vars
  BY <1>0, <1>12 DEF FileInsideMutex, LeaseOf, vars, threadVars, tableVars
<1> QED
  BY <1>1, <1>2, <1>3, <1>4, <1>5, <1>6, <1>7, <1>8, <1>9, <1>10, <1>11, <1>12
  DEF Next, ThreadStep, Quiet
-----------------------------------------------------------------------------

(* RegistryInv is an inductive invariant.                                  *)
THEOREM Invariance == Spec => []RegistryInv
<1>1. Init => RegistryInv
  BY RegistryConstants, RegistryNone
  DEF Init, RegistryInv, TypeOK, Pcs, LeaseIsHeld, Holds, FileInsideMutex,
      AskingHasNothing
<1>2. RegistryInv /\ [Next]_vars => RegistryInv'
  BY TypeStep, HeldStep, FileStep, AskingStep DEF RegistryInv
<1> QED  BY <1>1, <1>2, PTL DEF Spec

(* Within a process no endpoint is held twice, whatever mix of try_hold,   *)
(* wait_and_hold and acquire its threads use.                              *)
THEOREM HoldExclusion == Spec => []HeldOnce
<1>1. ASSUME RegistryInv, NEW t \in Threads, NEW u \in Threads,
             Holds(t), Holds(u), ProcOf[t] = ProcOf[u], key[t] = key[u]
      PROVE  t = u
  <2>1. ProcOf[t] \in Procs /\ key[t] \in Endpoints
    BY <1>1, RegistryConstants DEF RegistryInv, TypeOK, Holds
  <2>2. lease[ProcOf[t]][key[t]] = t /\ lease[ProcOf[t]][key[t]] = u
    BY <1>1, <2>1 DEF RegistryInv, LeaseIsHeld
  <2> QED  BY <2>2
<1>2. RegistryInv => HeldOnce
  BY <1>1 DEF HeldOnce
<1> QED  BY <1>2, Invariance, PTL

-----------------------------------------------------------------------------
(* The step of the lease table that each action takes.                     *)

(* One entry of one registry is one entry of the table.                    *)
LEMMA TableUpdate ==
  ASSUME lease \in [Procs -> [Endpoints -> Threads \cup {None}]],
         NEW p \in Procs, NEW e \in Endpoints, NEW v,
         lease' = [lease EXCEPT ![p][e] = v]
  PROVE  LeaseTable' = [LeaseTable EXCEPT ![<<p, e>>] = v]
<1>1. \A q \in Procs, f \in Endpoints :
        lease'[q][f] = IF q = p /\ f = e THEN v ELSE lease[q][f]
  OBVIOUS
<1>2. \A x \in Procs \X Endpoints :
        lease'[x[1]][x[2]] = IF x = <<p, e>> THEN v ELSE lease[x[1]][x[2]]
  BY <1>1
<1> QED  BY <1>2 DEF LeaseTable

(* Every step of the registries is a step of the table, or a stutter.      *)
LEMMA LeaseTableStep ==
  ASSUME RegistryInv, [Next]_vars
  PROVE  [Leases!Next]_Leases!leaseVars
<1>0. /\ TypeOK /\ LeaseIsHeld /\ AskingHasNothing
      /\ lease \in [Procs -> [Endpoints -> Threads \cup {None}]]
      /\ ProcOf \in [Threads -> Procs] /\ None \notin Threads
  BY RegistryConstants, RegistryNone DEF RegistryInv, TypeOK
<1>1. ASSUME UNCHANGED lease,
             \A u \in Threads : Holds(u)' <=> Holds(u),
             \A u \in Threads : Holds(u) => key'[u] = key[u]
      PROVE  UNCHANGED Leases!leaseVars
  BY <1>1 DEF Leases!leaseVars, LeaseTable, HeldNow
<1>2. ASSUME NEW t \in Threads, QuietStep(t) PROVE UNCHANGED Leases!leaseVars
  BY <1>0, <1>1, <1>2, QuietFrame
<1>3. CASE UNCHANGED vars
  BY <1>1, <1>3 DEF vars, threadVars, tableVars, Holds
<1>4. ASSUME NEW t \in Threads, TakeLease(t) \/ LockFile(t) PROVE Leases!Next
  <2> DEFINE x == <<ProcOf[t], key[t]>>
  <2>1. /\ key[t] \in Endpoints /\ ProcOf[t] \in Procs
        /\ lease[ProcOf[t]][key[t]] = None
        /\ lease' = [lease EXCEPT ![ProcOf[t]][key[t]] = t]
        /\ Holds(t)' /\ ~Holds(t)
        /\ \A u \in Threads \ {t} : Holds(u)' <=> Holds(u)
        /\ UNCHANGED key
    BY <1>4, TakeFacts
  <2>2. x \in Procs \X Endpoints /\ LeaseTable[x] = None
    BY <2>1 DEF LeaseTable
  <2>3. LeaseTable' = [LeaseTable EXCEPT ![x] = t]
    BY <1>0, <2>1, TableUpdate
  <2>4. HeldNow' = HeldNow \cup {<<t, x>>}
    BY <2>1 DEF HeldNow
  <2> HIDE DEF x
  <2>5. Leases!Take(t, x)  BY <2>2, <2>3, <2>4 DEF Leases!Take
  <2> QED  BY <2>2, <2>5 DEF Leases!Next
<1>5. ASSUME NEW t \in Threads, DeleteLease(t) PROVE Leases!Next
  <2> DEFINE x == <<ProcOf[t], key[t]>>
  <2>1. /\ key[t] \in Endpoints /\ ProcOf[t] \in Procs
        /\ lease[ProcOf[t]][key[t]] = t
        /\ lease' = [lease EXCEPT ![ProcOf[t]][key[t]] = None]
        /\ Holds(t) /\ ~Holds(t)'
        /\ \A u \in Threads \ {t} : Holds(u)' <=> Holds(u)
        /\ UNCHANGED key
    BY <1>5, GiveFacts
  <2>2. x \in Procs \X Endpoints /\ LeaseTable[x] = t
    BY <2>1 DEF LeaseTable
  <2>3. LeaseTable' = [LeaseTable EXCEPT ![x] = None]
    BY <1>0, <2>1, TableUpdate
  <2>4. HeldNow' = HeldNow \ {<<t, x>>}
    BY <2>1 DEF HeldNow
  <2> HIDE DEF x
  <2>5. Leases!Give(t, x)  BY <2>2, <2>3, <2>4 DEF Leases!Give
  <2> QED  BY <2>2, <2>5 DEF Leases!Next
<1>6. ASSUME NEW p \in Procs, Crash(p) PROVE Leases!Next
  <2> DEFINE D == {p} \X Endpoints
  <2>1. /\ pc' = [t \in Threads |-> IF ProcOf[t] = p THEN "idle" ELSE pc[t]]
        /\ did' = [t \in Threads |-> IF ProcOf[t] = p THEN FALSE ELSE did[t]]
        /\ lease' = [lease EXCEPT ![p] = [e \in Endpoints |-> None]]
        /\ UNCHANGED key
    BY <1>6 DEF Crash
  <2>2. \A t \in Threads : Holds(t)' <=> Holds(t) /\ ProcOf[t] # p
    BY <2>1 DEF Holds
  <2>3. \A t \in Threads : Holds(t) => key[t] \in Endpoints
    BY <1>0 DEF TypeOK, Holds
  <2>4. LeaseTable' = [x \in Procs \X Endpoints |->
                        IF x \in D THEN None ELSE LeaseTable[x]]
    BY <1>0, <2>1 DEF LeaseTable
  <2>5. HeldNow' = {y \in HeldNow : y[2] \notin D}
    BY <2>1, <2>2, <2>3 DEF HeldNow
  <2>6. D \in SUBSET (Procs \X Endpoints)  OBVIOUS
  <2> HIDE DEF D
  <2>7. Leases!Die(D)  BY <2>4, <2>5 DEF Leases!Die
  <2> QED  BY <2>6, <2>7 DEF Leases!Next
<1> QED
  BY <1>2, <1>3, <1>4, <1>5, <1>6 DEF Next, ThreadStep, QuietStep, Quiet

(* The registries of all processes implement the table of leases.          *)
THEOREM Refinement == Spec => RegistryIsLeaseTable
<1>1. Init => Leases!Init
  BY DEF Init, Leases!Init, LeaseTable, HeldNow, Holds
<1>2. RegistryInv /\ [Next]_vars => [Leases!Next]_Leases!leaseVars
  BY LeaseTableStep
<1> QED  BY <1>1, <1>2, Invariance, PTL DEF Spec, RegistryIsLeaseTable, Leases!Spec
-----------------------------------------------------------------------------
(* No lock of a file is left behind.                                       *)

(* A thread that holds an endpoint or is about to take its context away.   *)
Minds(t) == Holds(t) \/ pc[t] = "closing"

(* A file is locked through a context, or by the thread that is unlocking  *)
(* it; and a context has a thread that will take it away.                  *)
LocksTraced ==
  /\ \A i \in Inodes, p \in Procs : flock[i] = p =>
       \/ \E e \in Endpoints : context[p][e] = i
       \/ \E t \in Threads : ProcOf[t] = p /\ pc[t] = "unlock" /\ fd[t] = i
  /\ \A p \in Procs, e \in Endpoints : context[p][e] # None =>
       \E t \in Threads : ProcOf[t] = p /\ key[t] = e /\ Minds(t)

(* Steps that touch neither files nor contexts, and no thread that has one.*)
LEMMA TracedFrame ==
  ASSUME LocksTraced, UNCHANGED <<flock, context>>,
         \A t \in Threads : Minds(t) => Minds(t)' /\ key'[t] = key[t],
         \A t \in Threads : pc[t] = "unlock" => pc'[t] = "unlock" /\ fd'[t] = fd[t]
  PROVE  LocksTraced'
BY DEF LocksTraced

LEMMA TracedStep ==
  ASSUME RegistryInv, LocksTraced, [Next]_vars
  PROVE  LocksTraced'
<1>0. /\ pc \in [Threads -> Pcs] /\ did \in [Threads -> BOOLEAN]
      /\ fd \in [Threads -> Inodes \cup {None}] /\ key \in [Threads -> Endpoints \cup {None}]
      /\ context \in [Procs -> [Endpoints -> Inodes \cup {None}]]
      /\ flock \in [Inodes -> Procs \cup {None}]
      /\ \A t \in Threads : pc[t] # "idle" => key[t] \in Endpoints
      /\ AskingHasNothing /\ FileInsideMutex
  BY DEF RegistryInv, TypeOK
<1>1. ProcOf \in [Threads -> Procs] /\ None \notin Threads \cup Procs \cup Inodes
  BY RegistryConstants, RegistryNone
<1> USE DEF Goto
<1>2. ASSUME NEW t \in Threads,
             \/ Call(t) \/ EnterReentrant(t) \/ FindHeld(t) \/ TimeOut(t) \/ TakeLease(t)
             \/ GoForFile(t) \/ OpenFile(t) \/ FindLocked(t) \/ ExitReentrant(t)
             \/ DeleteLease(t) \/ UnlinkPath(t)
      PROVE  LocksTraced'
  <2>1. UNCHANGED <<flock, context>>
    BY <1>2 DEF Call, EnterReentrant, FindHeld, TimeOut, TakeLease, GoForFile, OpenFile,
                FindLocked, ExitReentrant, DeleteLease, UnlinkPath, tableVars, fileVars
  <2>2. \A u \in Threads \ {t} :
          /\ key'[u] = key[u] /\ fd'[u] = fd[u] /\ did'[u] = did[u]
          /\ pc'[u] = pc[u] \/ (pc[u] = "waiting" /\ pc'[u] = "woken")
    <3>1. CASE DeleteLease(t)
      BY <1>0, <3>1 DEF DeleteLease, Woken
    <3>2. CASE ~DeleteLease(t)
      BY <1>0, <1>2, <3>2
      DEF Call, EnterReentrant, FindHeld, TimeOut, TakeLease, GoForFile, OpenFile,
          FindLocked, ExitReentrant, UnlinkPath
    <3> QED  BY <3>1, <3>2
  <2>3. /\ Minds(t) => Minds(t)' /\ key'[t] = key[t]
        /\ pc[t] # "unlock"
    <3>1. CASE DeleteLease(t)
      BY <1>0, <3>1 DEF DeleteLease, Minds, Holds
    <3>2. CASE ExitReentrant(t)
      BY <1>0, <3>2 DEF ExitReentrant, Minds, Holds
    <3>3. CASE ~DeleteLease(t) /\ ~ExitReentrant(t)
      BY <1>0, <1>2, <3>3
      DEF Call, EnterReentrant, FindHeld, TimeOut, TakeLease, GoForFile, OpenFile,
          FindLocked, UnlinkPath, Minds, Holds
    <3> QED  BY <3>1, <3>2, <3>3
  <2>4. \A u \in Threads \ {t} : Minds(u) => Minds(u)' /\ key'[u] = key[u]
    BY <2>2 DEF Minds, Holds
  <2>5. \A u \in Threads : pc[u] = "unlock" => pc'[u] = "unlock" /\ fd'[u] = fd[u]
    BY <2>2, <2>3
  <2> QED  BY <2>1, <2>3, <2>4, <2>5, TracedFrame
<1>3. ASSUME NEW t \in Threads, LockFile(t) PROVE LocksTraced'
  <2> DEFINE p == ProcOf[t]
             k == key[t]
  <2>1. /\ p \in Procs /\ k \in Endpoints /\ fd[t] \in Inodes
        /\ pc[t] = "flock" /\ pc' = [pc EXCEPT ![t] = "holding"]
        /\ did' = [did EXCEPT ![t] = TRUE] /\ UNCHANGED key
        /\ fd' = [fd EXCEPT ![t] = None]
        /\ flock' = [i \in Inodes |-> IF i = fd[t] THEN p
                                      ELSE IF i = context[p][k] THEN None ELSE flock[i]]
        /\ context' = [context EXCEPT ![p][k] = fd[t]]
    BY <1>0, <1>1, <1>3 DEF LockFile, ContextOf, FileInsideMutex
  <2>2. \A q \in Procs, e \in Endpoints :
          context'[q][e] = IF q = p /\ e = k THEN fd[t] ELSE context[q][e]
    BY <1>0, <2>1
  <2>3. Minds(t)' /\ \A u \in Threads : Minds(u) => Minds(u)'
    BY <1>0, <2>1 DEF Minds, Holds
  <2>4. \A i \in Inodes, q \in Procs : flock'[i] = q =>
          \/ \E e \in Endpoints : context'[q][e] = i
          \/ \E u \in Threads : ProcOf[u] = q /\ pc'[u] = "unlock" /\ fd'[u] = i
    <3> SUFFICES ASSUME NEW i \in Inodes, NEW q \in Procs, flock'[i] = q
                 PROVE \/ \E e \in Endpoints : context'[q][e] = i
                       \/ \E u \in Threads : ProcOf[u] = q /\ pc'[u] = "unlock" /\ fd'[u] = i
      OBVIOUS
    <3>1. CASE i = fd[t]
      <4>1. q = p  BY <2>1, <3>1
      <4>2. context'[q][k] = i  BY <2>1, <2>2, <3>1, <4>1
      <4> QED  BY <2>1, <4>2
    <3>2. CASE i # fd[t]
      <4>1. i # context[p][k] /\ flock[i] = q  BY <1>1, <2>1, <3>2
      <4>2. CASE \E e \in Endpoints : context[q][e] = i
        <5> PICK e \in Endpoints : context[q][e] = i  BY <4>2
        <5>1. context'[q][e] = i  BY <2>2, <4>1
        <5> QED  BY <5>1
      <4>3. CASE \E u \in Threads : ProcOf[u] = q /\ pc[u] = "unlock" /\ fd[u] = i
        <5> PICK u \in Threads : ProcOf[u] = q /\ pc[u] = "unlock" /\ fd[u] = i  BY <4>3
        <5>1. u # t  BY <2>1
        <5>2. pc'[u] = "unlock" /\ fd'[u] = i  BY <1>0, <2>1, <5>1
        <5> QED  BY <5>2
      <4> QED  BY <4>1, <4>2, <4>3 DEF LocksTraced
    <3> QED  BY <3>1, <3>2
  <2>5. \A q \in Procs, e \in Endpoints : context'[q][e] # None =>
          \E u \in Threads : ProcOf[u] = q /\ key'[u] = e /\ Minds(u)'
    <3> SUFFICES ASSUME NEW q \in Procs, NEW e \in Endpoints, context'[q][e] # None
                 PROVE  \E u \in Threads : ProcOf[u] = q /\ key'[u] = e /\ Minds(u)'
      OBVIOUS
    <3>1. CASE q = p /\ e = k  BY <2>1, <2>3, <3>1
    <3>2. CASE ~(q = p /\ e = k)
      <4>1. context[q][e] # None  BY <2>2, <3>2
      <4>2. PICK u \in Threads : ProcOf[u] = q /\ key[u] = e /\ Minds(u)
        BY <4>1 DEF LocksTraced
      <4> QED  BY <2>1, <2>3, <4>2
    <3> QED  BY <3>1, <3>2
  <2> QED  BY <2>4, <2>5 DEF LocksTraced
<1>4. ASSUME NEW t \in Threads, PopContext(t) PROVE LocksTraced'
  <2> DEFINE p == ProcOf[t]
             k == key[t]
  <2>1. /\ p \in Procs /\ k \in Endpoints /\ pc[t] = "closing"
        /\ UNCHANGED <<key, did, flock>>
    BY <1>0, <1>1, <1>4 DEF PopContext, fileVars
  <2>2. \A u \in Threads \ {t} : pc'[u] = pc[u] /\ fd'[u] = fd[u]
    BY <1>0, <1>4 DEF PopContext
  <2>3. \A u \in Threads \ {t} : Minds(u) => Minds(u)'
    BY <2>1, <2>2 DEF Minds, Holds
  <2>4. \A q \in Procs, e \in Endpoints :
          context'[q][e] = IF q = p /\ e = k THEN None ELSE context[q][e]
    <3>1. CASE context[p][k] # None
      BY <1>0, <1>4, <2>1, <3>1 DEF PopContext, HasContext, ContextOf
    <3>2. CASE context[p][k] = None
      BY <1>0, <1>4, <2>1, <3>2 DEF PopContext, HasContext, ContextOf
    <3> QED  BY <3>1, <3>2
  <2>5. context[p][k] # None => pc'[t] = "unlock" /\ fd'[t] = context[p][k]
    BY <1>0, <1>4, <2>1 DEF PopContext, HasContext, ContextOf
  <2>6. \A i \in Inodes, q \in Procs : flock'[i] = q =>
          \/ \E e \in Endpoints : context'[q][e] = i
          \/ \E u \in Threads : ProcOf[u] = q /\ pc'[u] = "unlock" /\ fd'[u] = i
    <3> SUFFICES ASSUME NEW i \in Inodes, NEW q \in Procs, flock'[i] = q
                 PROVE \/ \E e \in Endpoints : context'[q][e] = i
                       \/ \E u \in Threads : ProcOf[u] = q /\ pc'[u] = "unlock" /\ fd'[u] = i
      OBVIOUS
    <3>1. CASE \E e \in Endpoints : context[q][e] = i
      <4> PICK e \in Endpoints : context[q][e] = i  BY <3>1
      <4>1. CASE q = p /\ e = k  BY <1>1, <2>5, <4>1
      <4>2. CASE ~(q = p /\ e = k)
        <5>1. context'[q][e] = i  BY <2>4, <4>2
        <5> QED  BY <5>1
      <4> QED  BY <4>1, <4>2
    <3>2. CASE \E u \in Threads : ProcOf[u] = q /\ pc[u] = "unlock" /\ fd[u] = i
      <4> PICK u \in Threads : ProcOf[u] = q /\ pc[u] = "unlock" /\ fd[u] = i  BY <3>2
      <4>1. u # t  BY <2>1
      <4> QED  BY <2>2, <4>1
    <3> QED  BY <2>1, <3>1, <3>2 DEF LocksTraced
  <2>7. \A q \in Procs, e \in Endpoints : context'[q][e] # None =>
          \E u \in Threads : ProcOf[u] = q /\ key'[u] = e /\ Minds(u)'
    <3> SUFFICES ASSUME NEW q \in Procs, NEW e \in Endpoints, context'[q][e] # None
                 PROVE  \E u \in Threads : ProcOf[u] = q /\ key'[u] = e /\ Minds(u)'
      OBVIOUS
    <3>1. ~(q = p /\ e = k) /\ context[q][e] # None  BY <2>4
    <3>2. PICK u \in Threads : ProcOf[u] = q /\ key[u] = e /\ Minds(u)
      BY <3>1 DEF LocksTraced
    <3> QED  BY <2>1, <2>3, <3>1, <3>2
  <2> QED  BY <2>6, <2>7 DEF LocksTraced
<1>5. ASSUME NEW t \in Threads, UnlockFile(t) PROVE LocksTraced'
  <2>1. /\ pc[t] = "unlock" /\ pc' = [pc EXCEPT ![t] = "unlink"]
        /\ fd' = [fd EXCEPT ![t] = None] /\ fd[t] \in Inodes
        /\ flock' = [flock EXCEPT ![fd[t]] = None]
        /\ UNCHANGED <<key, did, context>>
    BY <1>0, <1>5 DEF UnlockFile, tableVars, FileInsideMutex
  <2>2. \A u \in Threads : Minds(u) => Minds(u)'
    BY <1>0, <2>1 DEF Minds, Holds
  <2>3. \A i \in Inodes, q \in Procs :
          flock'[i] = q => flock[i] = q /\ i # fd[t]
    BY <1>0, <1>1, <2>1
  <2>4. \A u \in Threads, i \in Inodes :
          pc[u] = "unlock" /\ fd[u] = i /\ i # fd[t] => pc'[u] = "unlock" /\ fd'[u] = i
    BY <1>0, <2>1
  <2> QED  BY <2>1, <2>2, <2>3, <2>4 DEF LocksTraced
<1>6. ASSUME NEW p \in Procs, Crash(p) PROVE LocksTraced'
  <2>1. /\ UNCHANGED key
        /\ \A u \in Threads : ProcOf[u] # p =>
             pc'[u] = pc[u] /\ did'[u] = did[u] /\ fd'[u] = fd[u]
        /\ \A i \in Inodes : flock'[i] = IF flock[i] = p THEN None ELSE flock[i]
        /\ \A q \in Procs, e \in Endpoints :
             context'[q][e] = IF q = p THEN None ELSE context[q][e]
    BY <1>0, <1>6 DEF Crash
  <2>2. \A u \in Threads : ProcOf[u] # p /\ Minds(u) => Minds(u)'
    BY <2>1 DEF Minds, Holds
  <2>3. \A i \in Inodes, q \in Procs : flock'[i] = q => flock[i] = q /\ q # p
    BY <1>1, <2>1
  <2>4. \A q \in Procs, e \in Endpoints : context'[q][e] # None =>
          q # p /\ context[q][e] # None
    BY <2>1
  <2> QED  BY <1>1, <2>1, <2>2, <2>3, <2>4 DEF LocksTraced
<1>7. CASE UNCHANGED vars
  BY <1>7 DEF LocksTraced, Minds, Holds, vars, threadVars, tableVars, fileVars
<1> QED
  BY <1>2, <1>3, <1>4, <1>5, <1>6, <1>7 DEF Next, ThreadStep, Quiet

(* file_lock.py: the file of an endpoint is locked by a process only while *)
(* one of its threads holds the endpoint or is giving it back, although    *)
(* whoever closes takes away whatever context the endpoint has by then.    *)
THEOREM NoFlockLeft == Spec => []NoStaleFlock
<1>1. Init => LocksTraced
  BY RegistryNone DEF Init, LocksTraced
<1>2. RegistryInv /\ LocksTraced /\ [Next]_vars => LocksTraced'
  BY TracedStep
<1>3. LocksTraced => NoStaleFlock
  <2> SUFFICES ASSUME LocksTraced, NEW i \in Inodes, NEW p \in Procs, flock[i] = p
               PROVE  \E t \in Threads :
                        /\ ProcOf[t] = p
                        /\ \/ pc[t] \in {"holding", "closing"} /\ ContextOf(t) = i
                           \/ pc[t] = "unlock" /\ fd[t] = i
    BY DEF NoStaleFlock
  <2>1. CASE \E e \in Endpoints : context[p][e] = i
    <3> PICK e \in Endpoints : context[p][e] = i  BY <2>1
    <3>1. context[p][e] # None  BY RegistryNone
    <3>2. PICK t \in Threads : ProcOf[t] = p /\ key[t] = e /\ Minds(t)
      BY <3>1 DEF LocksTraced
    <3> QED  BY <3>2 DEF Minds, Holds, ContextOf
  <2> QED  BY <2>1 DEF LocksTraced
<1> QED  BY <1>1, <1>2, <1>3, Invariance, PTL DEF Spec
==============================================================================
