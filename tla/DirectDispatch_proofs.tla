------------------------- MODULE DirectDispatch_proofs -------------------------
(***************************************************************************)
(* Theorems about DirectDispatch, for every set of jobs, lock URIs and     *)
(* workers and any number of crashes.                                      *)
(***************************************************************************)
EXTENDS DirectDispatch, FiniteSetTheorems, TLAPS

(* The queue as a sequence: what is in it, and that nothing is in it twice. *)
In(q) == {q[i] : i \in DOMAIN q}
Once(q) == \A i, k \in DOMAIN q : q[i] = q[k] => i = k

LEMMA AppendQueue ==
  ASSUME NEW q \in Seq(Jobs), NEW j \in Jobs
  PROVE  /\ Append(q, j) \in Seq(Jobs)
         /\ In(Append(q, j)) = In(q) \cup {j}
         /\ Once(q) /\ j \notin In(q) => Once(Append(q, j))
<1> DEFINE p == Append(q, j)
<1>1. /\ p \in Seq(Jobs) /\ DOMAIN q = 1 .. Len(q) /\ Len(q) \in Nat
      /\ DOMAIN p = 1 .. Len(q) + 1
      /\ \A i \in 1 .. Len(q) : p[i] = q[i]
      /\ p[Len(q) + 1] = j
  OBVIOUS
<1> HIDE DEF p
<1>2. In(p) = In(q) \cup {j}
  <2>1. \A x \in In(p) : x \in In(q) \cup {j}  BY <1>1 DEF In
  <2>2. In(q) \subseteq In(p)  BY <1>1 DEF In
  <2>3. j \in In(p)  BY <1>1 DEF In
  <2> QED  BY <2>1, <2>2, <2>3
<1>3. Once(q) /\ j \notin In(q) => Once(p)  BY <1>1 DEF Once, In
<1> QED  BY <1>1, <1>2, <1>3 DEF p

LEMMA TakeQueue ==
  ASSUME NEW q \in Seq(Jobs), q # <<>>
  PROVE  /\ Tail(q) \in Seq(Jobs) /\ Head(q) \in Jobs
         /\ In(q) = In(Tail(q)) \cup {Head(q)}
         /\ Once(q) => Once(Tail(q)) /\ Head(q) \notin In(Tail(q))
<1> DEFINE t == Tail(q)
           h == Head(q)
<1>1. /\ t \in Seq(Jobs) /\ h \in Jobs /\ h = q[1]
      /\ Len(q) \in Nat /\ Len(q) >= 1
      /\ DOMAIN q = 1 .. Len(q) /\ DOMAIN t = 1 .. Len(q) - 1
      /\ \A i \in 1 .. Len(q) - 1 : t[i] = q[i + 1]
  OBVIOUS
<1> HIDE DEF t, h
<1>2. /\ \A i \in DOMAIN q : i # 1 => i - 1 \in DOMAIN t /\ t[i - 1] = q[i]
      /\ \A i \in DOMAIN t : i + 1 \in DOMAIN q /\ t[i] = q[i + 1]
  BY <1>1
<1>3. In(q) = In(t) \cup {h}
  <2>1. \A x \in In(q) : x \in In(t) \cup {h}  BY <1>1, <1>2 DEF In
  <2>2. In(t) \subseteq In(q)  BY <1>2 DEF In
  <2>3. h \in In(q)  BY <1>1 DEF In
  <2> QED  BY <2>1, <2>2, <2>3
<1>4. ASSUME Once(q)  PROVE Once(t) /\ h \notin In(t)
  <2>1. \A i \in DOMAIN t : i + 1 \in DOMAIN q /\ i + 1 # 1 /\ t[i] = q[i + 1]  BY <1>1
  <2>2. h \notin In(t)  BY <1>1, <1>4, <2>1 DEF Once, In
  <2>3. \A i, k \in DOMAIN t : t[i] = t[k] => i = k
    <3> SUFFICES ASSUME NEW i \in DOMAIN t, NEW k \in DOMAIN t, t[i] = t[k]  PROVE i = k
      OBVIOUS
    <3>1. i + 1 = k + 1  BY <1>4, <2>1 DEF Once
    <3> QED  BY <3>1, <1>1
  <2> QED  BY <2>2, <2>3 DEF Once
<1> QED  BY <1>1, <1>3, <1>4 DEF t, h

LEMMA OnceCounts ==
  ASSUME NEW q \in Seq(Jobs), Once(q)
  PROVE  Len(q) = Cardinality(In(q))
<1>1. Len(q) \in Nat /\ DOMAIN q = 1 .. Len(q)  OBVIOUS
<1>2. IsFiniteSet(1 .. Len(q)) /\ Cardinality(1 .. Len(q)) = Len(q)
  BY <1>1, FS_Interval
<1>3. [i \in 1 .. Len(q) |-> q[i]] \in Bijection(1 .. Len(q), In(q))
  BY <1>1 DEF Bijection, Injection, Surjection, IsInjective, Once, In
<1> QED  BY <1>2, <1>3, FS_Bijection DEF ExistsBijection
-----------------------------------------------------------------------------
(* The inductive invariant: a job is in one place, the record of a job fits *)
(* its place, and a lock is owned exactly by the worker that executes       *)
(* under it.                                                                *)

OnePlace ==
  /\ Once(pending)
  /\ Queued \cap Taken = {}
  /\ \A v, w \in Workers : v # w /\ job[v] # NoJob => job[v] # job[w]

JobInv(j) ==
  /\ j \in Queued => status[j] = "ACCEPTED" /\ ran[j] = 0
  /\ j \notin Queued \cup Taken => status[j] \notin {"ACCEPTED", "RUNNING"}
  /\ status[j] = "NOT_FOUND" => j \notin Taken /\ ran[j] = 0
  /\ j \notin Taken /\ status[j] \in Ended => status[j] \in heard[j]
  /\ ran[j] \in {0, 1}

WorkerInv(w) ==
  /\ at[w] \in {"lock", "start"} => status[job[w]] = "ACCEPTED" /\ ran[job[w]] = 0
  /\ at[w] = "run" => status[job[w]] = "RUNNING" /\ ran[job[w]] = 0
  /\ at[w] = "finish" => status[job[w]] = "RUNNING" /\ result[job[w]] \in Ended
  /\ at[w] \in {"callback", "unsent"} =>
       status[job[w]] \in Ended /\ result[job[w]] = status[job[w]]
  /\ at[w] = "release" =>
       /\ status[job[w]] \in Ended \cup {"CALLBACK_FAILED"}
       /\ status[job[w]] \in Ended => status[job[w]] \in heard[job[w]]

LocksOwned == \A w \in Workers : Executing(w) => table[UriOf[job[w]]] = job[w]

OwnersExecute ==
  \A l \in Locks : table[l] # Free =>
    \E w \in Workers : Executing(w) /\ UriOf[job[w]] = l /\ table[l] = job[w]

DirectInv ==
  /\ TypeOK /\ OnePlace
  /\ \A j \in Jobs : JobInv(j)
  /\ \A w \in Workers : WorkerInv(w)
  /\ LocksOwned /\ OwnersExecute

LEMMA InitOK ==
  ASSUME DirectConstants, Init
  PROVE  DirectInv
<1>1. TypeOK  BY DEF DirectConstants, Init, TypeOK, NewTable, JobStoreStatus, Ended
<1>2. Queued = {} /\ Taken = {} /\ Once(pending)  BY DEF Init, Queued, Taken, Once
<1>3. OnePlace  BY <1>2 DEF Init, OnePlace
<1>4. \A j \in Jobs : JobInv(j)  BY <1>2 DEF Init, JobInv, Ended
<1>5. \A w \in Workers : WorkerInv(w) /\ ~Executing(w)  BY DEF Init, WorkerInv, Executing
<1>6. LocksOwned /\ OwnersExecute  BY <1>5 DEF Init, LocksOwned, OwnersExecute, NewTable
<1> QED  BY <1>1, <1>3, <1>4, <1>5, <1>6 DEF DirectInv

LEMMA CrashOK ==
  ASSUME DirectConstants, DirectInv, Crash
  PROVE  DirectInv'
<1>1. TypeOK'
  BY DEF DirectConstants, Crash, DirectInv, TypeOK, NewTable, JobStoreStatus, Ended
<1>2. Queued' = {} /\ Taken' = {} /\ Once(pending)'  BY DEF Crash, Queued, Taken, Once
<1>3. OnePlace'  BY <1>2 DEF Crash, OnePlace
<1>4. \A j \in Jobs : JobInv(j)'  BY <1>2 DEF Crash, JobInv, Ended
<1>5. \A w \in Workers : WorkerInv(w)' /\ ~Executing(w)'  BY DEF Crash, WorkerInv, Executing
<1>6. LocksOwned' /\ OwnersExecute'  BY <1>5 DEF Crash, LocksOwned, OwnersExecute, NewTable
<1> QED  BY <1>1, <1>3, <1>4, <1>5, <1>6 DEF DirectInv

LEMMA SubmitOK ==
  ASSUME DirectConstants, DirectInv, NEW j \in Jobs, Submit(j)
  PROVE  DirectInv'
<1>1. j \notin Queued /\ j \notin Taken /\ ran[j] = 0
  BY DEF DirectInv, JobInv, Submit, Fresh
<1>2. Queued = In(pending) /\ Queued' = In(pending')  BY DEF Queued, In
<1>3. /\ pending' \in Seq(Jobs) /\ Queued' = Queued \cup {j} /\ Once(pending)'
      /\ Taken' = Taken
  <2>1. pending' = Append(pending, j) /\ pending \in Seq(Jobs) /\ Once(pending)
    BY DEF Submit, DirectInv, TypeOK, OnePlace
  <2>2. Taken' = Taken  BY DEF Submit, Taken, work
  <2>3. Once(Append(pending, j))  BY <1>1, <1>2, <2>1, AppendQueue
  <2>4. Once(pending)'  BY <2>1, <2>3 DEF Once
  <2> QED  BY <1>2, <2>1, <2>2, <2>4, AppendQueue
<1>4. TypeOK'  BY <1>3 DEF Submit, DirectInv, TypeOK, JobStoreStatus, work
<1>5. OnePlace'  BY <1>1, <1>3 DEF Submit, DirectInv, OnePlace, work
<1>6. \A i \in Jobs : JobInv(i)'
  BY <1>1, <1>3 DEF Submit, DirectInv, TypeOK, JobInv, Ended
<1>7. \A w \in Workers : job[w] # j  BY <1>1 DEF DirectConstants, Taken
<1>8. \A w \in Workers : WorkerInv(w)'
  BY <1>7 DEF Submit, DirectInv, TypeOK, WorkerInv, work
<1>9. LocksOwned' /\ OwnersExecute'
  BY DEF Submit, DirectInv, LocksOwned, OwnersExecute, Executing, work
<1> QED  BY <1>4, <1>5, <1>6, <1>8, <1>9 DEF DirectInv

(* A worker with a job: it is the only one with it, and nobody waits for it. *)
LEMMA AtWork ==
  ASSUME DirectConstants, DirectInv, NEW w \in Workers, at[w] # "idle"
  PROVE  /\ job[w] \in Jobs /\ job[w] \in Taken /\ job[w] \notin Queued
         /\ \A v \in Workers \ {w} : job[v] # job[w]
         /\ UriOf[job[w]] \in Locks
<1>1. job[w] \in Jobs /\ job[w] # NoJob
  BY DEF DirectConstants, DirectInv, TypeOK
<1> QED  BY <1>1 DEF DirectConstants, DirectInv, OnePlace, Taken

(* A step of a worker that keeps its job, its lock and every other record.  *)
LEMMA KeepsJob ==
  ASSUME DirectConstants, DirectInv, NEW w \in Workers, TypeOK',
         at[w] # "idle", UNCHANGED <<job, pending>>,
         \A v \in Workers \ {w} : at'[v] = at[v],
         \A j \in Jobs \ {job[w]} :
           status'[j] = status[j] /\ result'[j] = result[j] /\ heard'[j] = heard[j] /\ ran'[j] = ran[j],
         status'[job[w]] # "NOT_FOUND", ran'[job[w]] \in {0, 1},
         WorkerInv(w)', LocksOwned', OwnersExecute'
  PROVE  DirectInv'
<1>1. Queued' = Queued /\ Taken' = Taken /\ OnePlace'
  BY DEF DirectInv, OnePlace, Queued, Taken, Once
<1>2. ASSUME NEW j \in Jobs  PROVE JobInv(j)'
  <2>1. CASE j = job[w]  BY <1>1, <2>1, AtWork DEF JobInv
  <2>2. CASE j # job[w]  BY <1>1, <2>2 DEF DirectInv, JobInv
  <2> QED  BY <2>1, <2>2
<1>3. ASSUME NEW v \in Workers  PROVE WorkerInv(v)'
  <2>1. CASE v = w  BY <2>1
  <2>2. CASE v # w /\ at[v] = "idle"  BY <2>2 DEF WorkerInv
  <2>3. CASE v # w /\ at[v] # "idle"
    <3>1. job[v] \in Jobs \ {job[w]}  BY <2>3, AtWork
    <3> QED  BY <2>3, <3>1 DEF DirectInv, WorkerInv
  <2> QED  BY <2>1, <2>2, <2>3
<1> QED  BY <1>1, <1>2, <1>3 DEF DirectInv

(* Whoever executes goes on doing so, and no lock changes hands.            *)
LEMMA KeepsLock ==
  ASSUME DirectInv, NEW w \in Workers, UNCHANGED <<job, table>>,
         Executing(w), Executing(w)', \A v \in Workers \ {w} : at'[v] = at[v]
  PROVE  LocksOwned' /\ OwnersExecute'
<1>1. \A v \in Workers : Executing(v)' <=> Executing(v)  BY DEF Executing
<1> QED  BY <1>1 DEF DirectInv, LocksOwned, OwnersExecute

LEMMA LockOK ==
  ASSUME DirectConstants, DirectInv, NEW w \in Workers, Lock(w)
  PROVE  DirectInv'
<1> DEFINE j == job[w]
           l == UriOf[j]
<1>0. /\ at[w] = "lock" /\ at' = [at EXCEPT ![w] = "start"]
      /\ \A v \in Workers : at'[v] = IF v = w THEN "start" ELSE at[v]
  BY DEF Lock, Go, DirectInv, TypeOK
<1>1. j \in Jobs /\ l \in Locks /\ \A v \in Workers \ {w} : job[v] # j
  BY <1>0, AtWork
<1>2. table' = [table EXCEPT ![l] = j] /\ table[l] \in {Free, j} /\ table \in [Locks -> Jobs \cup {Free}]
  BY DEF Lock, Acquired, Grants, DirectInv, TypeOK
<1>3. TypeOK'  BY <1>0, <1>1, <1>2 DEF Lock, DirectInv, TypeOK
<1>4. \A v \in Workers \ {w} : Executing(v)' = Executing(v) /\ (Executing(v) => UriOf[job[v]] # l)
  <2> TAKE v \in Workers \ {w}
  <2>1. Executing(v)' = Executing(v)  BY <1>0 DEF Executing
  <2>2. ASSUME Executing(v), UriOf[job[v]] = l  PROVE FALSE
    <3>1. table[l] = job[v] /\ job[v] # j  BY <1>1, <2>2 DEF DirectInv, LocksOwned
    <3>2. job[v] \in Jobs  BY <2>2, AtWork DEF Executing
    <3> QED  BY <1>2, <3>1, <3>2 DEF DirectConstants
  <2> QED  BY <2>1, <2>2
<1>5. LocksOwned'
  <2> SUFFICES ASSUME NEW v \in Workers, Executing(v)'  PROVE table'[UriOf[job[v]]] = job[v]
    BY DEF LocksOwned, Lock
  <2>1. CASE v = w  BY <1>1, <1>2, <2>1
  <2>2. CASE v # w
    <3>1. Executing(v) /\ UriOf[job[v]] # l  BY <1>4, <2>2
    <3>2. UriOf[job[v]] \in Locks  BY <3>1, AtWork DEF Executing
    <3> QED  BY <1>2, <3>1, <3>2 DEF DirectInv, LocksOwned
  <2> QED  BY <2>1, <2>2
<1>6. OwnersExecute'
  <2> SUFFICES ASSUME NEW m \in Locks, table'[m] # Free
      PROVE \E v \in Workers : Executing(v)' /\ UriOf[job[v]] = m /\ table'[m] = job[v]
    BY DEF OwnersExecute, Lock
  <2>1. CASE m = l
    <3>1. Executing(w)'  BY <1>0 DEF Executing
    <3> QED  BY <1>1, <1>2, <2>1, <3>1
  <2>2. CASE m # l
    <3>1. table[m] = table'[m]  BY <1>2, <2>2
    <3>2. PICK v \in Workers : Executing(v) /\ UriOf[job[v]] = m /\ table[m] = job[v]
      BY <2>2, <3>1 DEF DirectInv, OwnersExecute
    <3>3. Executing(v)'  BY <1>0, <3>2 DEF Executing
    <3> QED  BY <3>1, <3>2, <3>3
  <2> QED  BY <2>1, <2>2
<1>7. WorkerInv(w)'  BY <1>0 DEF Lock, DirectInv, WorkerInv
<1>8. status[j] # "NOT_FOUND" /\ ran[j] \in {0, 1}
  BY <1>0, <1>1, AtWork DEF DirectInv, JobInv
<1> QED  BY <1>0, <1>3, <1>5, <1>6, <1>7, <1>8, KeepsJob DEF Lock

LEMMA ExecutesOK ==
  ASSUME DirectConstants, DirectInv, NEW w \in Workers,
         MarkRunning(w) \/ RunJob(w) \/ MarkFinished(w) \/ Callback(w) \/ MarkCallbackFailed(w)
  PROVE  DirectInv'
<1> DEFINE j == job[w]
<1>0. at[w] \in {"start", "run", "finish", "callback", "unsent"}
  BY DEF MarkRunning, RunJob, MarkFinished, Callback, MarkCallbackFailed
<1>1. j \in Jobs /\ Executing(w) /\ status[j] # "NOT_FOUND" /\ ran[j] \in {0, 1}
  BY <1>0, AtWork DEF Executing, DirectInv, JobInv
<1>2. \E there \in {"run", "finish", "callback", "unsent", "release"} :
        at' = [at EXCEPT ![w] = there]
  BY DEF MarkRunning, RunJob, MarkFinished, Callback, MarkCallbackFailed, Go, After
<1>3. /\ Executing(w)' /\ \A v \in Workers \ {w} : at'[v] = at[v]
      /\ UNCHANGED <<job, table, pending>>
  BY <1>2 DEF DirectInv, TypeOK, Executing, MarkRunning, RunJob, MarkFinished, Callback,
              MarkCallbackFailed
<1>4. LocksOwned' /\ OwnersExecute'  BY <1>1, <1>3, KeepsLock
<1> USE <1>1 DEF DirectInv, TypeOK, WorkerInv, Go, Ended, JobStoreStatus
<1>5. CASE MarkRunning(w)
  <2>1. TypeOK' /\ WorkerInv(w)' /\ status'[j] # "NOT_FOUND" /\ ran'[j] \in {0, 1}  BY <1>5 DEF MarkRunning
  <2> QED  BY <1>0, <1>3, <1>4, <1>5, <2>1, KeepsJob DEF MarkRunning
<1>6. CASE RunJob(w)
  <2>1. TypeOK' /\ WorkerInv(w)' /\ status'[j] # "NOT_FOUND" /\ ran'[j] \in {0, 1}  BY <1>6 DEF RunJob
  <2> QED  BY <1>0, <1>3, <1>4, <1>6, <2>1, KeepsJob DEF RunJob
<1>7. CASE MarkFinished(w)
  <2>1. TypeOK' /\ WorkerInv(w)' /\ status'[j] # "NOT_FOUND" /\ ran'[j] \in {0, 1}  BY <1>7 DEF MarkFinished
  <2> QED  BY <1>0, <1>3, <1>4, <1>7, <2>1, KeepsJob DEF MarkFinished
<1>8. CASE Callback(w)
  <2>1. status[j] \in Ended /\ result[j] = status[j] /\ at[w] = "callback"
        /\ UNCHANGED <<status, pending, job, table, result, ran, crashes>>
    BY <1>8 DEF Callback
  <2>2. PICK sent \in BOOLEAN :
          /\ heard' = [heard EXCEPT ![j] = @ \cup {status[j]}] \/ (~sent /\ heard' = heard)
          /\ at' = [at EXCEPT ![w] = IF sent THEN "release" ELSE "unsent"]
    BY <1>8, <2>1 DEF Callback, Received, After
  <2>3. /\ heard' \in [Jobs -> SUBSET Ended]
        /\ \A i \in Jobs \ {j} : heard'[i] = heard[i]
        /\ sent => status[j] \in heard'[j]
    <3>1. CASE heard' = [heard EXCEPT ![j] = @ \cup {status[j]}]  BY <2>1, <3>1
    <3>2. CASE ~sent /\ heard' = heard  BY <3>2
    <3> QED  BY <2>2, <3>1, <3>2
  <2>4. at'[w] = IF sent THEN "release" ELSE "unsent"  BY <2>2
  <2>5. TypeOK'  BY <2>1, <2>2, <2>3
  <2>6. WorkerInv(w)'  BY <2>1, <2>3, <2>4
  <2>7. \A i \in Jobs \ {j} : status'[i] = status[i] /\ result'[i] = result[i]
                              /\ heard'[i] = heard[i] /\ ran'[i] = ran[i]
    BY <2>1, <2>3
  <2>8. status'[j] # "NOT_FOUND" /\ ran'[j] \in {0, 1} /\ at[w] # "idle"  BY <2>1
  <2> HIDE DEF TypeOK, WorkerInv, DirectInv
  <2> QED  BY <1>3, <1>4, <2>5, <2>6, <2>7, <2>8, KeepsJob
<1>9. CASE MarkCallbackFailed(w)
  <2>1. TypeOK' /\ WorkerInv(w)' /\ status'[j] # "NOT_FOUND" /\ ran'[j] \in {0, 1}  BY <1>9 DEF MarkCallbackFailed
  <2> QED  BY <1>0, <1>3, <1>4, <1>9, <2>1, KeepsJob DEF MarkCallbackFailed
<1> QED  BY <1>5, <1>6, <1>7, <1>8, <1>9

(* A step by which a worker gets a job or gives it away; what the others    *)
(* have stays theirs.                                                       *)
LEMMA TakeOK ==
  ASSUME DirectConstants, DirectInv, NEW w \in Workers, Take(w)
  PROVE  DirectInv'
<1> DEFINE j == Head(pending)
<1>0. /\ at[w] = "idle" /\ job[w] = NoJob /\ pending # <<>> /\ pending \in Seq(Jobs)
      /\ pending' = Tail(pending)
      /\ \A v \in Workers : /\ at'[v] = IF v = w THEN "lock" ELSE at[v]
                            /\ job'[v] = IF v = w THEN j ELSE job[v]
  BY DEF Take, Go, DirectInv, TypeOK
<1>1. Queued = In(pending) /\ Queued' = In(pending')  BY DEF Queued, In
<1>2. /\ j \in Jobs /\ pending' \in Seq(Jobs) /\ Once(pending')
      /\ Queued = Queued' \cup {j} /\ j \notin Queued'
  BY <1>0, <1>1, TakeQueue DEF DirectInv, OnePlace
<1>3. j # NoJob /\ j \notin Taken  BY <1>2 DEF DirectConstants, DirectInv, OnePlace
<1>4. \A v \in Workers : job[v] # j  BY <1>3 DEF Taken
<1>5. Taken' = Taken \cup {j}
  <2>1. \A x : x \in Taken' => x \in Taken \cup {j}  BY <1>0 DEF Taken
  <2>2. j \in Taken'  BY <1>0, <1>3 DEF Taken
  <2>3. ASSUME NEW x \in Taken  PROVE x \in Taken'
    <3>1. PICK v \in Workers : job[v] = x /\ x # NoJob  BY DEF Taken
    <3>2. v # w  BY <1>0, <3>1
    <3> QED  BY <1>0, <3>1, <3>2 DEF Taken
  <2> QED  BY <2>1, <2>2, <2>3
<1>6. TypeOK'
  <2>1. \A v \in Workers : at'[v] = "idle" <=> job'[v] = NoJob
    BY <1>0, <1>3 DEF DirectInv, TypeOK
  <2> QED  BY <1>2, <2>1 DEF Take, Go, DirectInv, TypeOK
<1>7. OnePlace'
  <2>1. Once(pending)'  BY <1>2 DEF Once
  <2>2. Queued' \cap Taken' = {}  BY <1>2, <1>5 DEF DirectInv, OnePlace
  <2>3. \A u, v \in Workers : u # v /\ job'[u] # NoJob => job'[u] # job'[v]
    BY <1>0, <1>4 DEF DirectInv, OnePlace
  <2> QED  BY <2>1, <2>2, <2>3 DEF OnePlace
<1>8. \A i \in Jobs : JobInv(i)'
  BY <1>2, <1>5 DEF Take, DirectInv, JobInv, Ended
<1>9. ASSUME NEW v \in Workers  PROVE WorkerInv(v)'
  <2>1. status[j] = "ACCEPTED" /\ ran[j] = 0  BY <1>2 DEF DirectInv, JobInv
  <2>2. CASE v = w  BY <1>0, <2>1, <2>2 DEF Take, WorkerInv
  <2>3. CASE v # w  BY <1>0, <2>3 DEF Take, DirectInv, WorkerInv
  <2> QED  BY <2>2, <2>3
<1>10. LocksOwned' /\ OwnersExecute'
  BY <1>0 DEF Take, DirectInv, LocksOwned, OwnersExecute, Executing
<1> QED  BY <1>6, <1>7, <1>8, <1>9, <1>10 DEF DirectInv

LEMMA GivesUp ==
  ASSUME DirectConstants, DirectInv, NEW w \in Workers, at[w] # "idle",
         at' = [at EXCEPT ![w] = "idle"], job' = [job EXCEPT ![w] = NoJob]
  PROVE  /\ \A v \in Workers : /\ at'[v] = IF v = w THEN "idle" ELSE at[v]
                               /\ job'[v] = IF v = w THEN NoJob ELSE job[v]
                               /\ at'[v] = "idle" <=> job'[v] = NoJob
         /\ at' \in [Workers -> {"idle", "lock", "start", "run", "finish", "callback",
                                 "unsent", "release"}]
         /\ job' \in [Workers -> Jobs \cup {NoJob}]
         /\ Taken' = Taken \ {job[w]}
         /\ \A u, v \in Workers : u # v /\ job'[u] # NoJob => job'[u] # job'[v]
<1>1. /\ \A v \in Workers : /\ at'[v] = IF v = w THEN "idle" ELSE at[v]
                            /\ job'[v] = IF v = w THEN NoJob ELSE job[v]
                            /\ at'[v] = "idle" <=> job'[v] = NoJob
      /\ at' \in [Workers -> {"idle", "lock", "start", "run", "finish", "callback",
                              "unsent", "release"}]
      /\ job' \in [Workers -> Jobs \cup {NoJob}]
  BY DEF DirectInv, TypeOK
<1>2. job[w] # NoJob /\ \A v \in Workers \ {w} : job[v] # job[w]  BY AtWork DEF DirectConstants
<1>3. Taken' = Taken \ {job[w]}
  <2>1. ASSUME NEW x \in Taken'  PROVE x \in Taken \ {job[w]}
    <3>1. PICK v \in Workers : job'[v] = x /\ x # NoJob  BY DEF Taken
    <3>2. v # w /\ job[v] = x  BY <1>1, <3>1
    <3> QED  BY <1>2, <3>1, <3>2 DEF Taken
  <2>2. ASSUME NEW x \in Taken \ {job[w]}  PROVE x \in Taken'
    <3>1. PICK v \in Workers : job[v] = x /\ x # NoJob  BY DEF Taken
    <3>2. v # w  BY <3>1
    <3> QED  BY <1>1, <3>1, <3>2 DEF Taken
  <2> QED  BY <2>1, <2>2
<1>4. \A u, v \in Workers : u # v /\ job'[u] # NoJob => job'[u] # job'[v]
  BY <1>1, <1>2 DEF DirectInv, OnePlace
<1> QED  BY <1>1, <1>3, <1>4

LEMMA RequeueOK ==
  ASSUME DirectConstants, DirectInv, NEW w \in Workers, Requeue(w)
  PROVE  DirectInv'
<1> DEFINE j == job[w]
<1>0. /\ at[w] = "lock" /\ at' = [at EXCEPT ![w] = "idle"]
      /\ job' = [job EXCEPT ![w] = NoJob]
      /\ pending' = Append(pending, j) /\ pending \in Seq(Jobs) /\ Once(pending)
  BY DEF Requeue, Requeued, Go, DirectInv, TypeOK, OnePlace
<1>1. j \in Jobs /\ j \in Taken /\ j \notin Queued /\ status[j] = "ACCEPTED" /\ ran[j] = 0
  BY <1>0, AtWork DEF DirectInv, WorkerInv
<1>2. /\ \A v \in Workers : /\ at'[v] = IF v = w THEN "idle" ELSE at[v]
                            /\ job'[v] = IF v = w THEN NoJob ELSE job[v]
                            /\ at'[v] = "idle" <=> job'[v] = NoJob
      /\ at' \in [Workers -> {"idle", "lock", "start", "run", "finish", "callback",
                              "unsent", "release"}]
      /\ job' \in [Workers -> Jobs \cup {NoJob}]
      /\ Taken' = Taken \ {j}
      /\ \A u, v \in Workers : u # v /\ job'[u] # NoJob => job'[u] # job'[v]
  BY <1>0, GivesUp
<1>3. Queued = In(pending) /\ Queued' = In(pending')  BY DEF Queued, In
<1>4. pending' \in Seq(Jobs) /\ Queued' = Queued \cup {j} /\ Once(pending')
  BY <1>0, <1>1, <1>3, AppendQueue
<1>5. TypeOK'  BY <1>2, <1>4 DEF Requeue, DirectInv, TypeOK
<1>6. OnePlace'
  <2>1. Once(pending)'  BY <1>4 DEF Once
  <2> QED  BY <1>2, <1>4, <2>1 DEF DirectInv, OnePlace
<1>7. \A i \in Jobs : JobInv(i)'
  BY <1>1, <1>2, <1>4 DEF Requeue, DirectInv, JobInv, Ended
<1>8. \A v \in Workers : WorkerInv(v)'
  BY <1>2 DEF Requeue, DirectInv, WorkerInv
<1>9. LocksOwned' /\ OwnersExecute'
  BY <1>0, <1>2 DEF Requeue, DirectInv, LocksOwned, OwnersExecute, Executing
<1> QED  BY <1>5, <1>6, <1>7, <1>8, <1>9 DEF DirectInv

LEMMA ReleaseOK ==
  ASSUME DirectConstants, DirectInv, NEW w \in Workers, Release(w)
  PROVE  DirectInv'
<1> DEFINE j == job[w]
           l == UriOf[j]
<1>0. /\ at[w] = "release" /\ at' = [at EXCEPT ![w] = "idle"]
      /\ job' = [job EXCEPT ![w] = NoJob]
      /\ UNCHANGED <<status, pending, result, heard, ran, crashes>>
  BY DEF Release, Go
<1>1. /\ j \in Jobs /\ j \in Taken /\ l \in Locks
      /\ status[j] \in Ended \cup {"CALLBACK_FAILED"}
      /\ status[j] \in Ended => status[j] \in heard[j]
  BY <1>0, AtWork DEF DirectInv, WorkerInv
<1>2. /\ \A v \in Workers : /\ at'[v] = IF v = w THEN "idle" ELSE at[v]
                            /\ job'[v] = IF v = w THEN NoJob ELSE job[v]
                            /\ at'[v] = "idle" <=> job'[v] = NoJob
      /\ at' \in [Workers -> {"idle", "lock", "start", "run", "finish", "callback",
                              "unsent", "release"}]
      /\ job' \in [Workers -> Jobs \cup {NoJob}]
      /\ Taken' = Taken \ {j}
      /\ \A u, v \in Workers : u # v /\ job'[u] # NoJob => job'[u] # job'[v]
  BY <1>0, GivesUp
<1>3. Queued' = Queued /\ Once(pending)'
  BY <1>0 DEF Queued, DirectInv, OnePlace, Once
<1>4. table[l] = j /\ table' = [table EXCEPT ![l] = Free] /\ table \in [Locks -> Jobs \cup {Free}]
  BY <1>0 DEF Release, Released, DirectInv, TypeOK, LocksOwned, Executing
<1>5. TypeOK'  BY <1>0, <1>1, <1>2, <1>4 DEF DirectInv, TypeOK
<1>6. OnePlace'  BY <1>2, <1>3 DEF DirectInv, OnePlace
<1>7. \A i \in Jobs : JobInv(i)'
  BY <1>0, <1>1, <1>2, <1>3 DEF DirectInv, JobInv, Ended
<1>8. \A v \in Workers : WorkerInv(v)'
  BY <1>0, <1>2 DEF DirectInv, WorkerInv
<1>9. LocksOwned'
  <2> SUFFICES ASSUME NEW v \in Workers, Executing(v)'  PROVE table'[UriOf[job'[v]]] = job'[v]
    BY DEF LocksOwned
  <2>1. v # w /\ Executing(v) /\ job'[v] = job[v]  BY <1>2 DEF Executing
  <2>2. table[UriOf[job[v]]] = job[v] /\ job[v] # j /\ UriOf[job[v]] \in Locks
    BY <1>0, <2>1, AtWork DEF DirectInv, LocksOwned, Executing
  <2> QED  BY <1>4, <2>1, <2>2
<1>10. OwnersExecute'
  <2> SUFFICES ASSUME NEW m \in Locks, table'[m] # Free
      PROVE \E v \in Workers : Executing(v)' /\ UriOf[job'[v]] = m /\ table'[m] = job'[v]
    BY DEF OwnersExecute
  <2>1. m # l /\ table'[m] = table[m]  BY <1>4
  <2>2. PICK v \in Workers : Executing(v) /\ UriOf[job[v]] = m /\ table[m] = job[v]
    BY <2>1 DEF DirectInv, OwnersExecute
  <2>3. v # w  BY <2>1, <2>2
  <2>4. Executing(v)' /\ job'[v] = job[v]  BY <1>2, <2>2, <2>3 DEF Executing
  <2> QED  BY <2>1, <2>2, <2>4
<1> QED  BY <1>5, <1>6, <1>7, <1>8, <1>9, <1>10 DEF DirectInv

-----------------------------------------------------------------------------
(* The theorems.                                                           *)

(* The jobs of DirectDispatchService are accounted for, and its locks kept, *)
(* in every state: submit_job, run_pending_once and a restart.             *)
THEOREM Invariance == Spec => []DirectInv
<1>1. Init => DirectInv  BY InitOK, DirectConstants
<1>2. DirectInv /\ [Next]_vars => DirectInv'
  <2> SUFFICES ASSUME DirectInv, [Next]_vars  PROVE DirectInv'  OBVIOUS
  <2> USE DirectConstants
  <2>1. ASSUME NEW j \in Jobs, Submit(j)  PROVE DirectInv'  BY <2>1, SubmitOK
  <2>2. ASSUME NEW w \in Workers, WorkerStep(w)  PROVE DirectInv'
    <3>1. CASE Take(w)  BY <3>1, TakeOK
    <3>2. CASE Lock(w)  BY <3>2, LockOK
    <3>3. CASE Requeue(w)  BY <3>3, RequeueOK
    <3>4. CASE Release(w)  BY <3>4, ReleaseOK
    <3>5. CASE MarkRunning(w) \/ RunJob(w) \/ MarkFinished(w) \/ Callback(w)
               \/ MarkCallbackFailed(w)
      BY <3>5, ExecutesOK
    <3> QED  BY <2>2, <3>1, <3>2, <3>3, <3>4, <3>5 DEF WorkerStep
  <2>3. CASE Crash  BY <2>3, CrashOK
  <2>4. CASE UNCHANGED vars
    <3>1. UNCHANGED <<status, pending, at, job, table, result, heard, ran, crashes>>
      BY <2>4 DEF vars, work
    <3>2. TypeOK' /\ Queued' = Queued /\ Taken' = Taken
      BY <3>1 DEF DirectInv, TypeOK, Queued, Taken
    <3>3. OnePlace'  BY <3>1, <3>2 DEF DirectInv, OnePlace, Once
    <3>4. \A j \in Jobs : JobInv(j)'  BY <3>1, <3>2 DEF DirectInv, JobInv
    <3>5. \A w \in Workers : WorkerInv(w)'  BY <3>1 DEF DirectInv, WorkerInv
    <3>6. LocksOwned' /\ OwnersExecute'
      BY <3>1 DEF DirectInv, LocksOwned, OwnersExecute, Executing
    <3> QED  BY <3>2, <3>3, <3>4, <3>5, <3>6 DEF DirectInv
  <2> QED  BY <2>1, <2>2, <2>3, <2>4 DEF Next
<1> QED  BY <1>1, <1>2, PTL DEF Spec

(* The module's type invariant. *)
THEOREM TypeCorrect == Spec => []TypeOK
BY Invariance, PTL DEF DirectInv

(* Two workers never execute jobs on one lock URI, and no lock is leaked by *)
(* a runner or a callback that raises (_execute_and_callback).             *)
THEOREM Exclusion == Spec => []DirectExclusive
<1>1. DirectInv => DirectExclusive
  <2> SUFFICES ASSUME DirectInv  PROVE DirectExclusive  OBVIOUS
  <2>1. ASSUME NEW v \in Workers, NEW w \in Workers, v # w, Executing(v), Executing(w),
               UriOf[job[v]] = UriOf[job[w]]
        PROVE FALSE
    <3>1. job[v] = job[w]  BY <2>1 DEF DirectInv, LocksOwned
    <3>2. at[w] # "idle"  BY <2>1 DEF Executing
    <3> QED  BY <2>1, <3>1, <3>2, DirectConstants, AtWork
  <2>2. ASSUME NEW l \in Locks,
               \E w \in Workers : Executing(w) /\ UriOf[job[w]] = l /\ table[l] = job[w]
        PROVE table[l] # Free
    <3>1. PICK w \in Workers : Executing(w) /\ table[l] = job[w]  BY <2>2
    <3>2. job[w] \in Jobs  BY <3>1, DirectConstants, AtWork DEF Executing
    <3> QED  BY <3>1, <3>2, DirectConstants DEF DirectConstants
  <2> QED  BY <2>1, <2>2 DEF DirectExclusive, DirectInv, OwnersExecute
<1> QED  BY <1>1, Invariance, PTL

(* submit_job and the requeue of a locked job neither lose a job nor double *)
(* it, and no job is run twice in one life of the process.                 *)
THEOREM Accounted == Spec => []JobsAccountedFor
<1>1. DirectInv => JobsAccountedFor
  <2> SUFFICES ASSUME DirectInv  PROVE JobsAccountedFor  OBVIOUS
  <2>1. Len(pending) = Cardinality(Queued)
    <3>1. Queued = In(pending)  BY DEF Queued, In
    <3> QED  BY <3>1, OnceCounts DEF DirectInv, TypeOK, OnePlace
  <2>2. \A j \in Jobs : ran[j] <= 1  BY DEF DirectInv, JobInv
  <2> QED  BY <2>1, <2>2 DEF JobsAccountedFor, DirectInv, OnePlace, JobInv
<1> QED  BY <1>1, Invariance, PTL

(* A job at rest with an end as its status was reported with that end; the  *)
(* others are CALLBACK_FAILED (mark_callback_failed).                      *)
THEOREM Heard == Spec => []EndWasHeard
<1>1. DirectInv => EndWasHeard  BY DEF DirectInv, JobInv, EndWasHeard
<1> QED  BY <1>1, Invariance, PTL
================================================================================
