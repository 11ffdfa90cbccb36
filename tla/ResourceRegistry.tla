--------------------------- MODULE ResourceRegistry ---------------------------
(***************************************************************************)
(* src/scheduler/resource_registry.py and the file lock behind it          *)
(* (file_lock.py).  Every process has one registry: a table of leases      *)
(* under one mutex with a condition.  When the file lock is enabled,       *)
(* try_hold and wait_and_hold also lock a file per endpoint, in a          *)
(* directory that the processes of the machine share.                      *)
(*                                                                         *)
(* A file is an inode: the path of an endpoint names one or none, a flock  *)
(* belongs to an inode, and unlinking the path leaves open inodes alive    *)
(* (open(path, 'w'), fcntl.flock and Path.unlink of a POSIX system).       *)
(***************************************************************************)
EXTENDS Integers, FiniteSets

(* A definition Bad... is a plausible mistake in the one that follows it;   *)
(* no action uses it.  Each is a mutation under which a property fails.     *)

CONSTANTS
  Threads,     \* callers of the registries
  Procs,       \* processes
  Endpoints,   \* endpoint keys
  Inodes,      \* files the lock directory can hold
  None,        \* no thread, process or inode
  ProcOf,      \* the process of a thread
  HolderOf,    \* (execution_id, plan_id) of a thread's holder_metadata
  Methods,     \* subset of {"try_hold", "wait_and_hold", "acquire"}
  FileLocking, \* enable_file_lock was called
  MayTimeOut,  \* callers pass a timeout, which may expire
  MaxCalls,    \* bound on the calls of one thread
  MaxCrashes   \* bound on the crashes of processes

ASSUME RegistryNone ==
  None \notin Threads \cup Procs \cup Inodes
ASSUME RegistryConstants ==
  /\ ProcOf \in [Threads -> Procs]
  /\ DOMAIN HolderOf = Threads
  /\ Methods \subseteq {"try_hold", "wait_and_hold", "acquire"}
  /\ FileLocking \in BOOLEAN /\ MayTimeOut \in BOOLEAN
  /\ MaxCalls \in Nat /\ MaxCrashes \in Nat

VARIABLES
  pc,      \* where a thread is
  method,  \* the method it called
  key,     \* the endpoint_key it passed
  did,     \* _did_acquire: its exit will release the lease
  fd,      \* the lock file it has open outside the context table
  calls,   \* calls it made (bound)
  lease,   \* _leases: the thread whose holder_metadata is recorded
  context, \* _file_lock_contexts: the locked inode
  mutex,   \* the thread inside the registry's lock across several steps
  path,    \* what the lock path of an endpoint names
  flock,   \* the process that has an inode locked
  crashes  \* crashes so far (bound)

threadVars == <<pc, method, key, did, fd, calls>>
tableVars  == <<lease, context, mutex>>
fileVars   == <<path, flock>>
vars == <<threadVars, tableVars, fileVars, crashes>>

Pcs == {"idle", "enter", "waiting", "woken", "open", "flock", "holding",
        "closing", "unlock", "unlink"}

TypeOK ==
  /\ pc \in [Threads -> Pcs]
  /\ method \in [Threads -> Methods \cup {"none"}]
  /\ key \in [Threads -> Endpoints \cup {None}]
  /\ \A t \in Threads : pc[t] # "idle" => key[t] \in Endpoints
  /\ did \in [Threads -> BOOLEAN]
  /\ fd \in [Threads -> Inodes \cup {None}]
  /\ calls \in [Threads -> Nat]
  /\ lease \in [Procs -> [Endpoints -> Threads \cup {None}]]
  /\ context \in [Procs -> [Endpoints -> Inodes \cup {None}]]
  /\ mutex \in [Procs -> Threads \cup {None}]
  /\ path \in [Endpoints -> Inodes \cup {None}]
  /\ flock \in [Inodes -> Procs \cup {None}]
  /\ crashes \in Nat

Init ==
  /\ pc = [t \in Threads |-> "idle"]
  /\ method = [t \in Threads |-> "none"]
  /\ key = [t \in Threads |-> None]
  /\ did = [t \in Threads |-> FALSE]
  /\ fd = [t \in Threads |-> None]
  /\ calls = [t \in Threads |-> 0]
  /\ lease = [p \in Procs |-> [e \in Endpoints |-> None]]
  /\ context = [p \in Procs |-> [e \in Endpoints |-> None]]
  /\ mutex = [p \in Procs |-> None]
  /\ path = [e \in Endpoints |-> None]
  /\ flock = [i \in Inodes |-> None]
  /\ crashes = 0

LeaseOf(t) == lease[ProcOf[t]][key[t]]
ContextOf(t) == context[ProcOf[t]][key[t]]
MutexFree(t) == mutex[ProcOf[t]] = None

Goto(t, l) == pc' = [pc EXCEPT ![t] = l]

-----------------------------------------------------------------------------
(* Taking a lease.                                                         *)

Call(t) ==
  /\ pc[t] = "idle"
  /\ calls[t] < MaxCalls
  /\ calls' = [calls EXCEPT ![t] = @ + 1]
  /\ \E m \in Methods, e \in Endpoints :
       /\ method' = [method EXCEPT ![t] = m]
       /\ key' = [key EXCEPT ![t] = e]
  /\ did' = [did EXCEPT ![t] = FALSE]
  /\ Goto(t, "enter")
  /\ UNCHANGED <<fd, tableVars, fileVars, crashes>>

\* The holder named by the lease of the endpoint is the caller's own.
Reentrant(t) ==
  /\ method[t] = "acquire" /\ pc[t] = "enter"
  /\ LeaseOf(t) # None
  /\ HolderOf[LeaseOf(t)] = HolderOf[t]

\* `while endpoint_key in self._leases', re-evaluated after every wake-up.
IsFree(t) == LeaseOf(t) = None

BadEnterReentrant(t) ==
  /\ pc[t] = "enter" /\ MutexFree(t)
  /\ Reentrant(t)
  /\ did' = [did EXCEPT ![t] = TRUE]
  /\ Goto(t, "holding")
  /\ UNCHANGED <<method, key, fd, calls, tableVars, fileVars, crashes>>

\* The outer holder gives the lease back, not this caller.
EnterReentrant(t) ==
  /\ pc[t] = "enter" /\ MutexFree(t)
  /\ Reentrant(t)
  /\ Goto(t, "holding")
  /\ UNCHANGED <<method, key, did, fd, calls, tableVars, fileVars, crashes>>

\* The endpoint is held: try_hold gives up, the others wait on the condition.
FindHeld(t) ==
  /\ pc[t] \in {"enter", "woken"} /\ MutexFree(t)
  /\ ~Reentrant(t) /\ ~IsFree(t)
  /\ Goto(t, IF method[t] = "try_hold" THEN "idle" ELSE "waiting")
  /\ UNCHANGED <<method, key, did, fd, calls, tableVars, fileVars, crashes>>

\* condition.wait ran into the deadline and the endpoint is still held.
TimeOut(t) ==
  /\ MayTimeOut
  /\ pc[t] = "waiting" /\ MutexFree(t)
  /\ ~IsFree(t)
  /\ Goto(t, "idle")
  /\ UNCHANGED <<method, key, did, fd, calls, tableVars, fileVars, crashes>>

\* `acquire' never consults the file lock.
NeedsFile(t) == FileLocking /\ method[t] # "acquire"

TakeLease(t) ==
  /\ pc[t] \in {"enter", "woken"} /\ MutexFree(t)
  /\ ~Reentrant(t) /\ IsFree(t)
  /\ ~NeedsFile(t)
  /\ lease' = [lease EXCEPT ![ProcOf[t]][key[t]] = t]
  /\ did' = [did EXCEPT ![t] = TRUE]
  /\ Goto(t, "holding")
  /\ UNCHANGED <<method, key, fd, calls, context, mutex, fileVars, crashes>>

\* The file operations happen inside the registry's lock.
GoForFile(t) ==
  /\ pc[t] \in {"enter", "woken"} /\ MutexFree(t)
  /\ ~Reentrant(t) /\ IsFree(t)
  /\ NeedsFile(t)
  /\ mutex' = [mutex EXCEPT ![ProcOf[t]] = t]
  /\ Goto(t, "open")
  /\ UNCHANGED <<method, key, did, fd, calls, lease, context, fileVars, crashes>>

\* Inodes that no path names and no process has open.
FreeInodes ==
  {i \in Inodes : /\ \A e \in Endpoints : path[e] # i
                  /\ \A t \in Threads : fd[t] # i
                  /\ \A p \in Procs, e \in Endpoints : context[p][e] # i
                  /\ flock[i] = None}

\* open(lock_path, 'w') opens the file the path names or creates one.
OpenFile(t) ==
  /\ pc[t] = "open"
  /\ IF path[key[t]] = None
     THEN \E i \in FreeInodes : path' = [path EXCEPT ![key[t]] = i]
     ELSE UNCHANGED path
  /\ fd' = [fd EXCEPT ![t] = path'[key[t]]]
  /\ Goto(t, "flock")
  /\ UNCHANGED <<method, key, did, calls, tableVars, flock, crashes>>

\* flock(LOCK_EX | LOCK_NB) succeeds unless some open file has the inode.
CanLock(t) == flock[fd[t]] = None

\* A context still in the table is overwritten: its file is closed with it.
LockFile(t) ==
  /\ pc[t] = "flock"
  /\ CanLock(t)
  /\ flock' = [i \in Inodes |-> IF i = fd[t] THEN ProcOf[t]
                                ELSE IF i = ContextOf(t) THEN None ELSE flock[i]]
  /\ context' = [context EXCEPT ![ProcOf[t]][key[t]] = fd[t]]
  /\ lease' = [lease EXCEPT ![ProcOf[t]][key[t]] = t]
  /\ fd' = [fd EXCEPT ![t] = None]
  /\ mutex' = [mutex EXCEPT ![ProcOf[t]] = None]
  /\ did' = [did EXCEPT ![t] = TRUE]
  /\ Goto(t, "holding")
  /\ UNCHANGED <<method, key, calls, path, crashes>>

\* The file is locked by someone else: try_hold returns False, wait_and_hold
\* tries again (still inside the registry's lock) until its deadline.
FindLocked(t) ==
  /\ pc[t] = "flock"
  /\ ~CanLock(t)
  /\ fd' = [fd EXCEPT ![t] = None]
  /\ \/ /\ method[t] = "try_hold" \/ MayTimeOut
        /\ mutex' = [mutex EXCEPT ![ProcOf[t]] = None]
        /\ Goto(t, "idle")
     \/ /\ method[t] = "wait_and_hold"
        /\ UNCHANGED mutex
        /\ Goto(t, "open")
  /\ UNCHANGED <<method, key, did, calls, lease, context, fileVars, crashes>>

-----------------------------------------------------------------------------
(* Giving it back: _release.                                               *)

\* A reentrant exit leaves everything to the outer holder.
ExitReentrant(t) ==
  /\ pc[t] = "holding" /\ ~did[t]
  /\ Goto(t, "idle")
  /\ UNCHANGED <<method, key, did, fd, calls, tableVars, fileVars, crashes>>

BadWoken(t) == {}

\* notify_all: every thread that waits on the condition of this registry.
Woken(t) == {u \in Threads : ProcOf[u] = ProcOf[t] /\ pc[u] = "waiting"}

\* Under the lock: the lease is deleted, whoever it names, and all waiters
\* are notified.
DeleteLease(t) ==
  /\ pc[t] = "holding" /\ did[t]
  /\ MutexFree(t)
  /\ lease' = [lease EXCEPT ![ProcOf[t]][key[t]] = None]
  /\ pc' = [u \in Threads |-> IF u = t THEN "closing"
                              ELSE IF u \in Woken(t) THEN "woken" ELSE pc[u]]
  /\ UNCHANGED <<method, key, did, fd, calls, context, mutex, fileVars, crashes>>

BadHasContext(t) == FALSE

HasContext(t) == ContextOf(t) # None

\* Outside the lock: whatever context the endpoint has is taken and closed.
PopContext(t) ==
  /\ pc[t] = "closing"
  /\ IF HasContext(t)
     THEN /\ fd' = [fd EXCEPT ![t] = ContextOf(t)]
          /\ context' = [context EXCEPT ![ProcOf[t]][key[t]] = None]
          /\ Goto(t, "unlock")
     ELSE /\ Goto(t, "idle")
          /\ UNCHANGED <<fd, context>>
  /\ UNCHANGED <<method, key, did, calls, lease, mutex, fileVars, crashes>>

\* _close: LOCK_UN and close, ...
UnlockFile(t) ==
  /\ pc[t] = "unlock"
  /\ flock' = [flock EXCEPT ![fd[t]] = None]
  /\ fd' = [fd EXCEPT ![t] = None]
  /\ Goto(t, "unlink")
  /\ UNCHANGED <<method, key, did, calls, tableVars, path, crashes>>

\* ... then the path is removed, whatever it names by now.
UnlinkPath(t) ==
  /\ pc[t] = "unlink"
  /\ path' = [path EXCEPT ![key[t]] = None]
  /\ Goto(t, "idle")
  /\ UNCHANGED <<method, key, did, fd, calls, tableVars, flock, crashes>>

-----------------------------------------------------------------------------

\* A process dies and starts again: its tables are empty and the system has
\* dropped its flocks; the lock files stay.
Crash(p) ==
  /\ crashes < MaxCrashes
  /\ crashes' = crashes + 1
  /\ pc' = [t \in Threads |-> IF ProcOf[t] = p THEN "idle" ELSE pc[t]]
  /\ did' = [t \in Threads |-> IF ProcOf[t] = p THEN FALSE ELSE did[t]]
  /\ fd' = [t \in Threads |-> IF ProcOf[t] = p THEN None ELSE fd[t]]
  /\ lease' = [lease EXCEPT ![p] = [e \in Endpoints |-> None]]
  /\ context' = [context EXCEPT ![p] = [e \in Endpoints |-> None]]
  /\ mutex' = [mutex EXCEPT ![p] = None]
  /\ flock' = [i \in Inodes |-> IF flock[i] = p THEN None ELSE flock[i]]
  /\ UNCHANGED <<method, key, calls, path>>

ThreadStep(t) ==
  \/ EnterReentrant(t) \/ FindHeld(t) \/ TakeLease(t) \/ GoForFile(t)
  \/ OpenFile(t) \/ LockFile(t) \/ FindLocked(t)
  \/ ExitReentrant(t) \/ DeleteLease(t) \/ PopContext(t)
  \/ UnlockFile(t) \/ UnlinkPath(t)

Idle == \A t \in Threads : pc[t] = "idle" /\ calls[t] = MaxCalls

\* Every caller is done.
Quiet == Idle /\ UNCHANGED vars

Next ==
  \/ \E t \in Threads : Call(t) \/ ThreadStep(t) \/ TimeOut(t)
  \/ \E p \in Procs : Crash(p)
  \/ Quiet

Spec == Init /\ [][Next]_vars

\* Threads keep running and a holder ends its work and gives its lease back.
FairSpec == Spec /\ \A t \in Threads : WF_vars(ThreadStep(t))
-----------------------------------------------------------------------------
(* Properties.                                                             *)

\* A thread works on an endpoint whose lease is its own.
Holds(t) == pc[t] = "holding" /\ did[t]

\* Within one process an endpoint is never held twice (docstring: "never held
\* by more than one holder at a time"), whatever mix of methods is used.
HeldOnce ==
  \A t, u \in Threads :
    Holds(t) /\ Holds(u) /\ ProcOf[t] = ProcOf[u] /\ key[t] = key[u] => t = u

\* Every lease has a thread that works under it and will give it back, and
\* names that thread: no lease survives its holder.
LeaseIsHeld ==
  \A p \in Procs, e \in Endpoints, t \in Threads :
    lease[p][e] = t <=> Holds(t) /\ ProcOf[t] = p /\ key[t] = e

\* A thread at a lock file is inside its registry's lock and found the
\* endpoint free, so the lease it is about to record is still free.
FileInsideMutex ==
  \A t \in Threads :
    /\ pc[t] \in {"open", "flock"} => mutex[ProcOf[t]] = t /\ LeaseOf(t) = None
    /\ pc[t] \in {"flock", "unlock"} => fd[t] \in Inodes

\* A thread that is still asking has not acquired anything.
AskingHasNothing ==
  \A t \in Threads :
    pc[t] \in {"enter", "waiting", "woken", "open", "flock"} => ~did[t]

\* The inductive invariant behind HeldOnce.
RegistryInv == TypeOK /\ LeaseIsHeld /\ FileInsideMutex /\ AskingHasNothing

\* A thread that waits on the condition gets its turn once the holder is
\* done: no wake-up is lost, for callers without a timeout.
WaitersProceed ==
  \A t \in Threads : pc[t] = "waiting" ~> pc[t] \in {"holding", "idle"}

\* No lock is left behind: the file of an endpoint is locked by a process only
\* while one of its threads holds the endpoint or is giving it back.
NoStaleFlock ==
  \A i \in Inodes, p \in Procs : flock[i] = p =>
    \E t \in Threads :
      /\ ProcOf[t] = p
      /\ \/ pc[t] \in {"holding", "closing"} /\ ContextOf(t) = i
         \/ pc[t] = "unlock" /\ fd[t] = i

\* file_lock.py: "exclusive access to this endpoint across processes".
HeldOnceAcrossProcesses ==
  \A t, u \in Threads : Holds(t) /\ Holds(u) /\ key[t] = key[u] => t = u

LeaseTable == [x \in Procs \X Endpoints |-> lease[x[1]][x[2]]]

HeldNow == {<<t, <<ProcOf[t], key[t]>>>> : t \in {u \in Threads : Holds(u)}}

Leases ==
  INSTANCE EndpointLease
    WITH Users <- Threads,
         Endpoints <- Procs \X Endpoints,
         owner <- LeaseTable,
         using <- HeldNow

\* The registries together are a table of leases, one per process and
\* endpoint: a thread is let in only under its own lease, a lease is taken
\* from nobody but its holder, and a crash frees those of its process.
RegistryIsLeaseTable == Leases!Spec
=============================================================================
