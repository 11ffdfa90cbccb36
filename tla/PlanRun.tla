-------------------------------- MODULE PlanRun --------------------------------
(***************************************************************************)
(* PlanRunService (src/plan_run_service/service.py): plan runs started over *)
(* HTTP, one thread each, with the lock table they share, the run state    *)
(* kept on disk (state_store.py, state_codec.py) and what they put in the  *)
(* callback outbox of their plan.                                          *)
(*                                                                         *)
(* A run goes through its items in order.  A stretch of items of one BMC   *)
(* endpoint is one group in a real run; any other item is a group by       *)
(* itself.  Of a group, first every item is marked started (state saved,   *)
(* callback put in the outbox), then the lock is taken or the items fail,  *)
(* the group is executed, the lock given back and every item is marked     *)
(* finished the same way.  A lock that is taken is not waited for.         *)
(*                                                                         *)
(* Any append to the outbox may raise; then the crash handler of           *)
(* _execute_run ends the run.  The process may die at any step; the state  *)
(* files and the outbox survive.                                           *)
(***************************************************************************)
EXTENDS Integers, Sequences, FiniteSets, ResourceLockManager, JobRunner

(* A definition Bad... is a plausible mistake in the one that follows it;   *)
(* no action uses it.  Each is a mutation under which a property fails.     *)

CONSTANTS
  Plans,
  Sheets,     \* what the latest workbook may expand to: sequences of items
  Sessions,   \* BMC endpoints, the keys of a session group
  None,       \* no lock URI, no BMC endpoint, nothing told
  MaxRuns,    \* bound on the runs started
  MaxCrashes, \* bound on the crashes of the process
  MaxRaises   \* bound on the appends that raise

Runs == 1 .. MaxRuns
FinalItem == {"SUCCESS", "FAILED"}
FinalRun == {"COMPLETED", "FAILED"}
ItemStatus == FinalItem \cup {"PENDING", "IN_PROGRESS"}
RunStatus == FinalRun \cup {"RUNNING", "INTERRUPTED"}

\* endpoint_key and lock_uri of a BMC item both come from its BMC address; only
\* BMC items have an endpoint.
ASSUME PlanRunConstants ==
  /\ None \notin Locks /\ None \notin Sessions /\ None \notin ItemStatus \cup RunStatus
  /\ Sheets \subseteq Seq([type : {"BMC", "SSH", "TELNET"},
                       mode : {"BMC", "SSH", "TELNET", "BMC_URL", "BMC_ACTIONS", "SSH_CMD"},
                       lock : Locks \cup {None}, session : Sessions \cup {None}])
  /\ \A s \in Sheets : \A i, j \in DOMAIN s :
       s[i].session # None /\ s[i].session = s[j].session => s[i].lock = s[j].lock
  /\ Free \notin Plans \X Nat
  /\ MaxRuns \in Nat /\ MaxCrashes \in Nat /\ MaxRaises \in Nat

VARIABLES
  started,  \* runs started so far; they are 1 .. started
  plan, sheet, real,  \* of a run: plan_id, items, runner_mode = "real"
  status,   \* PlanRun.status
  item,     \* the status of its items
  current,  \* _runs: the run of a plan, 0 if it has none
  pc,       \* where the thread of a run is
  first, count, \* the group: its first item and its size
  at,       \* the item of the group, or of the run, being marked
  owner,    \* the lock table
  disk,     \* the state file of a run
  told,     \* the last status of an item in the outbox
  summary,  \* the status of the run whose summary is in the outbox
  crashes, raises

runVars == <<plan, sheet, real>>
bounds == <<crashes, raises>>
vars == <<started, runVars, status, item, current, pc, first, count, at, owner,
          disk, told, summary, bounds>>

Items(r) == DOMAIN sheet[r]

Init ==
  /\ started = 0
  /\ plan = [r \in Runs |-> None]
  /\ sheet = [r \in Runs |-> <<>>]
  /\ real = [r \in Runs |-> FALSE]
  /\ status = [r \in Runs |-> "INTERRUPTED"]
  /\ item = [r \in Runs |-> <<>>]
  /\ current = [p \in Plans |-> 0]
  /\ pc = [r \in Runs |-> "done"]
  /\ first = [r \in Runs |-> 1]
  /\ count = [r \in Runs |-> 1]
  /\ at = [r \in Runs |-> 1]
  /\ owner = NewTable
  /\ disk = [r \in Runs |-> [status |-> "INTERRUPTED", item |-> <<>>]]
  /\ told = [r \in Runs |-> <<>>]
  /\ summary = [r \in Runs |-> None]
  /\ crashes = 0 /\ raises = 0

-----------------------------------------------------------------------------
(* Groups and locks.                                                       *)

SameSession(s, i, j) == \A k \in i .. j : s[k].session = s[i].session

\* _collect_bmc_session_group: the items from i on of the same BMC endpoint.
SessionGroup(s, i) == {j \in i .. Len(s) : SameSession(s, i, j)}

\* It is collected for a BMC item of a real run; any other is by itself.
GroupSize(r, s, i) ==
  IF real[r] /\ s[i].session # None THEN Cardinality(SessionGroup(s, i)) ELSE 1

Last(r) == first[r] + count[r] - 1
Group(r) == first[r] .. Last(r)
LockOf(r) == sheet[r][first[r]].lock

\* _lock_owner for one item, the bmc-session owner for several.
OwnerId(r) == <<plan[r], IF count[r] = 1 THEN first[r] ELSE 0>>

\* Mark items of a run in memory.
Marked(r, S, st) == [item EXCEPT ![r] = [i \in Items(r) |-> IF i \in S THEN st ELSE @[i]]]

\* run_to_state: what a state file keeps of a run.
State(st, it) == [status |-> st, item |-> it]

\* _persist_run: the state file is replaced as a whole.
Persist(r) == disk' = [disk EXCEPT ![r] = State(status'[r], item'[r])]

BadAdvance(r, i) ==
  IF i >= Len(sheet[r])
  THEN /\ pc' = [pc EXCEPT ![r] = "finalize"]
       /\ UNCHANGED <<first, count, at>>
  ELSE /\ pc' = [pc EXCEPT ![r] = "start"]
       /\ first' = [first EXCEPT ![r] = i]
       /\ count' = [count EXCEPT ![r] = GroupSize(r, sheet[r], i)]
       /\ at' = [at EXCEPT ![r] = i]

\* Come to item i as the head of the next group, or to the end of the run.
Advance(r, i) ==
  IF i > Len(sheet[r])
  THEN /\ pc' = [pc EXCEPT ![r] = "finalize"]
       /\ UNCHANGED <<first, count, at>>
  ELSE /\ pc' = [pc EXCEPT ![r] = "start"]
       /\ first' = [first EXCEPT ![r] = i]
       /\ count' = [count EXCEPT ![r] = GroupSize(r, sheet[r], i)]
       /\ at' = [at EXCEPT ![r] = i]

\* deliver_item_status: the status is in the outbox before it is sent.  The
\* append may raise, which ends the run in the crash handler.
Tell(r) == told' = [told EXCEPT ![r][at[r]] = item[r][at[r]]]

Raises(r) ==
  /\ raises < MaxRaises
  /\ raises' = raises + 1
  /\ pc' = [pc EXCEPT ![r] = "crash"]
  /\ at' = [at EXCEPT ![r] = 1]

-----------------------------------------------------------------------------
(* start_plan_run and start_external_plan.  The HTTP handlers run one at a  *)
(* time on the event loop.                                                  *)

BadMayStart(p) == TRUE

\* The plan has no run that is running.
MayStart(p) == ~(current[p] # 0 /\ status[current[p]] = "RUNNING")

Start(p, s, m) ==
  LET r == started + 1 IN
  /\ started < MaxRuns
  /\ MayStart(p)
  /\ started' = r
  /\ plan' = [plan EXCEPT ![r] = p]
  /\ sheet' = [sheet EXCEPT ![r] = s]
  /\ real' = [real EXCEPT ![r] = m]
  /\ status' = [status EXCEPT ![r] = "RUNNING"]
  /\ item' = [item EXCEPT ![r] = [i \in DOMAIN s |-> "PENDING"]]
  /\ told' = [told EXCEPT ![r] = [i \in DOMAIN s |-> None]]
  /\ current' = [current EXCEPT ![p] = r]
  /\ Persist(r)
  /\ pc' = [pc EXCEPT ![r] = "next"]
  /\ first' = [first EXCEPT ![r] = 1]
  /\ UNCHANGED <<count, at, owner, summary, bounds>>

-----------------------------------------------------------------------------
(* The thread of a run: _execute_run_inner.                                *)

\* The loop head; first is the next item.
NextGroup(r) ==
  /\ pc[r] = "next"
  /\ Advance(r, first[r])
  /\ UNCHANGED <<started, runVars, status, item, current, owner, disk, told,
                 summary, bounds>>

\* _mark_item_started.
MarkStarted(r) ==
  /\ pc[r] = "start"
  /\ item' = Marked(r, {at[r]}, "IN_PROGRESS")
  /\ UNCHANGED status
  /\ Persist(r)
  /\ pc' = [pc EXCEPT ![r] = "tell_start"]
  /\ UNCHANGED <<started, runVars, current, first, count, at, owner, told,
                 summary, bounds>>

TellStarted(r) ==
  /\ pc[r] = "tell_start"
  /\ \/ /\ Tell(r)
        /\ IF at[r] < Last(r)
           THEN /\ at' = [at EXCEPT ![r] = @ + 1]
                /\ pc' = [pc EXCEPT ![r] = "start"]
           ELSE /\ at' = [at EXCEPT ![r] = first[r]]
                /\ pc' = [pc EXCEPT ![r] = "lock"]
        /\ UNCHANGED raises
     \/ Raises(r) /\ UNCHANGED told
  /\ UNCHANGED <<started, runVars, status, item, current, first, count, owner,
                 disk, summary, crashes>>

\* The lock is taken, or there is none to take, or the group fails.
TakeLock(r) ==
  LET l == LockOf(r) IN
  /\ pc[r] = "lock"
  /\ \/ /\ l = None
        /\ pc' = [pc EXCEPT ![r] = "execute"]
        /\ UNCHANGED <<item, owner>>
     \/ /\ l # None /\ Grants(owner, l, OwnerId(r))
        /\ owner' = Acquired(owner, l, OwnerId(r))
        /\ pc' = [pc EXCEPT ![r] = "execute"]
        /\ UNCHANGED item
     \/ /\ l # None /\ ~Grants(owner, l, OwnerId(r))
        /\ item' = Marked(r, Group(r), "FAILED")
        /\ pc' = [pc EXCEPT ![r] = "finish"]
        /\ UNCHANGED owner
  /\ UNCHANGED <<started, runVars, status, current, first, count, at, disk,
                 told, summary, bounds>>

\* What _execute_real or _execute_real_bmc_group hears from the runner.
Answers(r) ==
  IF count[r] = 1 THEN ExecuteReal(sheet[r][first[r]]) ELSE ExecuteRealGroup(count[r])

\* _execute_fake, _execute_real or _execute_real_bmc_group: whatever the runner
\* does or raises, every item of the group is final and the lock is released.
Execute(r) ==
  /\ pc[r] = "execute"
  /\ \/ ~real[r] /\ item' = Marked(r, Group(r), "SUCCESS")
     \/ /\ real[r]
        /\ \E answers \in Answers(r) :
             item' = [item EXCEPT ![r] = [i \in Items(r) |->
                        IF i \in Group(r) THEN ApplyRealResult(answers, i - first[r] + 1) ELSE @[i]]]
  /\ owner' = IF LockOf(r) = None THEN owner
              ELSE Released(owner, LockOf(r), OwnerId(r))
  /\ pc' = [pc EXCEPT ![r] = "finish"]
  /\ UNCHANGED <<started, runVars, status, current, first, count, at, disk,
                 told, summary, bounds>>

\* _mark_item_finished: first the state file, then the outbox.
MarkFinished(r) ==
  /\ pc[r] = "finish"
  /\ UNCHANGED <<status, item>>
  /\ Persist(r)
  /\ pc' = [pc EXCEPT ![r] = "tell_finish"]
  /\ UNCHANGED <<started, runVars, current, first, count, at, owner, told,
                 summary, bounds>>

TellFinished(r) ==
  /\ pc[r] = "tell_finish"
  /\ \/ /\ Tell(r)
        /\ IF at[r] < Last(r)
           THEN /\ at' = [at EXCEPT ![r] = @ + 1]
                /\ pc' = [pc EXCEPT ![r] = "finish"]
                /\ UNCHANGED first
           ELSE /\ first' = [first EXCEPT ![r] = Last(r) + 1]
                /\ pc' = [pc EXCEPT ![r] = "next"]
                /\ UNCHANGED at
        /\ UNCHANGED raises
     \/ Raises(r) /\ UNCHANGED <<told, first>>
  /\ UNCHANGED <<started, runVars, status, item, current, count, owner, disk,
                 summary, crashes>>

\* _finalize_run_status: FAILED if there is no item or all of them failed.
Verdict(r) ==
  IF \A i \in Items(r) : item[r][i] = "FAILED" THEN "FAILED" ELSE "COMPLETED"

Finalize(r) ==
  /\ pc[r] = "finalize"
  /\ status' = [status EXCEPT ![r] = Verdict(r)]
  /\ pc' = [pc EXCEPT ![r] = "save"]
  /\ UNCHANGED <<started, runVars, item, current, first, count, at, owner,
                 disk, told, summary, bounds>>

Save(r) ==
  /\ pc[r] = "save"
  /\ UNCHANGED <<status, item>>
  /\ Persist(r)
  /\ pc' = [pc EXCEPT ![r] = "summarize"]
  /\ UNCHANGED <<started, runVars, current, first, count, at, owner, told,
                 summary, bounds>>

\* _deliver_plan_summary.
Summarize(r) ==
  /\ pc[r] = "summarize"
  /\ \/ /\ summary' = [summary EXCEPT ![r] = status[r]]
        /\ pc' = [pc EXCEPT ![r] = "done"]
        /\ UNCHANGED <<at, raises>>
     \/ Raises(r) /\ UNCHANGED summary
  /\ UNCHANGED <<started, runVars, status, item, current, first, count, owner,
                 disk, told, crashes>>

-----------------------------------------------------------------------------
(* _mark_run_crashed.                                                      *)

Unfinished(r) == {i \in Items(r) : i >= at[r] /\ item[r][i] \notin FinalItem}

\* The next item that is not final fails; an append that raises is logged.
CrashItem(r) ==
  /\ pc[r] = "crash"
  /\ \E i \in Unfinished(r) :
       /\ \A j \in Unfinished(r) : i <= j
       /\ item' = Marked(r, {i}, "FAILED")
       /\ at' = [at EXCEPT ![r] = i + 1]
       /\ \/ told' = [told EXCEPT ![r][i] = "FAILED"] /\ UNCHANGED raises
          \/ /\ raises < MaxRaises /\ raises' = raises + 1
             /\ UNCHANGED told
  /\ UNCHANGED <<started, runVars, status, current, pc, first, count, owner,
                 disk, summary, crashes>>

CrashRun(r) ==
  /\ pc[r] = "crash"
  /\ Unfinished(r) = {}
  /\ status' = [status EXCEPT ![r] = "FAILED"]
  /\ UNCHANGED item
  /\ Persist(r)
  /\ pc' = [pc EXCEPT ![r] = "crash_summary"]
  /\ UNCHANGED <<started, runVars, current, first, count, at, owner, told,
                 summary, bounds>>

CrashSummary(r) ==
  /\ pc[r] = "crash_summary"
  /\ \/ /\ summary' = [summary EXCEPT ![r] = status[r]]
        /\ UNCHANGED raises
     \/ /\ raises < MaxRaises /\ raises' = raises + 1
        /\ UNCHANGED summary
  /\ pc' = [pc EXCEPT ![r] = "done"]
  /\ UNCHANGED <<started, runVars, status, item, current, first, count, at,
                 owner, disk, told, crashes>>

-----------------------------------------------------------------------------
(* The process dies and starts again: __init__, _load_persisted_runs.      *)

BadLoadedStatus(d) == d.status

\* state_to_run.
LoadedStatus(d) == IF d.status = "RUNNING" THEN "INTERRUPTED" ELSE d.status

BadLoadedItem(d, i) == d.item[i]

LoadedItem(d, i) ==
  IF d.item[i] \notin FinalItem /\ LoadedStatus(d) = "INTERRUPTED"
  THEN "FAILED" ELSE d.item[i]

\* The locks and the threads are gone; a plan has its latest run.
Restart ==
  /\ crashes < MaxCrashes
  /\ crashes' = crashes + 1
  /\ status' = [r \in Runs |-> LoadedStatus(disk[r])]
  /\ item' = [r \in Runs |-> [i \in DOMAIN disk[r].item |-> LoadedItem(disk[r], i)]]
  /\ pc' = [r \in Runs |-> "done"]
  /\ first' = [r \in Runs |-> 1]
  /\ count' = [r \in Runs |-> 1]
  /\ at' = [r \in Runs |-> 1]
  /\ owner' = NewTable
  /\ UNCHANGED <<started, runVars, current, disk, told, summary, raises>>

-----------------------------------------------------------------------------

RunStep(r) ==
  \/ NextGroup(r) \/ MarkStarted(r) \/ TellStarted(r) \/ TakeLock(r)
  \/ Execute(r) \/ MarkFinished(r) \/ TellFinished(r)
  \/ Finalize(r) \/ Save(r) \/ Summarize(r)
  \/ CrashItem(r) \/ CrashRun(r) \/ CrashSummary(r)

Next ==
  \/ \E p \in Plans, s \in Sheets, m \in BOOLEAN : Start(p, s, m)
  \/ \E r \in Runs : RunStep(r)
  \/ Restart

Spec == Init /\ [][Next]_vars
-----------------------------------------------------------------------------
(* The invariant.                                                          *)

InGroup == {"start", "tell_start", "lock", "execute", "finish", "tell_finish"}
Working == InGroup \cup {"next", "finalize"}
Ending == {"save", "summarize", "crash", "crash_summary", "done"}

TypeOK ==
  /\ started \in 0 .. MaxRuns
  /\ plan \in [Runs -> Plans \cup {None}]
  /\ sheet \in [Runs -> Sheets \cup {<<>>}]
  /\ real \in [Runs -> BOOLEAN]
  /\ status \in [Runs -> RunStatus]
  /\ current \in [Plans -> 0 .. MaxRuns]
  /\ pc \in [Runs -> Working \cup Ending]
  /\ first \in [Runs -> Nat \ {0}]
  /\ count \in [Runs -> Nat \ {0}]
  /\ at \in [Runs -> Nat]
  /\ owner \in [Locks -> (Plans \X Nat) \cup {Free}]
  /\ summary \in [Runs -> FinalRun \cup {None}]
  /\ crashes \in Nat /\ raises \in Nat
  /\ item = [r \in Runs |-> item[r]]
  /\ disk = [r \in Runs |-> disk[r]]
  /\ \A r \in Runs : disk[r].status \in RunStatus
  /\ told = [r \in Runs |-> told[r]]

\* A run whose items are not through is the running one of its plan, and what
\* has not been started has left no trace.
WorkingIsCurrent ==
  \A r \in Runs :
    /\ pc[r] \in Working =>
         status[r] = "RUNNING" /\ plan[r] \in Plans /\ current[plan[r]] = r
    /\ pc[r] # "done" \/ summary[r] # None => r <= started

Executing(r) == pc[r] = "execute" /\ LockOf(r) # None

\* Whoever executes under a lock owns it, and a lock is owned by nobody else.
LocksHeld ==
  /\ \A r \in Runs : Executing(r) => owner[LockOf(r)] = OwnerId(r)
  /\ \A l \in Locks : owner[l] # Free =>
       \E r \in Runs : Executing(r) /\ LockOf(r) = l /\ OwnerId(r) = owner[l]

\* The end of an item has been reached and told.
Settled(r, i) == item[r][i] \in FinalItem /\ told[r][i] = item[r][i]

\* How far a run has come: the items before Reached are settled, and the server
\* has heard of no other's end; none from Ahead on has ended.
Reached(r) == IF pc[r] \in {"finish", "tell_finish"} THEN at[r] ELSE first[r]
Ahead(r) == IF pc[r] \in {"finish", "tell_finish"} THEN Last(r) + 1 ELSE first[r]

ItemsTyped(r) ==
  /\ item[r] \in [Items(r) -> ItemStatus]
  /\ disk[r] \in [status : RunStatus, item : [Items(r) -> ItemStatus]]
  /\ told[r] \in [Items(r) -> ItemStatus \cup {None}]

InBounds(r) ==
  /\ pc[r] \in InGroup => first[r] \in Items(r) /\ Last(r) \in Items(r) /\ at[r] \in Group(r)
  /\ pc[r] \in {"lock", "execute"} => at[r] = first[r]

ItemsInOrder(r) ==
  /\ pc[r] \in InGroup \cup {"next"} => \A i \in Items(r) :
       /\ IF i < Reached(r) THEN Settled(r, i) ELSE told[r][i] \notin FinalItem
       /\ i >= Ahead(r) => item[r][i] \notin FinalItem
  /\ pc[r] = "tell_start" => item[r][at[r]] = "IN_PROGRESS"
  /\ pc[r] \in {"finish", "tell_finish"} => \A i \in Group(r) : item[r][i] \in FinalItem
  /\ pc[r] \in {"finalize", "save", "summarize"} => \A i \in Items(r) : Settled(r, i)

\* The state file against the memory.
DiskBehind(r) ==
  /\ \A i \in Items(r) : disk[r].item[i] \in FinalItem => item[r][i] = disk[r].item[i]
  /\ pc[r] \in Working \cup {"save"} => disk[r].status = "RUNNING"
  /\ pc[r] \in {"tell_finish", "summarize", "crash_summary"} => disk[r].item = item[r]
  /\ pc[r] \in {"summarize", "crash_summary"} => disk[r].status = status[r]
  /\ disk[r].status = "COMPLETED" =>
       disk[r].item = item[r] /\ \A i \in Items(r) : Settled(r, i)

\* How a run ends: by its thread, or by the crash handler.
EndOK(r) ==
  /\ pc[r] \in {"save", "summarize", "crash_summary"} => status[r] \in FinalRun
  /\ status[r] = "RUNNING" => pc[r] \in Working \cup {"crash"}
  /\ pc[r] = "crash" => \A i \in Items(r) :
       item[r][i] \in FinalItem \/ (at[r] <= i /\ disk[r].status = "RUNNING")

\* What the server knows, against memory and state file.
ServerOK(r) ==
  /\ \A i \in Items(r) : told[r][i] \in FinalItem =>
       item[r][i] = told[r][i] /\ LoadedItem(disk[r], i) = told[r][i]
  /\ summary[r] # None =>
       pc[r] = "done" /\ status[r] = summary[r] /\ disk[r].status = summary[r]
  /\ status[r] = "COMPLETED" => \A i \in Items(r) : Settled(r, i)

RunOK(r) ==
  /\ ItemsTyped(r) /\ InBounds(r) /\ ItemsInOrder(r)
  /\ DiskBehind(r) /\ EndOK(r) /\ ServerOK(r)

RunInv ==
  /\ TypeOK /\ WorkingIsCurrent /\ LocksHeld
  /\ \A r \in Runs : RunOK(r)
-----------------------------------------------------------------------------
(* Properties.                                                             *)

\* _execute_run_item, _execute_real_bmc_group: no two runs work on the device
\* behind a lock URI at once.  The owner of a lock names plan and item, and a
\* lock is reentrant: only the refusal to start a plan that is running keeps two
\* runs of one plan apart.
ResourceExclusive ==
  \A r, s \in Runs : r # s /\ Executing(r) /\ Executing(s) => LockOf(r) # LockOf(s)

\* A run that is RUNNING has a thread that will end it: a crash, a raise or a
\* restart never leaves a plan that is refused as PLAN_ALREADY_RUNNING for good.
RunningHasThread == \A r \in Runs : status[r] = "RUNNING" => pc[r] # "done"

\* What the server is told of an item's end is what every later query answers,
\* also after a crash of the process: the state file is written before the
\* outbox, except where the loaded state makes up for it.
ToldIsTrue ==
  \A r \in Runs :
    /\ \A i \in Items(r) : told[r][i] \in FinalItem => item[r][i] = told[r][i]
    /\ summary[r] # None => status[r] = summary[r]

\* A run is COMPLETED only when the end of each of its items is in the outbox.
CompletedIsTold ==
  \A r \in Runs : status[r] = "COMPLETED" =>
    \A i \in Items(r) : told[r][i] = item[r][i] /\ item[r][i] \in FinalItem
=============================================================================
