------------------------------ MODULE ExcelConfig ------------------------------
(***************************************************************************)
(* The workbook a plan is run with: ExcelConfigStore                       *)
(* (src/excel_config_store), the routes that activate a workbook, and the  *)
(* way a run takes its snapshot of the latest one                          *)
(* (src/plan_run_service/service.py).                                      *)
(*                                                                         *)
(* A workbook is stored as by_hash/<second>_<hash>.xlsx, here the pair of  *)
(* the second and the workbook, and latest.json names one of them.  Both   *)
(* are written to a temporary file that is renamed, so that each write     *)
(* happens or does not; between any two the process may die.  The store    *)
(* works under one reentrant lock; the rest of a start does not.           *)
(*                                                                         *)
(* Left out: requests refused before the lock is taken (not .xlsx, too     *)
(* small, outside the import roots), temporary files a crash leaves, and   *)
(* _memory_cache, which nothing reads.                                     *)
(***************************************************************************)
EXTENDS Naturals, Sequences

CONSTANTS
  Callers,      \* threads that serve requests
  Books,        \* workbooks
  Readable,     \* those load_all can parse
  Legacies,     \* the workbooks that may be at the two legacy paths, in order
  None,         \* there is none
  Corrupt,      \* latest.json cannot be read, or what it names is not sound
  MaxSeconds,   \* bound on the clock
  MaxRequests,  \* bound on the requests of a caller
  MaxFaults,    \* bound on file operations that fail and files that are damaged
  MaxCrashes    \* bound on the crashes of the process

Names == (0 .. MaxSeconds) \X Books

\* What a caller remembers of the request it serves.
Calls == [op : {"activate", "start", "get", "run"}, book : Books \cup {None},
          at : {"parse", "parsed", "store", "commit", "rollback", "latest", "migrate",
                "migrated", "snapshot"},
          name : Names \cup {None}, existed : BOOLEAN, left : Seq(Books),
          meta : Names \cup {None, Corrupt}, present : BOOLEAN]

ASSUME ConfigAssumption ==
  /\ Readable \subseteq Books /\ Legacies \subseteq Seq(Books)
  /\ {MaxSeconds, MaxRequests, MaxFaults, MaxCrashes} \subseteq Nat
  /\ None \notin Books \cup Callers \cup Names \cup Calls
  /\ Corrupt \notin Names \cup {None}

VARIABLES
  now,        \* the second the clock shows
  stored,     \* by_hash: the names there are, with their contents
  latest,     \* latest.json: a name, None or Corrupt
  legacy,     \* what is at the legacy paths
  memory,     \* _excel_store["latest"]: a workbook and what its path is
  lock,       \* the caller that holds the store's lock
  call,       \* what a caller is doing: None, or the request it serves
  runs,       \* the workbooks of the runs accepted so far
  requests, faults, crashes,
  committed,  \* the names latest.json has ever had
  damaged,    \* a file was damaged from outside
  littered    \* a crash or a failing unlink left a stored workbook behind

disk == <<stored, latest, legacy, committed, damaged, littered>>
counters == <<requests, faults, crashes>>
vars == <<now, disk, memory, lock, call, runs, counters>>

\* A request: POST config/excel and config/excel:path activate a workbook, GET
\* config/latest asks for it, a plan is started for the workbook with a given
\* hash (start_external_plan) or for whatever is the latest (start_plan_run).
Requests == [op : {"activate", "start"}, book : Books]
              \cup [op : {"get", "run"}, book : {None}]

Init ==
  /\ now = 0
  /\ stored = [n \in {} |-> None] /\ latest = None
  /\ legacy \in Legacies
  /\ memory = None /\ lock = None
  /\ call = [c \in Callers |-> None]
  /\ runs = {}
  /\ requests = [c \in Callers |-> 0] /\ faults = 0 /\ crashes = 0
  /\ committed = {} /\ damaged = FALSE /\ littered = FALSE

Goes(c, next) == call' = [call EXCEPT ![c].at = next]

Done(c) == call' = [call EXCEPT ![c] = None]

\* Caller c is at this point of its request.
At(c, point) == call[c] # None /\ call[c].at = point

\* A file operation of this step fails.
Fails == faults < MaxFaults /\ faults' = faults + 1

FreeLock(c) == lock \in {None, c}

\* The name a workbook has when it is stored is chosen before the lock is taken.
Ask(c) ==
  /\ call[c] = None /\ requests[c] < MaxRequests
  /\ requests' = [requests EXCEPT ![c] = @ + 1]
  /\ \E r \in Requests :
       call' = [call EXCEPT ![c] =
         [op |-> r.op, book |-> r.book, at |-> IF r.op = "activate" THEN "parse" ELSE "latest",
          name |-> IF r.op = "activate" THEN <<now, r.book>> ELSE None,
          existed |-> FALSE, left |-> <<>>, meta |-> None, present |-> latest # None]]
  /\ UNCHANGED <<now, disk, memory, lock, runs, faults, crashes>>

\* _set_latest_excel: the workbook is parsed and kept in memory with its path.
Remember(b, p) == b \in Readable /\ memory' = [book |-> b, path |-> p]

-----------------------------------------------------------------------------
(* Activating a workbook.                                                  *)

\* An activation has ended: its request is answered, or the migration of a
\* legacy file, with the lock still held, goes on.
Returns(c, accepted) ==
  IF call[c].op = "activate"
  THEN Done(c) /\ lock' = None
  ELSE Goes(c, IF accepted THEN "migrated" ELSE "migrate") /\ UNCHANGED lock

\* The temporary file is parsed, and the workbook is in memory from here on.
Parse(c) ==
  /\ At(c, "parse") /\ FreeLock(c)
  /\ \/ /\ Remember(call[c].name[2], c)
        /\ lock' = c /\ Goes(c, "parsed")
        /\ UNCHANGED faults
     \/ /\ \/ call[c].name[2] \notin Readable /\ UNCHANGED faults
           \/ Fails
        /\ Returns(c, FALSE)
        /\ UNCHANGED memory
  /\ UNCHANGED <<now, disk, runs, requests, crashes>>

\* The temporary file is removed, or is not and nobody is told; memory keeps its path.
Unlink(c) ==
  /\ At(c, "parsed")
  /\ \/ /\ memory' = IF memory.path = c THEN [memory EXCEPT !.path = "gone"] ELSE memory
        /\ UNCHANGED faults
     \/ Fails /\ UNCHANGED memory
  /\ call' = [call EXCEPT ![c].at = "store", ![c].existed = call[c].name \in DOMAIN stored]
  /\ UNCHANGED <<now, disk, lock, runs, requests, crashes>>

\* The workbook is written to by_hash.
Store(c) ==
  /\ At(c, "store")
  /\ \/ /\ stored' = [n \in DOMAIN stored \cup {call[c].name} |->
                        IF n = call[c].name THEN n[2] ELSE stored[n]]
        /\ Goes(c, "commit") /\ UNCHANGED <<lock, faults>>
     \/ Fails /\ Returns(c, FALSE) /\ UNCHANGED stored
  /\ UNCHANGED <<now, latest, legacy, committed, damaged, littered, memory, runs, requests, crashes>>

\* _atomic_write_latest_json.
Commit(c) ==
  /\ At(c, "commit")
  /\ \/ /\ latest' = call[c].name /\ committed' = committed \cup {call[c].name}
        /\ Returns(c, TRUE) /\ UNCHANGED faults
     \/ Fails /\ Goes(c, "rollback") /\ UNCHANGED <<latest, committed, lock>>
  /\ UNCHANGED <<now, stored, legacy, damaged, littered, memory, runs, requests, crashes>>

\* Mistake: the workbook goes although an earlier activation stored it.
BadIsNew(c) == call[c].name \in DOMAIN stored

\* What a failed activation stored is its own.
IsNew(c) == call[c].name \in DOMAIN stored /\ ~call[c].existed

\* Mistake: the rejected workbook stays in by_hash.
BadWithout(c) == stored

Without(c) == [n \in DOMAIN stored \ {call[c].name} |-> stored[n]]

\* _rollback_new_by_hash, which may fail.
Rollback(c) ==
  /\ At(c, "rollback")
  /\ \/ ~IsNew(c) /\ UNCHANGED <<stored, littered, faults>>
     \/ IsNew(c) /\ stored' = Without(c) /\ UNCHANGED <<littered, faults>>
     \/ IsNew(c) /\ Fails /\ littered' = TRUE /\ UNCHANGED stored
  /\ Returns(c, FALSE)
  /\ UNCHANGED <<now, latest, legacy, committed, damaged, memory, runs, requests, crashes>>

-----------------------------------------------------------------------------
(* Reading the latest one.                                                 *)

\* The workbook a name stands for is there, and unchanged.
Sound(n) == n \in DOMAIN stored /\ stored[n] = n[2]

\* What get_latest makes of a latest.json: its name, or Corrupt for an error code.
Answer == IF latest \in Names /\ Sound(latest) THEN latest ELSE Corrupt

\* get_latest returns m, and a start goes on to its snapshot.
Answered(c, m) ==
  /\ lock' = None
  /\ IF call[c].op = "get"
     THEN Done(c)
     ELSE call' = [call EXCEPT ![c].meta = m, ![c].at = "snapshot", ![c].left = <<>>,
                               ![c].name = None, ![c].existed = FALSE]

GetLatest(c) ==
  /\ At(c, "latest") /\ FreeLock(c)
  /\ IF latest = None
     THEN lock' = c /\ call' = [call EXCEPT ![c].at = "migrate", ![c].left = legacy]
     ELSE Answered(c, Answer)
  /\ UNCHANGED <<now, disk, memory, runs, counters>>

\* _try_migrate_legacy: the legacy paths in order, until one is accepted.
Migrate(c) ==
  /\ At(c, "migrate")
  /\ IF call[c].left = <<>>
     THEN Answered(c, None)
     ELSE /\ call' = [call EXCEPT ![c].at = "parse", ![c].left = Tail(@),
                                  ![c].name = <<now, Head(call[c].left)>>]
          /\ UNCHANGED lock
  /\ UNCHANGED <<now, disk, memory, runs, counters>>

\* _read_latest_json after a migration looks no further than the file's presence.
Migrated(c) ==
  /\ At(c, "migrated")
  /\ Answered(c, IF latest \in Names /\ latest \in DOMAIN stored THEN latest ELSE None)
  /\ UNCHANGED <<now, disk, memory, runs, counters>>

-----------------------------------------------------------------------------
(* Starting a run.                                                         *)

\* Mistake: a latest.json that is damaged is passed over like one that is absent.
BadSnapshots(m) ==
  IF m \in Names /\ Sound(m) THEN {m[2]}
  ELSE IF memory # None /\ memory.path # "gone" THEN {memory.book}
  ELSE {}

\* The workbook _validate_and_snapshot_latest finds, if any: the one named, or
\* without a latest.json the one in memory, if its file is still there.
Snapshots(m) ==
  IF m \in Names /\ Sound(m) /\ m[2] \in Readable THEN {m[2]}
  ELSE IF m = None /\ memory # None /\ memory.path # "gone" THEN {memory.book}
  ELSE {}

Snapshot(c) ==
  /\ At(c, "snapshot")
  /\ runs' = runs \cup {[book |-> b, present |-> call[c].present] :
                          b \in {s \in Snapshots(call[c].meta) :
                                   call[c].op = "start" => s = call[c].book}}
  /\ Done(c)
  /\ UNCHANGED <<now, disk, memory, lock, counters>>

\* PlanRunService.set_latest_excel: a workbook in memory only.
SetLatestExcel(c) ==
  /\ call[c] = None /\ requests[c] < MaxRequests
  /\ requests' = [requests EXCEPT ![c] = @ + 1]
  /\ \E b \in Books : Remember(b, "file")
  /\ UNCHANGED <<now, disk, lock, call, runs, faults, crashes>>

-----------------------------------------------------------------------------
(* The world around.                                                       *)

Tick ==
  /\ now < MaxSeconds /\ now' = now + 1
  /\ UNCHANGED <<disk, memory, lock, call, runs, counters>>

\* A stored workbook is removed or altered, or latest.json is, from outside.
Damage ==
  /\ Fails /\ damaged' = TRUE
  /\ \/ \E n \in DOMAIN stored :
          /\ \/ stored' = [m \in DOMAIN stored \ {n} |-> stored[m]]
             \/ stored' = [stored EXCEPT ![n] = None]
          /\ UNCHANGED latest
     \/ latest # None /\ latest' = Corrupt /\ UNCHANGED stored
  /\ UNCHANGED <<now, legacy, committed, littered, memory, lock, call, runs, requests, crashes>>

\* The process dies and is started again: what is on disk stays.
Crash ==
  /\ crashes < MaxCrashes /\ crashes' = crashes + 1
  /\ littered' = (littered \/ \E c \in Callers : At(c, "commit") \/ At(c, "rollback"))
  /\ memory' = None /\ lock' = None
  /\ call' = [c \in Callers |-> None]
  /\ UNCHANGED <<now, stored, latest, legacy, committed, damaged, runs, requests, faults>>

Activation(c) == Parse(c) \/ Unlink(c) \/ Store(c) \/ Commit(c) \/ Rollback(c)

Reading(c) == GetLatest(c) \/ Migrate(c) \/ Migrated(c) \/ Snapshot(c)

Next ==
  \/ \E c \in Callers : Ask(c) \/ SetLatestExcel(c) \/ Activation(c) \/ Reading(c)
  \/ Tick \/ Damage \/ Crash

Spec == Init /\ [][Next]_vars

-----------------------------------------------------------------------------
(* What the store promises.                                                *)

\* latest.json names a workbook that is there as it was activated, whatever
\* activations failed, were repeated within a second or died (the transaction
\* order in the docstring of ExcelConfigStore), unless someone else damaged it.
LatestIsWhole == ~damaged /\ latest # None => Sound(latest)

\* A workbook of by_hash was the latest once, or is on its way there: a rejected
\* activation leaves none behind ("Parse is attempted BEFORE writing by_hash to
\* prevent orphan files", and _rollback_new_by_hash), but for a crash or an
\* unlink that failed.
NoOrphans ==
  ~littered =>
    \A n \in DOMAIN stored :
      \/ n \in committed
      \/ lock # None /\ call[lock].name = n /\ call[lock].at \in {"commit", "rollback"}

\* A run asked for when there was a latest.json is of a workbook that was the
\* latest, never of one that was refused ("Damaged latest.json never falls
\* back", _validate_and_snapshot_latest), although the refused one is in memory.
RunsAreCommitted ==
  \A r \in runs : r.present => \E n \in committed : n[2] = r.book
================================================================================
