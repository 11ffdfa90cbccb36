------------------------- MODULE ResourceLockManager --------------------------
(***************************************************************************)
(* The in-memory lock table of src/resource_lock_manager.  acquire and     *)
(* release are one critical section of its mutex each; they never wait.    *)
(* No caller in src gives a TTL, so no entry expires.                      *)
(***************************************************************************)

CONSTANTS
  Locks,  \* lock URIs
  Free    \* the owner of a lock nobody holds

\* A table maps every lock URI to its owner.
NewTable == [l \in Locks |-> Free]

BadGrants(table, l, o) == TRUE

\* acquire returns True: a free lock, or one of the same owner (reentrant).
Grants(table, l, o) == table[l] \in {Free, o}

Acquired(table, l, o) == [table EXCEPT ![l] = o]

BadReleased(table, l, o) == table

\* release: the entry goes only if it is the caller's.
Released(table, l, o) == IF table[l] = o THEN [table EXCEPT ![l] = Free] ELSE table
=============================================================================
