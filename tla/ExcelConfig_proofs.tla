-------------------------- MODULE ExcelConfig_proofs ---------------------------
(***************************************************************************)
(* Theorems about ExcelConfig, for every set of callers and workbooks and  *)
(* any number of requests, failing file operations and crashes.            *)
(***************************************************************************)
EXTENDS ExcelConfig, TLAPS

Activating == {"parse", "parsed", "store", "commit", "rollback"}
Storing == {"store", "commit", "rollback"}

(* Where a caller holds the lock of the store.                             *)
InSection(c) ==
  /\ call[c] # None
  /\ \/ call[c].at \in Storing \cup {"parsed", "migrate", "migrated"}
     \/ call[c].at = "parse" /\ call[c].op # "activate"

TypeOK ==
  /\ now \in 0 .. MaxSeconds
  /\ legacy \in Seq(Books)
  /\ lock \in Callers \cup {None}
  /\ call \in [Callers -> Calls \cup {None}]
  /\ damaged \in BOOLEAN /\ littered \in BOOLEAN

LockKept == \A c \in Callers : InSection(c) => lock = c

(* Nobody else having touched the files, each is as it was activated, and  *)
(* latest.json names one of them.                                          *)
FilesWhole ==
  ~damaged => /\ \A n \in DOMAIN stored : stored[n] = n[2]
              /\ latest # None => latest \in DOMAIN stored

LatestCommitted == latest \in committed \cup {None, Corrupt}

Writing(c) == At(c, "commit") \/ At(c, "rollback")

OnTheWay ==
  ~littered => \A n \in DOMAIN stored :
                 n \in committed \/ \E c \in Callers : Writing(c) /\ call[c].name = n

(* What a caller knows of the files: while it has the lock and stores a    *)
(* workbook, whether that was the latest once; later, that what it was     *)
(* answered was.                                                           *)
CallOK(c) ==
  call[c] # None =>
    /\ call[c].at \in Activating => call[c].name \in Names
    /\ call[c].op = "activate" => call[c].at \in Activating
    /\ call[c].at \in Storing =>
         /\ call[c].existed /\ ~littered => call[c].name \in committed
         /\ ~call[c].existed /\ ~damaged => call[c].name # latest
    /\ call[c].at = "commit" /\ ~damaged => call[c].name \in DOMAIN stored
    /\ call[c].present /\ call[c].op # "activate" =>
         call[c].at \in {"latest", "snapshot"} /\ latest # None
    /\ call[c].at = "snapshot" =>
         /\ call[c].meta \in committed \cup {None, Corrupt}
         /\ call[c].present => call[c].meta # None

ConfigInv ==
  /\ TypeOK /\ LockKept /\ FilesWhole /\ LatestCommitted /\ OnTheWay /\ RunsAreCommitted
  /\ \A c \in Callers : CallOK(c)

LEMMA CallTyped ==
  ASSUME TypeOK, NEW c \in Callers, call[c] # None
  PROVE  call[c] \in Calls
BY DEF TypeOK

(* A step of caller c that changes its request only.                       *)
LEMMA OneCall ==
  ASSUME TypeOK, NEW c \in Callers, NEW new \in Calls \cup {None},
         call' = [call EXCEPT ![c] = new]
  PROVE  /\ call'[c] = new /\ call' \in [Callers -> Calls \cup {None}]
         /\ \A d \in Callers \ {c} : call'[d] = call[d]
BY DEF TypeOK

(* A step of caller c that leaves the files alone.                         *)
LEMMA QuietStep ==
  ASSUME ConfigInv, NEW c \in Callers, NEW new \in Calls \cup {None},
         call' = [call EXCEPT ![c] = new], UNCHANGED <<now, disk>>,
         lock' = lock \/ (lock \in {None, c} /\ lock' \in {None, c}),
         ~Writing(c), InSection(c)' => lock' = c, CallOK(c)', RunsAreCommitted'
  PROVE  ConfigInv'
<1>1. /\ \A d \in Callers \ {c} : call'[d] = call[d]
      /\ call' \in [Callers -> Calls \cup {None}]
  BY OneCall DEF ConfigInv
<1>2. TypeOK'  BY <1>1 DEF ConfigInv, TypeOK, disk
<1>3. LockKept'
  <2> SUFFICES ASSUME NEW d \in Callers, InSection(d)'  PROVE lock' = d
    BY DEF LockKept
  <2>1. CASE d # c
    <3>1. InSection(d)  BY <1>1, <2>1 DEF InSection
    <3>2. lock = d  BY <3>1 DEF ConfigInv, LockKept
    <3> QED  BY <2>1, <3>2, ConfigAssumption DEF ConfigAssumption
  <2> QED  BY <2>1
<1>4. FilesWhole' /\ LatestCommitted'
  BY DEF ConfigInv, FilesWhole, LatestCommitted, disk
<1>5. OnTheWay'
  <2>1. \A d \in Callers : Writing(d) => Writing(d)' /\ call'[d].name = call[d].name
    BY <1>1 DEF Writing, At
  <2> QED  BY <2>1 DEF ConfigInv, OnTheWay, disk
<1>6. \A d \in Callers \ {c} : CallOK(d)'  BY <1>1 DEF ConfigInv, CallOK, disk
<1> QED  BY <1>2, <1>3, <1>4, <1>5, <1>6 DEF ConfigInv

(* A step of caller c inside the transaction that stores a workbook: nobody *)
(* else is in a section.                                                   *)
LEMMA WriteStep ==
  ASSUME ConfigInv, NEW c \in Callers, call[c] # None, call[c].at \in Storing,
         NEW new \in Calls \cup {None}, call' = [call EXCEPT ![c] = new],
         UNCHANGED <<now, legacy, damaged, runs>>, lock' \in {None, lock},
         committed \subseteq committed', littered' \in BOOLEAN,
         LatestCommitted', latest # None => latest' # None,
         FilesWhole', OnTheWay', InSection(c)' => lock' = c, CallOK(c)'
  PROVE  ConfigInv'
<1>1. /\ \A d \in Callers \ {c} : call'[d] = call[d]
      /\ call' \in [Callers -> Calls \cup {None}]
  BY OneCall DEF ConfigInv
<1>2. TypeOK'  BY <1>1 DEF ConfigInv, TypeOK
<1>3. \A d \in Callers \ {c} : ~InSection(d) /\ ~InSection(d)'
  <2>1. lock = c  BY DEF ConfigInv, LockKept, InSection
  <2>2. \A d \in Callers \ {c} : ~InSection(d)  BY <2>1 DEF ConfigInv, LockKept
  <2> QED  BY <1>1, <2>2 DEF InSection
<1>4. LockKept'  BY <1>3 DEF LockKept
<1>5. \A d \in Callers \ {c} : CallOK(d)'
  <2> SUFFICES ASSUME NEW d \in Callers \ {c}  PROVE CallOK(d)'
    OBVIOUS
  <2>1. call'[d] = call[d] /\ CallOK(d)  BY <1>1 DEF ConfigInv
  <2>2. call[d] # None => call[d].at \notin Storing  BY <1>3 DEF InSection
  <2> QED  BY <2>1, <2>2 DEF CallOK, Storing
<1>6. RunsAreCommitted'  BY DEF ConfigInv, RunsAreCommitted
<1> QED  BY <1>2, <1>4, <1>5, <1>6 DEF ConfigInv

(* The end of an activation: the request is answered, or the migration goes *)
(* on with the lock held.                                                  *)
LEMMA ReturnsOK ==
  ASSUME ConfigInv, NEW c \in Callers, call[c] # None, call[c].at \in Activating,
         NEW accepted \in BOOLEAN, Returns(c, accepted)
  PROVE  /\ \E new \in Calls \cup {None} : call' = [call EXCEPT ![c] = new]
         /\ lock' \in {None, lock}
         /\ InSection(c)' => lock' = c
         /\ CallOK(c)'
<1>1. call[c] \in Calls /\ CallOK(c)  BY CallTyped DEF ConfigInv
<1>2. CASE call[c].op = "activate"
  <2>1. call' = [call EXCEPT ![c] = None] /\ lock' = None  BY <1>2 DEF Returns, Done
  <2>2. call'[c] = None  BY <2>1 DEF ConfigInv, TypeOK
  <2> QED  BY <2>1, <2>2 DEF InSection, CallOK
<1>3. CASE call[c].op # "activate"
  <2> DEFINE there == IF accepted THEN "migrated" ELSE "migrate"
             new == [call[c] EXCEPT !.at = there]
  <2>1. call' = [call EXCEPT ![c] = new] /\ lock' = lock  BY <1>3 DEF Returns, Goes
  <2>2. new \in Calls  BY <1>1 DEF Calls
  <2>3. call'[c] = new  BY <2>1 DEF ConfigInv, TypeOK
  <2>4. /\ new.at \in {"migrate", "migrated"} /\ new.op # "activate" /\ ~new.present
    BY <1>1, <1>3 DEF CallOK, Activating, Calls
  <2>5. lock = c
    <3>1. InSection(c)  BY <1>3 DEF InSection, Activating, Storing
    <3> QED  BY <3>1 DEF ConfigInv, LockKept
  <2> HIDE DEF new
  <2>6. CallOK(c)'  BY <2>3, <2>4 DEF CallOK, Activating, Storing
  <2> QED  BY <2>1, <2>2, <2>5, <2>6
<1> QED  BY <1>2, <1>3

LEMMA AskKeeps ==
  ASSUME ConfigInv, NEW c \in Callers, Ask(c)
  PROVE  ConfigInv'
<1>1. PICK r \in Requests :
        call' = [call EXCEPT ![c] =
          [op |-> r.op, book |-> r.book, at |-> IF r.op = "activate" THEN "parse" ELSE "latest",
           name |-> IF r.op = "activate" THEN <<now, r.book>> ELSE None,
           existed |-> FALSE, left |-> <<>>, meta |-> None, present |-> latest # None]]
  BY DEF Ask
<1> DEFINE new == [op |-> r.op, book |-> r.book,
                   at |-> IF r.op = "activate" THEN "parse" ELSE "latest",
                   name |-> IF r.op = "activate" THEN <<now, r.book>> ELSE None,
                   existed |-> FALSE, left |-> <<>>, meta |-> None, present |-> latest # None]
<1>2. /\ r.op \in {"activate", "start", "get", "run"} /\ r.book \in Books \cup {None}
      /\ r.op = "activate" => r.book \in Books
  BY DEF Requests
<1>3. r.op = "activate" => <<now, r.book>> \in Names
  BY <1>2 DEF ConfigInv, TypeOK, Names
<1>4. new \in Calls
  <2>1. <<>> \in Seq(Books)  OBVIOUS
  <2> QED  BY <1>2, <1>3, <2>1 DEF Calls
<1>5. call[c] = None /\ UNCHANGED <<now, disk, lock, runs>>  BY DEF Ask
<1>6. call'[c] = new  BY <1>1 DEF ConfigInv, TypeOK
<1>7. CallOK(c)'
  <2>1. /\ new.op = r.op /\ new.at = IF r.op = "activate" THEN "parse" ELSE "latest"
        /\ r.op = "activate" => new.name \in Names
        /\ new.present => latest # None
    BY <1>3
  <2> HIDE DEF new
  <2>2. CASE r.op = "activate"
    <3>1. new.at = "parse"  BY <2>1, <2>2
    <3> QED  BY <1>6, <2>1, <2>2, <3>1 DEF CallOK, Activating, Storing
  <2>3. CASE r.op # "activate"
    <3>1. new.at = "latest"  BY <2>1, <2>3
    <3>2. latest' = latest  BY <1>5 DEF disk
    <3> QED  BY <1>6, <2>1, <2>3, <3>1, <3>2 DEF CallOK, Activating, Storing
  <2> QED  BY <2>2, <2>3
<1>8. ~InSection(c)'  BY <1>6 DEF InSection, Storing
<1>9. ~Writing(c)  BY <1>5 DEF Writing, At
<1>10. RunsAreCommitted'  BY <1>5 DEF ConfigInv, RunsAreCommitted, disk
<1> HIDE DEF new
<1> QED  BY <1>1, <1>4, <1>5, <1>7, <1>8, <1>9, <1>10, QuietStep DEF new

LEMMA ParseKeeps ==
  ASSUME ConfigInv, NEW c \in Callers, Parse(c)
  PROVE  ConfigInv'
<1>1. /\ call[c] # None /\ call[c].at = "parse" /\ lock \in {None, c}
      /\ UNCHANGED <<now, disk, runs>>
  BY DEF Parse, At, FreeLock
<1>2. call[c] \in Calls /\ CallOK(c)  BY <1>1, CallTyped DEF ConfigInv
<1>3. ~Writing(c)  BY <1>1 DEF Writing, At
<1>4. RunsAreCommitted'  BY <1>1 DEF ConfigInv, RunsAreCommitted, disk
<1>5. CASE lock' = c /\ Goes(c, "parsed")
  <2> DEFINE new == [call[c] EXCEPT !.at = "parsed"]
  <2>1. call' = [call EXCEPT ![c] = new]  BY <1>5 DEF Goes
  <2>2. new \in Calls  BY <1>2 DEF Calls
  <2>3. call'[c] = new  BY <2>1 DEF ConfigInv, TypeOK
  <2>4. CallOK(c)'
    BY <1>1, <1>2, <2>3 DEF CallOK, Activating, Storing, disk, Calls
  <2> HIDE DEF new
  <2> QED  BY <1>1, <1>3, <1>4, <1>5, <2>1, <2>2, <2>4, QuietStep
<1>6. CASE Returns(c, FALSE)
  <2>1. /\ \E new \in Calls \cup {None} : call' = [call EXCEPT ![c] = new]
        /\ lock' \in {None, lock}
        /\ InSection(c)' => lock' = c
        /\ CallOK(c)'
    BY <1>1, <1>6, ReturnsOK DEF Activating
  <2> QED  BY <1>1, <1>3, <1>4, <2>1, QuietStep
<1> QED  BY <1>5, <1>6 DEF Parse

LEMMA UnlinkKeeps ==
  ASSUME ConfigInv, NEW c \in Callers, Unlink(c)
  PROVE  ConfigInv'
<1>1. /\ call[c] # None /\ call[c].at = "parsed"
      /\ UNCHANGED <<now, disk, lock, runs>>
  BY DEF Unlink, At
<1>2. call[c] \in Calls /\ CallOK(c) /\ call[c].name \in Names
  BY <1>1, CallTyped DEF ConfigInv, CallOK, Activating
<1> DEFINE was == call[c].name \in DOMAIN stored
           new == [call[c] EXCEPT !.at = "store", !.existed = was]
<1>3. call' = [call EXCEPT ![c] = new]  BY DEF Unlink
<1>4. new \in Calls
  <2>1. was \in BOOLEAN  OBVIOUS
  <2> HIDE DEF was
  <2> QED  BY <1>2, <2>1 DEF Calls
<1>5. call'[c] = new  BY <1>3 DEF ConfigInv, TypeOK
<1>6. lock = c  BY <1>1 DEF ConfigInv, LockKept, InSection
<1>7. was /\ ~littered => call[c].name \in committed
  <2>1. \A d \in Callers : ~Writing(d)
    <3> SUFFICES ASSUME NEW d \in Callers, Writing(d)  PROVE FALSE
      OBVIOUS
    <3>1. d = c  BY <1>6 DEF ConfigInv, LockKept, InSection, Writing, At, Storing
    <3> QED  BY <1>1, <3>1 DEF Writing, At
  <2> QED  BY <2>1 DEF ConfigInv, OnTheWay
<1>8. ~was /\ ~damaged => call[c].name # latest
  BY <1>2, ConfigAssumption DEF ConfigInv, FilesWhole, ConfigAssumption
<1>9. /\ new.at = "store" /\ new.existed = was /\ new.name = call[c].name
      /\ new.op = call[c].op /\ new.present = call[c].present
  BY <1>2 DEF Calls
<1>10. call[c].present => call[c].op = "activate"
  BY <1>1, <1>2 DEF CallOK, Calls
<1> HIDE DEF new, was
<1>11. CallOK(c)'
  BY <1>1, <1>2, <1>5, <1>7, <1>8, <1>9, <1>10 DEF CallOK, Activating, Storing, disk
<1>12. ~Writing(c)  BY <1>1 DEF Writing, At
<1>13. RunsAreCommitted'  BY <1>1 DEF ConfigInv, RunsAreCommitted, disk
<1> QED  BY <1>1, <1>3, <1>4, <1>6, <1>11, <1>12, <1>13, QuietStep

LEMMA StoreKeeps ==
  ASSUME ConfigInv, NEW c \in Callers, Store(c)
  PROVE  ConfigInv'
<1>1. /\ call[c] # None /\ call[c].at = "store"
      /\ UNCHANGED <<now, latest, legacy, committed, damaged, littered, runs>>
  BY DEF Store, At
<1>2. call[c] \in Calls /\ CallOK(c) /\ call[c].name \in Names
  BY <1>1, CallTyped DEF ConfigInv, CallOK, Activating
<1>3. lock = c  BY <1>1 DEF ConfigInv, LockKept, InSection, Storing
<1>4. \A d \in Callers : ~Writing(d)
  <2> SUFFICES ASSUME NEW d \in Callers, Writing(d)  PROVE FALSE
    OBVIOUS
  <2>1. d = c  BY <1>3 DEF ConfigInv, LockKept, InSection, Writing, At, Storing
  <2> QED  BY <1>1, <2>1 DEF Writing, At
<1>5. ~littered => \A n \in DOMAIN stored : n \in committed
  BY <1>4 DEF ConfigInv, OnTheWay
<1>6. LatestCommitted'  BY <1>1 DEF ConfigInv, LatestCommitted
<1>7. littered \in BOOLEAN  BY DEF ConfigInv, TypeOK
<1>8. CASE /\ stored' = [n \in DOMAIN stored \cup {call[c].name} |->
                           IF n = call[c].name THEN n[2] ELSE stored[n]]
           /\ Goes(c, "commit") /\ lock' = lock
  <2> DEFINE new == [call[c] EXCEPT !.at = "commit"]
  <2>1. call' = [call EXCEPT ![c] = new]  BY <1>8 DEF Goes
  <2>2. new \in Calls  BY <1>2 DEF Calls
  <2>3. call'[c] = new  BY <2>1 DEF ConfigInv, TypeOK
  <2>4. /\ new.at = "commit" /\ new.name = call[c].name /\ new.op = call[c].op
        /\ new.existed = call[c].existed /\ new.present = call[c].present
    BY <1>2 DEF Calls
  <2>5. call[c].present => call[c].op = "activate"
    BY <1>1, <1>2 DEF CallOK, Calls
  <2>6. new # None  BY <2>2, ConfigAssumption DEF ConfigAssumption
  <2> HIDE DEF new
  <2>7. DOMAIN stored' = DOMAIN stored \cup {call[c].name}  BY <1>8
  <2>8. CallOK(c)'
    BY <1>1, <1>2, <2>3, <2>4, <2>5, <2>7 DEF CallOK, Activating, Storing
  <2>9. FilesWhole'  BY <1>1, <1>8, <2>7 DEF ConfigInv, FilesWhole
  <2>10. OnTheWay'
    <3>1. Writing(c)' /\ call'[c].name = call[c].name  BY <2>3, <2>4, <2>6 DEF Writing, At
    <3> QED  BY <1>1, <1>5, <2>7, <3>1 DEF OnTheWay
  <2> QED  BY <1>1, <1>3, <1>6, <1>7, <1>8, <2>1, <2>2, <2>8, <2>9, <2>10, WriteStep DEF Storing
<1>9. CASE Returns(c, FALSE) /\ stored' = stored
  <2>1. /\ \E new \in Calls \cup {None} : call' = [call EXCEPT ![c] = new]
        /\ lock' \in {None, lock}
        /\ InSection(c)' => lock' = c
        /\ CallOK(c)'
    BY <1>1, <1>9, ReturnsOK DEF Activating
  <2>2. FilesWhole' /\ OnTheWay'
    BY <1>1, <1>5, <1>9 DEF ConfigInv, FilesWhole, OnTheWay
  <2> QED  BY <1>1, <1>6, <1>7, <2>1, <2>2, WriteStep DEF Storing
<1> QED  BY <1>8, <1>9 DEF Store

LEMMA CommitKeeps ==
  ASSUME ConfigInv, NEW c \in Callers, Commit(c)
  PROVE  ConfigInv'
<1>1. /\ call[c] # None /\ call[c].at = "commit"
      /\ UNCHANGED <<now, stored, legacy, damaged, littered, runs>>
  BY DEF Commit, At
<1>2. call[c] \in Calls /\ CallOK(c) /\ call[c].name \in Names
  BY <1>1, CallTyped DEF ConfigInv, CallOK, Activating
<1>3. lock = c  BY <1>1 DEF ConfigInv, LockKept, InSection, Storing
<1>4. \A d \in Callers \ {c} : ~Writing(d)
  BY <1>3 DEF ConfigInv, LockKept, InSection, Writing, At, Storing
<1>5. ~littered => \A n \in DOMAIN stored : n \in committed \/ n = call[c].name
  BY <1>4 DEF ConfigInv, OnTheWay
<1>6. littered \in BOOLEAN  BY DEF ConfigInv, TypeOK
<1>7. CASE /\ latest' = call[c].name /\ committed' = committed \cup {call[c].name}
           /\ Returns(c, TRUE)
  <2>1. /\ \E new \in Calls \cup {None} : call' = [call EXCEPT ![c] = new]
        /\ lock' \in {None, lock}
        /\ InSection(c)' => lock' = c
        /\ CallOK(c)'
    BY <1>1, <1>7, ReturnsOK DEF Activating
  <2>2. latest' # None  BY <1>2, <1>7, ConfigAssumption DEF ConfigAssumption
  <2>3. LatestCommitted'  BY <1>7 DEF LatestCommitted
  <2>4. FilesWhole'  BY <1>1, <1>2, <1>7 DEF ConfigInv, FilesWhole, CallOK
  <2>5. OnTheWay'  BY <1>1, <1>5, <1>7 DEF OnTheWay
  <2> QED  BY <1>1, <1>6, <1>7, <2>1, <2>2, <2>3, <2>4, <2>5, WriteStep DEF Storing
<1>8. CASE Goes(c, "rollback") /\ UNCHANGED <<latest, committed, lock>>
  <2> DEFINE new == [call[c] EXCEPT !.at = "rollback"]
  <2>1. call' = [call EXCEPT ![c] = new]  BY <1>8 DEF Goes
  <2>2. new \in Calls  BY <1>2 DEF Calls
  <2>3. call'[c] = new  BY <2>1 DEF ConfigInv, TypeOK
  <2>4. /\ new.at = "rollback" /\ new.name = call[c].name /\ new.op = call[c].op
        /\ new.existed = call[c].existed /\ new.present = call[c].present
    BY <1>2 DEF Calls
  <2>5. call[c].present => call[c].op = "activate"
    BY <1>1, <1>2 DEF CallOK, Calls
  <2>6. new # None  BY <2>2, ConfigAssumption DEF ConfigAssumption
  <2> HIDE DEF new
  <2>7. CallOK(c)'
    BY <1>1, <1>2, <1>8, <2>3, <2>4, <2>5 DEF CallOK, Activating, Storing
  <2>8. FilesWhole' /\ LatestCommitted'
    BY <1>1, <1>8 DEF ConfigInv, FilesWhole, LatestCommitted
  <2>9. OnTheWay'
    <3>1. Writing(c)' /\ call'[c].name = call[c].name  BY <2>3, <2>4, <2>6 DEF Writing, At
    <3> QED  BY <1>1, <1>5, <1>8, <3>1 DEF OnTheWay
  <2> QED  BY <1>1, <1>3, <1>6, <1>8, <2>1, <2>2, <2>7, <2>8, <2>9, WriteStep DEF Storing
<1> QED  BY <1>7, <1>8 DEF Commit

LEMMA RollbackKeeps ==
  ASSUME ConfigInv, NEW c \in Callers, Rollback(c)
  PROVE  ConfigInv'
<1>1. /\ call[c] # None /\ call[c].at = "rollback" /\ Returns(c, FALSE)
      /\ UNCHANGED <<now, latest, legacy, committed, damaged, runs>>
  BY DEF Rollback, At
<1>2. call[c] \in Calls /\ CallOK(c)  BY <1>1, CallTyped DEF ConfigInv
<1>3. lock = c  BY <1>1 DEF ConfigInv, LockKept, InSection, Storing
<1>4. \A d \in Callers \ {c} : ~Writing(d)
  BY <1>3 DEF ConfigInv, LockKept, InSection, Writing, At, Storing
<1>5. ~littered => \A n \in DOMAIN stored : n \in committed \/ n = call[c].name
  BY <1>4 DEF ConfigInv, OnTheWay
<1>6. /\ \E new \in Calls \cup {None} : call' = [call EXCEPT ![c] = new]
      /\ lock' \in {None, lock}
      /\ InSection(c)' => lock' = c
      /\ CallOK(c)'
  BY <1>1, ReturnsOK DEF Activating
<1>7. LatestCommitted'  BY <1>1 DEF ConfigInv, LatestCommitted
<1>8. \/ ~IsNew(c) /\ stored' = stored /\ littered' = littered
      \/ IsNew(c) /\ stored' = Without(c) /\ littered' = littered
      \/ littered' = TRUE /\ stored' = stored
  BY DEF Rollback
<1>9. littered' \in BOOLEAN /\ (littered => littered')
  BY <1>8 DEF ConfigInv, TypeOK
<1>10. FilesWhole'
  <2>1. CASE stored' = stored  BY <1>1, <2>1 DEF ConfigInv, FilesWhole
  <2>2. CASE IsNew(c) /\ stored' = Without(c)
    BY <1>1, <1>2, <2>2 DEF ConfigInv, FilesWhole, CallOK, IsNew, Without, Storing
  <2> QED  BY <1>8, <2>1, <2>2
<1>11. OnTheWay'
  <2> SUFFICES ASSUME ~littered', NEW n \in DOMAIN stored'  PROVE n \in committed
    BY <1>1 DEF OnTheWay
  <2>1. ~littered  BY <1>9
  <2>2. CASE ~IsNew(c) /\ stored' = stored
    BY <1>1, <1>2, <1>5, <2>1, <2>2 DEF CallOK, IsNew, Storing
  <2>3. CASE IsNew(c) /\ stored' = Without(c)
    BY <1>5, <2>1, <2>3 DEF Without
  <2> QED  BY <1>8, <2>2, <2>3
<1> QED  BY <1>1, <1>6, <1>7, <1>9, <1>10, <1>11, WriteStep DEF Storing

(* get_latest answers m; the lock is free again.                           *)
LEMMA AnsweredOK ==
  ASSUME ConfigInv, NEW c \in Callers, call[c] # None, call[c].op # "activate",
         ~Writing(c), lock \in {None, c}, UNCHANGED <<now, disk, runs>>,
         NEW m \in Names \cup {None, Corrupt}, Answered(c, m),
         m \in committed \cup {None, Corrupt}, call[c].present => m # None
  PROVE  ConfigInv'
<1>1. call[c] \in Calls  BY CallTyped DEF ConfigInv
<1>2. RunsAreCommitted'  BY DEF ConfigInv, RunsAreCommitted, disk
<1>3. lock' = None  BY DEF Answered
<1>4. CASE call[c].op = "get"
  <2>1. call' = [call EXCEPT ![c] = None]  BY <1>4 DEF Answered, Done
  <2>2. call'[c] = None  BY <2>1 DEF ConfigInv, TypeOK
  <2>3. CallOK(c)' /\ ~InSection(c)'  BY <2>2 DEF CallOK, InSection
  <2> QED  BY <1>2, <1>3, <2>1, <2>3, QuietStep
<1>5. CASE call[c].op # "get"
  <2> DEFINE new == [call[c] EXCEPT !.meta = m, !.at = "snapshot", !.left = <<>>,
                                    !.name = None, !.existed = FALSE]
  <2>1. call' = [call EXCEPT ![c] = new]  BY <1>5 DEF Answered
  <2>2. new \in Calls
    <3>1. <<>> \in Seq(Books)  OBVIOUS
    <3> QED  BY <1>1, <3>1 DEF Calls
  <2>3. call'[c] = new  BY <2>1 DEF ConfigInv, TypeOK
  <2>4. /\ new.at = "snapshot" /\ new.meta = m /\ new.op = call[c].op
        /\ new.present = call[c].present
    BY <1>1 DEF Calls
  <2>5. call[c].present => latest # None  BY DEF ConfigInv, CallOK
  <2> HIDE DEF new
  <2>6. CallOK(c)'
    BY <2>3, <2>4, <2>5 DEF CallOK, Activating, Storing, disk
  <2>7. ~InSection(c)'  BY <2>3, <2>4 DEF InSection, Storing
  <2> QED  BY <1>2, <1>3, <2>1, <2>2, <2>6, <2>7, QuietStep
<1> QED  BY <1>4, <1>5

LEMMA GetLatestKeeps ==
  ASSUME ConfigInv, NEW c \in Callers, GetLatest(c)
  PROVE  ConfigInv'
<1>1. /\ call[c] # None /\ call[c].at = "latest" /\ lock \in {None, c}
      /\ UNCHANGED <<now, disk, runs>>
  BY DEF GetLatest, At, FreeLock
<1>2. call[c] \in Calls /\ CallOK(c)  BY <1>1, CallTyped DEF ConfigInv
<1>3. call[c].op # "activate" /\ (call[c].present => latest # None)
  BY <1>1, <1>2 DEF CallOK, Activating
<1>4. ~Writing(c)  BY <1>1 DEF Writing, At
<1>5. CASE latest = None
  <2> DEFINE new == [call[c] EXCEPT !.at = "migrate", !.left = legacy]
  <2>1. call' = [call EXCEPT ![c] = new] /\ lock' = c  BY <1>5 DEF GetLatest
  <2>2. new \in Calls
    <3>1. legacy \in Seq(Books)  BY DEF ConfigInv, TypeOK
    <3> QED  BY <1>2, <3>1 DEF Calls
  <2>3. call'[c] = new  BY <2>1 DEF ConfigInv, TypeOK
  <2>4. new.at = "migrate" /\ new.op = call[c].op /\ new.present = call[c].present
    BY <1>2 DEF Calls
  <2>5. ~call[c].present  BY <1>3, <1>5
  <2> HIDE DEF new
  <2>6. CallOK(c)'  BY <1>3, <2>3, <2>4, <2>5 DEF CallOK, Activating, Storing
  <2>7. RunsAreCommitted'  BY <1>1 DEF ConfigInv, RunsAreCommitted, disk
  <2> QED  BY <1>1, <1>4, <2>1, <2>2, <2>6, <2>7, QuietStep
<1>6. CASE latest # None
  <2>1. Answered(c, Answer)  BY <1>6 DEF GetLatest
  <2>2. /\ Answer \in Names \cup {None, Corrupt} /\ Answer # None
        /\ Answer \in committed \cup {None, Corrupt}
    BY <1>6, ConfigAssumption DEF Answer, ConfigInv, LatestCommitted, ConfigAssumption
  <2> QED  BY <1>1, <1>3, <1>4, <2>1, <2>2, AnsweredOK
<1> QED  BY <1>5, <1>6

LEMMA MigrateKeeps ==
  ASSUME ConfigInv, NEW c \in Callers, Migrate(c)
  PROVE  ConfigInv'
<1>1. /\ call[c] # None /\ call[c].at = "migrate" /\ UNCHANGED <<now, disk, runs>>
  BY DEF Migrate, At
<1>2. call[c] \in Calls /\ CallOK(c)  BY <1>1, CallTyped DEF ConfigInv
<1>3. call[c].op # "activate" /\ ~call[c].present
  BY <1>1, <1>2 DEF CallOK, Activating, Calls
<1>4. ~Writing(c)  BY <1>1 DEF Writing, At
<1>5. lock = c  BY <1>1 DEF ConfigInv, LockKept, InSection
<1>6. CASE call[c].left = <<>>
  <2>1. Answered(c, None)  BY <1>6 DEF Migrate
  <2> QED  BY <1>1, <1>3, <1>4, <1>5, <2>1, AnsweredOK
<1>7. CASE call[c].left # <<>>
  <2> DEFINE name == <<now, Head(call[c].left)>>
             rest == Tail(call[c].left)
             new == [call[c] EXCEPT !.at = "parse", !.left = rest, !.name = name]
  <2>1. call' = [call EXCEPT ![c] = new] /\ lock' = lock  BY <1>7 DEF Migrate
  <2>2. name \in Names /\ rest \in Seq(Books)
    <3>1. call[c].left \in Seq(Books)  BY <1>2 DEF Calls
    <3>2. Head(call[c].left) \in Books /\ rest \in Seq(Books)  BY <1>7, <3>1
    <3>3. now \in 0 .. MaxSeconds  BY DEF ConfigInv, TypeOK
    <3> QED  BY <3>2, <3>3 DEF Names
  <2> HIDE DEF name, rest
  <2>3. new \in Calls  BY <1>2, <2>2 DEF Calls
  <2>4. call'[c] = new  BY <2>1 DEF ConfigInv, TypeOK
  <2>5. /\ new.at = "parse" /\ new.op = call[c].op /\ new.present = call[c].present
        /\ new.name \in Names
    BY <1>2, <2>2 DEF Calls
  <2> HIDE DEF new
  <2>6. CallOK(c)'  BY <1>3, <2>4, <2>5 DEF CallOK, Activating, Storing
  <2>7. RunsAreCommitted'  BY <1>1 DEF ConfigInv, RunsAreCommitted, disk
  <2> QED  BY <1>1, <1>4, <1>5, <2>1, <2>3, <2>6, <2>7, QuietStep
<1> QED  BY <1>6, <1>7

LEMMA MigratedKeeps ==
  ASSUME ConfigInv, NEW c \in Callers, Migrated(c)
  PROVE  ConfigInv'
<1>1. /\ call[c] # None /\ call[c].at = "migrated" /\ UNCHANGED <<now, disk, runs>>
  BY DEF Migrated, At
<1>2. call[c] \in Calls /\ CallOK(c)  BY <1>1, CallTyped DEF ConfigInv
<1>3. call[c].op # "activate" /\ ~call[c].present
  BY <1>1, <1>2 DEF CallOK, Activating, Calls
<1>4. ~Writing(c)  BY <1>1 DEF Writing, At
<1>5. lock = c  BY <1>1 DEF ConfigInv, LockKept, InSection
<1> DEFINE m == IF latest \in Names /\ latest \in DOMAIN stored THEN latest ELSE None
<1>6. Answered(c, m)  BY DEF Migrated
<1>7. m \in Names \cup {None, Corrupt} /\ m \in committed \cup {None, Corrupt}
  BY ConfigAssumption DEF ConfigInv, LatestCommitted, ConfigAssumption
<1> HIDE DEF m
<1> QED  BY <1>1, <1>3, <1>4, <1>5, <1>6, <1>7, AnsweredOK

LEMMA SnapshotKeeps ==
  ASSUME ConfigInv, NEW c \in Callers, Snapshot(c)
  PROVE  ConfigInv'
<1>1. /\ call[c] # None /\ call[c].at = "snapshot" /\ UNCHANGED <<now, disk, lock>>
      /\ call' = [call EXCEPT ![c] = None]
  BY DEF Snapshot, At, Done
<1>2. call[c] \in Calls /\ CallOK(c)  BY <1>1, CallTyped DEF ConfigInv
<1>3. /\ call[c].meta \in committed \cup {None, Corrupt}
      /\ call[c].present => call[c].meta # None
  BY <1>1, <1>2 DEF CallOK
<1>4. ~Writing(c)  BY <1>1 DEF Writing, At
<1>5. call'[c] = None  BY <1>1 DEF ConfigInv, TypeOK
<1>6. CallOK(c)' /\ ~InSection(c)'  BY <1>5 DEF CallOK, InSection
<1>7. RunsAreCommitted'
  <2> SUFFICES ASSUME NEW q \in runs', q.present  PROVE \E n \in committed : n[2] = q.book
    BY <1>1 DEF RunsAreCommitted, disk
  <2>1. CASE q \in runs  BY <2>1 DEF ConfigInv, RunsAreCommitted
  <2>2. CASE q \notin runs
    <3>1. PICK b \in Snapshots(call[c].meta) : q = [book |-> b, present |-> call[c].present]
      BY <2>2 DEF Snapshot
    <3>2. call[c].present /\ q.book = b  BY <3>1
    <3>3. call[c].meta # None  BY <1>3, <3>2
    <3>4. call[c].meta \in Names /\ b = call[c].meta[2]  BY <3>1, <3>3 DEF Snapshots
    <3>5. call[c].meta \in committed
      BY <1>3, <3>4, ConfigAssumption DEF ConfigAssumption
    <3> QED  BY <3>2, <3>4, <3>5
  <2> QED  BY <2>1, <2>2
<1> QED  BY <1>1, <1>4, <1>6, <1>7, QuietStep

(* A process that dies forgets every request; what it leaves behind was the *)
(* latest once, or the crash is known to have left it.                     *)
LEMMA CrashKeeps ==
  ASSUME ConfigInv, Crash
  PROVE  ConfigInv'
<1>1. /\ call' = [c \in Callers |-> None] /\ lock' = None
      /\ UNCHANGED <<now, stored, latest, legacy, committed, damaged, runs>>
      /\ littered' = (littered \/ \E c \in Callers : At(c, "commit") \/ At(c, "rollback"))
  BY DEF Crash
<1>2. TypeOK'  BY <1>1 DEF ConfigInv, TypeOK
<1>3. LockKept' /\ \A c \in Callers : CallOK(c)'  BY <1>1 DEF LockKept, InSection, CallOK
<1>4. FilesWhole' /\ LatestCommitted' /\ RunsAreCommitted'
  BY <1>1 DEF ConfigInv, FilesWhole, LatestCommitted, RunsAreCommitted
<1>5. OnTheWay'
  <2>1. ~littered' => ~littered /\ \A c \in Callers : ~Writing(c)  BY <1>1 DEF Writing
  <2> QED  BY <1>1, <2>1 DEF ConfigInv, OnTheWay
<1> QED  BY <1>2, <1>3, <1>4, <1>5 DEF ConfigInv

LEMMA DamageKeeps ==
  ASSUME ConfigInv, Damage
  PROVE  ConfigInv'
<1>1. /\ damaged' = TRUE
      /\ UNCHANGED <<now, legacy, committed, littered, lock, call, runs>>
      /\ DOMAIN stored' \subseteq DOMAIN stored
      /\ latest' \in {latest, Corrupt}
  BY DEF Damage
<1>2. TypeOK'  BY <1>1 DEF ConfigInv, TypeOK
<1>3. LockKept' /\ FilesWhole' /\ LatestCommitted' /\ RunsAreCommitted'
  BY <1>1 DEF ConfigInv, LockKept, InSection, FilesWhole, LatestCommitted, RunsAreCommitted
<1>4. OnTheWay'
  <2>1. \A c \in Callers : Writing(c)' = Writing(c)  BY <1>1 DEF Writing, At
  <2> QED  BY <1>1, <2>1 DEF ConfigInv, OnTheWay
<1>5. \A c \in Callers : CallOK(c)'
  BY <1>1, ConfigAssumption DEF ConfigInv, CallOK, ConfigAssumption
<1> QED  BY <1>2, <1>3, <1>4, <1>5 DEF ConfigInv

(* What changes neither files nor requests nor runs.                       *)
LEMMA ElsewhereKeeps ==
  ASSUME ConfigInv, UNCHANGED <<disk, lock, call, runs>>, now' \in 0 .. MaxSeconds
  PROVE  ConfigInv'
<1> USE DEF disk
<1>1. TypeOK'  BY DEF ConfigInv, TypeOK
<1>2. LockKept' /\ FilesWhole' /\ LatestCommitted' /\ RunsAreCommitted'
  BY DEF ConfigInv, LockKept, InSection, FilesWhole, LatestCommitted, RunsAreCommitted
<1>3. OnTheWay'  BY DEF ConfigInv, OnTheWay, Writing, At
<1>4. \A c \in Callers : CallOK(c)'  BY DEF ConfigInv, CallOK
<1> QED  BY <1>1, <1>2, <1>3, <1>4 DEF ConfigInv

LEMMA InitOK == Init => ConfigInv
<1> SUFFICES ASSUME Init  PROVE ConfigInv
  OBVIOUS
<1> USE DEF Init
<1>1. TypeOK
  <2>1. MaxSeconds \in Nat /\ legacy \in Seq(Books)  BY ConfigAssumption DEF ConfigAssumption
  <2>2. now \in 0 .. MaxSeconds  BY <2>1
  <2>3. call \in [Callers -> Calls \cup {None}]  OBVIOUS
  <2> QED  BY <2>1, <2>2, <2>3 DEF TypeOK
<1>2. /\ LockKept /\ FilesWhole /\ LatestCommitted /\ OnTheWay /\ RunsAreCommitted
      /\ \A c \in Callers : CallOK(c)
  BY DEF LockKept, InSection, FilesWhole, LatestCommitted, OnTheWay, RunsAreCommitted, CallOK
<1> QED  BY <1>1, <1>2 DEF ConfigInv

-----------------------------------------------------------------------------
(* The theorems.                                                           *)

(* ExcelConfigStore: what the callers know of the files holds, whatever     *)
(* fails, dies or is damaged between two of their steps.                   *)
THEOREM Invariance == Spec => []ConfigInv
<1>1. Init => ConfigInv  BY InitOK
<1>2. ConfigInv /\ [Next]_vars => ConfigInv'
  <2> SUFFICES ASSUME ConfigInv, [Next]_vars  PROVE ConfigInv'
    OBVIOUS
  <2>1. now \in 0 .. MaxSeconds  BY DEF ConfigInv, TypeOK
  <2>2. ASSUME NEW c \in Callers, Activation(c)  PROVE ConfigInv'
    BY <2>2, ParseKeeps, UnlinkKeeps, StoreKeeps, CommitKeeps, RollbackKeeps DEF Activation
  <2>3. ASSUME NEW c \in Callers, Reading(c)  PROVE ConfigInv'
    BY <2>3, GetLatestKeeps, MigrateKeeps, MigratedKeeps, SnapshotKeeps DEF Reading
  <2>4. ASSUME NEW c \in Callers, SetLatestExcel(c)  PROVE ConfigInv'
    BY <2>1, <2>4, ElsewhereKeeps DEF SetLatestExcel
  <2>5. CASE Tick
    <3>1. MaxSeconds \in Nat  BY ConfigAssumption DEF ConfigAssumption
    <3>2. now' \in 0 .. MaxSeconds  BY <2>1, <2>5, <3>1 DEF Tick
    <3> QED  BY <2>5, <3>2, ElsewhereKeeps DEF Tick
  <2>6. CASE UNCHANGED vars  BY <2>1, <2>6, ElsewhereKeeps DEF vars, disk
  <2> QED  BY <2>2, <2>3, <2>4, <2>5, <2>6, AskKeeps, DamageKeeps, CrashKeeps DEF Next
<1> QED  BY <1>1, <1>2, PTL DEF Spec

(* The transaction order in the docstring of ExcelConfigStore: latest.json  *)
(* names a workbook that is there as it was activated.                     *)
THEOREM Whole == Spec => []LatestIsWhole
<1>1. ConfigInv => LatestIsWhole  BY DEF ConfigInv, FilesWhole, LatestIsWhole, Sound
<1> QED  BY <1>1, Invariance, PTL

(* _rollback_new_by_hash: a rejected activation leaves no workbook behind.  *)
THEOREM Tidy == Spec => []NoOrphans
<1>1. ConfigInv => NoOrphans
  <2> SUFFICES ASSUME ConfigInv, ~littered, NEW n \in DOMAIN stored, n \notin committed
      PROVE  lock # None /\ call[lock].name = n /\ call[lock].at \in {"commit", "rollback"}
    BY DEF NoOrphans
  <2>1. PICK c \in Callers : Writing(c) /\ call[c].name = n  BY DEF ConfigInv, OnTheWay
  <2>2. call[c] # None /\ call[c].at \in {"commit", "rollback"}  BY <2>1 DEF Writing, At
  <2>3. lock = c  BY <2>2 DEF ConfigInv, LockKept, InSection, Storing
  <2> QED  BY <2>1, <2>2, <2>3, ConfigAssumption DEF ConfigAssumption
<1> QED  BY <1>1, Invariance, PTL

(* _validate_and_snapshot_latest: a run asked for when there was a          *)
(* latest.json is never of a workbook that was refused.                    *)
THEOREM Committed == Spec => []RunsAreCommitted
BY Invariance, PTL DEF ConfigInv
================================================================================
