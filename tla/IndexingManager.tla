-------------------------- MODULE IndexingManager ---------------------------
(***************************************************************************)
(* src/src/discovery/manager.py: the scan thread, the workers, the queue   *)
(* between them and the callback of the file watcher, with the guards of   *)
(* src/src/utils/connectivity.py that pause them while the database is     *)
(* away, from the start of the process (src/src/main.py) to its stop.      *)
(*                                                                         *)
(* A file is what is on disk: Gone, or one of its successive versions.     *)
(* recorded[f] is the version that needs_processing() finds done in the    *)
(* row of its path.  A worker that finds the content known, in the row of  *)
(* another path or in f's own under an older stamp, succeeds and leaves    *)
(* the table as it was: copies keeps that it has been seen.  How           *)
(* process_file() gets there, and what it does when a version changes      *)
(* under it, is ImageRecord.  What scan_drives() does between two records  *)
(* is Scanner.                                                             *)
(***************************************************************************)
EXTENDS FileWatcher, Sequences

CONSTANTS
  Workers,
  QueueSize,   \* processing_queue's maxsize
  EditedFiles, \* files that change or go while the process runs
  MaxTroubles  \* bound on changes to files, scans that raise, files that fail
               \* and losses of the database, taken together

ASSUME ManagerAssumption ==
  /\ QueueSize \in Nat \ {0}
  /\ EditedFiles \subseteq File
  /\ MaxTroubles \in Nat

VARIABLES
  disk, recorded,
  copies,    \* history: files whose present content a worker found known,
             \* with their own row missing or of an older version
  life,      \* of the process: boot, running, stopping, aborted
  queue,     \* processing_queue
  scan,      \* where the scan thread is
  left,      \* files the walk has not come to
  worker,    \* where each worker is, and the file it took
  callback,  \* where _on_file_event is
  db,        \* the database answers
  troubles   \* how many there have been

table == <<recorded, copies>>
manager == <<table, queue, scan, left, worker, callback>>
surroundings == <<db, troubles>>

Gone    == 0
Unknown == MaxTroubles + 2
Version == 1..MaxTroubles + 1
NoFile  == "none"
Idle    == [at |-> "idle", file |-> NoFile]

ManagerTypeOK ==
  /\ disk \in [File -> Version \union {Gone}]
  /\ recorded \in [File -> Version \union {Unknown}]
  /\ copies \subseteq File
  /\ life \in {"boot", "running", "stopping", "aborted"}
  /\ queue \in Seq(File) /\ Len(queue) <= QueueSize
  /\ scan \in [at : {"off", "gate", "paused", "walk", "offer", "rest", "ended"},
               file : File \union {NoFile}]
  /\ left \subseteq File
  /\ worker \in [Workers -> [at : {"off", "idle", "gate", "paused", "work", "ended"},
                             file : File \union {NoFile}]]
  /\ callback \in {"idle", "look", "put"}
  /\ db \in BOOLEAN
  /\ troubles \in 0..MaxTroubles

ManagerInit ==
  /\ disk = [f \in File |-> 1]
  /\ recorded = [f \in File |-> Unknown] /\ copies = {}
  /\ life = "boot"
  /\ queue = <<>> /\ left = {}
  /\ scan = [at |-> "off", file |-> NoFile]
  /\ worker = [w \in Workers |-> [at |-> "off", file |-> NoFile]]
  /\ callback = "idle"
  /\ db \in BOOLEAN
  /\ troubles = 0

-----------------------------------------------------------------------------
OnDisk(f)   == disk[f] # Gone
UpToDate(f) == recorded[f] = disk[f]
Settled(f)  == UpToDate(f) \/ f \in copies
Stopping    == life = "stopping"
Trouble     == troubles < MaxTroubles /\ troubles' = troubles + 1

(* needs_processing(): the table decides; when it cannot be read the JSON  *)
(* manifest does, which may answer either way.                             *)
MayNeed(f) == IF db THEN {~UpToDate(f)} ELSE BOOLEAN

(* Mutant of Put: the queue has no bound.                                  *)
Put_Unbounded(f) == queue' = Append(queue, f)

(* put() with a timeout: it may give up only while the queue is full.      *)
Put(f)    == Len(queue) < QueueSize /\ queue' = Append(queue, f)
PutGivesUp == Len(queue) = QueueSize /\ UNCHANGED queue

-----------------------------------------------------------------------------
(* The process.  lifespan() waits for postgres, then start() launches the  *)
(* threads; that the wait may time out does not depend on the database.    *)
Start ==
  /\ life = "boot" /\ db /\ life' = "running"
  /\ scan' = [scan EXCEPT !.at = "gate"]
  /\ worker' = [w \in Workers |-> Idle]
  /\ UNCHANGED <<disk, table, queue, left, callback, surroundings>>

PostgresTimeout ==
  /\ life = "boot" /\ ~db /\ life' = "aborted"
  /\ UNCHANGED <<disk, manager, surroundings>>

Stop ==
  /\ life = "running" /\ life' = "stopping"
  /\ UNCHANGED <<disk, manager, surroundings>>

DbLost ==
  /\ db /\ db' = FALSE /\ Trouble
  /\ UNCHANGED <<disk, manager, life>>

DbBack ==
  /\ ~db /\ db' = TRUE
  /\ UNCHANGED <<disk, manager, life, troubles>>

-----------------------------------------------------------------------------
(* wait_for_db(): at is "gate" on entry and "paused" in its loop.  Mutant: *)
(* the loop looks at the database only.                                    *)
WaitForDb_Deaf(at) ==
  CASE at = "gate"   -> {IF db THEN "go" ELSE "paused"}
    [] at = "paused" -> IF db THEN {"go"} ELSE {}

(* Mutant: a thread that finds the database away is over.                  *)
WaitForDb_Dies(at) ==
  CASE at = "gate"   -> {IF db THEN "go" ELSE "ended"}
    [] at = "paused" -> {"ended"}

WaitForDb(at) ==
  CASE at = "gate"   -> {IF db THEN "go" ELSE "paused"}
    [] at = "paused" -> (IF db THEN {"go"} ELSE {}) \union (IF Stopping THEN {"ended"} ELSE {})

(* The scan thread.                                                        *)
ScanStep(at, f) == scan' = [at |-> at, file |-> f]

ScanGate ==
  /\ scan.at \in {"gate", "paused"}
  /\ IF scan.at = "gate" /\ Stopping THEN ScanStep("ended", NoFile) /\ UNCHANGED left
     ELSE \E next \in WaitForDb(scan.at) :
            IF next = "go" THEN ScanStep("walk", NoFile) /\ left' = File
            ELSE ScanStep(next, NoFile) /\ UNCHANGED left
  /\ UNCHANGED <<disk, table, queue, worker, callback, life, surroundings>>

(* Another record arrives, or the walk comes to where there is no file.    *)
ScanRecord(f) ==
  /\ scan.at = "walk" /\ f \in left /\ left' = left \ {f}
  /\ IF ~OnDisk(f) THEN UNCHANGED scan
     ELSE \E needed \in MayNeed(f) :
            IF needed THEN ScanStep("offer", f) ELSE UNCHANGED scan
  /\ UNCHANGED <<disk, table, queue, worker, callback, life, surroundings>>

(* The file is queued or, with the queue full for a second, left to the    *)
(* next scan.                                                              *)
ScanOffer ==
  /\ scan.at = "offer" /\ ScanStep("walk", NoFile)
  /\ Put(scan.file) \/ PutGivesUp
  /\ UNCHANGED <<disk, table, left, worker, callback, life, surroundings>>

(* The scan is complete, or cut short between two batches by a stop; the   *)
(* clustering of new faces (Identities) ends it.                           *)
ScanEnds ==
  /\ scan.at = "walk" /\ (left = {} \/ Stopping)
  /\ ScanStep("rest", NoFile) /\ left' = {}
  /\ UNCHANGED <<disk, table, queue, worker, callback, life, surroundings>>

ScanRaises ==
  /\ scan.at \in {"walk", "offer"} /\ ScanStep("rest", NoFile) /\ left' = {}
  /\ Trouble
  /\ UNCHANGED <<disk, table, queue, worker, callback, life, db>>

(* The poll interval, or the back-off after an exception.                  *)
ScanRests ==
  /\ scan.at = "rest" /\ ScanStep("gate", NoFile)
  /\ UNCHANGED <<disk, table, queue, left, worker, callback, life, surroundings>>

ScanThread ==
  \/ ScanGate \/ ScanOffer \/ ScanEnds \/ ScanRests
  \/ \E f \in File : ScanRecord(f)

-----------------------------------------------------------------------------
(* The workers.                                                            *)
WorkerStep(w, at, f) == worker' = [worker EXCEPT ![w] = [at |-> at, file |-> f]]

(* A get() that was waiting when the stop came may still return a record.  *)
Take(w) ==
  /\ worker[w].at = "idle" /\ queue # <<>>
  /\ WorkerStep(w, "gate", Head(queue)) /\ queue' = Tail(queue)
  /\ UNCHANGED <<disk, table, scan, left, callback, life, surroundings>>

WorkerExits(w) ==
  /\ worker[w].at = "idle" /\ Stopping
  /\ WorkerStep(w, "ended", NoFile)
  /\ UNCHANGED <<disk, table, queue, scan, left, callback, life, surroundings>>

(* A stop while the database is away drops the record that was taken.      *)
WorkerGate(w) ==
  /\ worker[w].at \in {"gate", "paused"}
  /\ \E next \in WaitForDb(worker[w].at) :
       CASE next = "go"     -> WorkerStep(w, "work", worker[w].file)
         [] next = "paused" -> WorkerStep(w, "paused", worker[w].file)
         [] next = "ended"  -> WorkerStep(w, "ended", NoFile)
  /\ UNCHANGED <<disk, table, queue, scan, left, callback, life, surroundings>>

Finished(w) == WorkerStep(w, IF Stopping THEN "ended" ELSE "idle", NoFile)

Process(w) ==
  LET f == worker[w].file IN
  /\ worker[w].at = "work" /\ db /\ OnDisk(f)
  /\ recorded' = [recorded EXCEPT ![f] = disk[f]] /\ copies' = copies \ {f}
  /\ Finished(w)
  /\ UNCHANGED <<disk, queue, scan, left, callback, life, surroundings>>

(* The hash is that of a completed row: a success that writes nothing, so  *)
(* that a file without a row of its own is offered by every scan again.    *)
FindsKnown(w) ==
  LET f == worker[w].file IN
  /\ worker[w].at = "work" /\ db /\ OnDisk(f)
  /\ copies' = IF UpToDate(f) THEN copies ELSE copies \union {f}
  /\ Finished(w)
  /\ UNCHANGED <<disk, recorded, queue, scan, left, callback, life, surroundings>>

(* The file is gone or unreadable, a statement fails, or the loop's own    *)
(* code raises: counted or not, the record is given up.                    *)
ProcessFails(w) ==
  /\ worker[w].at = "work" /\ Finished(w)
  /\ IF db /\ OnDisk(worker[w].file) THEN Trouble ELSE UNCHANGED troubles
  /\ UNCHANGED <<disk, table, queue, scan, left, callback, life, db>>

Worker(w) ==
  \/ Take(w) \/ WorkerExits(w) \/ WorkerGate(w) \/ Process(w)
  \/ FindsKnown(w) \/ ProcessFails(w)

-----------------------------------------------------------------------------
(* _on_file_event("created" or "modified") for file f.                     *)
EventLook(f) ==
  /\ callback = "look"
  /\ \E needed \in IF OnDisk(f) THEN MayNeed(f) ELSE {FALSE} :
       callback' = IF needed THEN "put" ELSE "idle"
  /\ UNCHANGED <<disk, table, queue, scan, left, worker, life, surroundings>>

(* With the queue full for a tenth of a second the event is dropped.       *)
EventPut(f) ==
  /\ callback = "put" /\ callback' = "idle"
  /\ Put(f) \/ PutGivesUp
  /\ UNCHANGED <<disk, table, scan, left, worker, life, surroundings>>
=============================================================================
