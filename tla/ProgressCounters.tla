-------------------------- MODULE ProgressCounters --------------------------
(***************************************************************************)
(* The progress counters of src/src/discovery/manager.py, which the scan   *)
(* thread, the watcher's callback and a worker write without a lock and    *)
(* get_progress() reads.  One drive; an augmented assignment is one step.  *)
(***************************************************************************)
EXTENDS Integers

CONSTANTS
  MaxRecords,  \* bound on records that scans and events come to
  MaxScans     \* bound on scans

ASSUME ProgressAssumption == MaxRecords \in Nat /\ MaxScans \in Nat

VARIABLES
  discovered, queued, processed, errors,  \* files_*
  drive,      \* per_drive[root], or Missing
  depth,      \* processing_queue.qsize()
  highWater,  \* _queue_high_water
  scanAt, eventAt, workAt,  \* where the three threads are
  scans, taken,
  put,        \* history: records ever put on the queue
  dropped,    \* history: records whose worker raised
  torn        \* history: this scan's reset fell between an event's two counts

progress == <<discovered, queued, processed, errors, drive, depth, highWater,
              scanAt, eventAt, workAt, scans, taken, put, dropped, torn>>
counts   == <<discovered, queued, processed, errors>>
seen     == <<scans, taken>>
history  == <<put, dropped, torn>>

Zero    == [discovered |-> 0, queued |-> 0, processed |-> 0]
Missing == [discovered |-> -1, queued |-> -1, processed |-> -1]

ProgressInit ==
  /\ discovered = 0 /\ queued = 0 /\ processed = 0 /\ errors = 0
  /\ drive = Missing /\ depth = 0 /\ highWater = 0
  /\ scanAt = "rest" /\ eventAt = "idle" /\ workAt = "idle"
  /\ scans = 0 /\ taken = 0
  /\ put = 0 /\ dropped = 0 /\ torn = FALSE

ProgressTypeOK ==
  /\ {discovered, queued, processed, errors, depth, highWater, put, dropped} \subseteq Nat
  /\ scanAt \in {"rest", "reset", "clear", "seed", "walk", "offer", "count"}
  /\ eventAt \in {"idle", "put", "counted"}
  /\ workAt \in {"idle", "work", "counted", "bump", "note"}
  /\ scans \in 0..MaxScans /\ taken \in 0..MaxRecords
  /\ torn \in BOOLEAN

-----------------------------------------------------------------------------
(* The scan thread resets what is counted per scan, one attribute after    *)
(* the other.                                                              *)
ResetDiscovered ==
  /\ scanAt = "rest" /\ scanAt' = "reset"
  /\ scans < MaxScans /\ scans' = scans + 1
  /\ discovered' = 0 /\ torn' = (eventAt = "counted")
  /\ UNCHANGED <<queued, processed, errors, drive, depth, highWater, eventAt, workAt,
                 taken, put, dropped>>

ResetQueued ==
  /\ scanAt = "reset" /\ scanAt' = "clear" /\ queued' = 0
  /\ UNCHANGED <<discovered, processed, errors, drive, depth, highWater, eventAt, workAt,
                 seen, history>>

ResetDrive ==
  /\ \/ scanAt = "clear" /\ scanAt' = "seed" /\ drive' = Missing
     \/ scanAt = "seed" /\ scanAt' = "walk" /\ drive' = Zero
  /\ UNCHANGED <<counts, depth, highWater, eventAt, workAt, seen, history>>

Discover ==
  /\ scanAt = "walk" /\ scanAt' \in {"walk", "offer"}
  /\ taken < MaxRecords /\ taken' = taken + 1
  /\ discovered' = discovered + 1
  /\ drive' = [drive EXCEPT !.discovered = @ + 1]
  /\ UNCHANGED <<queued, processed, errors, depth, highWater, eventAt, workAt, scans, history>>

(* The record is put on the queue, or deferred when that is full.          *)
Offer ==
  /\ scanAt = "offer"
  /\ \/ scanAt' = "count" /\ depth' = depth + 1 /\ put' = put + 1
     \/ scanAt' = "walk" /\ UNCHANGED <<depth, put>>
  /\ UNCHANGED <<counts, drive, highWater, eventAt, workAt, seen, dropped, torn>>

CountQueued ==
  /\ scanAt = "count" /\ scanAt' = "walk"
  /\ queued' = queued + 1 /\ drive' = [drive EXCEPT !.queued = @ + 1]
  /\ UNCHANGED <<discovered, processed, errors, depth, highWater, eventAt, workAt, seen, history>>

ScanDone ==
  /\ scanAt = "walk" /\ scanAt' = "rest"
  /\ UNCHANGED <<counts, drive, depth, highWater, eventAt, workAt, seen, history>>

-----------------------------------------------------------------------------
(* _on_file_event(): the record is queued before it is counted, and counts *)
(* as discovered before it counts as queued.                               *)
EventPuts ==
  /\ eventAt = "idle" /\ eventAt' = "put"
  /\ taken < MaxRecords /\ taken' = taken + 1
  /\ depth' = depth + 1 /\ put' = put + 1
  /\ UNCHANGED <<counts, drive, highWater, scanAt, workAt, scans, dropped, torn>>

(* Mutant of EventCounts: queued first.                                    *)
EventCounts_QueuedFirst ==
  /\ \/ eventAt = "put" /\ eventAt' = "counted"
        /\ queued' = queued + 1 /\ UNCHANGED <<discovered, drive>>
     \/ eventAt = "counted" /\ eventAt' = "idle"
        /\ discovered' = discovered + 1 /\ UNCHANGED <<queued, drive>>
  /\ UNCHANGED <<processed, errors, depth, highWater, scanAt, workAt, seen, history>>

EventCounts ==
  /\ \/ eventAt = "put" /\ eventAt' = "counted"
        /\ discovered' = discovered + 1 /\ UNCHANGED <<queued, drive>>
     \/ eventAt = "counted" /\ eventAt' = "idle"
        /\ queued' = queued + 1 /\ UNCHANGED discovered
        /\ drive' = LET d == IF drive = Missing THEN Zero ELSE drive
                    IN [d EXCEPT !.discovered = @ + 1, !.queued = @ + 1]
  /\ UNCHANGED <<processed, errors, depth, highWater, scanAt, workAt, seen, history>>

-----------------------------------------------------------------------------
(* A worker.                                                               *)
Get ==
  /\ workAt = "idle" /\ depth > 0 /\ depth' = depth - 1 /\ workAt' = "work"
  /\ UNCHANGED <<counts, drive, highWater, scanAt, eventAt, seen, history>>

WorkerCounts ==
  /\ workAt = "work" /\ workAt' = "counted"
  /\ \/ processed' = processed + 1 /\ UNCHANGED errors
     \/ errors' = errors + 1 /\ UNCHANGED processed
  /\ UNCHANGED <<discovered, queued, drive, depth, highWater, scanAt, eventAt, seen, history>>

WorkerRaises ==
  /\ workAt = "work" /\ workAt' = "idle" /\ dropped' = dropped + 1
  /\ UNCHANGED <<counts, drive, depth, highWater, scanAt, eventAt, seen, put, torn>>

(* `root in self.per_drive`, and then the bucket: gone in between, it      *)
(* raises KeyError, and the manifest is not told of the file.              *)
WorkerBumps ==
  /\ \/ workAt = "counted" /\ workAt' = (IF drive = Missing THEN "note" ELSE "bump")
        /\ UNCHANGED drive
     \/ workAt = "bump"
        /\ IF drive = Missing THEN workAt' = "idle" /\ UNCHANGED drive
           ELSE workAt' = "note" /\ drive' = [drive EXCEPT !.processed = @ + 1]
     \/ workAt = "note" /\ workAt' = "idle" /\ UNCHANGED drive
  /\ UNCHANGED <<counts, depth, highWater, scanAt, eventAt, seen, history>>

-----------------------------------------------------------------------------
(* get_progress().                                                         *)
FilesSkipped == IF discovered > queued THEN discovered - queued ELSE 0

GetProgress ==
  /\ depth > highWater /\ highWater' = depth
  /\ UNCHANGED <<counts, drive, depth, scanAt, eventAt, workAt, seen, history>>

ProgressStep ==
  \/ ResetDiscovered \/ ResetQueued \/ ResetDrive \/ Discover \/ Offer \/ CountQueued \/ ScanDone
  \/ EventPuts \/ EventCounts
  \/ Get \/ WorkerCounts \/ WorkerRaises \/ WorkerBumps
  \/ GetProgress

-----------------------------------------------------------------------------
(* "files_queued <= files_discovered", between two resets and unless one   *)
(* fell between an event's two counts: then files_skipped is what was      *)
(* discovered and not queued.  And every record that was put on the queue  *)
(* is in it, in the worker's hands, or counted, unless the worker raised.  *)
CountersHonest ==
  /\ scanAt # "reset" /\ ~torn => FilesSkipped = discovered - queued
  /\ put = depth + (IF workAt = "work" THEN 1 ELSE 0) + processed + errors + dropped
=============================================================================
