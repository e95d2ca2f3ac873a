---------------------------- MODULE ImageRecord -----------------------------
(***************************************************************************)
(* The life of a file's record: _process_file_impl and _save_image_record  *)
(* of src/src/pipeline/processor.py, run by the workers of                 *)
(* src/src/discovery/manager.py on the queue its scan fills, the manifest  *)
(* (src/src/discovery/manifest.py) that decides what is queued, and phases *)
(* A and C of the recovery.                                                *)
(*                                                                         *)
(* A file has a content and a stamp, which stands for its mtime and size.  *)
(* A worker reads the file three times (to hash it, to detect faces, to    *)
(* stat it), looks at the images table twice and writes it once, in one    *)
(* transaction, while the file, the table and other workers move on.       *)
(*                                                                         *)
(* faces[p] holds the contents whose faces hang from the row of path p;    *)
(* how many times over is not told apart.  Their outbox rows belong to the *)
(* same transaction and are the Enqueue step of FaissOutbox.               *)
(***************************************************************************)
EXTENDS Naturals, Sequences, FiniteSets

CONSTANTS
  Path, Content,
  Faceless,      \* contents the detector finds no face in
  Workers,
  EditedPaths,   \* paths whose files change or go while the process runs
  RecordedPaths, \* paths an earlier run of the program has recorded
  LegacyPaths,   \* paths whose row an older version may have left pending
  MaxEdits,      \* bound on changes to files
  MaxFaults      \* bound on failing reads and statements and deaths of the
                 \* process, taken together

ASSUME ImageRecordAssumption ==
  /\ Faceless \subseteq Content /\ LegacyPaths \subseteq Path
  /\ EditedPaths \subseteq Path /\ RecordedPaths \subseteq Path
  /\ MaxEdits \in Nat /\ MaxFaults \in Nat

VARIABLES
  file,           \* the file at each path
  edits,          \* changes to files so far; names the stamp of the next one
  vanished,       \* paths whose deletion event is still to be delivered
  images,         \* the images table, by its unique column file_path
  faces,          \* the faces table
  manifest,       \* stamp of each path in the JSON manifest, which is written to
                  \* its file after each change
  job,            \* what each worker is doing and has read
  recovery,       \* the next phase of the recovery thread
  faults,
  raced           \* history: paths recorded with a stat of another content, or
                  \* over a row that changed after the session had loaded it

db       == <<images, faces>>
onDisk   == <<file, edits, vanished>>
vars     == <<onDisk, db, manifest, job, recovery, faults, raced>>

Stamp   == 0..MaxEdits
File    == [content : Content, stamp : Stamp]
NoFile  == [content |-> "none"]
Row     == [status : {"pending", "completed", "failed"}, hash : Content,
            stamp : Stamp, has_faces : BOOLEAN]
NoRow   == [status |-> "none"]
Unknown == MaxEdits + 1   \* no entry in the manifest

Stages == {"found", "hash", "lookup", "detect", "stat", "select", "insert", "update",
           "finish"}

(* A worker's record from the scan and what it has read since: the hash,  *)
(* the row its session holds for the path, the content the detector saw    *)
(* and the stat for the row.                                               *)
Job == [at : Stages, path : Path, queued : Stamp, hash : Content \union {"none"},
        loaded : Row \union {NoRow}, seen : Content \union {"none"},
        stamp : 0..Unknown]
Idle == [at |-> "idle"]

RecordTypeOK ==
  /\ file \in [Path -> File \union {NoFile}]
  /\ edits \in Stamp /\ vanished \subseteq Path
  /\ images \in [Path -> Row \union {NoRow}]
  /\ faces \in [Path -> SUBSET Content]
  /\ manifest \in [Path -> 0..Unknown]
  /\ job \in [Workers -> Job \union {Idle}]
  /\ recovery \in {"A", "C", "done"}
  /\ faults \in 0..MaxFaults
  /\ raced \subseteq Path

-----------------------------------------------------------------------------
Status(p)    == images[p].status
Completed(p) == Status(p) = "completed"
OnDisk(p)    == file[p] # NoFile
Reading(w)   == file[job[w].path]

Becomes(w, j) == job' = [job EXCEPT ![w] = j]

Record(stage, p, stamp) ==
  [at |-> stage, path |-> p, queued |-> stamp, hash |-> "none",
   loaded |-> NoRow, seen |-> "none", stamp |-> Unknown]

Fault == faults < MaxFaults /\ faults' = faults + 1

(* A row made from the file as it is now.                                  *)
RowOf(p, status, has_faces) ==
  [status |-> status, hash |-> file[p].content, stamp |-> file[p].stamp,
   has_faces |-> has_faces]

(* What may be in the table for a path at the start.                       *)
OldRows(p) ==
  LET found == file[p].content \notin Faceless IN
  (IF p \in RecordedPaths THEN {RowOf(p, "completed", found)} ELSE {NoRow})
    \union (IF p \in LegacyPaths THEN {RowOf(p, "pending", b) : b \in {FALSE, found}}
            ELSE {})

Init ==
  /\ file \in [Path -> [content : Content, stamp : {0}]]
  /\ edits = 0 /\ vanished = {}
  /\ images \in [Path -> Row \union {NoRow}]
  /\ \A p \in Path : images[p] \in OldRows(p)
  /\ faces = [p \in Path |->
       {c \in Content : images[p] # NoRow /\ images[p].has_faces /\ images[p].hash = c}]
  /\ manifest = [p \in Path |-> IF Completed(p) THEN 0 ELSE Unknown]
  /\ job = [w \in Workers |-> Idle]
  /\ recovery = "A"
  /\ faults = 0 /\ raced = {}

-----------------------------------------------------------------------------
(* The owner of the files.  An edit gives a file a new stamp.              *)

Edit(p, c) ==
  /\ p \in EditedPaths
  /\ edits < MaxEdits /\ edits' = edits + 1
  /\ file' = [file EXCEPT ![p] = [content |-> c, stamp |-> edits + 1]]
  /\ UNCHANGED <<vanished, db, manifest, job, recovery, faults, raced>>

Remove(p) ==
  /\ p \in EditedPaths /\ OnDisk(p)
  /\ edits < MaxEdits /\ edits' = edits + 1
  /\ file' = [file EXCEPT ![p] = NoFile]
  /\ vanished' = vanished \union {p}
  /\ UNCHANGED <<db, manifest, job, recovery, faults, raced>>

(* _on_file_event("deleted"): mark_deleted() and save_manifest().          *)
Deleted(p) ==
  /\ p \in vanished /\ vanished' = vanished \ {p}
  /\ manifest' = [manifest EXCEPT ![p] = Unknown]
  /\ UNCHANGED <<file, edits, db, job, recovery, faults, raced>>

-----------------------------------------------------------------------------
(* needs_processing().                                                     *)

NeedsByTable(p, stamp) == ~(Completed(p) /\ images[p].stamp = stamp)

NeedsByJson(p, stamp) == manifest[p] # stamp

(* The scan or the watcher comes upon a file and takes its stat; the slot  *)
(* w of a future worker stands for it until it is queued and taken.        *)
Find(w, p) ==
  /\ job[w] = Idle /\ OnDisk(p)
  /\ Becomes(w, Record("found", p, file[p].stamp))
  /\ UNCHANGED <<onDisk, db, manifest, recovery, faults, raced>>

(* A while later it asks needs_processing(): the table decides, the        *)
(* manifest if the table cannot be read.  In stage "hash" the record may   *)
(* still be in the queue.                                                  *)
Queue(w) ==
  /\ job[w].at = "found"
  /\ \E needed \in BOOLEAN :
       /\ \/ needed = NeedsByTable(job[w].path, job[w].queued) /\ UNCHANGED faults
          \/ needed = NeedsByJson(job[w].path, job[w].queued) /\ Fault
       /\ Becomes(w, IF needed THEN [job[w] EXCEPT !.at = "hash"] ELSE Idle)
  /\ UNCHANGED <<onDisk, db, manifest, recovery, raced>>

-----------------------------------------------------------------------------
(* _worker_loop and process_file.                                          *)

Hash(w) ==
  /\ job[w].at = "hash" /\ Reading(w) # NoFile
  /\ Becomes(w, [job[w] EXCEPT !.at = "lookup", !.hash = Reading(w).content])
  /\ UNCHANGED <<onDisk, db, manifest, recovery, faults, raced>>

(* Query by hash, .first() of the rows in no particular order: if that one *)
(* is completed the content is known, and the file succeeds without a row. *)
(* A row of the worker's own path stays loaded in its session.             *)
Lookup(w) ==
  /\ job[w].at = "lookup"
  /\ LET twins == {p \in Path : Status(p) # "none" /\ images[p].hash = job[w].hash}
     IN \/ /\ twins = {}
           /\ Becomes(w, [job[w] EXCEPT !.at = "detect"])
        \/ \E p \in twins :
             Becomes(w, IF Completed(p) THEN Record("finish", job[w].path, job[w].queued)
                        ELSE [job[w] EXCEPT !.at = "detect", !.loaded =
                                IF p = job[w].path THEN images[p] ELSE NoRow])
  /\ UNCHANGED <<onDisk, db, manifest, recovery, faults, raced>>

(* _process_image or _process_video: decode and detect.                    *)
Detect(w) ==
  /\ job[w].at = "detect"
  /\ Reading(w) # NoFile
  /\ Becomes(w, [job[w] EXCEPT !.at = "stat", !.seen = Reading(w).content])
  /\ UNCHANGED <<onDisk, db, manifest, recovery, faults, raced>>

(* _save_image_record takes the file's stat only now.                      *)
Stat(w) ==
  /\ job[w].at = "stat" /\ Reading(w) # NoFile
  /\ Becomes(w, [job[w] EXCEPT !.at = "select", !.stamp = Reading(w).stamp])
  /\ raced' = IF {job[w].hash, job[w].seen} = {Reading(w).content} THEN raced
              ELSE raced \union {job[w].path}
  /\ UNCHANGED <<onDisk, db, manifest, recovery, faults>>

(* Query by path.  A row already loaded keeps the values it had.           *)
Select(w) ==
  /\ job[w].at = "select"
  /\ LET row == images[job[w].path] IN
     Becomes(w,
       IF row = NoRow THEN [job[w] EXCEPT !.at = "insert"]
       ELSE [job[w] EXCEPT !.at = "update",
                           !.loaded = IF @ = NoRow THEN row ELSE @])
  /\ UNCHANGED <<onDisk, db, manifest, recovery, faults, raced>>

Detected(w) == {job[w].seen} \ Faceless

(* Mutant of NewRow: the row is left in the pipeline's own status.         *)
NewRow_Processing(w) == [status |-> "processing", hash |-> job[w].hash,
                         stamp |-> job[w].stamp, has_faces |-> Detected(w) # {}]

NewRow(w) == [status |-> "completed", hash |-> job[w].hash,
              stamp |-> job[w].stamp, has_faces |-> Detected(w) # {}]

(* Mutant of Updated: the hash column is forgotten.                        *)
Updated_KeepsHash(w, row) ==
  [k \in DOMAIN row |->
     IF k # "hash" /\ NewRow(w)[k] # job[w].loaded[k] THEN NewRow(w)[k] ELSE row[k]]

(* An UPDATE writes the columns whose value differs from the loaded one.   *)
Updated(w, row) ==
  [k \in DOMAIN row |->
     IF NewRow(w)[k] # job[w].loaded[k] THEN NewRow(w)[k] ELSE row[k]]

(* The row changed between the session's query and its UPDATE.             *)
Overtaken(w) ==
  /\ job[w].at = "update"
  /\ \E k \in {"hash", "has_faces"} : images[job[w].path][k] # job[w].loaded[k]

(* The row and its faces, committed together.  An insert that meets the    *)
(* row of another worker rolls back and adds its faces to that row.        *)
Write(w) ==
  LET p == job[w].path IN
  /\ \/ job[w].at = "insert" /\ images[p] = NoRow
        /\ images' = [images EXCEPT ![p] = NewRow(w)]
     \/ job[w].at = "insert" /\ images[p] # NoRow
        /\ UNCHANGED images
     \/ job[w].at = "update"
        /\ images' = [images EXCEPT ![p] = Updated(w, @)]
  /\ faces' = [faces EXCEPT ![p] = @ \union Detected(w)]
  /\ raced' = IF Overtaken(w) THEN raced \union {p} ELSE raced

Commit(w) ==
  /\ Write(w)
  /\ Becomes(w, Record("finish", job[w].path, job[w].queued))
  /\ UNCHANGED <<onDisk, manifest, recovery, faults>>

(* The commit took effect but its acknowledgement was lost.                *)
CommitInDoubt(w) ==
  /\ Write(w)
  /\ Fault
  /\ Becomes(w, Idle)
  /\ UNCHANGED <<onDisk, manifest, recovery>>

(* Mutant of Finish: the manifest takes the file's stat of now.            *)
Finish_RecentStat(w) ==
  /\ job[w].at = "finish"
  /\ manifest' = [manifest EXCEPT ![job[w].path] =
       IF Reading(w) = NoFile THEN Unknown ELSE Reading(w).stamp]
  /\ Becomes(w, Idle)
  /\ UNCHANGED <<onDisk, db, recovery, faults, raced>>

(* manifest.add_file() with the stat of the queued record, and save.       *)
Finish(w) ==
  /\ job[w].at = "finish"
  /\ manifest' = [manifest EXCEPT ![job[w].path] = job[w].queued]
  /\ Becomes(w, Idle)
  /\ UNCHANGED <<onDisk, db, recovery, faults, raced>>

(* Every failure before the commit leaves nothing behind: the file is gone *)
(* or cannot be decoded, or a read or a statement fails.                   *)
Fails(w) ==
  /\ job[w].at \in Stages \ {"found", "finish"}
  /\ \/ job[w].at \in {"hash", "stat"} /\ Reading(w) = NoFile /\ UNCHANGED faults
     \/ job[w].at = "detect" /\ UNCHANGED faults
     \/ Fault
  /\ Becomes(w, Idle)
  /\ UNCHANGED <<onDisk, db, manifest, recovery, raced>>

Work(w) ==
  \/ Queue(w) \/ Hash(w) \/ Lookup(w) \/ Detect(w) \/ Stat(w) \/ Select(w)
  \/ Commit(w) \/ Finish(w) \/ Fails(w)

-----------------------------------------------------------------------------
(* _recover_pending_images, phases A and C; each is one UPDATE and may     *)
(* fail, after which the thread goes on with the next phase.               *)

Flip(wrong, status) ==
  images' = [p \in Path |-> IF wrong[p] THEN [images[p] EXCEPT !.status = status]
                            ELSE images[p]]

Pending(p, has_faces) == Status(p) = "pending" /\ images[p].has_faces = has_faces

(* Mutant of PhaseA: face_count is not looked at.                          *)
PhaseA_EveryPending ==
  /\ recovery = "A" /\ recovery' = "C"
  /\ Flip([p \in Path |-> Status(p) = "pending"], "completed")
  /\ UNCHANGED <<onDisk, faces, manifest, job, faults, raced>>

PhaseA ==
  /\ recovery = "A" /\ recovery' = "C"
  /\ \/ Flip([p \in Path |-> Pending(p, TRUE)], "completed") /\ UNCHANGED faults
     \/ UNCHANGED images /\ Fault
  /\ UNCHANGED <<onDisk, faces, manifest, job, raced>>

(* Mutants of PhaseC: face_count is not looked at, or neither is status.   *)
PhaseC_EveryPending ==
  /\ recovery = "C" /\ recovery' = "done"
  /\ Flip([p \in Path |-> Status(p) = "pending"], "failed")
  /\ UNCHANGED <<onDisk, faces, manifest, job, faults, raced>>

PhaseC_EveryStatus ==
  /\ recovery = "C" /\ recovery' = "done"
  /\ Flip([p \in Path |-> Status(p) # "none"], "failed")
  /\ UNCHANGED <<onDisk, faces, manifest, job, faults, raced>>

PhaseC ==
  /\ recovery = "C" /\ recovery' = "done"
  /\ \/ Flip([p \in Path |-> Pending(p, FALSE)], "failed") /\ UNCHANGED faults
     \/ UNCHANGED images /\ Fault
  /\ UNCHANGED <<onDisk, faces, manifest, job, raced>>

(* The process dies and is started again: the queue and every transaction  *)
(* in progress are lost.                                                   *)
Restart ==
  /\ Fault
  /\ job' = [w \in Workers |-> Idle]
  /\ recovery' = "A"
  /\ UNCHANGED <<onDisk, db, manifest, raced>>

-----------------------------------------------------------------------------
Next ==
  \/ \E p \in Path :
       \/ \E c \in Content : Edit(p, c)
       \/ Remove(p) \/ Deleted(p)
       \/ \E w \in Workers : Find(w, p)
  \/ \E w \in Workers : Work(w) \/ CommitInDoubt(w)
  \/ PhaseA \/ PhaseC
  \/ Restart

Spec == Init /\ [][Next]_vars

-----------------------------------------------------------------------------
(* What needs_processing() skips has been processed: a file the images     *)
(* table lets pass has the content its row was made from, whichever        *)
(* worker, phase or restart wrote the row last, unless the file changed    *)
(* between a worker's first read and its stat, or two workers updated the  *)
(* row at once and left it with the columns of both.                       *)
SkippedIsRecorded ==
  \A p \in Path \ raced :
    OnDisk(p) /\ ~NeedsByTable(p, file[p].stamp) => images[p].hash = file[p].content

(* The same of the JSON manifest that decides when the table cannot be     *)
(* read: no face in a file it lets pass is missing from the table.         *)
FallbackIsSound ==
  raced = {} =>
    \A p \in Path :
      OnDisk(p) /\ ~NeedsByJson(p, file[p].stamp) =>
        \/ file[p].content \in Faceless
        \/ \E q \in Path : file[p].content \in faces[q]

(* A completed row has the faces of the content it names, and says so in   *)
(* its face_count, whoever completed it: a worker, the winner of an insert *)
(* race, or the recovery.                                                  *)
CompletedHasFaces ==
  \A p \in Path \ raced : Completed(p) =>
    /\ images[p].has_faces <=> images[p].hash \notin Faceless
    /\ images[p].has_faces => images[p].hash \in faces[p]

(* No face hangs from a path without a row, or from a row the recovery     *)
(* gave up: the transaction is all or nothing across races and restarts.   *)
NoOrphanFaces ==
  \A p \in Path :
    faces[p] # {} => Status(p) \in {"pending", "completed"}

(* The recovery never undoes what a worker completed meanwhile.            *)
CompletedStays == [][\A p \in Path : Completed(p) => Completed(p)']_vars

(* manifest.py:148 says of a completed row with the file's mtime and size: *)
(* "already done, unchanged".                                              *)
UnchangedIsDone ==
  \A p \in Path :
    OnDisk(p) /\ ~NeedsByTable(p, file[p].stamp) => images[p].hash = file[p].content

=============================================================================
