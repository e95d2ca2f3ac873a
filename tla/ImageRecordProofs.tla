------------------------- MODULE ImageRecordProofs --------------------------
(***************************************************************************)
(* Proofs about ImageRecord, for any paths, contents, workers and bounds:  *)
(* what needs_processing() skips is recorded, and a completed row stays    *)
(* completed.                                                              *)
(***************************************************************************)
EXTENDS ImageRecord, TLAPS

(* Who claims to know the content of path p under stamp s: the file, its   *)
(* row, a row that a session has loaded, a worker about to write.          *)
FileSays(p, c, s) == OnDisk(p) /\ file[p].content = c /\ file[p].stamp = s

RowSays(p, c, s) ==
  images[p] # NoRow /\ images[p].hash = c /\ images[p].stamp = s

JobSays(j, p, c, s) ==
  /\ j.at \in Stages /\ j.path = p
  /\ \/ j.loaded # NoRow /\ j.loaded.hash = c /\ j.loaded.stamp = s
     \/ j.at \in {"select", "insert", "update"} /\ j.hash = c /\ j.stamp = s

Says(p, c, s) ==
  FileSays(p, c, s) \/ RowSays(p, c, s) \/ \E w \in Workers : JobSays(job[w], p, c, s)

(* They agree, and none of them speaks of the future.                      *)
Coherent ==
  \A p \in Path \ raced : \A c, d \in Content, s \in Stamp :
    Says(p, c, s) /\ Says(p, d, s) => c = d

Past == \A p \in Path \ raced : \A c \in Content, s \in Stamp :
          Says(p, c, s) => s <= edits

(* What a worker holds when it comes to write.                             *)
Ready ==
  \A w \in Workers :
    /\ job[w].at \in {"stat", "select", "insert", "update"} =>
         job[w].hash \in Content /\ job[w].seen \in Content
    /\ job[w].at \in {"select", "insert", "update"} => job[w].stamp \in Stamp
    /\ job[w].at \in {"lookup", "detect"} => job[w].hash \in Content
    /\ job[w].at = "update" => job[w].loaded # NoRow /\ images[job[w].path] # NoRow

IInv == RecordTypeOK /\ Ready /\ Coherent /\ Past

-----------------------------------------------------------------------------
(* Shapes.                                                                 *)

(* A worker in one of the stages holds a full record.                      *)
LEMMA JobShape ==
  ASSUME RecordTypeOK, NEW w \in Workers, job[w].at \in Stages
  PROVE  /\ job[w] \in Job
         /\ job[w].path \in Path /\ job[w].queued \in Stamp
         /\ job[w].loaded \in Row \union {NoRow}
  <1>1. job[w] \in Job \union {Idle}
    BY DEF RecordTypeOK
  <1>2. job[w] # Idle
    BY DEF Idle, Stages
  <1> QED BY <1>1, <1>2 DEF Job

(* A file that is there has a content and a stamp, a row that is there a   *)
(* status, a hash and a stamp.                                             *)
LEMMA Shapes ==
  ASSUME RecordTypeOK, NEW p \in Path
  PROVE  /\ OnDisk(p) => file[p] \in File
         /\ images[p] # NoRow => images[p] \in Row
         /\ Status(p) # "none" <=> images[p] # NoRow
  BY DEF RecordTypeOK, OnDisk, Status, Row, NoRow, File

(* The record a worker starts and ends with.                               *)
LEMMA RecordShape ==
  ASSUME NEW stage \in Stages, NEW p \in Path, NEW s \in Stamp,
         ImageRecordAssumption
  PROVE  /\ Record(stage, p, s) \in Job
         /\ Record(stage, p, s).at = stage
         /\ Record(stage, p, s).loaded = NoRow
  BY DEF Record, Job, Unknown, Stamp, ImageRecordAssumption

-----------------------------------------------------------------------------
(* Type correctness.                                                       *)

(* Rows, workers and files have their types at the start.                  *)
LEMMA InitTypes == ImageRecordAssumption /\ Init => RecordTypeOK
  <1> SUFFICES ASSUME ImageRecordAssumption, Init PROVE RecordTypeOK
    OBVIOUS
  <1>1. file \in [Path -> File \union {NoFile}]
    BY DEF Init, File, Stamp, ImageRecordAssumption
  <1>2. faces \in [Path -> SUBSET Content]
    BY DEF Init
  <1>3. manifest \in [Path -> 0..Unknown]
    <2>1. 0 \in 0..Unknown /\ Unknown \in 0..Unknown
      BY DEF Unknown, ImageRecordAssumption
    <2> QED BY <2>1 DEF Init
  <1>4. job \in [Workers -> Job \union {Idle}]
    BY DEF Init
  <1> QED
    BY <1>1, <1>2, <1>3, <1>4 DEF Init, RecordTypeOK, Stamp, ImageRecordAssumption

(* Updating a row gives a row.                                             *)
LEMMA UpdatedIsRow ==
  ASSUME RecordTypeOK, NEW w \in Workers, NEW row \in Row,
         job[w].hash \in Content, job[w].stamp \in Stamp
  PROVE  /\ NewRow(w) \in Row
         /\ Updated(w, row) \in Row
         /\ Updated(w, row).hash = IF job[w].hash # job[w].loaded.hash
                                   THEN job[w].hash ELSE row.hash
         /\ Updated(w, row).stamp = IF job[w].stamp # job[w].loaded.stamp
                                    THEN job[w].stamp ELSE row.stamp
         /\ Updated(w, row).status \in {"completed", row.status}
  <1>1. NewRow(w) \in Row
    BY DEF NewRow, Row
  <1>2. DOMAIN row = {"status", "hash", "stamp", "has_faces"}
    BY DEF Row
  <1>3. /\ Updated(w, row).hash = IF job[w].hash # job[w].loaded.hash
                                   THEN job[w].hash ELSE row.hash
        /\ Updated(w, row).stamp = IF job[w].stamp # job[w].loaded.stamp
                                    THEN job[w].stamp ELSE row.stamp
        /\ Updated(w, row).status \in {"completed", row.status}
        /\ Updated(w, row).has_faces \in {Detected(w) # {}, row.has_faces}
        /\ DOMAIN Updated(w, row) = {"status", "hash", "stamp", "has_faces"}
    BY <1>2 DEF Updated, NewRow
  <1>4. Updated(w, row) \in Row
    BY <1>2, <1>3 DEF Updated, Row
  <1> QED BY <1>1, <1>3, <1>4

(* A worker at the write has read all it needs.                            *)
LEMMA WriteTypes ==
  ASSUME ImageRecordAssumption, RecordTypeOK, Ready, NEW w \in Workers, Write(w)
  PROVE  /\ job[w].at \in {"insert", "update"} /\ job[w].at \in Stages
         /\ images' \in [Path -> Row \union {NoRow}]
         /\ faces' \in [Path -> SUBSET Content]
         /\ raced' \subseteq Path
         /\ \A p \in Path : images[p] # NoRow => images'[p] # NoRow
  <1>1. job[w].at \in {"insert", "update"} /\ job[w].at \in Stages
    BY DEF Write, Stages
  <1>2. /\ job[w].path \in Path
        /\ job[w].hash \in Content /\ job[w].seen \in Content
        /\ job[w].stamp \in Stamp
    BY <1>1, JobShape DEF Ready
  <1>3. \A row \in Row : Updated(w, row) \in Row /\ NewRow(w) \in Row
    BY <1>2, UpdatedIsRow
  <1>4. NewRow(w) \in Row
    BY <1>2 DEF NewRow, Row
  <1>5. NoRow \notin Row
    BY DEF NoRow, Row
  <1>6. images \in [Path -> Row \union {NoRow}]
    BY DEF RecordTypeOK
  <1>7. /\ images' \in [Path -> Row \union {NoRow}]
        /\ \A p \in Path : images[p] # NoRow => images'[p] # NoRow
    <2>1. CASE job[w].at = "insert"
      BY <2>1, <1>2, <1>4, <1>5, <1>6 DEF Write
    <2>2. CASE job[w].at = "update"
      <3>1. images[job[w].path] \in Row
        BY <2>2, <1>2, <1>6 DEF Ready
      <3>2. images' = [images EXCEPT ![job[w].path] = Updated(w, images[job[w].path])]
        BY <2>2 DEF Write
      <3> QED BY <3>1, <3>2, <1>2, <1>3, <1>5, <1>6
    <2> QED BY <1>1, <2>1, <2>2
  <1>8. faces' \in [Path -> SUBSET Content]
    BY <1>2 DEF Write, Detected, RecordTypeOK
  <1>9. raced' \subseteq Path
    BY <1>2 DEF Write, RecordTypeOK
  <1> QED BY <1>1, <1>7, <1>8, <1>9

(* What changes when only the job of a worker does.                        *)
LEMMA JobStep ==
  ASSUME RecordTypeOK, Ready, NEW w \in Workers, NEW j, Becomes(w, j),
         j \in Job \union {Idle}, images' = images,
         j.at \in {"stat", "select", "insert", "update"} =>
           j.hash \in Content /\ j.seen \in Content,
         j.at \in {"select", "insert", "update"} => j.stamp \in Stamp,
         j.at \in {"lookup", "detect"} => j.hash \in Content,
         j.at = "update" => j.loaded # NoRow /\ images[j.path] # NoRow
  PROVE  job' \in [Workers -> Job \union {Idle}] /\ Ready'
  BY DEF Becomes, RecordTypeOK, Ready

(* One step keeps the types.                                               *)
LEMMA TypeStep ==
  ASSUME ImageRecordAssumption, RecordTypeOK, Ready, [Next]_vars
  PROVE  RecordTypeOK' /\ Ready'
  <1> USE ImageRecordAssumption
  <1>1. ASSUME NEW p \in Path, NEW c \in Content, Edit(p, c)
        PROVE  RecordTypeOK' /\ Ready'
    <2>1. edits + 1 \in Stamp
      BY <1>1 DEF Edit, Stamp, RecordTypeOK, ImageRecordAssumption
    <2>2. file' \in [Path -> File \union {NoFile}]
      BY <1>1, <2>1 DEF Edit, RecordTypeOK, File
    <2>3. RecordTypeOK'
      BY <1>1, <2>1, <2>2 DEF Edit, RecordTypeOK, db
    <2> QED BY <1>1, <2>3 DEF Edit, Ready, db
  <1>2. ASSUME NEW p \in Path, Remove(p)
        PROVE  RecordTypeOK' /\ Ready'
    <2>1. edits + 1 \in Stamp
      BY <1>2 DEF Remove, Stamp, RecordTypeOK, ImageRecordAssumption
    <2>2. file' \in [Path -> File \union {NoFile}]
      BY <1>2 DEF Remove, RecordTypeOK
    <2>3. RecordTypeOK'
      BY <1>2, <2>1, <2>2 DEF Remove, RecordTypeOK, db
    <2> QED BY <1>2, <2>3 DEF Remove, Ready, db
  <1>3. ASSUME NEW p \in Path, Deleted(p)
        PROVE  RecordTypeOK' /\ Ready'
    <2>1. manifest' \in [Path -> 0..Unknown]
      BY <1>3 DEF Deleted, RecordTypeOK, Unknown, ImageRecordAssumption
    <2>2. RecordTypeOK'
      BY <1>3, <2>1 DEF Deleted, RecordTypeOK, db
    <2> QED BY <1>3, <2>2 DEF Deleted, Ready, db
  <1>4. ASSUME NEW p \in Path, NEW w \in Workers, Find(w, p)
        PROVE  RecordTypeOK' /\ Ready'
    <2>1. file[p].stamp \in Stamp
      BY <1>4, Shapes DEF Find, File
    <2>2. "found" \in Stages
      BY DEF Stages
    <2>3. /\ Record("found", p, file[p].stamp) \in Job
          /\ Record("found", p, file[p].stamp).at = "found"
      BY <2>1, <2>2, RecordShape
    <2>4. images' = images /\ Becomes(w, Record("found", p, file[p].stamp))
      BY <1>4 DEF Find, db
    <2>5. job' \in [Workers -> Job \union {Idle}] /\ Ready'
      BY <2>3, <2>4, JobStep
    <2> QED BY <1>4, <2>5 DEF Find, RecordTypeOK, db, onDisk
  <1>5. ASSUME NEW w \in Workers, Queue(w)
         PROVE  RecordTypeOK' /\ Ready'
    <2>1. job[w] \in Job
      BY <1>5, JobShape DEF Queue, Stages
    <2>2. PICK j \in {[job[w] EXCEPT !.at = "hash"], Idle} : Becomes(w, j)
      BY <1>5 DEF Queue
    <2>3. j \in Job \union {Idle} /\ j.at \in {"hash", "idle"}
      BY <2>1, <2>2 DEF Job, Stages, Idle
    <2>4. images' = images
      BY <1>5 DEF Queue, db
    <2>5. job' \in [Workers -> Job \union {Idle}] /\ Ready'
      BY <2>2, <2>3, <2>4, JobStep
    <2>6. faults' \in 0..MaxFaults
      BY <1>5 DEF Queue, Fault, RecordTypeOK, ImageRecordAssumption
    <2> QED BY <1>5, <2>5, <2>6 DEF Queue, RecordTypeOK, db, onDisk
  <1>6. ASSUME NEW w \in Workers, Hash(w)
        PROVE  RecordTypeOK' /\ Ready'
    <2> DEFINE j == [job[w] EXCEPT !.at = "lookup", !.hash = Reading(w).content]
    <2>1. job[w] \in Job /\ job[w].path \in Path
      BY <1>6, JobShape DEF Hash, Stages
    <2>2. Reading(w).content \in Content
      BY <1>6, <2>1, Shapes DEF Hash, Reading, OnDisk, File
    <2>3. j \in Job /\ j.at = "lookup" /\ j.hash \in Content
      BY <2>1, <2>2 DEF Job, Stages
    <2>4. images' = images /\ Becomes(w, j)
      BY <1>6 DEF Hash, db
    <2>5. job' \in [Workers -> Job \union {Idle}] /\ Ready'
      BY <2>3, <2>4, JobStep
    <2> QED BY <1>6, <2>5 DEF Hash, RecordTypeOK, db, onDisk
  <1>7. ASSUME NEW w \in Workers, Lookup(w)
        PROVE  RecordTypeOK' /\ Ready'
    <2>1. job[w] \in Job /\ job[w].path \in Path /\ job[w].queued \in Stamp
      BY <1>7, JobShape DEF Lookup, Stages
    <2>2. job[w].hash \in Content
      BY <1>7 DEF Lookup, Ready
    <2>3. images' = images
      BY <1>7 DEF Lookup, db
    <2>4. CASE Becomes(w, [job[w] EXCEPT !.at = "detect"])
      <3> DEFINE j == [job[w] EXCEPT !.at = "detect"]
      <3>1. j \in Job /\ j.at = "detect" /\ j.hash \in Content
        BY <2>1, <2>2 DEF Job, Stages
      <3> QED BY <2>3, <2>4, <3>1, JobStep, <1>7 DEF Lookup, RecordTypeOK, db, onDisk
    <2>5. CASE Becomes(w, Record("finish", job[w].path, job[w].queued))
      <3>1. "finish" \in Stages
        BY DEF Stages
      <3>2. /\ Record("finish", job[w].path, job[w].queued) \in Job
            /\ Record("finish", job[w].path, job[w].queued).at = "finish"
        BY <2>1, <3>1, RecordShape
      <3> QED BY <2>3, <2>5, <3>2, JobStep, <1>7 DEF Lookup, RecordTypeOK, db, onDisk
    <2>6. ASSUME NEW p \in Path,
                 Becomes(w, [job[w] EXCEPT !.at = "detect", !.loaded =
                               IF p = job[w].path THEN images[p] ELSE NoRow])
          PROVE  RecordTypeOK' /\ Ready'
      <3> DEFINE j == [job[w] EXCEPT !.at = "detect", !.loaded =
                         IF p = job[w].path THEN images[p] ELSE NoRow]
      <3>1. images[p] \in Row \union {NoRow}
        BY DEF RecordTypeOK
      <3>2. j \in Job /\ j.at = "detect" /\ j.hash \in Content
        BY <2>1, <2>2, <3>1 DEF Job, Stages
      <3> QED BY <2>3, <2>6, <3>2, JobStep, <1>7 DEF Lookup, RecordTypeOK, db, onDisk
    <2> QED BY <1>7, <2>4, <2>5, <2>6 DEF Lookup
  <1>8. ASSUME NEW w \in Workers, Detect(w)
        PROVE  RecordTypeOK' /\ Ready'
    <2> DEFINE j == [job[w] EXCEPT !.at = "stat", !.seen = Reading(w).content]
    <2>1. job[w] \in Job /\ job[w].path \in Path
      BY <1>8, JobShape DEF Detect, Stages
    <2>2. Reading(w).content \in Content /\ job[w].hash \in Content
      BY <1>8, <2>1, Shapes DEF Detect, Reading, OnDisk, File, Ready
    <2>3. j \in Job /\ j.at = "stat" /\ j.hash \in Content /\ j.seen \in Content
      BY <2>1, <2>2 DEF Job, Stages
    <2>4. images' = images /\ Becomes(w, j)
      BY <1>8 DEF Detect, db
    <2>5. job' \in [Workers -> Job \union {Idle}] /\ Ready'
      BY <2>3, <2>4, JobStep
    <2> QED BY <1>8, <2>5 DEF Detect, RecordTypeOK, db, onDisk
  <1>9. ASSUME NEW w \in Workers, Stat(w)
        PROVE  RecordTypeOK' /\ Ready'
    <2> DEFINE j == [job[w] EXCEPT !.at = "select", !.stamp = Reading(w).stamp]
    <2>1. job[w] \in Job /\ job[w].path \in Path
      BY <1>9, JobShape DEF Stat, Stages
    <2>2. /\ Reading(w).stamp \in Stamp
          /\ job[w].hash \in Content /\ job[w].seen \in Content
      BY <1>9, <2>1, Shapes DEF Stat, Reading, OnDisk, File, Ready
    <2>3. Reading(w).stamp \in 0..Unknown
      BY <2>2 DEF Stamp, Unknown, ImageRecordAssumption
    <2>4. /\ j \in Job /\ j.at = "select" /\ j.stamp \in Stamp
          /\ j.hash \in Content /\ j.seen \in Content
      BY <2>1, <2>2, <2>3 DEF Job, Stages
    <2>5. images' = images /\ Becomes(w, j)
      BY <1>9 DEF Stat, db
    <2>6. job' \in [Workers -> Job \union {Idle}] /\ Ready'
      BY <2>4, <2>5, JobStep
    <2>7. raced' \subseteq Path
      BY <1>9, <2>1 DEF Stat, RecordTypeOK
    <2> QED BY <1>9, <2>6, <2>7 DEF Stat, RecordTypeOK, db, onDisk
  <1>10. ASSUME NEW w \in Workers, Select(w)
        PROVE  RecordTypeOK' /\ Ready'
    <2>1. job[w] \in Job /\ job[w].path \in Path
      BY <1>10, JobShape DEF Select, Stages
    <2>2. /\ job[w].hash \in Content /\ job[w].seen \in Content
          /\ job[w].stamp \in Stamp
      BY <1>10 DEF Select, Ready
    <2>3. images' = images
      BY <1>10 DEF Select, db
    <2>4. CASE images[job[w].path] = NoRow
      <3> DEFINE j == [job[w] EXCEPT !.at = "insert"]
      <3>1. Becomes(w, j)
        BY <1>10, <2>4 DEF Select
      <3>2. /\ j \in Job /\ j.at = "insert" /\ j.stamp \in Stamp
            /\ j.hash \in Content /\ j.seen \in Content
        BY <2>1, <2>2 DEF Job, Stages
      <3> QED BY <2>3, <3>1, <3>2, JobStep, <1>10 DEF Select, RecordTypeOK, db, onDisk
    <2>5. CASE images[job[w].path] # NoRow
      <3> DEFINE row == IF job[w].loaded = NoRow THEN images[job[w].path]
                        ELSE job[w].loaded
                 j == [job[w] EXCEPT !.at = "update", !.loaded = row]
      <3>1. Becomes(w, j)
        BY <1>10, <2>5 DEF Select
      <3>2. row \in Row
        BY <2>1, <2>5, Shapes DEF Job
      <3>3. NoRow \notin Row
        BY DEF NoRow, Row
      <3>4. /\ j \in Job /\ j.at = "update" /\ j.stamp \in Stamp
            /\ j.hash \in Content /\ j.seen \in Content
            /\ j.loaded # NoRow /\ images[j.path] # NoRow
        BY <2>1, <2>2, <2>5, <3>2, <3>3 DEF Job, Stages
      <3> QED BY <2>3, <3>1, <3>4, JobStep, <1>10 DEF Select, RecordTypeOK, db, onDisk
    <2> QED BY <2>4, <2>5
  <1>11. ASSUME NEW w \in Workers, Write(w),
                \/ Becomes(w, Record("finish", job[w].path, job[w].queued))
                \/ Becomes(w, Idle),
                onDisk' = onDisk, manifest' = manifest, recovery' = recovery,
                faults' \in 0..MaxFaults
         PROVE  RecordTypeOK' /\ Ready'
    <2>1. /\ images' \in [Path -> Row \union {NoRow}]
          /\ faces' \in [Path -> SUBSET Content]
          /\ raced' \subseteq Path
          /\ \A p \in Path : images[p] # NoRow => images'[p] # NoRow
          /\ job[w].at \in Stages
      BY <1>11, WriteTypes
    <2>2. "finish" \in Stages /\ job[w].path \in Path /\ job[w].queued \in Stamp
      BY <2>1, JobShape DEF Stages
    <2>3. PICK j \in Job \union {Idle} : Becomes(w, j) /\ j.at \in {"finish", "idle"}
      BY <1>11, <2>2, RecordShape DEF Idle
    <2>4. job' \in [Workers -> Job \union {Idle}]
      BY <2>3 DEF Becomes, RecordTypeOK
    <2>5. Ready'
      <3> SUFFICES ASSUME NEW v \in Workers
                   PROVE  /\ job'[v].at \in {"stat", "select", "insert", "update"} =>
                               job'[v].hash \in Content /\ job'[v].seen \in Content
                          /\ job'[v].at \in {"select", "insert", "update"} =>
                               job'[v].stamp \in Stamp
                          /\ job'[v].at \in {"lookup", "detect"} => job'[v].hash \in Content
                          /\ job'[v].at = "update" =>
                               job'[v].loaded # NoRow /\ images'[job'[v].path] # NoRow
        BY DEF Ready
      <3>1. CASE v = w
        BY <2>3, <3>1 DEF Becomes, RecordTypeOK
      <3>2. CASE v # w
        <4>1. job'[v] = job[v]
          BY <2>3, <3>2 DEF Becomes, RecordTypeOK
        <4>2. job[v].at = "update" => job[v].path \in Path
          BY JobShape DEF Stages
        <4> QED BY <2>1, <4>1, <4>2 DEF Ready
      <3> QED BY <3>1, <3>2
    <2> QED BY <1>11, <2>1, <2>4, <2>5 DEF RecordTypeOK, onDisk
  <1>12. ASSUME NEW w \in Workers, Commit(w)
         PROVE  RecordTypeOK' /\ Ready'
    BY <1>11, <1>12 DEF Commit, RecordTypeOK
  <1>13. ASSUME NEW w \in Workers, CommitInDoubt(w)
         PROVE  RecordTypeOK' /\ Ready'
    BY <1>11, <1>13 DEF CommitInDoubt, Fault, RecordTypeOK, ImageRecordAssumption
  <1>14. ASSUME NEW w \in Workers, Finish(w)
         PROVE  RecordTypeOK' /\ Ready'
    <2>1. job[w].path \in Path /\ job[w].queued \in Stamp
      BY <1>14, JobShape DEF Finish, Stages
    <2>2. manifest' \in [Path -> 0..Unknown]
      BY <1>14, <2>1 DEF Finish, RecordTypeOK, Stamp, Unknown, ImageRecordAssumption
    <2>3. Becomes(w, Idle) /\ images' = images /\ Idle.at = "idle"
      BY <1>14 DEF Finish, db, Idle
    <2>4. job' \in [Workers -> Job \union {Idle}] /\ Ready'
      BY <2>3, JobStep
    <2> QED BY <1>14, <2>2, <2>4 DEF Finish, RecordTypeOK, db, onDisk
  <1>15. ASSUME NEW w \in Workers, Fails(w)
         PROVE  RecordTypeOK' /\ Ready'
    <2>1. Becomes(w, Idle) /\ images' = images /\ Idle.at = "idle"
      BY <1>15 DEF Fails, db, Idle
    <2>2. job' \in [Workers -> Job \union {Idle}] /\ Ready'
      BY <2>1, JobStep
    <2>3. faults' \in 0..MaxFaults
      BY <1>15 DEF Fails, Fault, RecordTypeOK, ImageRecordAssumption
    <2> QED BY <1>15, <2>2, <2>3 DEF Fails, RecordTypeOK, db, onDisk
  <1>16. ASSUME NEW status \in {"completed", "failed"}, NEW has_faces \in BOOLEAN,
                \/ Flip([p \in Path |-> Pending(p, has_faces)], status)
                \/ images' = images,
                faces' = faces, onDisk' = onDisk, manifest' = manifest, job' = job,
                recovery' \in {"C", "done"}, raced' = raced, faults' \in 0..MaxFaults
         PROVE  RecordTypeOK' /\ Ready'
    <2>1. \A p \in Path : /\ images'[p] \in Row \union {NoRow}
                          /\ images[p] # NoRow => images'[p] # NoRow
      <3> SUFFICES ASSUME NEW p \in Path,
                          images'[p] = [images[p] EXCEPT !.status = status],
                          Pending(p, has_faces)
                   PROVE  images'[p] \in Row /\ images'[p] # NoRow
        BY <1>16 DEF Flip, RecordTypeOK
      <3>1. images[p] \in Row
        BY DEF Pending, Status, RecordTypeOK, NoRow
      <3>2. images'[p] \in Row
        BY <3>1 DEF Row
      <3> QED BY <3>2 DEF Row, NoRow
    <2>2. images' \in [Path -> Row \union {NoRow}]
      BY <1>16, <2>1 DEF Flip, RecordTypeOK
    <2>3. Ready'
      <3> SUFFICES ASSUME NEW w \in Workers, job[w].at = "update"
                   PROVE  images'[job[w].path] # NoRow
        BY <1>16 DEF Ready
      <3>1. job[w].path \in Path
        BY JobShape DEF Stages
      <3> QED BY <2>1, <3>1 DEF Ready
    <2> QED BY <1>16, <2>2, <2>3 DEF RecordTypeOK, onDisk
  <1>17. CASE PhaseA
    <2>1. /\ \/ Flip([p \in Path |-> Pending(p, TRUE)], "completed")
             \/ images' = images
          /\ UNCHANGED <<onDisk, faces, manifest, job, raced>>
          /\ recovery' \in {"C", "done"}
      BY <1>17 DEF PhaseA
    <2>2. faults' \in 0..MaxFaults
      BY <1>17 DEF PhaseA, Fault, RecordTypeOK, ImageRecordAssumption
    <2>3. "completed" \in {"completed", "failed"} /\ TRUE \in BOOLEAN
      OBVIOUS
    <2> QED BY <1>16, <2>1, <2>2, <2>3
  <1>18. CASE PhaseC
    <2>1. /\ \/ Flip([p \in Path |-> Pending(p, FALSE)], "failed")
             \/ images' = images
          /\ UNCHANGED <<onDisk, faces, manifest, job, raced>>
          /\ recovery' \in {"C", "done"}
      BY <1>18 DEF PhaseC
    <2>2. faults' \in 0..MaxFaults
      BY <1>18 DEF PhaseC, Fault, RecordTypeOK, ImageRecordAssumption
    <2>3. "failed" \in {"completed", "failed"} /\ FALSE \in BOOLEAN
      OBVIOUS
    <2> QED BY <1>16, <2>1, <2>2, <2>3
  <1>19. CASE Restart
    <2>1. job' \in [Workers -> Job \union {Idle}] /\ Ready'
      BY <1>19 DEF Restart, Ready, Idle
    <2>2. faults' \in 0..MaxFaults
      BY <1>19 DEF Restart, Fault, RecordTypeOK, ImageRecordAssumption
    <2> QED BY <1>19, <2>1, <2>2 DEF Restart, RecordTypeOK, db, onDisk
  <1>20. CASE UNCHANGED vars
    BY <1>20 DEF vars, db, onDisk, RecordTypeOK, Ready
  <1> QED
    BY <1>1, <1>2, <1>3, <1>4, <1>5, <1>6, <1>7, <1>8, <1>9, <1>10, <1>12,
       <1>13, <1>14, <1>15, <1>17, <1>18, <1>19, <1>20
       DEF Next, Work

-----------------------------------------------------------------------------
(* Coherence.                                                              *)

(* It is enough that a step makes nobody say anything new of a path that   *)
(* is not raced.                                                           *)
LEMMA NothingNew ==
  ASSUME Coherent, Past, edits' = edits, raced \subseteq raced',
         \A p \in Path \ raced' : \A c \in Content, s \in Stamp :
           Says(p, c, s)' => Says(p, c, s)
  PROVE  Coherent' /\ Past'
  BY DEF Coherent, Past

(* A step of a worker that writes nothing: only its own job may speak.     *)
LEMMA NothingNewInJob ==
  ASSUME RecordTypeOK, Coherent, Past, UNCHANGED <<file, edits, images>>,
         raced \subseteq raced',
         NEW w \in Workers, NEW j, Becomes(w, j),
         \A p \in Path \ raced' : \A c \in Content, s \in Stamp :
           JobSays(j, p, c, s) => Says(p, c, s)
  PROVE  Coherent' /\ Past'
  <1> SUFFICES ASSUME NEW p \in Path \ raced', NEW c \in Content, NEW s \in Stamp,
                      Says(p, c, s)'
               PROVE  Says(p, c, s)
    BY NothingNew
  <1>1. FileSays(p, c, s)' => FileSays(p, c, s)
    BY DEF FileSays, OnDisk
  <1>2. RowSays(p, c, s)' => RowSays(p, c, s)
    BY DEF RowSays
  <1>3. ASSUME NEW v \in Workers, JobSays(job'[v], p, c, s)
        PROVE  Says(p, c, s)
    <2>1. CASE v = w
      BY <1>3, <2>1 DEF Becomes, RecordTypeOK
    <2>2. CASE v # w
      <3>1. job'[v] = job[v]
        BY <2>2 DEF Becomes, RecordTypeOK
      <3> QED BY <1>3, <3>1 DEF Says
    <2> QED BY <2>1, <2>2
  <1>4. (\E v \in Workers : JobSays(job[v], p, c, s))' => Says(p, c, s)
    BY <1>3 DEF JobSays
  <1> QED BY <1>1, <1>2, <1>4 DEF Says

(* A worker that is done or gives up says nothing.                         *)
LEMMA Silent ==
  /\ \A p, c, s : ~JobSays(Idle, p, c, s)
  /\ \A q, t, p, c, s : ~JobSays(Record("finish", q, t), p, c, s)
  /\ \A q, t, p, c, s : ~JobSays(Record("found", q, t), p, c, s)
  BY DEF JobSays, Idle, Record, Stages

(* The write of a row leaves in it a content and a stamp that somebody     *)
(* knew to go together, unless the row was changed under the writer.       *)
LEMMA WriteCoherent ==
  ASSUME ImageRecordAssumption, RecordTypeOK, Ready, Coherent, Past,
         UNCHANGED <<file, edits>>,
         NEW w \in Workers, Write(w),
         \/ Becomes(w, Record("finish", job[w].path, job[w].queued))
         \/ Becomes(w, Idle)
  PROVE  Coherent' /\ Past'
  <1> SUFFICES ASSUME NEW p \in Path \ raced', NEW c \in Content, NEW s \in Stamp,
                      Says(p, c, s)'
               PROVE  Says(p, c, s)
    <2>1. raced \subseteq raced'
      BY DEF Write
    <2> QED BY <2>1, NothingNew
  <1>1. FileSays(p, c, s)' => FileSays(p, c, s)
    BY DEF FileSays, OnDisk
  <1>2. PICK j \in {Record("finish", job[w].path, job[w].queued), Idle} : Becomes(w, j)
    OBVIOUS
  <1>3. ASSUME NEW v \in Workers, JobSays(job'[v], p, c, s)
        PROVE  Says(p, c, s)
    <2>1. CASE v = w
      BY <1>2, <1>3, <2>1, Silent DEF Becomes, RecordTypeOK
    <2>2. CASE v # w
      <3>1. job'[v] = job[v]
        BY <1>2, <2>2 DEF Becomes, RecordTypeOK
      <3> QED BY <1>3, <3>1 DEF Says
    <2> QED BY <2>1, <2>2
  <1>4. (\E v \in Workers : JobSays(job[v], p, c, s))' => Says(p, c, s)
    BY <1>3 DEF JobSays
  <1>5. ASSUME RowSays(p, c, s)'
        PROVE  Says(p, c, s)
    <2>1. /\ job[w].at \in {"insert", "update"} /\ job[w].at \in Stages
          /\ job[w].path \in Path
          /\ job[w].hash \in Content /\ job[w].stamp \in Stamp
      BY WriteTypes, JobShape DEF Ready
    <2>2. \A d, t : d = job[w].hash /\ t = job[w].stamp /\ p = job[w].path
                      => JobSays(job[w], p, d, t)
      BY <2>1 DEF JobSays
    <2>3. CASE images'[p] = images[p]
      BY <1>5, <2>3 DEF RowSays, Says
    <2>4. CASE images'[p] # images[p] /\ job[w].at = "insert"
      <3>1. p = job[w].path /\ images'[p] = NewRow(w)
        BY <2>1, <2>4 DEF Write, RecordTypeOK
      <3>2. c = job[w].hash /\ s = job[w].stamp
        BY <1>5, <3>1 DEF RowSays, NewRow
      <3> QED BY <2>2, <3>1, <3>2 DEF Says
    <2>5. CASE images'[p] # images[p] /\ job[w].at = "update"
      <3>1. p = job[w].path /\ images'[p] = Updated(w, images[p])
        BY <2>1, <2>5 DEF Write, RecordTypeOK
      <3>2. images[p] \in Row /\ job[w].loaded \in Row /\ job[w].loaded # NoRow
        BY <2>1, <2>5, <3>1, Shapes, JobShape DEF Ready
      <3>3. p \notin raced /\ images[p].hash = job[w].loaded.hash
        <4>1. ~Overtaken(w) /\ p \notin raced
          BY <3>1 DEF Write
        <4> QED BY <2>5, <3>1, <4>1 DEF Overtaken
      <3>4. /\ c = IF job[w].hash # job[w].loaded.hash THEN job[w].hash
                   ELSE images[p].hash
            /\ s = IF job[w].stamp # job[w].loaded.stamp THEN job[w].stamp
                   ELSE images[p].stamp
        BY <1>5, <2>1, <3>1, <3>2, UpdatedIsRow DEF RowSays
      <3>5. c = job[w].hash
        BY <3>3, <3>4
      <3>6. CASE job[w].stamp # job[w].loaded.stamp
        BY <2>2, <3>1, <3>4, <3>5, <3>6 DEF Says
      <3>7. CASE job[w].stamp = job[w].loaded.stamp
        <4>1. JobSays(job[w], p, job[w].hash, job[w].stamp)
          BY <2>2, <3>1
        <4>2. JobSays(job[w], p, job[w].loaded.hash, job[w].stamp)
          BY <2>1, <3>1, <3>2, <3>7 DEF JobSays
        <4>3. job[w].loaded.hash \in Content
          BY <3>2 DEF Row
        <4>4. job[w].hash = job[w].loaded.hash
          BY <2>1, <3>3, <4>1, <4>2, <4>3 DEF Coherent, Says
        <4>5. c = images[p].hash /\ s = images[p].stamp /\ images[p] # NoRow
          BY <3>2, <3>3, <3>4, <3>7, <4>4 DEF Row, NoRow
        <4> QED BY <4>5 DEF RowSays, Says
      <3> QED BY <3>6, <3>7
    <2> QED BY <2>1, <2>3, <2>4, <2>5
  <1> QED BY <1>1, <1>4, <1>5 DEF Says

(* One step keeps the claims coherent.                                     *)
LEMMA CoherentStep ==
  ASSUME ImageRecordAssumption, RecordTypeOK, Ready, Coherent, Past, [Next]_vars
  PROVE  Coherent' /\ Past'
  <1> USE ImageRecordAssumption
  <1>1. ASSUME NEW q \in Path, NEW b \in Content, Edit(q, b)
        PROVE  Coherent' /\ Past'
    <2>1. /\ UNCHANGED <<images, job, raced>>
          /\ edits \in Nat /\ edits' = edits + 1
          /\ file' = [file EXCEPT ![q] = [content |-> b, stamp |-> edits + 1]]
      BY <1>1 DEF Edit, db, RecordTypeOK, Stamp
    <2>2. ASSUME NEW p \in Path, NEW c \in Content, NEW s \in Stamp, Says(p, c, s)'
          PROVE  Says(p, c, s) \/ (p = q /\ c = b /\ s = edits + 1)
      <3>1. RowSays(p, c, s)' => RowSays(p, c, s)
        BY <2>1 DEF RowSays
      <3>2. (\E w \in Workers : JobSays(job[w], p, c, s))' =>
              \E w \in Workers : JobSays(job[w], p, c, s)
        BY <2>1 DEF JobSays
      <3>3. FileSays(p, c, s)' =>
              FileSays(p, c, s) \/ (p = q /\ c = b /\ s = edits + 1)
        BY <2>1 DEF FileSays, OnDisk, RecordTypeOK
      <3> QED BY <2>2, <3>1, <3>2, <3>3 DEF Says
    <2>3. Past'
      BY <2>1, <2>2 DEF Past, Stamp
    <2>4. \A p \in Path \ raced : \A c \in Content : ~Says(p, c, edits + 1)
                                                     \/ edits + 1 \notin Stamp
      BY <2>1 DEF Past
    <2>5. Coherent'
      BY <2>1, <2>2, <2>4 DEF Coherent
    <2> QED BY <2>3, <2>5
  <1>2. ASSUME NEW q \in Path, Remove(q)
        PROVE  Coherent' /\ Past'
    <2>1. /\ UNCHANGED <<images, job, raced>>
          /\ edits \in Nat /\ edits' = edits + 1
          /\ file' = [file EXCEPT ![q] = NoFile]
      BY <1>2 DEF Remove, db, RecordTypeOK, Stamp
    <2>2. ASSUME NEW p \in Path, NEW c \in Content, NEW s \in Stamp, Says(p, c, s)'
          PROVE  Says(p, c, s)
      <3>1. RowSays(p, c, s)' => RowSays(p, c, s)
        BY <2>1 DEF RowSays
      <3>2. (\E w \in Workers : JobSays(job[w], p, c, s))' =>
              \E w \in Workers : JobSays(job[w], p, c, s)
        BY <2>1 DEF JobSays
      <3>3. FileSays(p, c, s)' => FileSays(p, c, s)
        BY <2>1 DEF FileSays, OnDisk, RecordTypeOK
      <3> QED BY <2>2, <3>1, <3>2, <3>3 DEF Says
    <2>3. Past'
      BY <2>1, <2>2 DEF Past, Stamp
    <2>4. Coherent'
      BY <2>1, <2>2 DEF Coherent
    <2> QED BY <2>3, <2>4
  <1>3. ASSUME UNCHANGED <<file, edits, images, job, raced>>
        PROVE  Coherent' /\ Past'
    BY <1>3, NothingNew DEF Says, FileSays, RowSays, JobSays, OnDisk
  <1>4. ASSUME NEW p \in Path, Deleted(p)
        PROVE  Coherent' /\ Past'
    BY <1>3, <1>4 DEF Deleted, db
  <1>5. ASSUME NEW p \in Path, NEW w \in Workers, Find(w, p)
        PROVE  Coherent' /\ Past'
    BY <1>5, NothingNewInJob, Silent DEF Find, db, onDisk
  <1>6. ASSUME NEW w \in Workers, Queue(w)
         PROVE  Coherent' /\ Past'
    <2> DEFINE j == [job[w] EXCEPT !.at = "hash"]
    <2>1. job[w] \in Job /\ job[w].at \in Stages
      BY <1>6, JobShape DEF Queue, Stages
    <2>2. j.at = "hash" /\ j.path = job[w].path /\ j.loaded = job[w].loaded
      BY <2>1 DEF Job
    <2>3. \A p, c, s : JobSays(j, p, c, s) => JobSays(job[w], p, c, s)
      BY <2>1, <2>2 DEF JobSays
    <2> HIDE DEF j
    <2>4. /\ Becomes(w, j) \/ Becomes(w, Idle)
          /\ UNCHANGED <<file, edits, images, raced>>
      BY <1>6 DEF Queue, db, onDisk, j
    <2> QED BY <2>3, <2>4, NothingNewInJob, Silent DEF Says
  <1>7. ASSUME NEW w \in Workers, Hash(w)
        PROVE  Coherent' /\ Past'
    <2> DEFINE j == [job[w] EXCEPT !.at = "lookup", !.hash = Reading(w).content]
    <2>1. job[w] \in Job /\ job[w].at \in Stages
      BY <1>7, JobShape DEF Hash, Stages
    <2>2. j.at = "lookup" /\ j.path = job[w].path /\ j.loaded = job[w].loaded
      BY <2>1 DEF Job
    <2>3. \A p, c, s : JobSays(j, p, c, s) => JobSays(job[w], p, c, s)
      BY <2>1, <2>2 DEF JobSays
    <2> HIDE DEF j
    <2>4. Becomes(w, j) /\ UNCHANGED <<file, edits, images, raced>>
      BY <1>7 DEF Hash, db, onDisk, j
    <2> QED BY <2>3, <2>4, NothingNewInJob DEF Says
  <1>8. ASSUME NEW w \in Workers, Lookup(w)
        PROVE  Coherent' /\ Past'
    <2>1. job[w] \in Job /\ job[w].at \in Stages /\ job[w].at = "lookup"
      BY <1>8, JobShape DEF Lookup, Stages
    <2>2. UNCHANGED <<file, edits, images, raced>>
      BY <1>8 DEF Lookup, db, onDisk
    <2>3. ASSUME NEW row, row \in {job[w].loaded, NoRow, images[job[w].path]},
                 Becomes(w, [job[w] EXCEPT !.at = "detect", !.loaded = row])
          PROVE  Coherent' /\ Past'
      <3> DEFINE j == [job[w] EXCEPT !.at = "detect", !.loaded = row]
      <3>1. j.at = "detect" /\ j.path = job[w].path /\ j.loaded = row
        BY <2>1 DEF Job
      <3>2. \A p, c, s : JobSays(j, p, c, s) =>
                           JobSays(job[w], p, c, s) \/ RowSays(p, c, s)
        BY <2>1, <2>3, <3>1 DEF JobSays, RowSays
      <3> HIDE DEF j
      <3>3. Becomes(w, j)
        BY <2>3 DEF j
      <3> QED BY <2>2, <3>2, <3>3, NothingNewInJob DEF Says
    <2>4. CASE Becomes(w, [job[w] EXCEPT !.at = "detect"])
      <3>1. [job[w] EXCEPT !.at = "detect"] =
              [job[w] EXCEPT !.at = "detect", !.loaded = job[w].loaded]
        BY <2>1 DEF Job
      <3> QED BY <2>3, <2>4, <3>1
    <2>5. CASE Becomes(w, Record("finish", job[w].path, job[w].queued))
      BY <2>2, <2>5, NothingNewInJob, Silent
    <2>6. ASSUME NEW p \in Path,
                 Becomes(w, [job[w] EXCEPT !.at = "detect", !.loaded =
                               IF p = job[w].path THEN images[p] ELSE NoRow])
          PROVE  Coherent' /\ Past'
      BY <2>3, <2>6
    <2> QED BY <1>8, <2>4, <2>5, <2>6 DEF Lookup
  <1>9. ASSUME NEW w \in Workers, Detect(w)
        PROVE  Coherent' /\ Past'
    <2> DEFINE j == [job[w] EXCEPT !.at = "stat", !.seen = Reading(w).content]
    <2>1. job[w] \in Job /\ job[w].at \in Stages
      BY <1>9, JobShape DEF Detect, Stages
    <2>2. j.at = "stat" /\ j.path = job[w].path /\ j.loaded = job[w].loaded
      BY <2>1 DEF Job
    <2>3. \A p, c, s : JobSays(j, p, c, s) => JobSays(job[w], p, c, s)
      BY <2>1, <2>2 DEF JobSays
    <2> HIDE DEF j
    <2>4. Becomes(w, j) /\ UNCHANGED <<file, edits, images, raced>>
      BY <1>9 DEF Detect, db, onDisk, j
    <2> QED BY <2>3, <2>4, NothingNewInJob DEF Says
  <1>10. ASSUME NEW w \in Workers, Stat(w)
        PROVE  Coherent' /\ Past'
    <2> DEFINE j == [job[w] EXCEPT !.at = "select", !.stamp = Reading(w).stamp]
    <2>1. job[w] \in Job /\ job[w].at \in Stages /\ job[w].path \in Path
      BY <1>10, JobShape DEF Stat, Stages
    <2>2. /\ j.at = "select" /\ j.path = job[w].path /\ j.loaded = job[w].loaded
          /\ j.hash = job[w].hash /\ j.stamp = file[job[w].path].stamp
      BY <2>1 DEF Job, Reading
    <2>3. /\ Becomes(w, j) /\ UNCHANGED <<file, edits, images>>
          /\ raced \subseteq raced' /\ OnDisk(job[w].path)
      BY <1>10 DEF Stat, db, onDisk, Reading, OnDisk
    <2>4. job[w].path \notin raced' => job[w].hash = file[job[w].path].content
      BY <1>10, <2>1 DEF Stat, Reading
    <2> HIDE DEF j
    <2>5. \A p \in Path \ raced' : \A c, s :
            JobSays(j, p, c, s) => JobSays(job[w], p, c, s) \/ FileSays(p, c, s)
      BY <2>1, <2>2, <2>3, <2>4 DEF JobSays, FileSays
    <2> QED BY <2>3, <2>5, NothingNewInJob DEF Says
  <1>11. ASSUME NEW w \in Workers, Select(w)
         PROVE  Coherent' /\ Past'
    <2>1. job[w] \in Job /\ job[w].at \in Stages /\ job[w].at = "select"
      BY <1>11, JobShape DEF Select, Stages
    <2>2. UNCHANGED <<file, edits, images, raced>>
      BY <1>11 DEF Select, db, onDisk
    <2>3. PICK at \in {"insert", "update"}, row \in {job[w].loaded, images[job[w].path]} :
            Becomes(w, [job[w] EXCEPT !.at = at, !.loaded = row])
      <3>1. [job[w] EXCEPT !.at = "insert"] =
              [job[w] EXCEPT !.at = "insert", !.loaded = job[w].loaded]
        BY <2>1 DEF Job
      <3> QED BY <1>11, <3>1 DEF Select
    <2> DEFINE j == [job[w] EXCEPT !.at = at, !.loaded = row]
    <2>4. /\ j.at \in {"insert", "update"} /\ j.path = job[w].path
          /\ j.loaded = row /\ j.hash = job[w].hash /\ j.stamp = job[w].stamp
      BY <2>1 DEF Job
    <2> HIDE DEF j
    <2>5. \A p, c, s : JobSays(j, p, c, s) =>
                         JobSays(job[w], p, c, s) \/ RowSays(p, c, s)
      BY <2>1, <2>3, <2>4 DEF JobSays, RowSays
    <2>6. Becomes(w, j)
      BY <2>3 DEF j
    <2> QED BY <2>2, <2>5, <2>6, NothingNewInJob DEF Says
  <1>12. ASSUME NEW w \in Workers, Commit(w)
         PROVE  Coherent' /\ Past'
    BY <1>12, WriteCoherent DEF Commit, onDisk
  <1>13. ASSUME NEW w \in Workers, CommitInDoubt(w)
         PROVE  Coherent' /\ Past'
    BY <1>13, WriteCoherent DEF CommitInDoubt, onDisk
  <1>14. ASSUME NEW w \in Workers, Finish(w) \/ Fails(w)
         PROVE  Coherent' /\ Past'
    BY <1>14, NothingNewInJob, Silent DEF Finish, Fails, db, onDisk
  <1>15. ASSUME PhaseA \/ PhaseC
         PROVE  Coherent' /\ Past'
    <2>1. UNCHANGED <<file, edits, job, raced>>
      BY <1>15 DEF PhaseA, PhaseC, onDisk
    <2>2. \A p \in Path :
            images'[p] = images[p]
            \/ \E status \in {"completed", "failed"} :
                 /\ images[p] # NoRow
                 /\ images'[p] = [images[p] EXCEPT !.status = status]
      <3>1. ASSUME NEW has_faces, NEW status \in {"completed", "failed"},
                   Flip([p \in Path |-> Pending(p, has_faces)], status),
                   NEW p \in Path, images'[p] # images[p]
            PROVE  /\ images[p] # NoRow
                   /\ images'[p] = [images[p] EXCEPT !.status = status]
        <4>1. Pending(p, has_faces) /\ images'[p] = [images[p] EXCEPT !.status = status]
          BY <3>1 DEF Flip
        <4> QED BY <4>1 DEF Pending, Status, NoRow
      <3>2. CASE PhaseA
        <4>1. \/ Flip([p \in Path |-> Pending(p, TRUE)], "completed")
              \/ images' = images
          BY <3>2 DEF PhaseA
        <4> QED BY <3>1, <4>1
      <3>3. CASE PhaseC
        <4>1. \/ Flip([p \in Path |-> Pending(p, FALSE)], "failed")
              \/ images' = images
          BY <3>3 DEF PhaseC
        <4> QED BY <3>1, <4>1
      <3> QED BY <1>15, <3>2, <3>3
    <2>3. \A p \in Path : \A c, s : RowSays(p, c, s)' => RowSays(p, c, s)
      <3> SUFFICES ASSUME NEW p \in Path, NEW c, NEW s, RowSays(p, c, s)'
                   PROVE  RowSays(p, c, s)
        OBVIOUS
      <3>1. CASE images'[p] = images[p]
        BY <3>1 DEF RowSays
      <3>2. CASE images[p] # NoRow /\ images'[p] # images[p]
        <4>1. images[p] \in Row
          BY <3>2, Shapes
        <4>2. images'[p].hash = images[p].hash /\ images'[p].stamp = images[p].stamp
          BY <2>2, <3>2, <4>1 DEF Row
        <4> QED BY <3>2, <4>2 DEF RowSays
      <3> QED BY <2>2, <3>1, <3>2
    <2>4. \A p \in Path, c \in Content, s \in Stamp : Says(p, c, s)' => Says(p, c, s)
      BY <2>1, <2>3 DEF Says, FileSays, JobSays, OnDisk
    <2> QED BY <2>1, <2>4, NothingNew
  <1>16. CASE Restart
    <2>1. UNCHANGED <<file, edits, images, raced>> /\ job' = [w \in Workers |-> Idle]
      BY <1>16 DEF Restart, onDisk, db
    <2>2. \A p \in Path, c \in Content, s \in Stamp : Says(p, c, s)' => Says(p, c, s)
      <3> SUFFICES ASSUME NEW p \in Path, NEW c \in Content, NEW s \in Stamp, Says(p, c, s)'
                   PROVE  Says(p, c, s)
        OBVIOUS
      <3>1. ~(\E w \in Workers : JobSays(job[w], p, c, s))'
        BY <2>1 DEF JobSays, Idle, Stages
      <3> QED BY <2>1, <3>1 DEF Says, FileSays, RowSays, OnDisk
    <2> QED BY <2>1, <2>2, NothingNew
  <1>17. CASE UNCHANGED vars
    BY <1>3, <1>17 DEF vars, db, onDisk
  <1> QED
    BY <1>1, <1>2, <1>4, <1>5, <1>6, <1>7, <1>8, <1>9, <1>10, <1>11, <1>12,
       <1>13, <1>14, <1>15, <1>16, <1>17
       DEF Next, Work

-----------------------------------------------------------------------------
(* The theorems.                                                           *)

(* At the start only files and legacy rows speak, and they agree.          *)
LEMMA InitInvariant == ImageRecordAssumption /\ Init => IInv
  <1> SUFFICES ASSUME ImageRecordAssumption, Init PROVE IInv
    OBVIOUS
  <1>1. RecordTypeOK
    BY InitTypes
  <1>2. Ready
    BY DEF Init, Ready, Idle
  <1>3. ASSUME NEW p \in Path, NEW c \in Content, NEW s \in Stamp, Says(p, c, s)
        PROVE  c = file[p].content /\ s = 0
    <2>1. \A w \in Workers : ~JobSays(job[w], p, c, s)
      BY Silent DEF Init
    <2>2. FileSays(p, c, s) => c = file[p].content /\ s = 0
      BY DEF FileSays, Init
    <2>3. RowSays(p, c, s) => c = file[p].content /\ s = 0
      BY DEF RowSays, Init, OldRows, RowOf
    <2> QED BY <1>3, <2>1, <2>2, <2>3 DEF Says
  <1>4. Coherent
    BY <1>3 DEF Coherent
  <1>5. Past
    BY <1>3 DEF Past, Init
  <1> QED BY <1>1, <1>2, <1>4, <1>5 DEF IInv

(* The invariant holds in every reachable state.                           *)
LEMMA Invariance == Spec => []IInv
  <1>1. Init => IInv
    BY InitInvariant, ImageRecordAssumption
  <1>2. IInv /\ [Next]_vars => IInv'
    <2> SUFFICES ASSUME IInv, [Next]_vars
                 PROVE  IInv'
      OBVIOUS
    <2>1. RecordTypeOK /\ Ready /\ Coherent /\ Past
      BY DEF IInv
    <2>2. RecordTypeOK' /\ Ready'
      BY <2>1, TypeStep, ImageRecordAssumption
    <2>3. Coherent' /\ Past'
      BY <2>1, CoherentStep, ImageRecordAssumption
    <2> QED BY <2>2, <2>3 DEF IInv
  <1> QED BY <1>1, <1>2, PTL DEF Spec

(* Every variable keeps its type: in particular a row is only ever pending,*)
(* completed or failed, and a count of faces or a manifest entry stays in  *)
(* its range.                                                              *)
THEOREM RecordTypeCorrect == Spec => []RecordTypeOK
  BY Invariance, PTL DEF IInv

(* A file that needs_processing() skips by its row has the content the row *)
(* names, for any paths, edits, workers, faults and restarts, unless the   *)
(* path is one of the raced.                                               *)
THEOREM SkippedRecorded == Spec => []SkippedIsRecorded
  <1>1. IInv => SkippedIsRecorded
    <2> SUFFICES ASSUME IInv, NEW p \in Path \ raced, OnDisk(p),
                        ~NeedsByTable(p, file[p].stamp)
                 PROVE  images[p].hash = file[p].content
      BY DEF SkippedIsRecorded
    <2>1. Completed(p) /\ images[p].stamp = file[p].stamp
      BY DEF NeedsByTable
    <2>2. images[p] \in Row /\ images[p] # NoRow
      BY <2>1, Shapes DEF IInv, Completed, Status, NoRow
    <2>3. file[p].content \in Content /\ file[p].stamp \in Stamp
      BY Shapes DEF IInv, File
    <2>4. images[p].hash \in Content
      BY <2>2 DEF Row
    <2>5. Says(p, file[p].content, file[p].stamp)
      BY DEF Says, FileSays
    <2>6. Says(p, images[p].hash, file[p].stamp)
      BY <2>1, <2>2 DEF Says, RowSays
    <2> QED BY <2>3, <2>4, <2>5, <2>6 DEF IInv, Coherent
  <1> QED BY <1>1, Invariance, PTL

(* No phase of the recovery, no losing worker and no late UPDATE takes a   *)
(* completed row back, in any step.                                        *)
LEMMA CompletedStep ==
  ASSUME IInv, [Next]_vars, NEW p \in Path, Completed(p)
  PROVE  Completed(p)'
  <1> SUFFICES images'[p].status = "completed"
    BY DEF Completed, Status
  <1> USE DEF Completed, Status
  <1>1. ASSUME NEW w \in Workers, Write(w)
        PROVE  images'[p].status = "completed"
    <2>1. images[p] \in Row /\ images[p] # NoRow
      BY Shapes DEF IInv, NoRow
    <2>2. CASE images'[p] = images[p]
      BY <2>2
    <2>3. CASE images'[p] # images[p]
      <3>1. job[w].at = "update" /\ images'[p] = Updated(w, images[p])
        BY <1>1, <2>1, <2>3 DEF Write, IInv, RecordTypeOK
      <3>2. job[w].hash \in Content /\ job[w].stamp \in Stamp
        BY <3>1 DEF IInv, Ready
      <3> QED BY <2>1, <3>1, <3>2, UpdatedIsRow DEF IInv
    <2> QED BY <2>2, <2>3
  <1>2. CASE PhaseA \/ PhaseC
    BY <1>2 DEF PhaseA, PhaseC, Flip, Pending
  <1>3. CASE UNCHANGED images
    BY <1>3
  <1> QED BY <1>1, <1>2, <1>3 DEF Next, Work, vars, db, Edit, Remove, Deleted, Find, Queue,
             Hash, Lookup, Detect, Stat, Select, Commit, CommitInDoubt, Finish, Fails,
             Restart

(* A completed row stays completed.                                        *)
THEOREM CompletedRowsStay == Spec => CompletedStays
  <1>1. IInv /\ [Next]_vars => [\A p \in Path : Completed(p) => Completed(p)']_vars
    BY CompletedStep
  <1> QED BY <1>1, Invariance, PTL DEF Spec, CompletedStays

=============================================================================
