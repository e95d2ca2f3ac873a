-------------------------- MODULE ImageFacesProofs --------------------------
(***************************************************************************)
(* Proofs about ImageRecord, continued: what the rows and the JSON manifest *)
(* say of the faces table.                                                 *)
(*                                                                         *)
(* A row speaks for the faces that hang from it, a worker in progress for  *)
(* the file it has read, and a manifest entry for the file with the stamp  *)
(* it holds; none of the three invariants of the runs is inductive without *)
(* what the other two say.                                                 *)
(***************************************************************************)
EXTENDS ImageRecordProofs

Writing == {"select", "insert", "update"}

HashRead == Writing \union {"lookup", "detect", "stat"}

(* The faces of content c are in the table, if it has any.                 *)
Covered(c) == c \in Faceless \/ \E q \in Path : c \in faces[q]

(* Faces hang from rows that say so, and a row says what hangs from it.    *)
RowsFit ==
  /\ \A p \in Path : faces[p] # {} =>
       Completed(p) \/ (Status(p) = "pending" /\ images[p].has_faces)
  /\ \A p \in Path \ raced : images[p] # NoRow =>
       /\ images[p].has_faces => images[p].hash \in faces[p] \ Faceless
       /\ Completed(p) /\ ~images[p].has_faces => images[p].hash \in Faceless

(* No stamp is of the future, and what the manifest lets pass is covered.  *)
FilesFit ==
  /\ \A p \in Path : OnDisk(p) => file[p].stamp <= edits
  /\ \A p \in Path : manifest[p] \in 0..edits \union {Unknown}
  /\ raced = {} =>
       \A p \in Path :
         OnDisk(p) /\ manifest[p] = file[p].stamp => Covered(file[p].content)

(* The file is still the one the scan found.                               *)
Unedited(j) == OnDisk(j.path) /\ file[j.path].stamp = j.queued

(* What a worker's record has to do with the files and the tables.         *)
Fits(j) ==
  j.at \in Stages =>
    /\ j.queued <= edits
    /\ j.loaded.status = "completed" => Completed(j.path)
    /\ j.at = "insert" => images[j.path] = NoRow \/ Completed(j.path)
    /\ j.at \in Writing => j.path \in raced \/ j.hash = j.seen
    /\ j.at \in HashRead /\ Unedited(j) => j.hash = file[j.path].content
    /\ j.at = "finish" /\ Unedited(j) /\ raced = {} => Covered(file[j.path].content)

JobsFit == \A w \in Workers : Fits(job[w])

FacesInv == RowsFit /\ FilesFit /\ JobsFit

-----------------------------------------------------------------------------
(* Workers.                                                                *)

(* A record goes on fitting while files only get new stamps, rows are only *)
(* completed and faces only added.                                         *)
LEMMA FitsStays ==
  ASSUME RecordTypeOK, NEW j \in Job \union {Idle}, Fits(j),
         edits' \in Nat, edits <= edits', raced \subseteq raced',
         \A p \in Path : Completed(p) => Completed(p)',
         \A p \in Path : images[p] = NoRow => images'[p] = NoRow \/ Completed(p)',
         \A p \in Path : OnDisk(p)' => file'[p] = file[p] \/ file'[p].stamp > edits,
         \A p \in Path : faces[p] \subseteq faces'[p]
  PROVE  Fits(j)'
<1> SUFFICES ASSUME j.at \in Stages PROVE Fits(j)'
  BY DEF Fits
<1>1. j \in Job /\ j.path \in Path /\ j.queued \in Stamp
  BY DEF Idle, Stages, Job
<1>2. j.queued \in Nat /\ edits \in Nat
  BY <1>1, ImageRecordAssumption DEF Stamp, RecordTypeOK
<1>3. Unedited(j)' => Unedited(j) /\ file'[j.path] = file[j.path]
  <2> SUFFICES ASSUME OnDisk(j.path)', file'[j.path].stamp = j.queued
               PROVE  Unedited(j) /\ file'[j.path] = file[j.path]
    BY DEF Unedited, OnDisk
  <2>1. j.queued <= edits
    BY DEF Fits
  <2>2. file'[j.path] = file[j.path]
    BY <1>1, <1>2, <2>1
  <2> QED BY <2>2 DEF Unedited, OnDisk
<1>4. \A c : Covered(c) => c \in Faceless \/ \E q \in Path : c \in faces'[q]
  BY DEF Covered
<1>5. j.queued <= edits'
  BY <1>2 DEF Fits
<1>6. /\ j.loaded.status = "completed" => Completed(j.path)'
      /\ j.at = "insert" => images'[j.path] = NoRow \/ Completed(j.path)'
      /\ j.at \in Writing => j.path \in raced' \/ j.hash = j.seen
  BY <1>1 DEF Fits
<1>7. j.at \in HashRead /\ Unedited(j)' => j.hash = file'[j.path].content
  BY <1>3 DEF Fits
<1>8. j.at = "finish" /\ Unedited(j)' /\ raced' = {} => Covered(file'[j.path].content)
  BY <1>3 DEF Fits
<1> QED BY <1>4, <1>5, <1>6, <1>7, <1>8 DEF Fits, Covered, Completed, Status

(* A step of one worker that writes nothing but its own record.            *)
LEMMA JobOnly ==
  ASSUME RecordTypeOK, FacesInv, UNCHANGED <<onDisk, db, manifest>>,
         raced \subseteq raced',
         NEW w \in Workers, NEW j \in Job \union {Idle}, Becomes(w, j), Fits(j)'
  PROVE  FacesInv'
<1> USE DEF onDisk, db
<1>1. RowsFit'
  BY DEF FacesInv, RowsFit, Completed, Status
<1>2. FilesFit'
  BY DEF FacesInv, FilesFit, OnDisk, Covered
<1>3. ASSUME NEW v \in Workers PROVE Fits(job[v])'
  <2>1. CASE v = w
    <3>1. job'[v] = j
      BY <2>1 DEF Becomes, RecordTypeOK
    <3> QED BY <3>1 DEF Fits, Unedited, Completed, Status, OnDisk, Covered
  <2>2. CASE v # w
    <3>1. job'[v] = job[v] /\ Fits(job[v])
      BY <2>2 DEF Becomes, RecordTypeOK, FacesInv, JobsFit
    <3> QED BY <3>1 DEF Fits, Unedited, Completed, Status, OnDisk, Covered
  <2> QED BY <2>1, <2>2
<1> QED BY <1>1, <1>2, <1>3 DEF FacesInv, JobsFit

(* A worker at rest claims nothing.                                        *)
LEMMA IdleFits == \A j : j = Idle => Fits(j)
  BY DEF Fits, Idle, Stages

(* Before the write a worker only reads: what it holds is of the file and  *)
(* the row it has read, or its path has been recorded as raced.            *)
LEMMA ReadingStep ==
  ASSUME ImageRecordAssumption, IInv, FacesInv, NEW w \in Workers,
         Queue(w) \/ Hash(w) \/ Lookup(w) \/ Detect(w) \/ Stat(w) \/ Select(w)
  PROVE  FacesInv'
  <1>1. /\ RecordTypeOK /\ Ready /\ RowsFit /\ FilesFit /\ Fits(job[w])
        /\ UNCHANGED <<onDisk, db, manifest>>
    BY DEF IInv, FacesInv, JobsFit, Queue, Hash, Lookup, Detect, Stat, Select, db
  <1>2. job[w].at \in Stages
    BY DEF Queue, Hash, Lookup, Detect, Stat, Select, Stages
  <1>3. /\ job[w] \in Job /\ job[w].path \in Path /\ job[w].queued \in Stamp
        /\ job[w].loaded \in Row \union {NoRow}
    BY <1>1, <1>2, JobShape
  <1>4. PICK b : b = job[w]
    OBVIOUS
  <1>5. /\ UNCHANGED <<file, edits, images, faces, manifest>>
        /\ b \in Job /\ b.path \in Path /\ Fits(b) /\ b.at \in Stages
    BY <1>1, <1>2, <1>3, <1>4 DEF onDisk, db
  <1> USE <1>4, <1>5
  <1>6. ASSUME NEW j \in Job \union {Idle}, Becomes(w, j), Fits(j)', raced \subseteq raced'
        PROVE  FacesInv'
    BY <1>1, <1>6, JobOnly
  <1>7. CASE Queue(w)
    <2>1. CASE Becomes(w, Idle)
      BY <2>1, <1>6, <1>7, IdleFits DEF Queue, Fits, Idle, Stages
    <2>2. CASE Becomes(w, [job[w] EXCEPT !.at = "hash"])
      <3>1. PICK j : j = [b EXCEPT !.at = "hash"]
        OBVIOUS
      <3>2. /\ j \in Job /\ j.at = "hash" /\ j.path = b.path /\ j.queued = b.queued
            /\ j.loaded = b.loaded
        BY <3>1 DEF Job, Stages
      <3>3. Fits(j)'
        BY <3>2 DEF Fits, Writing, HashRead, Completed, Status
      <3> QED BY <2>2, <3>1, <3>2, <3>3, <1>6, <1>7 DEF Queue
    <2> QED BY <1>7, <2>1, <2>2 DEF Queue
  <1>8. CASE Hash(w)
    <2>1. PICK j : j = [b EXCEPT !.at = "lookup", !.hash = file[b.path].content]
      OBVIOUS
    <2>2. file[b.path].content \in Content
      BY <1>1, <1>8, Shapes DEF Hash, Reading, OnDisk, File
    <2>3. /\ j \in Job /\ j.at = "lookup" /\ j.path = b.path /\ j.queued = b.queued
          /\ j.loaded = b.loaded /\ j.hash = file[b.path].content
      BY <2>1, <2>2 DEF Job, Stages
    <2>4. Fits(j)'
      BY <2>3 DEF Fits, Writing, HashRead, Completed, Status
    <2> QED BY <2>1, <2>3, <2>4, <1>6, <1>8 DEF Hash, Reading
  <1>9. CASE Lookup(w)
    <2>1. b.at = "lookup" /\ raced' = raced
      BY <1>9 DEF Lookup
    <2>2. ASSUME NEW j, Becomes(w, j), NEW row \in {b.loaded, NoRow, images[b.path]},
                 j = [b EXCEPT !.at = "detect", !.loaded = row]
          PROVE  FacesInv'
      <3>1. row \in Row \union {NoRow}
        BY <1>1, <1>3 DEF RecordTypeOK
      <3>2. /\ j \in Job /\ j.at = "detect" /\ j.path = b.path /\ j.queued = b.queued
            /\ j.loaded = row /\ j.hash = b.hash
        BY <2>2, <3>1 DEF Job, Stages
      <3>3. row.status = "completed" => Completed(b.path)
        BY DEF Fits, NoRow, Completed, Status
      <3>4. Fits(j)'
        BY <2>1, <3>2, <3>3
           DEF Fits, Writing, HashRead, Unedited, OnDisk, Completed, Status
      <3> QED BY <2>1, <2>2, <3>2, <3>4, <1>6
    <2>3. CASE Becomes(w, [job[w] EXCEPT !.at = "detect"])
      <3>1. [b EXCEPT !.at = "detect"] = [b EXCEPT !.at = "detect", !.loaded = b.loaded]
        BY DEF Job
      <3> QED BY <2>2, <2>3, <3>1
    <2>4. ASSUME NEW p \in Path, images[p].hash = job[w].hash,
                 Completed(p),
                 Becomes(w, Record("finish", job[w].path, job[w].queued))
          PROVE  FacesInv'
      <3>1. PICK j : j = Record("finish", b.path, b.queued)
        OBVIOUS
      <3>2. "finish" \in Stages
        BY DEF Stages
      <3>3. /\ j \in Job /\ j.at = "finish" /\ j.path = b.path /\ j.queued = b.queued
            /\ j.loaded = NoRow
        BY <3>1, <3>2, <1>3, RecordShape DEF Record
      <3>4. images[p] # NoRow /\ images[p] \in Row
        BY <1>1, <2>4, Shapes DEF Completed, Status
      <3>5. raced = {} => Covered(b.hash)
        <4>1. p \notin raced => (images[p].has_faces => images[p].hash \in faces[p])
                                /\ (~images[p].has_faces => images[p].hash \in Faceless)
          BY <1>1, <2>4, <3>4 DEF RowsFit
        <4> QED BY <2>4, <4>1 DEF Covered
      <3>6. Unedited(b) => b.hash = file[b.path].content
        BY <2>1 DEF Fits, HashRead
      <3>7. Fits(j)'
        BY <2>1, <3>3, <3>5, <3>6
           DEF Fits, Writing, HashRead, Unedited, OnDisk, Covered, NoRow
      <3> QED BY <2>1, <2>4, <3>1, <3>3, <3>7, <1>6
    <2>5. ASSUME NEW p \in Path,
                 Becomes(w, [job[w] EXCEPT !.at = "detect", !.loaded =
                               IF p = job[w].path THEN images[p] ELSE NoRow])
          PROVE  FacesInv'
      BY <2>2, <2>5
    <2> QED BY <1>9, <2>3, <2>4, <2>5 DEF Lookup
  <1>10. CASE Detect(w)
    <2>1. PICK j : j = [b EXCEPT !.at = "stat", !.seen = file[b.path].content]
      OBVIOUS
    <2>2. file[b.path].content \in Content /\ b.at = "detect" /\ raced' = raced
      BY <1>1, <1>10, Shapes DEF Detect, Reading, OnDisk, File
    <2>3. /\ j \in Job /\ j.at = "stat" /\ j.path = b.path /\ j.queued = b.queued
          /\ j.loaded = b.loaded /\ j.hash = b.hash
      BY <2>1, <2>2 DEF Job, Stages
    <2>4. Fits(j)'
      BY <2>2, <2>3 DEF Fits, Writing, HashRead, Unedited, OnDisk, Completed, Status
    <2> QED BY <2>1, <2>2, <2>3, <2>4, <1>6, <1>10 DEF Detect, Reading
  <1>11. CASE Stat(w)
    <2>1. PICK j : j = [b EXCEPT !.at = "select", !.stamp = file[b.path].stamp]
      OBVIOUS
    <2>2. /\ file[b.path].stamp \in Stamp /\ b.at = "stat" /\ raced \subseteq raced'
          /\ b.path \in raced' \/ b.hash = b.seen
      BY <1>1, <1>11, Shapes DEF Stat, Reading, OnDisk, File
    <2>3. file[b.path].stamp \in 0..Unknown
      BY <2>2 DEF Stamp, Unknown, ImageRecordAssumption
    <2>4. /\ j \in Job /\ j.at = "select" /\ j.path = b.path /\ j.queued = b.queued
          /\ j.loaded = b.loaded /\ j.hash = b.hash /\ j.seen = b.seen
      BY <2>1, <2>2, <2>3 DEF Job, Stages
    <2>5. Fits(j)'
      BY <2>2, <2>4 DEF Fits, Writing, HashRead, Unedited, OnDisk, Completed, Status
    <2> QED BY <2>1, <2>2, <2>4, <2>5, <1>6, <1>11 DEF Stat, Reading
  <1>12. CASE Select(w)
    <2>1. b.at = "select" /\ raced' = raced
      BY <1>12 DEF Select
    <2>2. CASE images[b.path] = NoRow
      <3>1. PICK j : j = [b EXCEPT !.at = "insert"]
        OBVIOUS
      <3>2. /\ j \in Job /\ j.at = "insert" /\ j.path = b.path /\ j.queued = b.queued
            /\ j.loaded = b.loaded /\ j.hash = b.hash /\ j.seen = b.seen
        BY <3>1 DEF Job, Stages
      <3>3. Fits(j)'
        BY <2>1, <2>2, <3>2
           DEF Fits, Writing, HashRead, Unedited, OnDisk, Completed, Status
      <3> QED BY <2>1, <2>2, <3>1, <3>2, <3>3, <1>6, <1>12 DEF Select
    <2>3. CASE images[b.path] # NoRow
      <3>1. PICK row : row = IF b.loaded = NoRow THEN images[b.path] ELSE b.loaded
        OBVIOUS
      <3>2. row \in Row \union {NoRow}
        BY <1>1, <1>3, <3>1 DEF RecordTypeOK
      <3>3. PICK j : j = [b EXCEPT !.at = "update", !.loaded = row]
        OBVIOUS
      <3>4. /\ j \in Job /\ j.at = "update" /\ j.path = b.path /\ j.queued = b.queued
            /\ j.loaded = row /\ j.hash = b.hash /\ j.seen = b.seen
        BY <3>2, <3>3 DEF Job, Stages
      <3>5. row.status = "completed" => Completed(b.path)
        BY <3>1 DEF Fits, Completed, Status
      <3>6. Fits(j)'
        BY <2>1, <3>4, <3>5
           DEF Fits, Writing, HashRead, Unedited, OnDisk, Completed, Status
      <3>7. Becomes(w, j)
        BY <1>12, <2>3, <3>1, <3>3 DEF Select, Job
      <3> QED BY <2>1, <3>4, <3>6, <3>7, <1>6
    <2> QED BY <2>2, <2>3
  <1> QED BY <1>7, <1>8, <1>9, <1>10, <1>11, <1>12

(* A commit completes its row. Unless the path has been raced, the row then *)
(* is another worker's or says what this one detected.                      *)
LEMMA Written ==
  ASSUME IInv, FacesInv, [Next]_vars, NEW w \in Workers, Write(w),
         NEW p, p = job[w].path
  PROVE  /\ p \in Path /\ job[w].at \in Writing /\ job[w] \in Job
         /\ job[w].seen \in Content
         /\ \A q \in Path \ {p} : images'[q] = images[q] /\ faces'[q] = faces[q]
         /\ faces'[p] = faces[p] \union Detected(w)
         /\ raced \subseteq raced'
         /\ Completed(p)'
         /\ p \notin raced' =>
              /\ p \notin raced /\ job[w].hash = job[w].seen
              /\ \/ images[p] # NoRow /\ images'[p] = images[p]
                 \/ /\ images'[p].hash = job[w].hash
                    /\ images'[p].has_faces = (Detected(w) # {})
  <1>1. RecordTypeOK /\ Ready /\ Fits(job[w])
    BY DEF IInv, FacesInv, JobsFit
  <1>2. job[w].at \in {"insert", "update"} /\ job[w].at \in Stages
    BY DEF Write, Stages
  <1>3. /\ job[w] \in Job /\ p \in Path /\ job[w].loaded \in Row \union {NoRow}
        /\ job[w].hash \in Content /\ job[w].seen \in Content /\ job[w].stamp \in Stamp
    BY <1>1, <1>2, JobShape DEF Ready
  <1>4. /\ \A q \in Path \ {p} : images'[q] = images[q] /\ faces'[q] = faces[q]
        /\ faces'[p] = faces[p] \union Detected(w)
        /\ raced \subseteq raced' /\ (Overtaken(w) => p \in raced')
    BY <1>1, <1>3 DEF Write, RecordTypeOK
  <1>5. job[w].at \in Writing /\ (p \in raced \/ job[w].hash = job[w].seen)
    BY <1>1, <1>2 DEF Fits, Writing
  <1>6. CASE job[w].at = "insert" /\ images[p] = NoRow
    <2>1. images'[p] = NewRow(w)
      BY <1>1, <1>3, <1>6 DEF Write, RecordTypeOK
    <2> QED BY <1>3, <1>4, <1>5, <2>1 DEF NewRow, Completed, Status
  <1>7. CASE job[w].at = "insert" /\ images[p] # NoRow
    <2>1. images'[p] = images[p]
      BY <1>7 DEF Write
    <2>2. Completed(p)
      BY <1>1, <1>2, <1>7 DEF Fits
    <2> QED BY <1>3, <1>4, <1>5, <1>7, <2>1, <2>2 DEF Completed, Status
  <1>8. CASE job[w].at = "update"
    <2>1. /\ images[p] # NoRow /\ job[w].loaded # NoRow
          /\ images[p] \in Row /\ job[w].loaded \in Row
      BY <1>1, <1>3, <1>8 DEF Ready, RecordTypeOK
    <2>2. images'[p] = Updated(w, images[p])
      BY <1>1, <1>3, <1>8 DEF Write, RecordTypeOK
    <2>3. DOMAIN images[p] = {"status", "hash", "stamp", "has_faces"}
      BY <2>1 DEF Row
    <2>4. /\ images'[p].status = IF job[w].loaded.status # "completed"
                                 THEN "completed" ELSE images[p].status
          /\ images'[p].hash = IF job[w].hash # job[w].loaded.hash
                               THEN job[w].hash ELSE images[p].hash
          /\ images'[p].has_faces = IF (Detected(w) # {}) # job[w].loaded.has_faces
                                    THEN Detected(w) # {} ELSE images[p].has_faces
      BY <2>2, <2>3 DEF Updated, NewRow
    <2>5. images'[p].status = "completed"
      BY <1>1, <1>2, <2>4 DEF Fits, Completed, Status
    <2>6. p \notin raced' =>
            images[p].hash = job[w].loaded.hash
            /\ images[p].has_faces = job[w].loaded.has_faces
      BY <1>4, <1>8 DEF Overtaken
    <2>7. p \notin raced' => images'[p].hash = job[w].hash
      BY <2>4, <2>6
    <2>8. p \notin raced' => images'[p].has_faces = (Detected(w) # {})
      BY <2>4, <2>6
    <2> QED BY <1>3, <1>4, <1>5, <2>5, <2>7, <2>8 DEF Completed, Status
  <1> QED BY <1>2, <1>6, <1>7, <1>8

(* The records of the others go on fitting in every step of the program.   *)
LEMMA OthersFit ==
  ASSUME ImageRecordAssumption, IInv, FacesInv, [Next]_vars,
         raced \subseteq raced', NEW j \in Job \union {Idle}, Fits(j),
         edits' \in Nat, edits <= edits',
         \A p \in Path : images[p] = NoRow => images'[p] = NoRow \/ Completed(p)',
         \A p \in Path : OnDisk(p)' => file'[p] = file[p] \/ file'[p].stamp > edits,
         \A p \in Path : faces[p] \subseteq faces'[p]
  PROVE  Fits(j)'
  <1>1. \A p \in Path : Completed(p) => Completed(p)'
    BY CompletedStep
  <1> QED BY <1>1, FitsStays DEF IInv

(* A commit keeps rows, faces and workers in step, for the one that writes  *)
(* and for those that have read before it wrote.                            *)
LEMMA WriteStep ==
  ASSUME ImageRecordAssumption, IInv, FacesInv, [Next]_vars, NEW w \in Workers,
         Write(w), UNCHANGED <<onDisk, manifest>>,
         \/ Becomes(w, Record("finish", job[w].path, job[w].queued))
         \/ Becomes(w, Idle)
  PROVE  FacesInv'
  <1>1. PICK b : b = job[w]
    OBVIOUS
  <1>2. PICK p : p = job[w].path
    OBVIOUS
  <1>3. PICK found : found = Detected(w)
    OBVIOUS
  <1>4. /\ p \in Path /\ b.at \in Writing /\ b \in Job /\ b.seen \in Content
        /\ p = b.path /\ found = {b.seen} \ Faceless
        /\ \A q \in Path \ {p} : images'[q] = images[q] /\ faces'[q] = faces[q]
        /\ faces'[p] = faces[p] \union found
        /\ raced \subseteq raced'
        /\ Completed(p)'
        /\ p \notin raced' =>
              /\ p \notin raced /\ b.hash = b.seen
              /\ \/ images[p] # NoRow /\ images'[p] = images[p]
                 \/ /\ images'[p].hash = b.hash
                    /\ images'[p].has_faces = (found # {})
    BY <1>1, <1>2, <1>3, Written DEF Detected
  <1>5. /\ RecordTypeOK /\ RowsFit /\ FilesFit /\ Fits(b)
        /\ UNCHANGED <<file, edits, manifest>> /\ edits \in Nat
    BY <1>1, ImageRecordAssumption
       DEF IInv, FacesInv, JobsFit, onDisk, RecordTypeOK, Stamp
  <1>6. \A q \in Path : faces[q] \subseteq faces'[q]
    BY <1>4
  <1>7. RowsFit'
    <2>1. ASSUME NEW q \in Path, faces'[q] # {}
          PROVE  Completed(q)' \/ (Status(q) = "pending" /\ images[q].has_faces)'
      BY <1>4, <1>5, <2>1 DEF RowsFit, Completed, Status
    <2>2. ASSUME NEW q \in Path \ raced', images'[q] # NoRow
          PROVE  /\ images'[q].has_faces => images'[q].hash \in faces'[q] \ Faceless
                 /\ Completed(q)' /\ ~images'[q].has_faces => images'[q].hash \in Faceless
      <3>1. CASE q # p
        BY <1>4, <1>5, <2>2, <3>1 DEF RowsFit, Completed, Status
      <3>2. CASE q = p /\ images[p] # NoRow /\ images'[p] = images[p]
        BY <1>4, <1>5, <1>6, <2>2, <3>2 DEF RowsFit, Completed, Status
      <3>3. CASE q = p /\ images'[p].hash = b.seen /\ images'[p].has_faces = (found # {})
        <4>1. found # {} <=> b.seen \notin Faceless
          BY <1>4
        <4>2. b.seen \notin Faceless => b.seen \in faces'[p]
          BY <1>4
        <4>3. images'[p].has_faces <=> b.seen \notin Faceless
          BY <3>3, <4>1
        <4> QED BY <3>3, <4>2, <4>3
      <3> QED BY <1>4, <2>2, <3>1, <3>2, <3>3
    <2> QED BY <2>1, <2>2 DEF RowsFit
  <1>8. \A c : Covered(c) => Covered(c)'
    BY <1>6 DEF Covered
  <1>9. FilesFit'
    BY <1>4, <1>5, <1>8 DEF FilesFit, OnDisk
  <1>10. ASSUME NEW j \in Job \union {Idle}, Fits(j) PROVE Fits(j)'
    <2>1. \A q \in Path : images[q] = NoRow => images'[q] = NoRow \/ Completed(q)'
      BY <1>4
    <2>2. \A q \in Path : OnDisk(q)' => file'[q] = file[q] \/ file'[q].stamp > edits
      BY <1>5
    <2> QED BY <1>4, <1>5, <1>6, <1>10, <2>1, <2>2, OthersFit
  <1>11. ASSUME NEW v \in Workers PROVE Fits(job[v])'
    <2>1. CASE v # w
      <3>1. PICK j : j = job[v]
        OBVIOUS
      <3>2. j \in Job \union {Idle} /\ Fits(j) /\ job'[v] = j
        BY <1>5, <2>1, <3>1 DEF Becomes, RecordTypeOK, FacesInv, JobsFit
      <3>3. Fits(j)'
        BY <1>10, <3>2
      <3> QED BY <3>2, <3>3 DEF Fits, Unedited
    <2>2. CASE job'[v] = Idle
      BY <2>2 DEF Fits, Idle, Stages
    <2>3. CASE v = w /\ job'[v] = Record("finish", b.path, b.queued)
      <3>1. PICK j : j = job'[v]
        OBVIOUS
      <3>2. /\ j.at = "finish" /\ j.path = p /\ j.queued = b.queued /\ j.loaded = NoRow
        BY <1>4, <2>3, <3>1 DEF Record
      <3>3. b.queued <= edits
        BY <1>4, <1>5 DEF Fits, Writing, Stages
      <3>4. Unedited(b) /\ raced' = {} => Covered(file[p].content)'
        <4>1. Unedited(b) => b.hash = file[p].content
          BY <1>4, <1>5 DEF Fits, Writing, HashRead, Stages
        <4>2. b.seen \in Faceless \/ b.seen \in faces'[p]
          BY <1>4
        <4> QED BY <1>4, <1>5, <4>1, <4>2 DEF Covered
      <3>5. Fits(j)'
        BY <1>4, <1>5, <3>2, <3>3, <3>4
           DEF Fits, Writing, HashRead, Unedited, OnDisk, NoRow
      <3> QED BY <3>1, <3>5 DEF Fits, Unedited
    <2> QED BY <1>1, <1>5, <2>1, <2>2, <2>3 DEF Becomes, RecordTypeOK
  <1> QED BY <1>7, <1>9, <1>11 DEF FacesInv, JobsFit

-----------------------------------------------------------------------------
(* The other steps.                                                        *)

(* The owner of the files and the deletion event: what changes gets a stamp *)
(* that no row, worker or manifest entry can have.                         *)
LEMMA FileStep ==
  ASSUME ImageRecordAssumption, IInv, FacesInv, [Next]_vars, NEW p \in Path,
         (\E c \in Content : Edit(p, c)) \/ Remove(p) \/ Deleted(p)
  PROVE  FacesInv'
  <1>1. /\ RecordTypeOK /\ RowsFit /\ FilesFit /\ edits \in Nat
        /\ file \in [Path -> File \union {NoFile}]
    BY ImageRecordAssumption DEF IInv, FacesInv, RecordTypeOK, Stamp
  <1>2. /\ UNCHANGED <<images, faces, job, raced>>
        /\ edits' \in Nat /\ edits <= edits'
        /\ \A q \in Path : OnDisk(q)' =>
             \/ file'[q] = file[q] /\ OnDisk(q)
             \/ file'[q].stamp = edits' /\ edits' > edits
        /\ \A q \in Path : manifest'[q] = manifest[q] \/ manifest'[q] = Unknown
    <2>1. ASSUME NEW c \in Content, Edit(p, c)
          PROVE  /\ UNCHANGED <<images, faces, job, raced, manifest>>
                 /\ edits' = edits + 1
                 /\ \A q \in Path : OnDisk(q)' =>
                      \/ file'[q] = file[q] /\ OnDisk(q)
                      \/ file'[q].stamp = edits'
      BY <1>1, <2>1 DEF Edit, db, OnDisk
    <2>2. CASE Remove(p)
      BY <1>1, <2>2 DEF Remove, db, OnDisk
    <2>3. CASE Deleted(p)
      BY <1>1, <2>3 DEF Deleted, db, OnDisk, RecordTypeOK
    <2> QED BY <1>1, <2>1, <2>2, <2>3
  <1>3. RowsFit'
    BY <1>1, <1>2 DEF RowsFit, Completed, Status
  <1>4. FilesFit'
    <2>1. \A q \in Path : OnDisk(q)' => file'[q].stamp <= edits' /\ file'[q].stamp <= MaxEdits
      <3>1. edits' <= MaxEdits
        BY <1>1, ImageRecordAssumption DEF Edit, Remove, Deleted, RecordTypeOK, Stamp
      <3>2. \A q \in Path : OnDisk(q) => file[q].stamp <= edits /\ file[q].stamp \in Nat
        BY <1>1, Shapes, ImageRecordAssumption DEF FilesFit, File, Stamp
      <3> QED BY <1>1, <1>2, <3>1, <3>2, ImageRecordAssumption
    <2>2. \A q \in Path : manifest'[q] \in 0..edits' \union {Unknown}
      BY <1>1, <1>2 DEF FilesFit
    <2>3. ASSUME raced' = {}, NEW q \in Path, OnDisk(q)', manifest'[q] = file'[q].stamp
          PROVE  Covered(file[q].content)'
      <3>1. manifest'[q] # Unknown
        BY <2>1, <2>3, ImageRecordAssumption DEF Unknown
      <3>2. manifest'[q] = manifest[q] /\ manifest[q] \in 0..edits
        BY <1>1, <1>2, <3>1 DEF FilesFit
      <3>3. ~(file'[q].stamp = edits' /\ edits' > edits)
        BY <1>1, <1>2, <2>3, <3>2
      <3>4. file'[q] = file[q] /\ OnDisk(q)
        BY <1>2, <2>3, <3>3
      <3> QED BY <1>1, <1>2, <2>3, <3>2, <3>4 DEF FilesFit, Covered
    <2> QED BY <2>1, <2>2, <2>3 DEF FilesFit
  <1>5. ASSUME NEW w \in Workers PROVE Fits(job[w])'
    <2>1. PICK j : j = job[w]
      OBVIOUS
    <2>2. j \in Job \union {Idle} /\ Fits(j) /\ job'[w] = j
      BY <1>1, <1>2, <2>1 DEF RecordTypeOK, FacesInv, JobsFit
    <2>3. Fits(j)'
      BY <1>2, <2>2, OthersFit
    <2> QED BY <2>2, <2>3 DEF Fits, Unedited
  <1> QED BY <1>3, <1>4, <1>5 DEF FacesInv, JobsFit

(* The scan finds a file with the stamp it has; a worker that is through   *)
(* enters that stamp in the manifest; one that fails leaves nothing.       *)
LEMMA QueueStep ==
  ASSUME ImageRecordAssumption, IInv, FacesInv, NEW w \in Workers,
         (\E p \in Path : Find(w, p)) \/ Finish(w) \/ Fails(w)
  PROVE  FacesInv'
  <1>1. RecordTypeOK /\ RowsFit /\ FilesFit /\ Fits(job[w])
    BY DEF IInv, FacesInv, JobsFit
  <1>2. ASSUME NEW p \in Path, Find(w, p) PROVE FacesInv'
    <2>1. PICK j : j = Record("found", p, file[p].stamp)
      OBVIOUS
    <2>2. /\ file[p].stamp \in Stamp /\ file[p].stamp <= edits
          /\ "found" \in Stages
      BY <1>1, <1>2, Shapes DEF Find, File, FilesFit, Stages
    <2>3. /\ j \in Job /\ j.at = "found" /\ j.loaded = NoRow
          /\ j.queued = file[p].stamp
      BY <2>1, <2>2, RecordShape DEF Record
    <2>4. Becomes(w, j) /\ UNCHANGED <<onDisk, db, manifest, raced>> /\ edits' = edits
      BY <1>2, <2>1 DEF Find, onDisk
    <2>5. Fits(j)'
      BY <2>2, <2>3, <2>4 DEF Fits, Writing, HashRead, NoRow
    <2> QED BY <1>1, <2>3, <2>4, <2>5, JobOnly
  <1>3. CASE Fails(w)
    <2>1. Becomes(w, Idle) /\ UNCHANGED <<onDisk, db, manifest, raced>>
      BY <1>3 DEF Fails
    <2>2. PICK j : j = Idle
      OBVIOUS
    <2>3. Fits(j)'
      BY <2>2 DEF Fits, Idle, Stages
    <2> QED BY <1>1, <2>1, <2>2, <2>3, JobOnly
  <1>4. CASE Finish(w)
    <2>1. /\ job[w].at = "finish" /\ job[w].path \in Path /\ job[w].queued \in Stamp
          /\ job[w].queued <= edits
      BY <1>1, <1>4, JobShape DEF Finish, Stages, Fits
    <2>2. /\ manifest' = [manifest EXCEPT ![job[w].path] = job[w].queued]
          /\ job' = [job EXCEPT ![w] = Idle]
          /\ UNCHANGED <<file, edits, images, faces, raced>>
      BY <1>4 DEF Finish, Becomes, onDisk, db
    <2>3. RowsFit'
      BY <1>1, <2>2 DEF RowsFit, Completed, Status
    <2>4. FilesFit'
      <3>1. \A p \in Path : manifest'[p] \in 0..edits \union {Unknown}
        BY <1>1, <2>1, <2>2, ImageRecordAssumption
           DEF FilesFit, RecordTypeOK, Stamp
      <3>2. ASSUME raced = {}, NEW p \in Path, OnDisk(p), manifest'[p] = file[p].stamp
            PROVE  Covered(file[p].content)
        <4>1. CASE p = job[w].path
          BY <1>1, <2>1, <2>2, <3>2, <4>1
             DEF RecordTypeOK, Fits, Unedited, Stages
        <4>2. CASE p # job[w].path
          BY <1>1, <2>2, <3>2, <4>2 DEF RecordTypeOK, FilesFit
        <4> QED BY <4>1, <4>2
      <3> QED BY <1>1, <2>2, <3>1, <3>2 DEF FilesFit, Covered, OnDisk
    <2>5. ASSUME NEW v \in Workers PROVE Fits(job[v])'
      <3>1. CASE v = w
        BY <1>1, <2>2, <3>1 DEF Fits, Idle, Stages, RecordTypeOK
      <3>2. CASE v # w
        <4>1. job'[v] = job[v] /\ Fits(job[v])
          BY <1>1, <2>2, <3>2 DEF RecordTypeOK, FacesInv, JobsFit
        <4> QED BY <2>2, <4>1 DEF Fits, Unedited, Covered, OnDisk, Completed, Status
      <3> QED BY <3>1, <3>2
    <2> QED BY <2>3, <2>4, <2>5 DEF FacesInv, JobsFit
  <1> QED BY <1>2, <1>3, <1>4

(* The recovery completes rows that have their faces and gives up rows that *)
(* have none.                                                              *)
LEMMA RecoveryStep ==
  ASSUME ImageRecordAssumption, IInv, FacesInv, [Next]_vars, PhaseA \/ PhaseC
  PROVE  FacesInv'
  <1>1. RecordTypeOK /\ RowsFit /\ FilesFit /\ edits \in Nat
    BY ImageRecordAssumption DEF IInv, FacesInv, RecordTypeOK, Stamp
  <1>2. UNCHANGED <<file, edits, manifest, faces, job, raced>>
    BY DEF PhaseA, PhaseC, onDisk
  <1>3. ASSUME NEW p \in Path
        PROVE  \/ images'[p] = images[p]
               \/ /\ images[p] \in Row /\ Pending(p, TRUE)
                  /\ images'[p] = [images[p] EXCEPT !.status = "completed"]
               \/ /\ images[p] \in Row /\ Pending(p, FALSE)
                  /\ images'[p] = [images[p] EXCEPT !.status = "failed"]
    <2>1. \A b : Pending(p, b) => images[p] \in Row
      BY <1>1, Shapes DEF Pending
    <2>2. CASE PhaseA
      <3>1. \/ images' = images
            \/ Flip([q \in Path |-> Pending(q, TRUE)], "completed")
        BY <2>2 DEF PhaseA
      <3> QED BY <2>1, <3>1 DEF Flip
    <2>3. CASE PhaseC
      <3>1. \/ images' = images
            \/ Flip([q \in Path |-> Pending(q, FALSE)], "failed")
        BY <2>3 DEF PhaseC
      <3> QED BY <2>1, <3>1 DEF Flip
    <2> QED BY <2>2, <2>3
  <1>4. ASSUME NEW p \in Path
        PROVE  \/ images'[p] = images[p]
               \/ /\ images[p] # NoRow /\ images'[p].hash = images[p].hash
                  /\ images'[p].has_faces = images[p].has_faces
                  /\ images[p].status = "pending"
                  /\ \/ images[p].has_faces = TRUE /\ images'[p].status = "completed"
                     \/ images[p].has_faces = FALSE /\ images'[p].status = "failed"
    BY <1>3 DEF Row, NoRow, Pending, Status
  <1>5. RowsFit'
    <2>1. ASSUME NEW p \in Path, faces[p] # {}
          PROVE  (Completed(p) \/ (Status(p) = "pending" /\ images[p].has_faces))'
      <3>1. Completed(p) \/ (Status(p) = "pending" /\ images[p].has_faces)
        BY <1>1, <2>1 DEF RowsFit
      <3>2. Completed(p) => Completed(p)'
        BY CompletedStep
      <3>3. CASE images'[p] = images[p]
        BY <3>1, <3>3 DEF Completed, Status
      <3> QED BY <1>4, <3>1, <3>2, <3>3 DEF Completed, Status
    <2>2. ASSUME NEW p \in Path \ raced, images'[p] # NoRow
          PROVE  /\ images'[p].has_faces => images'[p].hash \in faces[p] \ Faceless
                 /\ Completed(p)' /\ ~images'[p].has_faces => images'[p].hash \in Faceless
      <3>1. CASE images'[p] = images[p]
        BY <1>1, <2>2, <3>1 DEF RowsFit, Completed, Status
      <3>2. CASE images'[p] # images[p]
        BY <1>1, <1>4, <3>2 DEF RowsFit, Completed, Status
      <3> QED BY <3>1, <3>2
    <2> QED BY <1>2, <2>1, <2>2 DEF RowsFit
  <1>6. FilesFit'
    BY <1>1, <1>2 DEF FilesFit, OnDisk, Covered
  <1>7. ASSUME NEW w \in Workers PROVE Fits(job[w])'
    <2>1. PICK j : j = job[w]
      OBVIOUS
    <2>2. j \in Job \union {Idle} /\ Fits(j) /\ job'[w] = j
      BY <1>1, <1>2, <2>1 DEF RecordTypeOK, FacesInv, JobsFit
    <2>3. \A p \in Path : images[p] = NoRow => images'[p] = NoRow
      BY <1>4
    <2>4. Fits(j)'
      BY <1>1, <1>2, <2>2, <2>3, OthersFit DEF OnDisk
    <2> QED BY <2>2, <2>4 DEF Fits, Unedited
  <1> QED BY <1>5, <1>6, <1>7 DEF FacesInv, JobsFit

-----------------------------------------------------------------------------
(* Invariance, and the theorems.                                           *)

(* At the start a row has the faces it counts, and the manifest knows the  *)
(* completed rows.                                                         *)
LEMMA FacesInit == Init => FacesInv
  <1> SUFFICES ASSUME Init PROVE FacesInv
    OBVIOUS
  <1>1. RecordTypeOK
    BY InitTypes, ImageRecordAssumption
  <1>2. ASSUME NEW p \in Path, images[p] # NoRow
        PROVE  /\ images[p].hash = file[p].content /\ images[p].hash \in Content
               /\ images[p].has_faces => images[p].hash \notin Faceless
               /\ faces[p] = IF images[p].has_faces THEN {images[p].hash} ELSE {}
               /\ \/ images[p].status = "completed"
                     /\ (~images[p].has_faces => images[p].hash \in Faceless)
                  \/ images[p].status = "pending"
    <2>1. images[p] \in OldRows(p) /\ file[p].content \in Content
      BY DEF Init
    <2>2. PICK status \in {"completed", "pending"}, b \in {FALSE, file[p].content \notin Faceless} :
            /\ images[p] = RowOf(p, status, b)
            /\ status = "completed" => b = (file[p].content \notin Faceless)
      BY <1>2, <2>1 DEF OldRows
    <2>3. /\ images[p].hash = file[p].content /\ images[p].has_faces = b
          /\ images[p].status = status
      BY <2>2 DEF RowOf
    <2>4. images[p].has_faces => images[p].hash \notin Faceless
      BY <2>2, <2>3
    <2>5. faces[p] = IF images[p].has_faces THEN {images[p].hash} ELSE {}
      BY <1>2, <2>1, <2>3 DEF Init
    <2>6. \/ images[p].status = "completed"
             /\ (~images[p].has_faces => images[p].hash \in Faceless)
          \/ images[p].status = "pending"
      BY <2>2, <2>3
    <2> QED BY <2>1, <2>3, <2>4, <2>5, <2>6
  <1>3. RowsFit
    <2>1. \A p \in Path : images[p] = NoRow => faces[p] = {}
      BY DEF Init
    <2> QED BY <1>2, <2>1 DEF RowsFit, Completed, Status
  <1>4. FilesFit
    <2>1. /\ edits = 0
          /\ \A p \in Path : /\ file[p].stamp = 0
                             /\ manifest[p] = IF Completed(p) THEN 0 ELSE Unknown
      BY DEF Init
    <2>2. Unknown # 0 /\ 0 \in 0..0
      BY ImageRecordAssumption DEF Unknown
    <2>3. ASSUME NEW p \in Path, Completed(p) PROVE Covered(file[p].content)
      <3>1. images[p] # NoRow /\ images[p].status # "pending"
        BY <2>3 DEF Completed, Status, NoRow
      <3>2. images[p].hash = file[p].content
        BY <1>2, <3>1
      <3>3. CASE images[p].has_faces
        <4>1. faces[p] = {images[p].hash}
          BY <1>2, <3>1, <3>3
        <4> QED BY <3>2, <4>1 DEF Covered
      <3>4. CASE ~images[p].has_faces
        BY <1>2, <3>1, <3>2, <3>4 DEF Covered
      <3> QED BY <3>3, <3>4
    <2> QED BY <2>1, <2>2, <2>3 DEF FilesFit
  <1>5. JobsFit
    BY IdleFits DEF Init, JobsFit
  <1> QED BY <1>3, <1>4, <1>5 DEF FacesInv

(* One step keeps rows, manifest and workers in step with the faces.       *)
LEMMA FacesStep == IInv /\ FacesInv /\ [Next]_vars => FacesInv'
  <1> SUFFICES ASSUME IInv, FacesInv, [Next]_vars PROVE FacesInv'
    OBVIOUS
  <1> USE ImageRecordAssumption
  <1>1. ASSUME NEW p \in Path, (\E c \in Content : Edit(p, c)) \/ Remove(p) \/ Deleted(p)
        PROVE  FacesInv'
    BY <1>1, FileStep
  <1>2. ASSUME NEW w \in Workers,
               (\E p \in Path : Find(w, p)) \/ Finish(w) \/ Fails(w)
        PROVE  FacesInv'
    BY <1>2, QueueStep
  <1>3. ASSUME NEW w \in Workers,
               Queue(w) \/ Hash(w) \/ Lookup(w) \/ Detect(w) \/ Stat(w) \/ Select(w)
        PROVE  FacesInv'
    BY <1>3, ReadingStep
  <1>4. ASSUME NEW w \in Workers, Commit(w)
        PROVE  FacesInv'
    BY <1>4, WriteStep DEF Commit
  <1>5. ASSUME NEW w \in Workers, CommitInDoubt(w)
        PROVE  FacesInv'
    BY <1>5, WriteStep DEF CommitInDoubt
  <1>6. CASE PhaseA \/ PhaseC
    BY <1>6, RecoveryStep
  <1>7. CASE Restart
    <2>1. UNCHANGED <<file, edits, images, faces, manifest, raced>>
      BY <1>7 DEF Restart, onDisk, db
    <2>2. RowsFit'
      BY <2>1 DEF FacesInv, RowsFit, Completed, Status
    <2>3. FilesFit'
      BY <2>1 DEF FacesInv, FilesFit, OnDisk, Covered
    <2>4. JobsFit'
      BY <1>7 DEF Restart, JobsFit, Fits, Idle, Stages
    <2> QED BY <2>2, <2>3, <2>4 DEF FacesInv
  <1>8. CASE UNCHANGED vars
    <2>1. UNCHANGED <<file, edits, images, faces, manifest, raced, job>>
      BY <1>8 DEF vars, onDisk, db
    <2> QED BY <2>1 DEF FacesInv, RowsFit, FilesFit, JobsFit, Fits, Unedited, Covered,
               OnDisk, Completed, Status
  <1> QED BY <1>1, <1>2, <1>3, <1>4, <1>5, <1>6, <1>7, <1>8 DEF Next, Work

(* The two invariants hold in every reachable state.                       *)
LEMMA FacesInvariance == Spec => [](IInv /\ FacesInv)
  <1>1. Init => FacesInv
    BY FacesInit
  <1> QED BY <1>1, FacesStep, Invariance, PTL DEF Spec

(* Whoever completed a row, a worker, the winner of an insert race or the  *)
(* recovery, the faces of the content it names hang from it exactly if it  *)
(* says so: for any files, workers, faults and restarts, unless raced.     *)
THEOREM FacesOfCompleted == Spec => []CompletedHasFaces
  <1>1. IInv /\ FacesInv => CompletedHasFaces
    <2> SUFFICES ASSUME IInv, FacesInv, NEW p \in Path \ raced, Completed(p)
                 PROVE  /\ images[p].has_faces <=> images[p].hash \notin Faceless
                        /\ images[p].has_faces => images[p].hash \in faces[p]
      BY DEF CompletedHasFaces
    <2>1. images[p] # NoRow
      BY DEF Completed, Status, NoRow
    <2> QED BY <2>1 DEF FacesInv, RowsFit
  <1> QED BY <1>1, FacesInvariance, PTL

(* No face hangs from a path without a row or from a row the recovery gave *)
(* up, raced or not.                                                       *)
THEOREM NoOrphans == Spec => []NoOrphanFaces
  <1>1. FacesInv => NoOrphanFaces
    BY DEF FacesInv, RowsFit, NoOrphanFaces, Completed
  <1> QED BY <1>1, FacesInvariance, PTL

(* While nothing has been raced, the JSON manifest, too, only lets pass    *)
(* files whose faces are in the table, under this path or another.         *)
THEOREM FallbackSound == Spec => []FallbackIsSound
  <1>1. FacesInv => FallbackIsSound
    BY DEF FacesInv, FilesFit, FallbackIsSound, NeedsByJson, Covered
  <1> QED BY <1>1, FacesInvariance, PTL

=============================================================================
