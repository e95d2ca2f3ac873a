----------------------------- MODULE FaissIndex -----------------------------
(***************************************************************************)
(* BatchedFAISSIndex (src/src/storage/faiss_index.py): the in-memory FAISS *)
(* index, the list of face ids that names its vectors, the staging buffer  *)
(* in front of both, and the two files the index survives a restart in.    *)
(*                                                                         *)
(* A vector is abstracted to the face it was computed from.  The position  *)
(* of a vector in live_index is the only link to its face: search() maps   *)
(* the i-th vector to live_ids[i], so everything here is about two         *)
(* sequences, in memory and on disk, saying the same thing.                *)
(*                                                                         *)
(* Several threads share the index.  Every operation holds merge_lock, but *)
(* add() gives it up before it triggers a merge, and a merge renames two   *)
(* files one after the other: the process may die between any two steps.   *)
(***************************************************************************)
EXTENDS Naturals, Sequences, FiniteSets, Functions

CONSTANTS
  Face,          \* face ids (faces.embedding_id)
  Callers,       \* threads that call into the index
  NoCaller,      \* merge_lock is free
  StagingSize,   \* config.faiss_staging_size
  IsIVF,         \* faiss_index_type is IVFFlat: an untrained index takes no vector
  MinTrain,      \* nlist * 8, the training floor of an IVF index
  MaxSaveFaults, \* bound on saves that fail
  MaxRaises,     \* bound on merges that raise before they change anything
  MaxLoadFaults  \* bound on loads that fail

ASSUME FaissIndexAssumption ==
  /\ NoCaller \notin Callers
  /\ StagingSize \in Nat \ {0}
  /\ MinTrain \in Nat
  /\ MaxSaveFaults \in Nat /\ MaxRaises \in Nat /\ MaxLoadFaults \in Nat
  /\ IsIVF \in BOOLEAN

VARIABLES
  up,            \* the process is running
  lock,          \* holder of merge_lock
  pc,            \* where each caller is in _merge_staging_to_live
  trained,       \* live_index.is_trained
  live_index,    \* the vectors in the FAISS index, by position
  live_ids,      \* live_ids; live_ids_set is its range
  live_count,    \* live_count: ntotal when it was last published
  staging,       \* staging_ids and staging_vectors; staging_ids_set is its range
  disk_index,    \* live_path, <<>> when there is no file
  disk_ids,      \* ids_path, <<>> when there is no file
  save_faults,   \* saves that failed so far
  raises,        \* merges that raised so far
  load_faults,   \* loads that failed so far
  tainted        \* history: a merge started on an index ahead of its ids, or
                 \* existing files were abandoned after a failed load

memory == <<trained, live_index, live_ids, live_count, staging>>
disk   == <<disk_index, disk_ids>>
faults == <<save_faults, raises, load_faults>>
indexVars == <<up, lock, pc, memory, disk, faults, tainted>>

Stages == {"idle", "merge", "save_ids", "save_index", "publish", "raised"}

TypeOK ==
  /\ up \in BOOLEAN /\ trained \in BOOLEAN /\ tainted \in BOOLEAN
  /\ lock \in Callers \union {NoCaller}
  /\ pc \in [Callers -> Stages]
  /\ live_index \in Seq(Face) /\ live_ids \in Seq(Face)
  /\ live_count \in Nat
  /\ staging \in Seq(Face)
  /\ disk_index \in Seq(Face) /\ disk_ids \in Seq(Face)
  /\ save_faults \in 0..MaxSaveFaults /\ raises \in 0..MaxRaises
  /\ load_faults \in 0..MaxLoadFaults

-----------------------------------------------------------------------------
(* Membership: live_ids_set and staging_ids_set.                           *)
Known(f) == f \in Range(live_ids) \/ f \in Range(staging)

(* Mutant of Staged: only the staging buffer is searched for the face.     *)
Staged_StagingOnly(s, f) == IF f \in Range(s) THEN s ELSE Append(s, f)

(* The body of add() under the lock; add_batch() runs it once per id.      *)
Staged(s, f) ==
  IF f \in Range(live_ids) \union Range(s) THEN s ELSE Append(s, f)

(* Mutants of RestoredIds: no trimming; a placeholder for a missing id.    *)
RestoredIds_Untrimmed == disk_ids
RestoredIds_Padded ==
  [i \in 1..Len(disk_index) |->
     IF i <= Len(disk_ids) THEN disk_ids[i] ELSE NoCaller]

(* What _initialize_index makes of the two files: ids beyond the index are *)
(* trimmed, an index beyond its ids is only logged.                        *)
RestoredIds ==
  IF Len(disk_ids) > Len(disk_index)
  THEN SubSeq(disk_ids, 1, Len(disk_index))
  ELSE disk_ids

CanMerge == trained \/ Len(staging) >= MinTrain

Goto(c, stage) == pc' = [pc EXCEPT ![c] = stage]

-----------------------------------------------------------------------------
(* First boot: no file on disk.                                            *)
InitIndex ==
  /\ up = TRUE /\ lock = NoCaller
  /\ pc = [c \in Callers |-> "idle"]
  /\ trained = ~IsIVF
  /\ live_index = <<>> /\ live_ids = <<>> /\ live_count = 0
  /\ staging = <<>>
  /\ disk_index = <<>> /\ disk_ids = <<>>
  /\ save_faults = 0 /\ raises = 0 /\ load_faults = 0 /\ tainted = FALSE

(* Mutant of Buffer: the trigger is > instead of >=.                       *)
Buffer_LateTrigger(c, newStaging) ==
  /\ up /\ pc[c] = "idle" /\ lock = NoCaller
  /\ staging' = newStaging
  /\ Goto(c, IF Len(newStaging) > StagingSize THEN "merge" ELSE "idle")
  /\ UNCHANGED <<up, lock, trained, live_index, live_ids, live_count,
                 disk, faults, tainted>>

(* add() and add_batch(): dedup and append under the lock, then decide,    *)
(* with the lock released, whether this caller merges.                     *)
Buffer(c, newStaging) ==
  /\ up /\ pc[c] = "idle" /\ lock = NoCaller
  /\ staging' = newStaging
  /\ Goto(c, IF Len(newStaging) >= StagingSize THEN "merge" ELSE "idle")
  /\ UNCHANGED <<up, lock, trained, live_index, live_ids, live_count,
                 disk, faults, tainted>>

(* A face that is already known makes add() return -1 at once: a stutter.  *)
Add(c, f) == ~Known(f) /\ Buffer(c, Staged(staging, f))

(* A batch may name a face twice, and checks the size even if all of it    *)
(* was known.                                                              *)
AddBatch(c, f, g) == Buffer(c, Staged(Staged(staging, f), g))

(* force_merge().                                                          *)
ForceMerge(c) ==
  /\ up /\ pc[c] = "idle"
  /\ Goto(c, "merge")
  /\ UNCHANGED <<up, lock, memory, disk, faults, tainted>>

-----------------------------------------------------------------------------
(* _merge_staging_to_live.                                                 *)

(* Nothing staged, or an IVF index that cannot be trained yet: return.     *)
MergeSkips(c) ==
  /\ pc[c] = "merge" /\ lock = NoCaller
  /\ staging = <<>> \/ ~CanMerge
  /\ Goto(c, "idle")
  /\ UNCHANGED <<up, lock, memory, disk, faults, tainted>>

(* Train if needed, then live_index.add(): the one step no later step of   *)
(* the merge takes back.                                                   *)
MergeBegins(c) ==
  /\ pc[c] = "merge" /\ lock = NoCaller
  /\ staging # <<>> /\ CanMerge
  /\ lock' = c
  /\ Goto(c, "save_ids")
  /\ trained' = TRUE
  /\ live_index' = live_index \o staging
  /\ tainted' = (tainted \/ Len(live_index) # Len(live_ids))
  /\ UNCHANGED <<up, live_ids, live_count, staging, disk, faults>>

(* train() or add() raises (out of memory) and the exception leaves        *)
(* force_merge() with the lock released and no vector added.               *)
MergeRaises(c) ==
  /\ pc[c] = "merge" /\ lock = NoCaller
  /\ staging # <<>> /\ CanMerge
  /\ raises < MaxRaises /\ raises' = raises + 1
  /\ Goto(c, "raised")
  /\ trained' \in {trained, TRUE}
  /\ UNCHANGED <<up, lock, live_index, live_ids, live_count, staging, disk,
                 save_faults, load_faults, tainted>>

(* Mutants of SaveIds: the index file is written first; only the new ids   *)
(* are written.                                                            *)
SaveIds_IndexFirst(c) ==
  /\ pc[c] = "save_ids"
  /\ disk_index' = live_index
  /\ Goto(c, "save_index")
  /\ UNCHANGED <<up, lock, memory, disk_ids, faults, tainted>>

SaveIds_OnlyNew(c) ==
  /\ pc[c] = "save_ids"
  /\ disk_ids' = staging
  /\ Goto(c, "save_index")
  /\ UNCHANGED <<up, lock, memory, disk_index, faults, tainted>>

(* _save_ids_atomic(new_live_ids).                                         *)
SaveIds(c) ==
  /\ pc[c] = "save_ids"
  /\ disk_ids' = live_ids \o staging
  /\ Goto(c, "save_index")
  /\ UNCHANGED <<up, lock, memory, disk_index, faults, tainted>>

(* _save_index_atomic().                                                   *)
SaveIndex(c) ==
  /\ pc[c] = "save_index"
  /\ disk_index' = live_index
  /\ Goto(c, "publish")
  /\ UNCHANGED <<up, lock, memory, disk_ids, faults, tainted>>

(* Mutant of SaveFails: the new ids are published all the same.            *)
SaveFails_Publishes(c) ==
  /\ pc[c] \in {"save_ids", "save_index"}
  /\ save_faults < MaxSaveFaults /\ save_faults' = save_faults + 1
  /\ live_ids' = live_ids \o staging /\ staging' = <<>>
  /\ lock' = NoCaller
  /\ Goto(c, "idle")
  /\ UNCHANGED <<up, trained, live_index, live_count, disk, raises, load_faults,
                 tainted>>

(* Either save raises: logged, swallowed, staging kept, nothing published, *)
(* and the caller of force_merge() is told nothing.                        *)
SaveFails(c) ==
  /\ pc[c] \in {"save_ids", "save_index"}
  /\ save_faults < MaxSaveFaults /\ save_faults' = save_faults + 1
  /\ lock' = NoCaller
  /\ Goto(c, "idle")
  /\ UNCHANGED <<up, memory, disk, raises, load_faults, tainted>>

Publish(c) ==
  /\ pc[c] = "publish"
  /\ live_ids' = live_ids \o staging
  /\ live_count' = Len(live_index)
  /\ staging' = <<>>
  /\ lock' = NoCaller
  /\ Goto(c, "idle")
  /\ UNCHANGED <<up, trained, live_index, disk, faults, tainted>>

MergeStep(c) ==
  \/ MergeSkips(c) \/ MergeBegins(c) \/ MergeRaises(c)
  \/ SaveIds(c) \/ SaveIndex(c) \/ SaveFails(c) \/ Publish(c)

(* The caller sees the exception and goes on.                              *)
Catch(c) ==
  /\ pc[c] = "raised"
  /\ Goto(c, "idle")
  /\ UNCHANGED <<up, lock, memory, disk, faults, tainted>>

-----------------------------------------------------------------------------
(* The process dies at any point; the files stay.  A save that had not     *)
(* renamed its temporary file leaves the old file in place.                *)
Crash ==
  /\ up
  /\ up' = FALSE /\ lock' = NoCaller
  /\ pc' = [c \in Callers |-> "idle"]
  /\ trained' = FALSE
  /\ live_index' = <<>> /\ live_ids' = <<>> /\ live_count' = 0
  /\ staging' = <<>>
  /\ UNCHANGED <<disk, faults, tainted>>

(* _initialize_index.  Without an index file _create_new_index starts      *)
(* empty, whatever the ids file holds.                                     *)
Start ==
  /\ ~up
  /\ up' = TRUE
  /\ live_index' = disk_index
  /\ live_count' = Len(disk_index)
  /\ live_ids' = RestoredIds
  /\ trained' = (~IsIVF \/ disk_index # <<>>)
  /\ UNCHANGED <<lock, pc, staging, disk, faults, tainted>>

(* read_index() or np.load() raises: the files are left alone, a new empty *)
(* index is used and the next merge writes over them.                      *)
StartUnreadable ==
  /\ ~up /\ disk_index # <<>>
  /\ load_faults < MaxLoadFaults /\ load_faults' = load_faults + 1
  /\ up' = TRUE
  /\ trained' = ~IsIVF
  /\ tainted' = TRUE
  /\ UNCHANGED <<lock, pc, live_index, live_ids, live_count, staging, disk,
                 save_faults, raises>>

-----------------------------------------------------------------------------
NextIndex ==
  \/ \E c \in Callers :
       \/ \E f \in Face : Add(c, f)
       \/ \E f, g \in Face : AddBatch(c, f, g)
       \/ ForceMerge(c) \/ MergeStep(c) \/ Catch(c)
  \/ Crash \/ Start \/ StartUnreadable

SpecIndex == InitIndex /\ [][NextIndex]_indexVars

(* A thread inside a merge keeps running: Python schedules every runnable  *)
(* thread and the merge waits for nothing but the lock.                    *)
FairSpecIndex == SpecIndex /\ \A c \in Callers : WF_indexVars(MergeStep(c))

-----------------------------------------------------------------------------
(* The index calls the face of the i-th vector live_ids[i].                *)
AlignedUpTo(ids, index) ==
  /\ Len(ids) <= Len(index)
  /\ \A i \in 1..Len(ids) : ids[i] = index[i]

(* search() never answers with the wrong face: every id is the id of the   *)
(* vector at its position, in every state a search can be served in, as    *)
(* long as no merge ran on an index that an earlier failed save had left   *)
(* ahead of its ids and no load was abandoned.                             *)
SearchFaithful == ~tainted => AlignedUpTo(live_ids, live_index)

(* The pair of files is usable at every instant the process may die: what  *)
(* a restart makes of them pairs each vector with its own face, one id per *)
(* vector (the crash-safety paragraph of _merge_staging_to_live).          *)
RestartFaithful ==
  ~tainted => RestoredIds = disk_index

(* What search() serves survives a crash: the published ids are the first  *)
(* ids a restart would load, even after a save failed half-way.            *)
PublishedIsDurable ==
  ~tainted => /\ Len(live_ids) <= Len(RestoredIds)
              /\ \A i \in 1..Len(live_ids) : live_ids[i] = RestoredIds[i]

(* A face has at most one vector among the searchable ones and is never    *)
(* both live and staged, whatever the retries, batches and restarts: FAISS *)
(* has no delete, so a second vector could never be removed.               *)
OneVectorPerFace ==
  /\ IsInjective(live_ids) /\ IsInjective(staging)
  /\ Range(live_ids) \intersect Range(staging) = {}
  /\ ~tainted => IsInjective(live_index)

(* No trigger is missed across racing producers (the comment in add()): a  *)
(* staging buffer that reached its size is merged, unless the process dies *)
(* or a fault interferes.                                                  *)
StagingDrains ==
  (Len(staging) >= StagingSize) ~> (staging = <<>> \/ ~up \/ save_faults + raises > 0)

(* The comment at the head of _merge_staging_to_live says it of every run: *)
(* index and ids must never disagree.  A save that fails after             *)
(* live_index.add() refutes it.                                            *)
NeverDisagree == AlignedUpTo(live_ids, live_index)

=============================================================================
