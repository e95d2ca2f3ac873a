-------------------------- MODULE FaissIndexProofs --------------------------
(***************************************************************************)
(* Proofs about FaissIndex, for any set of faces and callers, any staging  *)
(* size, both index families and any number of faults.                     *)
(*                                                                         *)
(* The invariants the runs check are not inductive: they speak about two   *)
(* of the four sequences at a time.  What a step preserves is that all     *)
(* four, live_ids, live_index, disk_index and disk_ids, are initial        *)
(* segments of one another in an order fixed by where the holder of        *)
(* merge_lock is, and that live_ids followed by staging names no face      *)
(* twice.                                                                  *)
(***************************************************************************)
EXTENDS FaissIndex, SequenceTheorems, TLAPS

InMerge == {"save_ids", "save_index", "publish"}

(* merge_lock is held exactly by a caller between live_index.add() and the *)
(* end of its merge, and by nobody in a process that is down.              *)
LockInv ==
  /\ \A c \in Callers : pc[c] \in InMerge <=> lock = c
  /\ ~up => pc = [c \in Callers |-> "idle"]

(* Whatever happened, no face is named twice.                              *)
UniqueInv ==
  /\ IsInjective(live_ids \o staging)
  /\ IsInjective(disk_ids)
  /\ ~up => live_index = <<>> /\ live_ids = <<>> /\ staging = <<>>

(* The files, as a restart would find them.                                *)
DiskInv == AlignedUpTo(disk_index, disk_ids)

(* A running process: memory, and how far the merge in progress has        *)
(* carried it to disk.                                                     *)
MemoryInv ==
  /\ AlignedUpTo(live_ids, live_index)
  /\ AlignedUpTo(live_index, live_ids \o staging)
  /\ lock # NoCaller => live_index = live_ids \o staging
  /\ (\A c \in Callers : pc[c] # "publish") => disk_index = live_ids
  /\ \A c \in Callers :
       /\ pc[c] = "save_index" => disk_ids = live_index
       /\ pc[c] = "publish" => disk_ids = live_index /\ disk_index = live_index

IInv ==
  /\ TypeOK
  /\ LockInv
  /\ UniqueInv
  /\ ~tainted => DiskInv
  /\ ~tainted /\ up => MemoryInv

-----------------------------------------------------------------------------
(* Initial segments and injective sequences.                               *)

(* The first part of a concatenation is an initial segment of it, and      *)
(* appending to the second part extends the whole.                         *)
LEMMA AlignedConcat ==
  ASSUME NEW s \in Seq(Face), NEW t \in Seq(Face)
  PROVE  /\ s \o t \in Seq(Face)
         /\ AlignedUpTo(s, s)
         /\ AlignedUpTo(s, s \o t)
         /\ AlignedUpTo(s \o t, s \o t)
BY ConcatProperties, LenProperties DEF AlignedUpTo

(* Initial segments compose.                                               *)
LEMMA AlignedTransitive ==
  ASSUME NEW s \in Seq(Face), NEW t \in Seq(Face), NEW u \in Seq(Face),
         AlignedUpTo(s, t), AlignedUpTo(t, u)
  PROVE  AlignedUpTo(s, u)
BY LenProperties DEF AlignedUpTo

(* Two sequences that are initial segments of each other are equal; so are *)
(* an initial segment and a sequence of its length.                        *)
LEMMA AlignedEqual ==
  ASSUME NEW s \in Seq(Face), NEW t \in Seq(Face),
         AlignedUpTo(s, t), Len(s) = Len(t)
  PROVE  s = t
BY SeqEqual, LenProperties DEF AlignedUpTo

(* An initial segment of a sequence without repetition has none.           *)
LEMMA AlignedInjective ==
  ASSUME NEW s \in Seq(Face), NEW t \in Seq(Face),
         AlignedUpTo(s, t), IsInjective(t)
  PROVE  IsInjective(s)
BY LenProperties DEF AlignedUpTo, IsInjective

(* Appending to the staging buffer extends live_ids \o staging.            *)
LEMMA StagedAligned ==
  ASSUME NEW s \in Seq(Face), NEW t \in Seq(Face), NEW f \in Face
  PROVE  AlignedUpTo(s \o t, s \o Append(t, f))
BY ConcatProperties, AppendProperties, LenProperties DEF AlignedUpTo

(* Appending an unknown face repeats nothing.                              *)
LEMMA AppendInjectiveConcat ==
  ASSUME NEW s \in Seq(Face), NEW t \in Seq(Face), NEW f \in Face,
         IsInjective(s \o t), f \notin Range(s) \union Range(t)
  PROVE  IsInjective(s \o Append(t, f))
<1> DEFINE u == s \o Append(t, f)
           n == Len(s) + Len(t)
<1>1. /\ Append(t, f) \in Seq(Face)
      /\ Len(Append(t, f)) = Len(t) + 1
      /\ Append(t, f)[Len(t) + 1] = f
      /\ \A i \in 1..Len(t) : Append(t, f)[i] = t[i]
  BY AppendProperties
<1>2. Len(s) \in Nat /\ Len(t) \in Nat
  BY LenProperties
<1>3. /\ u \in Seq(Face)
      /\ DOMAIN u = 1..(n + 1)
      /\ \A i \in 1..(n + 1) :
           u[i] = IF i <= Len(s) THEN s[i] ELSE Append(t, f)[i - Len(s)]
  BY <1>1, <1>2, ConcatProperties, LenProperties
<1>4. /\ DOMAIN (s \o t) = 1..n
      /\ \A i \in 1..n : (s \o t)[i] = IF i <= Len(s) THEN s[i] ELSE t[i - Len(s)]
  BY <1>2, ConcatProperties, LenProperties
<1>5. \A i \in 1..n : u[i] = (s \o t)[i]
  BY <1>1, <1>2, <1>3, <1>4
<1>6. u[n + 1] = f
  BY <1>1, <1>2, <1>3
<1>7. \A i \in 1..n : u[i] # f
  <2> TAKE i \in 1..n
  <2>1. CASE i <= Len(s)
    BY <2>1, <1>2, <1>3, LenProperties DEF Range
  <2>2. CASE i > Len(s)
    <3>1. i - Len(s) \in 1..Len(t)
      BY <2>2, <1>2
    <3> QED BY <3>1, <2>2, <1>1, <1>2, <1>3, LenProperties DEF Range
  <2> QED BY <2>1, <2>2, <1>2
<1>8. ASSUME NEW a \in 1..(n + 1), NEW b \in 1..(n + 1), u[a] = u[b]
      PROVE  a = b
  <2>1. CASE a \in 1..n /\ b \in 1..n
    BY <2>1, <1>4, <1>5, <1>8 DEF IsInjective
  <2>2. CASE a = n + 1 \/ b = n + 1
    BY <2>2, <1>2, <1>6, <1>7, <1>8
  <2> QED BY <2>1, <2>2, <1>2
<1> QED BY <1>3, <1>8 DEF IsInjective

-----------------------------------------------------------------------------
(* Type correctness.                                                       *)

(* What add() leaves in staging is a list of faces and vectors.            *)
LEMMA StagedType ==
  ASSUME NEW s \in Seq(Face), NEW f \in Face
  PROVE  Staged(s, f) \in Seq(Face)
BY AppendProperties DEF Staged

(* A load gives lists of faces and vectors.                                *)
LEMMA RestoredType ==
  ASSUME TypeOK
  PROVE  RestoredIds \in Seq(Face)
<1>1. CASE Len(disk_ids) > Len(disk_index)
  <2>1. Len(disk_index) \in Nat /\ Len(disk_ids) \in Nat
    BY LenProperties DEF TypeOK
  <2>2. \A i \in 1..Len(disk_index) : disk_ids[i] \in Face
    BY <1>1, <2>1, ElementOfSeq DEF TypeOK
  <2> QED BY <1>1, <2>1, <2>2, SubSeqProperties DEF RestoredIds
<1>2. CASE ~(Len(disk_ids) > Len(disk_index))
  BY <1>2 DEF RestoredIds, TypeOK
<1> QED BY <1>1, <1>2

(* An empty index has its types.                                           *)
LEMMA TypeInit == InitIndex => TypeOK
<1> SUFFICES ASSUME InitIndex PROVE TypeOK
  OBVIOUS
<1>1. up \in BOOLEAN /\ trained \in BOOLEAN /\ tainted \in BOOLEAN
  BY FaissIndexAssumption DEF InitIndex
<1>2. /\ lock \in Callers \union {NoCaller}
      /\ pc \in [Callers -> Stages]
      /\ save_faults \in 0..MaxSaveFaults /\ raises \in 0..MaxRaises
      /\ load_faults \in 0..MaxLoadFaults
  BY FaissIndexAssumption DEF InitIndex, Stages
<1> QED BY <1>1, <1>2, EmptySeq DEF InitIndex, TypeOK

(* Every step of the index keeps them.                                     *)
LEMMA TypeStep == TypeOK /\ [NextIndex]_indexVars => TypeOK'
<1> SUFFICES ASSUME TypeOK, [NextIndex]_indexVars PROVE TypeOK'
  OBVIOUS
<1> USE FaissIndexAssumption
<1>1. ASSUME NEW c \in Callers, NEW s \in Seq(Face), Buffer(c, s)
      PROVE  TypeOK'
  BY <1>1 DEF TypeOK, Buffer, Goto, Stages, faults, disk
<1>2. ASSUME NEW c \in Callers, NEW f \in Face, Add(c, f)
      PROVE  TypeOK'
  BY <1>1, <1>2, StagedType DEF Add, TypeOK
<1>3. ASSUME NEW c \in Callers, NEW f \in Face, NEW g \in Face,
             AddBatch(c, f, g)
      PROVE  TypeOK'
  BY <1>1, <1>3, StagedType DEF AddBatch, TypeOK
<1>4. ASSUME NEW c \in Callers, ForceMerge(c) \/ MergeSkips(c) \/ Catch(c)
      PROVE  TypeOK'
  BY <1>4 DEF ForceMerge, MergeSkips, Catch, TypeOK, Goto, Stages, faults,
              disk, memory
<1>5. ASSUME NEW c \in Callers, MergeBegins(c)
      PROVE  TypeOK'
  BY <1>5, ConcatProperties DEF MergeBegins, TypeOK, Goto, Stages, faults, disk
<1>6. ASSUME NEW c \in Callers, MergeRaises(c)
      PROVE  TypeOK'
  <2>1. pc' \in [Callers -> Stages] /\ raises' \in 0..MaxRaises
    BY <1>6 DEF MergeRaises, Goto, Stages, TypeOK
  <2>2. trained' \in BOOLEAN
    BY <1>6 DEF MergeRaises, TypeOK
  <2> QED BY <1>6, <2>1, <2>2 DEF MergeRaises, TypeOK, disk
<1>7. ASSUME NEW c \in Callers, SaveFails(c)
      PROVE  TypeOK'
  <2>1. pc' \in [Callers -> Stages] /\ save_faults' \in 0..MaxSaveFaults
    BY <1>7 DEF SaveFails, Goto, Stages, TypeOK
  <2> QED BY <1>7, <2>1 DEF SaveFails, TypeOK, disk, memory
<1>13. ASSUME NEW c \in Callers, SaveIds(c)
      PROVE  TypeOK'
  BY <1>13, ConcatProperties DEF SaveIds, TypeOK, Goto, Stages, faults, memory
<1>14. ASSUME NEW c \in Callers, SaveIndex(c)
      PROVE  TypeOK'
  BY <1>14 DEF SaveIndex, TypeOK, Goto, Stages, faults, memory
<1>8. ASSUME NEW c \in Callers, Publish(c)
      PROVE  TypeOK'
  BY <1>8, ConcatProperties, LenProperties, EmptySeq
     DEF Publish, TypeOK, Goto, Stages, faults, disk
<1>9. CASE Crash
  BY <1>9, EmptySeq DEF Crash, TypeOK, Stages, faults, disk
<1>10. CASE Start
  BY <1>10, RestoredType, LenProperties DEF Start, TypeOK, faults, disk
<1>11. CASE StartUnreadable
  BY <1>11 DEF StartUnreadable, TypeOK, disk
<1>12. CASE UNCHANGED indexVars
  BY <1>12 DEF indexVars, TypeOK, memory, disk, faults
<1> QED
  BY <1>2, <1>3, <1>4, <1>5, <1>6, <1>7, <1>8, <1>9, <1>10, <1>11, <1>12, <1>13, <1>14
  DEF NextIndex, MergeStep

(* Every variable of the index keeps its type, for all constants.          *)
THEOREM TypeCorrect == SpecIndex => []TypeOK
BY TypeInit, TypeStep, PTL DEF SpecIndex

-----------------------------------------------------------------------------
(* The inductive invariant, step by step.                                  *)

(* What staging one face does to live_ids \o staging.                      *)
LEMMA StagedExtends ==
  ASSUME NEW t \in Seq(Face), NEW f \in Face, live_ids \in Seq(Face),
         IsInjective(live_ids \o t)
  PROVE  /\ Staged(t, f) \in Seq(Face)
         /\ IsInjective(live_ids \o Staged(t, f))
         /\ AlignedUpTo(live_ids \o t, live_ids \o Staged(t, f))
<1>1. CASE f \in Range(live_ids) \union Range(t)
  BY <1>1, AlignedConcat DEF Staged
<1>2. CASE f \notin Range(live_ids) \union Range(t)
  BY <1>2, StagedType, StagedAligned, AppendInjectiveConcat DEF Staged
<1> QED BY <1>1, <1>2

(* A restart loads an initial segment of the ids file, and exactly the     *)
(* vectors of the index file when the two files agree.                     *)
LEMMA RestoredAligned ==
  ASSUME TypeOK
  PROVE  /\ AlignedUpTo(RestoredIds, disk_ids)
         /\ DiskInv => RestoredIds = disk_index
<1> USE DEF TypeOK
<1>1. Len(disk_index) \in Nat /\ Len(disk_ids) \in Nat
  BY LenProperties
<1>2. CASE Len(disk_ids) > Len(disk_index)
  <2> DEFINE r == SubSeq(disk_ids, 1, Len(disk_index))
  <2>1. \A i \in 1..Len(disk_index) : disk_ids[i] \in Face
    BY <1>1, <1>2, ElementOfSeq
  <2>2. /\ r \in Seq(Face)
        /\ Len(r) = Len(disk_index)
        /\ \A i \in 1..Len(disk_index) : r[i] = disk_ids[i]
    BY <1>1, <2>1, SubSeqProperties
  <2>3. RestoredIds = r
    BY <1>2 DEF RestoredIds
  <2>4. DiskInv => r = disk_index
    BY <2>2, <1>1, SeqEqual DEF DiskInv, AlignedUpTo
  <2> QED BY <1>1, <1>2, <2>2, <2>3, <2>4 DEF AlignedUpTo
<1>3. CASE ~(Len(disk_ids) > Len(disk_index))
  <2>1. RestoredIds = disk_ids
    BY <1>3 DEF RestoredIds
  <2>2. DiskInv => disk_ids = disk_index
    BY <1>1, <1>3, SeqEqual DEF DiskInv, AlignedUpTo
  <2> QED BY <2>1, <2>2, AlignedConcat
<1> QED BY <1>2, <1>3

(* The first boot.                                                         *)
LEMMA IInvInit == InitIndex => IInv
<1> SUFFICES ASSUME InitIndex PROVE IInv
  OBVIOUS
<1>1. TypeOK
  BY TypeInit
<1>2. LockInv
  BY FaissIndexAssumption DEF InitIndex, LockInv, InMerge
<1>3. <<>> \o <<>> = <<>> /\ IsInjective(<<>>) /\ AlignedUpTo(<<>>, <<>>)
  <2>1. <<>> \in Seq(Face)
    BY EmptySeq
  <2>2. <<>> \o <<>> = <<>> /\ AlignedUpTo(<<>>, <<>>)
    BY <2>1, ConcatEmptySeq, AlignedConcat
  <2>3. IsInjective(<<>>)
    BY <2>1 DEF IsInjective
  <2> QED BY <2>2, <2>3
<1>4. UniqueInv /\ DiskInv
  BY <1>3 DEF InitIndex, UniqueInv, DiskInv
<1>5. MemoryInv
  BY <1>3 DEF InitIndex, MemoryInv
<1> QED BY <1>1, <1>2, <1>4, <1>5 DEF IInv

(* add() and add_batch().                                                  *)
LEMMA IInvBuffer ==
  ASSUME IInv, TypeOK', NEW c \in Callers, NEW s \in Seq(Face), Buffer(c, s),
         IsInjective(live_ids \o s),
         AlignedUpTo(live_ids \o staging, live_ids \o s)
  PROVE  IInv'
<1>1. LockInv'
  BY DEF IInv, TypeOK, Buffer, Goto, LockInv, InMerge
<1>2. UniqueInv'
  BY DEF IInv, Buffer, UniqueInv, disk
<1>3. (~tainted => DiskInv)'
  BY DEF IInv, Buffer, DiskInv, disk
<1>4. ASSUME ~tainted', up' PROVE MemoryInv'
  <2>1. MemoryInv /\ lock = NoCaller
    BY <1>4 DEF IInv, Buffer
  <2>2. \A d \in Callers : pc[d] \notin InMerge /\ pc'[d] \notin InMerge
    BY <1>1, <2>1, FaissIndexAssumption DEF Buffer, IInv, LockInv
  <2>3. AlignedUpTo(live_index, live_ids \o s)
    BY <2>1, AlignedTransitive, ConcatProperties DEF IInv, TypeOK, MemoryInv
  <2> QED BY <2>1, <2>2, <2>3 DEF MemoryInv, Buffer, InMerge, disk
<1> QED BY <1>1, <1>2, <1>3, <1>4 DEF IInv

(* Steps that only move a caller between stages outside the lock.          *)
LEMMA IInvOutside ==
  ASSUME IInv, TypeOK', NEW c \in Callers, up, pc[c] \notin InMerge,
         Goto(c, "idle") \/ Goto(c, "merge") \/ Goto(c, "raised"),
         UNCHANGED <<up, lock, live_index, live_ids, staging, disk, tainted>>
  PROVE  IInv'
<1>1. pc' \in [Callers -> Stages] /\ pc'[c] \notin InMerge
      /\ \A d \in Callers \ {c} : pc'[d] = pc[d]
  BY DEF IInv, TypeOK, Goto, InMerge, Stages
<1>2. LockInv'
  BY <1>1 DEF IInv, LockInv
<1>3. UniqueInv'
  BY DEF IInv, UniqueInv, disk
<1>4. (~tainted => DiskInv)'
  BY DEF IInv, DiskInv, disk
<1>5. ASSUME ~tainted', up' PROVE MemoryInv'
  <2>1. MemoryInv
    BY <1>5 DEF IInv
  <2>2. (\A d \in Callers : pc'[d] # "publish")
        => (\A d \in Callers : pc[d] # "publish")
    BY <1>1 DEF InMerge
  <2> QED BY <1>1, <2>1, <2>2 DEF MemoryInv, InMerge, disk
<1> QED BY <1>2, <1>3, <1>4, <1>5 DEF IInv

(* live_index.add(): the in-memory index gets ahead of everything else.    *)
LEMMA IInvMergeBegins ==
  ASSUME IInv, TypeOK', NEW c \in Callers, MergeBegins(c)
  PROVE  IInv'
<1> USE DEF MergeBegins
<1>1. pc' \in [Callers -> Stages] /\ pc'[c] = "save_ids" /\ pc[c] # "idle"
      /\ \A d \in Callers \ {c} : pc'[d] = pc[d]
  BY DEF IInv, TypeOK, Goto, Stages
<1>2. \A d \in Callers : pc[d] \notin InMerge
  BY FaissIndexAssumption DEF IInv, LockInv
<1>3. LockInv'
  BY <1>1, <1>2 DEF IInv, TypeOK, LockInv, InMerge
<1>4. UniqueInv'
  BY <1>1 DEF IInv, UniqueInv, LockInv, disk
<1>5. (~tainted => DiskInv)'
  BY DEF IInv, DiskInv, disk
<1>6. ASSUME ~tainted', up' PROVE MemoryInv'
  <2>1. MemoryInv /\ Len(live_index) = Len(live_ids)
    BY <1>6 DEF IInv
  <2>2. live_index = live_ids /\ disk_index = live_ids
    BY <1>2, <2>1, AlignedEqual DEF IInv, TypeOK, MemoryInv, InMerge
  <2>3. live_index' = live_ids' \o staging'
    BY <2>2
  <2>4. AlignedUpTo(live_ids, live_ids \o staging)
        /\ AlignedUpTo(live_ids \o staging, live_ids \o staging)
    BY AlignedConcat DEF IInv, TypeOK
  <2>5. \A d \in Callers : pc'[d] # "publish" /\ pc'[d] # "save_index"
    BY <1>1, <1>2 DEF InMerge
  <2> QED BY <2>2, <2>3, <2>4, <2>5 DEF MemoryInv, disk
<1> QED BY <1>3, <1>4, <1>5, <1>6 DEF IInv

(* The three steps under the lock.                                         *)
LEMMA IInvSaveIds ==
  ASSUME IInv, TypeOK', NEW c \in Callers, SaveIds(c)
  PROVE  IInv'
<1> USE DEF SaveIds, memory
<1>1. /\ up /\ lock = c
      /\ pc' \in [Callers -> Stages] /\ pc'[c] = "save_index"
      /\ \A d \in Callers \ {c} : pc'[d] = pc[d] /\ pc[d] \notin InMerge
  BY DEF IInv, TypeOK, Goto, LockInv, InMerge
<1>2. LockInv'
  BY <1>1 DEF IInv, LockInv, InMerge
<1>3. UniqueInv'
  BY <1>1 DEF IInv, UniqueInv
<1>4. ASSUME ~tainted' PROVE DiskInv' /\ MemoryInv'
  <2>1. MemoryInv
    BY <1>1, <1>4 DEF IInv
  <2>2. live_index = live_ids \o staging /\ disk_index = live_ids
    BY <1>1, <2>1, FaissIndexAssumption DEF MemoryInv, InMerge
  <2>3. DiskInv'
    BY <2>2, AlignedConcat DEF IInv, TypeOK, DiskInv
  <2>4. MemoryInv'
    BY <1>1, <2>1, <2>2 DEF MemoryInv, InMerge
  <2> QED BY <2>3, <2>4
<1> QED BY <1>2, <1>3, <1>4 DEF IInv

(* The index file is replaced: the two files are apart for one step.       *)
LEMMA IInvSaveIndex ==
  ASSUME IInv, TypeOK', NEW c \in Callers, SaveIndex(c)
  PROVE  IInv'
<1> USE DEF SaveIndex, memory
<1>1. /\ up /\ lock = c
      /\ pc' \in [Callers -> Stages] /\ pc'[c] = "publish"
      /\ \A d \in Callers \ {c} : pc'[d] = pc[d] /\ pc[d] \notin InMerge
  BY DEF IInv, TypeOK, Goto, LockInv, InMerge
<1>2. LockInv'
  BY <1>1 DEF IInv, LockInv, InMerge
<1>3. UniqueInv'
  BY <1>1 DEF IInv, UniqueInv
<1>4. ASSUME ~tainted' PROVE DiskInv' /\ MemoryInv'
  <2>1. MemoryInv
    BY <1>1, <1>4 DEF IInv
  <2>2. disk_ids = live_index
    BY <2>1 DEF MemoryInv
  <2>3. DiskInv'
    BY <2>2, AlignedConcat DEF IInv, TypeOK, DiskInv
  <2>4. MemoryInv'
    BY <1>1, <2>1, <2>2 DEF MemoryInv, InMerge
  <2> QED BY <2>3, <2>4
<1> QED BY <1>2, <1>3, <1>4 DEF IInv

(* A save gives up, and live_index is ahead of its ids.                    *)
LEMMA IInvSaveFails ==
  ASSUME IInv, TypeOK', NEW c \in Callers, SaveFails(c)
  PROVE  IInv'
<1> USE DEF SaveFails, memory, disk
<1>1. /\ up /\ lock = c
      /\ pc' \in [Callers -> Stages] /\ pc'[c] = "idle" /\ pc[c] # "publish"
      /\ \A d \in Callers \ {c} : pc'[d] = pc[d] /\ pc[d] \notin InMerge
  BY DEF IInv, TypeOK, Goto, LockInv, InMerge, Stages
<1>2. LockInv'
  BY <1>1, FaissIndexAssumption DEF IInv, LockInv, InMerge
<1>3. UniqueInv'
  BY <1>1 DEF IInv, UniqueInv
<1>4. (~tainted => DiskInv)'
  BY DEF IInv, DiskInv
<1>5. ASSUME ~tainted' PROVE MemoryInv'
  BY <1>1, <1>5 DEF IInv, MemoryInv, InMerge
<1> QED BY <1>2, <1>3, <1>4, <1>5 DEF IInv

(* The merge shows its ids, after the files name them.                     *)
LEMMA IInvPublish ==
  ASSUME IInv, TypeOK', NEW c \in Callers, Publish(c)
  PROVE  IInv'
<1> USE DEF Publish, disk
<1>1. /\ up /\ lock = c
      /\ pc' \in [Callers -> Stages] /\ pc'[c] = "idle"
      /\ \A d \in Callers \ {c} : pc'[d] = pc[d] /\ pc[d] \notin InMerge
  BY DEF IInv, TypeOK, Goto, LockInv, InMerge, Stages
<1>2. LockInv'
  BY <1>1, FaissIndexAssumption DEF IInv, LockInv, InMerge
<1>3. live_ids' \in Seq(Face) /\ live_ids' \o staging' = live_ids'
  BY ConcatEmptySeq DEF TypeOK
<1>4. UniqueInv'
  BY <1>1, <1>3 DEF IInv, UniqueInv
<1>5. (~tainted => DiskInv)'
  BY DEF IInv, DiskInv
<1>6. ASSUME ~tainted' PROVE MemoryInv'
  <2>1. MemoryInv
    BY <1>1, <1>6 DEF IInv
  <2>2. live_index' = live_ids' /\ disk_index' = live_ids'
    BY <1>1, <2>1, FaissIndexAssumption DEF MemoryInv
  <2>3. AlignedUpTo(live_ids', live_ids')
    BY <1>3, AlignedConcat
  <2>4. \A d \in Callers : pc'[d] # "publish" /\ pc'[d] # "save_index"
    BY <1>1 DEF InMerge
  <2> QED BY <1>3, <2>2, <2>3, <2>4 DEF MemoryInv
<1> QED BY <1>2, <1>4, <1>5, <1>6 DEF IInv

(* Death and restart.                                                      *)
LEMMA IInvCrash ==
  ASSUME IInv, TypeOK', Crash
  PROVE  IInv'
<1> USE DEF Crash, disk
<1>1. LockInv'
  BY FaissIndexAssumption DEF LockInv, InMerge
<1>2. <<>> \o <<>> = <<>> /\ IsInjective(<<>>)
  <2>1. <<>> \in Seq(Face)
    BY EmptySeq
  <2> QED BY <2>1, ConcatEmptySeq DEF IsInjective
<1>3. UniqueInv'
  BY <1>2 DEF IInv, UniqueInv
<1>4. (~tainted => DiskInv)'
  BY DEF IInv, DiskInv
<1> QED BY <1>1, <1>3, <1>4 DEF IInv

(* A load takes what both files have in common.                            *)
LEMMA IInvStart ==
  ASSUME IInv, TypeOK', Start
  PROVE  IInv'
<1> USE DEF Start, disk
<1>1. LockInv'
  BY DEF IInv, LockInv
<1>2. RestoredIds \in Seq(Face) /\ staging = <<>>
  BY RestoredType DEF IInv, UniqueInv
<1>3. RestoredIds \o <<>> = RestoredIds /\ AlignedUpTo(RestoredIds, RestoredIds)
  BY <1>2, ConcatEmptySeq, AlignedConcat
<1>4. IsInjective(RestoredIds)
  BY <1>2, RestoredAligned, AlignedInjective DEF IInv, TypeOK, UniqueInv
<1>5. UniqueInv'
  BY <1>2, <1>3, <1>4 DEF IInv, UniqueInv
<1>6. (~tainted => DiskInv)'
  BY DEF IInv, DiskInv
<1>7. ASSUME ~tainted' PROVE MemoryInv'
  <2>1. RestoredIds = disk_index
    BY <1>7, RestoredAligned DEF IInv
  <2>2. \A c \in Callers : pc'[c] = "idle" /\ lock' # c
    BY DEF IInv, LockInv, InMerge
  <2>3. lock' = NoCaller
    BY <2>2 DEF IInv, TypeOK
  <2> QED BY <1>2, <1>3, <2>1, <2>2, <2>3 DEF MemoryInv
<1> QED BY <1>1, <1>5, <1>6, <1>7 DEF IInv

(* A load is abandoned over intact files.                                  *)
LEMMA IInvStartUnreadable ==
  ASSUME IInv, TypeOK', StartUnreadable
  PROVE  IInv'
<1> USE DEF StartUnreadable, disk
<1>1. LockInv'
  BY DEF IInv, LockInv
<1>2. UniqueInv'
  BY DEF IInv, UniqueInv
<1> QED BY <1>1, <1>2 DEF IInv

(* Every step preserves the invariant.                                     *)
LEMMA IInvStep == IInv /\ [NextIndex]_indexVars => IInv'
<1> SUFFICES ASSUME IInv, [NextIndex]_indexVars PROVE IInv'
  OBVIOUS
<1>1. TypeOK /\ TypeOK'
  BY TypeStep DEF IInv
<1>2. IsInjective(live_ids \o staging)
  BY DEF IInv, UniqueInv
<1>3. ASSUME NEW c \in Callers, NEW f \in Face, Add(c, f) PROVE IInv'
  BY <1>1, <1>2, <1>3, StagedExtends, IInvBuffer DEF Add, TypeOK
<1>4. ASSUME NEW c \in Callers, NEW f \in Face, NEW g \in Face,
             AddBatch(c, f, g)
      PROVE  IInv'
  <2> DEFINE s == Staged(staging, f)
             t == Staged(s, g)
  <2>1. /\ s \in Seq(Face) /\ IsInjective(live_ids \o s)
        /\ AlignedUpTo(live_ids \o staging, live_ids \o s)
    BY <1>1, <1>2, StagedExtends DEF TypeOK
  <2>2. /\ t \in Seq(Face) /\ IsInjective(live_ids \o t)
        /\ AlignedUpTo(live_ids \o s, live_ids \o t)
    BY <1>1, <2>1, StagedExtends DEF TypeOK
  <2>3. Buffer(c, t)
    BY <1>4 DEF AddBatch
  <2> HIDE DEF t, s
  <2>4. AlignedUpTo(live_ids \o staging, live_ids \o t)
    <3>1. /\ live_ids \o staging \in Seq(Face) /\ live_ids \o s \in Seq(Face)
          /\ live_ids \o t \in Seq(Face)
      BY <1>1, <2>1, <2>2, AlignedConcat DEF TypeOK
    <3> QED BY <2>1, <2>2, <3>1, AlignedTransitive
  <2> QED BY <1>1, <2>2, <2>3, <2>4, IInvBuffer
<1>5. ASSUME NEW c \in Callers, ForceMerge(c) PROVE IInv'
  BY <1>1, <1>5, IInvOutside DEF ForceMerge, InMerge, memory
<1>6. ASSUME NEW c \in Callers, MergeSkips(c) \/ MergeRaises(c) \/ Catch(c)
      PROVE  IInv'
  <2>1. up
    BY <1>6 DEF IInv, LockInv, MergeSkips, MergeRaises, Catch
  <2> QED BY <1>1, <1>6, <2>1, IInvOutside
          DEF MergeSkips, MergeRaises, Catch, InMerge, memory
<1>7. ASSUME NEW c \in Callers,
             MergeBegins(c) \/ SaveIds(c) \/ SaveIndex(c) \/ SaveFails(c)
             \/ Publish(c)
      PROVE  IInv'
  BY <1>1, <1>7, IInvMergeBegins, IInvSaveIds, IInvSaveIndex, IInvSaveFails,
     IInvPublish
<1>8. CASE Crash \/ Start \/ StartUnreadable
  BY <1>1, <1>8, IInvCrash, IInvStart, IInvStartUnreadable
<1>9. CASE UNCHANGED indexVars
  BY <1>1, <1>9
  DEF indexVars, IInv, LockInv, UniqueInv, DiskInv, MemoryInv, memory, disk
<1> QED BY <1>3, <1>4, <1>5, <1>6, <1>7, <1>8, <1>9 DEF NextIndex, MergeStep

(* The files and lists stay initial segments of one another: IInv always.  *)
THEOREM InvariantHolds == SpecIndex => []IInv
BY IInvInit, IInvStep, PTL DEF SpecIndex

-----------------------------------------------------------------------------
(* What the invariant gives.                                               *)

(* From the invariant to what search() answers.                            *)
LEMMA IndexFaithful == IInv => SearchFaithful
<1>1. CASE up
  BY <1>1 DEF IInv, MemoryInv, SearchFaithful
<1>2. CASE ~up
  BY <1>2, EmptySeq, AlignedConcat DEF IInv, UniqueInv, SearchFaithful
<1> QED BY <1>1, <1>2

(* search() never names the wrong face while no merge has run on an index  *)
(* that was ahead of its ids.                                              *)
THEOREM SearchIsFaithful == SpecIndex => []SearchFaithful
BY IndexFaithful, InvariantHolds, PTL

(* The two files pair every vector with its face at every instant.         *)
THEOREM RestartIsFaithful == SpecIndex => []RestartFaithful
<1>1. ASSUME IInv PROVE RestartFaithful
  BY <1>1, RestoredAligned DEF IInv, RestartFaithful
<1> QED BY <1>1, InvariantHolds, PTL

(* The ids that search shows are those a restart would load.               *)
LEMMA PublishedAligned ==
  ASSUME IInv, ~tainted
  PROVE  AlignedUpTo(live_ids, RestoredIds)
<1>1. RestoredIds = disk_index
  BY RestoredAligned DEF IInv
<1>2. CASE ~up
  <2>1. live_ids = <<>> /\ Len(live_ids) = 0
    BY <1>2, EmptySeq DEF IInv, UniqueInv
  <2>2. Len(RestoredIds) \in Nat
    BY RestoredType, LenProperties DEF IInv
  <2> QED BY <2>1, <2>2 DEF AlignedUpTo
<1>3. CASE up /\ \A c \in Callers : pc[c] # "publish"
  BY <1>1, <1>3, AlignedConcat DEF IInv, TypeOK, MemoryInv
<1>4. CASE up /\ \E c \in Callers : pc[c] = "publish"
  BY <1>1, <1>4 DEF IInv, MemoryInv
<1> QED BY <1>2, <1>3, <1>4

(* What is searchable survives a crash.                                    *)
THEOREM PublishedSurvives == SpecIndex => []PublishedIsDurable
<1>1. IInv => PublishedIsDurable
  BY PublishedAligned DEF PublishedIsDurable, AlignedUpTo
<1> QED BY <1>1, InvariantHolds, PTL

(* No face ever has two searchable vectors.                                *)
THEOREM VectorsAreUnique == SpecIndex => []OneVectorPerFace
<1>1. ASSUME IInv PROVE OneVectorPerFace
  <2> DEFINE u == live_ids \o staging
  <2> USE DEF TypeOK
  <2>1. TypeOK /\ IsInjective(u)
    BY <1>1 DEF IInv, UniqueInv
  <2>2. /\ Len(live_ids) \in Nat /\ Len(staging) \in Nat
        /\ DOMAIN live_ids = 1..Len(live_ids) /\ DOMAIN staging = 1..Len(staging)
        /\ u \in Seq(Face) /\ DOMAIN u = 1..(Len(live_ids) + Len(staging))
        /\ \A i \in 1..Len(live_ids) : u[i] = live_ids[i]
        /\ \A i \in 1..Len(staging) : u[Len(live_ids) + i] = staging[i]
    <3>1. /\ Len(live_ids) \in Nat /\ Len(staging) \in Nat
          /\ DOMAIN live_ids = 1..Len(live_ids)
          /\ DOMAIN staging = 1..Len(staging)
      BY <2>1, LenProperties
    <3>2. /\ u \in Seq(Face) /\ Len(u) = Len(live_ids) + Len(staging)
          /\ \A i \in 1..(Len(live_ids) + Len(staging)) :
               u[i] = IF i <= Len(live_ids) THEN live_ids[i]
                      ELSE staging[i - Len(live_ids)]
      BY <2>1, ConcatProperties
    <3>3. \A i \in 1..Len(live_ids) : u[i] = live_ids[i]
      BY <3>1, <3>2
    <3>4. ASSUME NEW i \in 1..Len(staging)
          PROVE  u[Len(live_ids) + i] = staging[i]
      <4>1. /\ Len(live_ids) + i \in 1..(Len(live_ids) + Len(staging))
            /\ ~(Len(live_ids) + i <= Len(live_ids))
            /\ Len(live_ids) + i - Len(live_ids) = i
        BY <3>1
      <4> QED BY <3>2, <4>1
    <3> QED BY <3>1, <3>2, <3>3, <3>4, LenProperties
  <2> HIDE DEF u
  <2>3. IsInjective(live_ids)
    BY <2>1, <2>2 DEF IsInjective
  <2>4. IsInjective(staging)
    <3> SUFFICES ASSUME NEW i \in 1..Len(staging), NEW j \in 1..Len(staging),
                        staging[i] = staging[j]
                 PROVE  i = j
      BY <2>2 DEF IsInjective
    <3>1. Len(live_ids) + i \in DOMAIN u /\ Len(live_ids) + j \in DOMAIN u
      BY <2>2
    <3>2. u[Len(live_ids) + i] = u[Len(live_ids) + j]
      BY <2>2
    <3>3. Len(live_ids) + i = Len(live_ids) + j
      BY <2>1, <3>1, <3>2 DEF IsInjective
    <3> QED BY <2>2, <3>3
  <2>5. ASSUME NEW i \in 1..Len(live_ids), NEW j \in 1..Len(staging),
               live_ids[i] = staging[j]
        PROVE  FALSE
    <3>1. i \in DOMAIN u /\ Len(live_ids) + j \in DOMAIN u
      BY <2>2
    <3>2. u[i] = u[Len(live_ids) + j]
      BY <2>2, <2>5
    <3>3. i = Len(live_ids) + j
      BY <2>1, <3>1, <3>2 DEF IsInjective
    <3> QED BY <2>2, <3>3
  <2>6. Range(live_ids) \intersect Range(staging) = {}
    BY <2>2, <2>5 DEF Range
  <2>7. ASSUME ~tainted PROVE IsInjective(live_index)
    <3>1. CASE up
      BY <1>1, <2>1, <2>2, <2>7, <3>1, AlignedInjective
      DEF IInv, MemoryInv, u
    <3>2. CASE ~up
      BY <1>1, <3>2, <2>3 DEF IInv, UniqueInv
    <3> QED BY <3>1, <3>2
  <2> QED BY <2>3, <2>4, <2>6, <2>7 DEF OneVectorPerFace
<1> QED BY <1>1, InvariantHolds, PTL
=============================================================================
