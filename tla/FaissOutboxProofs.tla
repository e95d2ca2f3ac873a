------------------------- MODULE FaissOutboxProofs --------------------------
(***************************************************************************)
(* Proofs about FaissOutbox, for any set of faces and of reapers, any      *)
(* batch size and any bound on crashes, exceptions and failed statements.  *)
(*                                                                         *)
(* Every step of the outbox is a step of the index or leaves it alone, so  *)
(* the invariant of FaissIndexProofs holds here too.  On top of it three   *)
(* invariants carry three arguments that do not need each other:           *)
(*   StoredInv   an id in the index, a file or a batch is a stored face;   *)
(*   ClaimInv    a claimed row is merging until its reaper gives it up;    *)
(*   DurableInv  a committed row, a finished merge and the snapshot of the *)
(*               backfill speak of faces a restart would load.             *)
(***************************************************************************)
EXTENDS FaissHealth, FaissIndexProofs, FiniteSetTheorems

KnownFaces == Range(live_ids) \union Range(staging)

Durable == Range(RestoredIds)

(* A reaper inside the index: the last disjunct of ReaperStep.             *)
MergeAlone(r) ==
  MergeStep(r) /\ UNCHANGED <<stored, rows, reaping, recovery, bounds>>

-----------------------------------------------------------------------------
(* The index under the outbox.                                             *)

(* Every step of the outbox is one of the index or a stutter of it.        *)
LEMMA IndexStep == OutboxTypeOK /\ [Next]_vars => [NextIndex]_indexVars
<1> SUFFICES ASSUME OutboxTypeOK, [Next]_vars PROVE [NextIndex]_indexVars
  OBVIOUS
<1>1. ASSUME NEW f \in Face, Enqueue(f) \/ Expire(f)
      PROVE  UNCHANGED indexVars
  BY <1>1 DEF Enqueue, Expire
<1>2. ASSUME NEW r \in Callers,
             Reclaim(r) \/ NothingPending(r) \/ Claim(r) \/ MarkFailed(r)
             \/ MarkCommitted(r) \/ ClaimInDoubt(r) \/ TickFails(r)
      PROVE  UNCHANGED indexVars
  BY <1>2 DEF Reclaim, NothingPending, Claim, MarkFailed, MarkCommitted,
              ClaimInDoubt, TickFails
<1>3. ASSUME NEW r \in Callers, NEW f \in Face, Prune(r, f)
      PROVE  UNCHANGED indexVars
  BY <1>3 DEF Prune
<1>4. ASSUME NEW r \in Callers,
             Push(r) \/ MergeAll(r) \/ PushFails(r) \/ MergeStep(r)
      PROVE  [NextIndex]_indexVars
  <2>1. CASE Push(r)
    <3>1. PICK f \in todo[r] : Add(r, f) \/ UNCHANGED indexVars
      BY <2>1 DEF Push
    <3> QED BY <3>1 DEF NextIndex, OutboxTypeOK
  <2> QED BY <1>4, <2>1 DEF MergeAll, PushFails, NextIndex
<1>5. CASE RecoveryStep \/ RecoveryFault
  BY <1>5 DEF RecoveryStep, RecoveryFault, RecoverSnapshot, RecoverPage,
              RecoverDone, RecoverFails, LosePage
<1>6. CASE Die \/ Boot
  BY <1>6 DEF Die, Boot, NextIndex
<1>7. CASE UNCHANGED vars
  BY <1>7 DEF vars
<1> QED
  BY <1>1, <1>2, <1>3, <1>4, <1>5, <1>6, <1>7 DEF Next, ReaperStep

-----------------------------------------------------------------------------
(* Type correctness.                                                       *)

(* The process starts, over stored faces without rows, with its types.     *)
LEMMA OutboxTypeInit == Init => OutboxTypeOK
<1> SUFFICES ASSUME Init PROVE OutboxTypeOK
  OBVIOUS
<1>1. TypeOK
  BY TypeInit DEF Init
<1> QED BY <1>1, FaissOutboxAssumption DEF Init, OutboxTypeOK, Status

(* A claim counts one attempt and takes no more rows than are left.        *)
LEMMA ClaimTypes ==
  ASSUME OutboxTypeOK, NEW S \in SUBSET Claimable, ClaimRows(S)
  PROVE  /\ S \subseteq Face
         /\ row' \in [Face -> Status]
         /\ attempts' \in [Face -> 0..MaxAttempts]
         /\ old' \subseteq Face
<1> USE DEF ClaimRows, SetStatus, Claimable, OutboxTypeOK
<1>1. \A f \in S : attempts[f] + 1 \in 0..MaxAttempts
  BY FaissOutboxAssumption
<1> QED BY <1>1 DEF Status

(* Every step of reapers, recovery and index keeps them.                   *)
LEMMA OutboxTypeStep == OutboxTypeOK /\ [Next]_vars => OutboxTypeOK'
<1> SUFFICES ASSUME OutboxTypeOK, [Next]_vars PROVE OutboxTypeOK'
  OBVIOUS
<1> USE FaissOutboxAssumption
<1>1. TypeOK'
  BY IndexStep, TypeStep DEF OutboxTypeOK
<1>2. ASSUME NEW f \in Face, Enqueue(f) \/ Expire(f)
      PROVE  OutboxTypeOK'
  BY <1>1, <1>2 DEF Enqueue, Expire, OutboxTypeOK, SetStatus, Status,
                    reaping, recovery, bounds
<1>3. ASSUME NEW r \in Callers, Reclaim(r) \/ NothingPending(r)
      PROVE  OutboxTypeOK'
  BY <1>1, <1>3 DEF Reclaim, NothingPending, OutboxTypeOK, SetStatus, Status,
                    Step, rows, recovery, bounds
<1>4. ASSUME NEW r \in Callers, Claim(r) \/ ClaimInDoubt(r)
      PROVE  OutboxTypeOK'
  <2>1. PICK S \in SUBSET Claimable :
          /\ ClaimRows(S)
          /\ \/ /\ batch' = [batch EXCEPT ![r] = S]
                /\ todo' = [todo EXCEPT ![r] = S]
             \/ batch' = batch /\ todo' = todo
    <3>1. CASE Claim(r)
      BY <3>1 DEF Claim
    <3>2. CASE ClaimInDoubt(r)
      BY <3>2 DEF ClaimInDoubt
    <3> QED BY <1>4, <3>1, <3>2
  <2>2. batch' \in [Callers -> SUBSET Face] /\ todo' \in [Callers -> SUBSET Face]
    BY <2>1, ClaimTypes DEF OutboxTypeOK
  <2>3. db_faults' \in 0..MaxDbFaults /\ crashes' \in 0..MaxCrashes
    BY <1>4 DEF Claim, ClaimInDoubt, DbFault, bounds, OutboxTypeOK
  <2>4. reaper' \in [Callers -> {"tick", "drain", "add", "merge", "fail"}]
    BY <1>4 DEF Claim, ClaimInDoubt, Step, OutboxTypeOK
  <2> QED BY <1>1, <1>4, <2>1, <2>2, <2>3, <2>4, ClaimTypes
          DEF Claim, ClaimInDoubt, OutboxTypeOK, recovery
<1>5. ASSUME NEW r \in Callers,
             Push(r) \/ MergeAll(r) \/ PushFails(r)
             \/ MergeAlone(r)
      PROVE  OutboxTypeOK'
  <2>1. todo' \in [Callers -> SUBSET Face]
    BY <1>5 DEF Push, MergeAll, PushFails, MergeAlone, OutboxTypeOK, reaping
  <2>2. reaper' \in [Callers -> {"tick", "drain", "add", "merge", "fail"}]
    BY <1>5 DEF Push, MergeAlone, MergeAll, PushFails, OutboxTypeOK, reaping, Step
  <2> QED BY <1>1, <1>5, <2>1, <2>2 DEF Push, MergeAll, PushFails,
             MergeAlone, OutboxTypeOK, rows, reaping, recovery, bounds
<1>6. ASSUME NEW r \in Callers, MarkFailed(r) \/ MarkCommitted(r) \/ TickFails(r)
      PROVE  OutboxTypeOK'
  <2>1. /\ batch' \in [Callers -> SUBSET Face]
        /\ todo' \in [Callers -> SUBSET Face]
        /\ reaper' \in [Callers -> {"tick", "drain", "add", "merge", "fail"}]
    BY <1>6 DEF MarkFailed, MarkCommitted, TickFails, EndTick, Step, OutboxTypeOK
  <2>2. row' \in [Face -> Status]
    BY <1>6 DEF MarkFailed, MarkCommitted, TickFails, SetStatus, Status,
                OutboxTypeOK, rows
  <2>3. db_faults' \in 0..MaxDbFaults /\ crashes' \in 0..MaxCrashes
    BY <1>6 DEF MarkFailed, MarkCommitted, TickFails, DbFault, bounds, OutboxTypeOK
  <2> QED BY <1>1, <1>6, <2>1, <2>2, <2>3
          DEF MarkFailed, MarkCommitted, TickFails, OutboxTypeOK, rows, recovery
<1>7. ASSUME NEW r \in Callers, NEW f \in Face, Prune(r, f)
      PROVE  OutboxTypeOK'
  BY <1>1, <1>7 DEF Prune, OutboxTypeOK, SetStatus, Status, reaping, recovery,
                    bounds
<1>8. ASSUME NEW P \in SUBSET Face, RecoverPage(P) \/ LosePage(P)
      PROVE  OutboxTypeOK'
  BY <1>1, <1>8 DEF RecoverPage, LosePage, NextPage, Rowless, DbFault,
                    OutboxTypeOK, SetStatus, Status, rows, reaping, bounds
<1>9. CASE RecoverSnapshot \/ RecoverDone \/ RecoverFails
  <2>1. Range(live_ids) \subseteq Face
    BY RangeOfSeq DEF OutboxTypeOK, TypeOK
  <2> QED BY <1>1, <1>9, <2>1 DEF RecoverSnapshot, RecoverDone, RecoverFails,
             DbFault, OutboxTypeOK, rows, reaping, bounds
<1>10. CASE Die
  BY <1>1, <1>10 DEF Die, OutboxTypeOK, rows
<1>11. CASE Boot
  BY <1>1, <1>11 DEF Boot, OutboxTypeOK, rows, reaping, recovery, bounds
<1>12. CASE UNCHANGED vars
  BY <1>1, <1>12 DEF vars, OutboxTypeOK, rows, reaping, recovery, bounds
<1>13. ASSUME NEW r \in Callers, ReaperStep(r)
       PROVE  OutboxTypeOK'
  BY <1>3, <1>4, <1>5, <1>6, <1>13 DEF ReaperStep, MergeAlone
<1>14. CASE RecoveryStep \/ RecoveryFault
  BY <1>8, <1>9, <1>14 DEF RecoveryStep, RecoveryFault
<1>15. CASE Next
  <2>1. CASE \E f \in Face : Enqueue(f) \/ Expire(f)
    BY <1>2, <2>1
  <2>2. CASE \E r \in Callers :
               \/ ReaperStep(r) \/ ClaimInDoubt(r) \/ TickFails(r)
               \/ \E f \in Face : Prune(r, f)
    BY <1>4, <1>6, <1>7, <1>13, <2>2
  <2>3. CASE RecoveryStep \/ RecoveryFault \/ Die \/ Boot
    BY <1>10, <1>11, <1>14, <2>3
  <2> QED BY <1>15, <2>1, <2>2, <2>3 DEF Next
<1> QED BY <1>12, <1>15

(* Every variable of the outbox, of its reapers and of the index below     *)
(* keeps its type; in particular no row is claimed more often than it may. *)
THEOREM OutboxTypeCorrect == Spec => []OutboxTypeOK
BY OutboxTypeInit, OutboxTypeStep, PTL DEF Spec

-----------------------------------------------------------------------------
(* How ids move through the index.                                         *)

(* An initial segment names no more than the whole.                        *)
LEMMA AlignedRange ==
  ASSUME NEW s \in Seq(Face), NEW t \in Seq(Face), AlignedUpTo(s, t)
  PROVE  Range(s) \subseteq Range(t)
<1>1. /\ Len(s) \in Nat /\ DOMAIN s = 1..Len(s)
      /\ Len(t) \in Nat /\ DOMAIN t = 1..Len(t)
  BY LenProperties
<1>2. \A i \in DOMAIN s : i \in DOMAIN t /\ s[i] = t[i]
  BY <1>1 DEF AlignedUpTo
<1> QED BY <1>2 DEF Range

(* The range of a list with one more at its end.                           *)
LEMMA RangeAppend ==
  ASSUME NEW s \in Seq(Face), NEW f \in Face
  PROVE  Range(Append(s, f)) = Range(s) \union {f}
<1>1. /\ Append(s, f) \in Seq(Face) /\ Len(Append(s, f)) = Len(s) + 1
      /\ \A i \in 1..Len(s) : Append(s, f)[i] = s[i]
      /\ Append(s, f)[Len(s) + 1] = f
  BY AppendProperties
<1>2. /\ Len(s) \in Nat /\ DOMAIN s = 1..Len(s)
      /\ DOMAIN Append(s, f) = 1..(Len(s) + 1)
  BY <1>1, LenProperties
<1>3. ASSUME NEW i \in 1..(Len(s) + 1) PROVE i \in 1..Len(s) \/ i = Len(s) + 1
  BY <1>2
<1> QED BY <1>1, <1>2, <1>3 DEF Range

(* The empty list has no elements.                                         *)
LEMMA RangeEmpty == Range(<<>>) = {}
BY DEF Range

(* add() makes exactly one more face known and writes no file.             *)
LEMMA AddIds ==
  ASSUME TypeOK, NEW c \in Callers, NEW f \in Face, Add(c, f)
  PROVE  KnownFaces' = KnownFaces \union {f} /\ UNCHANGED <<disk_ids, disk_index>>
<1>1. staging' = Append(staging, f) /\ UNCHANGED <<live_ids, disk>>
  BY DEF Add, Known, Buffer, Staged
<1> QED BY <1>1, RangeAppend DEF TypeOK, KnownFaces, disk

(* A merge moves ids between memory and the ids file and invents none.     *)
LEMMA IdsMove ==
  ASSUME TypeOK, NEW c \in Callers,
         MergeStep(c) \/ ForceMerge(c) \/ Catch(c)
  PROVE  KnownFaces' \union Range(disk_ids') \subseteq KnownFaces \union Range(disk_ids)
<1>1. CASE MergeSkips(c) \/ MergeBegins(c) \/ MergeRaises(c) \/ SaveIndex(c)
           \/ SaveFails(c) \/ ForceMerge(c) \/ Catch(c)
  <2>1. UNCHANGED <<live_ids, staging, disk_ids>>
    BY <1>1 DEF MergeSkips, MergeBegins, MergeRaises, SaveIndex, SaveFails,
                ForceMerge, Catch, memory, disk
  <2> QED BY <2>1 DEF KnownFaces
<1>2. Range(live_ids \o staging) = KnownFaces
  BY RangeConcatenation DEF TypeOK, KnownFaces
<1>3. CASE SaveIds(c)
  BY <1>2, <1>3 DEF SaveIds, KnownFaces, memory
<1>4. CASE Publish(c)
  BY <1>2, <1>4, RangeEmpty DEF Publish, KnownFaces, disk
<1> QED BY <1>1, <1>3, <1>4 DEF MergeStep

-----------------------------------------------------------------------------
(* Nothing but stored faces reaches the index.                             *)

StoredInv ==
  /\ \A f \in Face : row[f] # "none" => f \in stored
  /\ \A r \in Callers : todo[r] \subseteq batch[r] /\ batch[r] \subseteq stored
  /\ scan \subseteq stored
  /\ KnownFaces \union Range(disk_ids) \subseteq stored

(* At the start no id is in the index, a file or a batch.                  *)
LEMMA StoredInit == Init => StoredInv
BY RangeEmpty DEF Init, InitIndex, StoredInv, KnownFaces

(* A face is stored before its id goes anywhere, and stays stored.         *)
LEMMA StoredStep == OutboxTypeOK /\ StoredInv /\ [Next]_vars => StoredInv'
<1> SUFFICES ASSUME OutboxTypeOK, StoredInv, [Next]_vars PROVE StoredInv'
  OBVIOUS
<1>1. ASSUME UNCHANGED indexVars
      PROVE  UNCHANGED <<KnownFaces, disk_ids>>
  BY <1>1 DEF indexVars, KnownFaces, memory, disk
<1>2. ASSUME NEW f \in Face, Enqueue(f) \/ Expire(f)
      PROVE  StoredInv'
  BY <1>1, <1>2 DEF Enqueue, Expire, StoredInv, OutboxTypeOK, SetStatus,
                    reaping, recovery
<1>3. ASSUME NEW r \in Callers, Reclaim(r) \/ NothingPending(r)
      PROVE  StoredInv'
  BY <1>1, <1>3 DEF Reclaim, NothingPending, StoredInv, OutboxTypeOK, SetStatus,
                    rows, recovery
<1>4. ASSUME NEW r \in Callers, Claim(r) \/ ClaimInDoubt(r)
      PROVE  StoredInv'
  <2>1. PICK S \in SUBSET Claimable :
          /\ SetStatus(S, "merging")
          /\ \/ /\ batch' = [batch EXCEPT ![r] = S]
                /\ todo' = [todo EXCEPT ![r] = S]
             \/ batch' = batch /\ todo' = todo
    <3>1. CASE Claim(r)
      BY <3>1 DEF Claim, ClaimRows
    <3>2. CASE ClaimInDoubt(r)
      BY <3>2 DEF ClaimInDoubt, ClaimRows
    <3> QED BY <1>4, <3>1, <3>2
  <2>2. S \subseteq stored
    BY <2>1 DEF Claimable, StoredInv
  <2>3. \A q \in Callers : todo'[q] \subseteq batch'[q] /\ batch'[q] \subseteq stored
    BY <2>1, <2>2 DEF StoredInv, OutboxTypeOK
  <2>4. /\ UNCHANGED <<indexVars, stored, scan>>
    BY <1>4 DEF Claim, ClaimInDoubt, recovery
  <2> QED BY <1>1, <2>1, <2>2, <2>3, <2>4 DEF StoredInv, SetStatus, OutboxTypeOK
<1>5. ASSUME NEW r \in Callers, Push(r)
      PROVE  StoredInv'
  <2>1. PICK f \in todo[r] :
          /\ Add(r, f) \/ UNCHANGED indexVars
          /\ todo' = [todo EXCEPT ![r] = @ \ {f}]
    BY <1>5 DEF Push
  <2>2. f \in Face /\ f \in stored
    BY <2>1 DEF OutboxTypeOK, StoredInv
  <2>3. KnownFaces' \union Range(disk_ids') \subseteq stored
    BY <1>1, <2>1, <2>2, AddIds DEF OutboxTypeOK, StoredInv
  <2> QED BY <1>5, <2>1, <2>3 DEF Push, StoredInv, OutboxTypeOK, rows, recovery
<1>6. ASSUME NEW r \in Callers, MergeAll(r) \/ PushFails(r) \/ MergeAlone(r)
      PROVE  StoredInv'
  <2>1. KnownFaces' \union Range(disk_ids') \subseteq stored
    BY <1>6, IdsMove DEF MergeAll, PushFails, MergeAlone, OutboxTypeOK, StoredInv
  <2> QED BY <1>6, <2>1 DEF MergeAll, PushFails, MergeAlone, StoredInv, rows,
             recovery, reaping
<1>7. ASSUME NEW r \in Callers, MarkFailed(r) \/ MarkCommitted(r) \/ TickFails(r)
      PROVE  StoredInv'
  <2>1. \A f \in Face : row'[f] # "none" => f \in stored
    BY <1>7 DEF MarkFailed, MarkCommitted, TickFails, SetStatus, StoredInv,
                OutboxTypeOK, rows
  <2>2. \A q \in Callers : todo'[q] \subseteq batch'[q] /\ batch'[q] \subseteq stored
    BY <1>7 DEF MarkFailed, MarkCommitted, TickFails, EndTick, StoredInv,
                OutboxTypeOK
  <2> QED BY <1>1, <1>7, <2>1, <2>2
          DEF MarkFailed, MarkCommitted, TickFails, StoredInv, recovery
<1>8. ASSUME NEW r \in Callers, NEW f \in Face, Prune(r, f)
      PROVE  StoredInv'
  BY <1>1, <1>8 DEF Prune, StoredInv, OutboxTypeOK, SetStatus, reaping, recovery
<1>9. ASSUME NEW P \in SUBSET Face, RecoverPage(P) \/ LosePage(P)
      PROVE  StoredInv'
  BY <1>1, <1>9 DEF RecoverPage, LosePage, NextPage, Rowless, StoredInv,
                    OutboxTypeOK, SetStatus, rows, reaping
<1>10. CASE RecoverSnapshot \/ RecoverDone \/ RecoverFails
  BY <1>1, <1>10 DEF RecoverSnapshot, RecoverDone, RecoverFails, StoredInv,
                     rows, reaping
<1>11. CASE Die
  <2>1. KnownFaces' \union Range(disk_ids') \subseteq stored
    <3>1. UNCHANGED disk_ids /\ KnownFaces' = {}
      BY <1>11, RangeEmpty DEF Die, Crash, KnownFaces, disk
    <3> QED BY <3>1 DEF StoredInv
  <2> QED BY <1>11, <2>1 DEF Die, StoredInv, rows
<1>12. CASE Boot
  <2>1. KnownFaces' \union Range(disk_ids') \subseteq KnownFaces \union Range(disk_ids)
    <3>1. CASE StartUnreadable
      BY <3>1 DEF StartUnreadable, KnownFaces, disk
    <3>2. CASE Start
      <4>1. Range(RestoredIds) \subseteq Range(disk_ids)
        BY RestoredAligned, RestoredType, AlignedRange DEF OutboxTypeOK, TypeOK
      <4> QED BY <3>2, <4>1 DEF Start, KnownFaces, disk
    <3> QED BY <1>12, <3>1, <3>2 DEF Boot
  <2> QED BY <1>12, <2>1 DEF Boot, StoredInv, rows, reaping, recovery
<1>13. CASE UNCHANGED vars
  BY <1>1, <1>13 DEF vars, StoredInv, rows, reaping, recovery
<1> QED
  BY <1>2, <1>3, <1>4, <1>5, <1>6, <1>7, <1>8, <1>9, <1>10, <1>11, <1>12, <1>13
  DEF Next, ReaperStep, RecoveryStep, RecoveryFault, MergeAlone

-----------------------------------------------------------------------------
(* The health report.                                                      *)

(* A list that names nobody twice is as long as its range is large.        *)
LEMMA InjectiveRange ==
  ASSUME NEW s \in Seq(Face), IsInjective(s)
  PROVE  IsFiniteSet(Range(s)) /\ Cardinality(Range(s)) = Len(s)
<1>1. Len(s) \in Nat /\ s \in [1..Len(s) -> Face] /\ DOMAIN s = 1..Len(s)
  BY LenProperties
<1>2. s \in Surjection(1..Len(s), Range(s))
  BY <1>1 DEF Surjection, Range
<1>3. s \in Injection(1..Len(s), Range(s))
  BY <1>1, <1>2 DEF Surjection, Injection, IsInjective
<1>4. IsFiniteSet(1..Len(s)) /\ Cardinality(1..Len(s)) = Len(s)
  BY <1>1, FS_Interval
<1> QED BY <1>2, <1>3, <1>4, FS_Surjection

(* A step stores at most one face.                                         *)
LEMMA FiniteStep == IsFiniteSet(stored) /\ [Next]_vars => IsFiniteSet(stored')
<1> SUFFICES ASSUME IsFiniteSet(stored), [Next]_vars
             PROVE  IsFiniteSet(stored')
  OBVIOUS
<1>1. ASSUME NEW f \in Face, Enqueue(f) PROVE IsFiniteSet(stored')
  BY <1>1, FS_AddElement DEF Enqueue
<1>2. ASSUME NEW f \in Face, Expire(f) PROVE UNCHANGED stored
  BY <1>2 DEF Expire
<1>3. ASSUME NEW r \in Callers, ReaperStep(r) PROVE UNCHANGED stored
  BY <1>3 DEF ReaperStep, Reclaim, NothingPending, Claim, Push, MergeAll,
              PushFails, MarkFailed, MarkCommitted
<1>4. ASSUME NEW r \in Callers,
             ClaimInDoubt(r) \/ TickFails(r) \/ \E f \in Face : Prune(r, f)
      PROVE  UNCHANGED stored
  BY <1>4 DEF ClaimInDoubt, TickFails, Prune
<1>5. CASE RecoveryStep \/ RecoveryFault \/ Die \/ Boot
  BY <1>5 DEF RecoveryStep, RecoveryFault, RecoverSnapshot, RecoverPage,
              RecoverDone, RecoverFails, LosePage, Die, Boot
<1> QED BY <1>1, <1>2, <1>3, <1>4, <1>5 DEF Next, vars

(* While the process runs, the index loses no id.                          *)
LEMMA IdsStay ==
  ASSUME TypeOK, [NextIndex]_indexVars, up, up'
  PROVE  /\ Len(live_ids) <= Len(live_ids')
         /\ Len(live_ids) + Len(staging) <= Len(live_ids') + Len(staging')
<1> USE DEF TypeOK
<1>1. Len(live_ids) \in Nat /\ Len(staging) \in Nat
  BY LenProperties
<1>2. ASSUME UNCHANGED <<live_ids, staging>>
      PROVE  /\ Len(live_ids) <= Len(live_ids')
             /\ Len(live_ids) + Len(staging) <= Len(live_ids') + Len(staging')
  BY <1>1, <1>2
<1>3. ASSUME NEW s \in Seq(Face), NEW f \in Face
      PROVE  Staged(s, f) \in Seq(Face) /\ Len(s) <= Len(Staged(s, f))
  BY LenProperties, AppendProperties DEF Staged
<1>4. ASSUME NEW c \in Callers, NEW f \in Face, NEW g \in Face,
             Add(c, f) \/ AddBatch(c, f, g)
      PROVE  live_ids' = live_ids /\ Len(staging) <= Len(staging')
  <2>1. PICK s \in {Staged(staging, f), Staged(Staged(staging, f), g)} :
          staging' = s /\ live_ids' = live_ids
    BY <1>4 DEF Add, AddBatch, Buffer
  <2>2. /\ Staged(staging, f) \in Seq(Face) /\ Len(staging) <= Len(Staged(staging, f))
        /\ Len(Staged(staging, f)) \in Nat
    BY <1>3, LenProperties
  <2>3. /\ Len(Staged(staging, f)) <= Len(Staged(Staged(staging, f), g))
        /\ Len(Staged(Staged(staging, f), g)) \in Nat
    BY <1>3, <2>2, LenProperties
  <2> QED BY <1>1, <2>1, <2>2, <2>3
<1>5. ASSUME NEW c \in Callers, Publish(c)
      PROVE  /\ Len(live_ids) <= Len(live_ids')
             /\ Len(live_ids) + Len(staging) <= Len(live_ids') + Len(staging')
  <2>1. live_ids' = live_ids \o staging /\ staging' = <<>>
    BY <1>5 DEF Publish
  <2>2. Len(live_ids') = Len(live_ids) + Len(staging) /\ Len(staging') = 0
    BY <2>1, ConcatProperties
  <2> QED BY <1>1, <2>2
<1>6. ASSUME NEW c \in Callers,
             \/ ForceMerge(c) \/ Catch(c) \/ MergeSkips(c) \/ MergeBegins(c)
             \/ MergeRaises(c) \/ SaveIds(c) \/ SaveIndex(c) \/ SaveFails(c)
      PROVE  UNCHANGED <<live_ids, staging>>
  BY <1>6 DEF ForceMerge, Catch, MergeSkips, MergeBegins, MergeRaises, SaveIds,
              SaveIndex, SaveFails, memory
<1>7. ~Crash /\ ~Start /\ ~StartUnreadable
  BY DEF Crash, Start, StartUnreadable
<1>8. CASE UNCHANGED indexVars
  BY <1>2, <1>8 DEF indexVars, memory
<1>9. CASE \E c \in Callers : \E f, g \in Face : Add(c, f) \/ AddBatch(c, f, g)
  <2>1. live_ids' = live_ids /\ Len(staging) <= Len(staging')
    BY <1>4, <1>9
  <2>2. Len(staging') \in Nat
    BY <1>4, <1>9, <1>3, LenProperties DEF Add, AddBatch, Buffer
  <2> QED BY <1>1, <2>1, <2>2
<1> QED BY <1>2, <1>5, <1>6, <1>7, <1>8, <1>9 DEF NextIndex, MergeStep

(* Why the readings add up, whatever happened between them.                *)
ProbeInv ==
  /\ ProbeTypeOK
  /\ probe.at # "faces" => up
  /\ ~probe.crossed =>
       /\ probe.at \in {"live", "ids", "staging"} => probe.faces = Cardinality(stored)
       /\ probe.at = "staging" => probe.live <= Len(live_ids)
       /\ probe.at \in {"trained", "outbox", "healthy"} =>
            Cardinality(stored) <= Len(live_ids) + Len(staging)

(* A request that has read nothing is sound.                               *)
LEMMA ProbeFresh == probe' = NoProbe => ProbeInv'
BY DEF NoProbe, ProbeInv, ProbeTypeOK

(* What the process does between two readings does not spoil them.         *)
LEMMA ProbeWaits ==
  ASSUME OutboxTypeOK, IsFiniteSet(stored), ProbeInv, Next, probe' = Meanwhile
  PROVE  ProbeInv'
<1>1. CASE up' /\ probe.at # "faces"
  <2>1. /\ Len(live_ids) <= Len(live_ids')
        /\ Len(live_ids) + Len(staging) <= Len(live_ids') + Len(staging')
    BY <1>1, IndexStep, IdsStay DEF ProbeInv, OutboxTypeOK
  <2>2. /\ Len(live_ids) \in Nat /\ Len(live_ids') \in Nat
        /\ Len(staging) \in Nat /\ Len(staging') \in Nat
    BY OutboxTypeStep, LenProperties DEF OutboxTypeOK, TypeOK
  <2>3. probe' = [probe EXCEPT !.crossed = probe.crossed \/ stored' # stored]
    BY <1>1 DEF Meanwhile
  <2>4. /\ probe'.at = probe.at /\ probe'.faces = probe.faces
        /\ probe'.live = probe.live
        /\ ~probe'.crossed => ~probe.crossed /\ stored' = stored
    BY <2>3 DEF ProbeInv, ProbeTypeOK
  <2>5. ProbeTypeOK'
    BY <2>3, Zenon DEF ProbeInv, ProbeTypeOK
  <2>6. probe.live \in Nat /\ Cardinality(stored) \in Nat
    BY FS_CardinalityType DEF ProbeInv, ProbeTypeOK
  <2> QED BY <1>1, <2>1, <2>2, <2>4, <2>5, <2>6 DEF ProbeInv
<1>2. CASE ~(up' /\ probe.at # "faces")
  <2>1. probe' = NoProbe
    BY <1>2 DEF Meanwhile
  <2> QED BY <2>1, ProbeFresh
<1> QED BY <1>1, <1>2

(* Each reading establishes what the next ones rest on.                    *)
LEMMA ProbeReads ==
  ASSUME OutboxTypeOK, IsFiniteSet(stored), ProbeInv, ProbeStep
  PROVE  ProbeInv'
<1> USE DEF ProbeInv, ProbeTypeOK, Due, Passes
<1>1. /\ Len(live_ids) \in Nat /\ Len(staging) \in Nat /\ Len(live_index) \in Nat
      /\ live_count \in Nat /\ Cardinality(stored) \in Nat
  BY LenProperties, FS_CardinalityType DEF OutboxTypeOK, TypeOK
<1>2. UNCHANGED vars
  BY DEF ProbeStep, ReadFaces, ReadLive, ReadIds, ReadStaging, ReadTrained,
         ReadOutbox, Answer
<1>3. UNCHANGED <<up, stored, live_ids, staging>>
  BY <1>2 DEF vars, indexVars, memory
<1>4. CASE probe' = NoProbe
  BY <1>4, ProbeFresh
<1>5. CASE ReadFaces
  BY <1>1, <1>3, <1>5 DEF ReadFaces, NoProbe
<1>6. CASE ReadLive
  <2>1. PICK n \in Nat : probe' = [probe EXCEPT !.at = "ids", !.live = n]
    BY <1>1, <1>6 DEF ReadLive
  <2> QED BY <1>3, <1>6, <2>1 DEF ReadLive
<1>7. CASE ReadIds
  <2>1. CASE probe' = [probe EXCEPT !.at = "staging", !.crossed = TRUE]
    BY <1>3, <1>7, <2>1 DEF ReadIds
  <2>2. CASE /\ Len(live_ids) = probe.live
             /\ probe' = [probe EXCEPT !.at = "staging"]
    BY <1>1, <1>3, <1>7, <2>2 DEF ReadIds
  <2> QED BY <1>4, <1>7, <2>1, <2>2 DEF ReadIds
<1>8. CASE ReadStaging
  <2>1. CASE /\ probe.faces = probe.live + Len(staging)
             /\ probe' = [NoProbe EXCEPT !.at = "trained", !.crossed = probe.crossed]
    <3>1. /\ probe'.at = "trained" /\ probe'.crossed = probe.crossed
          /\ probe' \in [at : {"trained"}, faces : {0}, live : {0}, crossed : BOOLEAN]
      BY <2>1 DEF NoProbe
    <3>2. ~probe.crossed => Cardinality(stored) <= Len(live_ids) + Len(staging)
      BY <1>1, <1>8, <2>1 DEF ReadStaging
    <3> QED BY <1>3, <1>8, <3>1, <3>2 DEF ReadStaging
  <2> QED BY <1>4, <1>8, <2>1 DEF ReadStaging, Agree
<1>9. CASE ReadTrained
  <2>1. CASE probe' = [probe EXCEPT !.at = "outbox"]
    BY <1>3, <1>9, <2>1 DEF ReadTrained
  <2> QED BY <1>4, <1>9, <2>1 DEF ReadTrained
<1>10. CASE ReadOutbox
  <2>1. CASE probe' = [probe EXCEPT !.at = "healthy"]
    BY <1>3, <1>10, <2>1 DEF ReadOutbox
  <2> QED BY <1>4, <1>10, <2>1 DEF ReadOutbox
<1>11. CASE Answer
  BY <1>4, <1>11 DEF Answer
<1> QED BY <1>5, <1>6, <1>7, <1>8, <1>9, <1>10, <1>11 DEF ProbeStep

(* A healthy answer of GET /faiss-health means what it says, although each *)
(* of its counts is of a moment of its own: while the process runs the     *)
(* index loses no id, so as many ids as there were faces when they were    *)
(* counted are there at the end, and ids are unique and all of them        *)
(* stored, in every state, whatever failed before.                         *)
THEOREM HealthIsSound ==
  ASSUME IsFiniteSet(Legacy)
  PROVE  HealthSpec => []HealthySound
<1> DEFINE I == /\ OutboxTypeOK /\ StoredInv /\ IInv /\ IsFiniteSet(stored)
                /\ ProbeInv
<1>1. HealthInit => I
  <2> SUFFICES ASSUME HealthInit PROVE I
    OBVIOUS
  <2>1. ProbeInv
    BY DEF HealthInit, NoProbe, ProbeInv, ProbeTypeOK
  <2> QED BY <2>1, OutboxTypeInit, StoredInit, IInvInit DEF HealthInit, Init
<1>2. I /\ [HealthNext]_healthVars => I'
  <2> SUFFICES ASSUME I, [HealthNext]_healthVars PROVE I'
    OBVIOUS
  <2>1. [Next]_vars
    BY DEF HealthNext, healthVars, ProbeStep, ReadFaces, ReadLive, ReadIds,
           ReadStaging, ReadTrained, ReadOutbox, Answer
  <2>2. OutboxTypeOK' /\ StoredInv' /\ IInv' /\ IsFiniteSet(stored')
    BY <2>1, OutboxTypeStep, StoredStep, IndexStep, IInvStep, FiniteStep
  <2>3. ProbeInv'
    <3>1. CASE Next /\ probe' = Meanwhile
      BY <3>1, ProbeWaits
    <3>2. CASE ProbeStep
      BY <3>2, ProbeReads
    <3>3. CASE UNCHANGED healthVars
      <4>1. UNCHANGED <<probe, up, stored, live_ids, staging>>
        BY <3>3 DEF healthVars, vars, indexVars, memory
      <4> QED BY <4>1 DEF ProbeInv, ProbeTypeOK
    <3> QED BY <3>1, <3>2, <3>3 DEF HealthNext
  <2> QED BY <2>2, <2>3
<1>3. ASSUME I, probe.at = "healthy", ~probe.crossed
      PROVE  stored = KnownFaces
  <2> DEFINE u == live_ids \o staging
  <2>1. u \in Seq(Face) /\ Len(u) = Len(live_ids) + Len(staging)
    BY <1>3, ConcatProperties DEF OutboxTypeOK, TypeOK
  <2>2. IsInjective(u) /\ Range(u) = KnownFaces
    BY <1>3, RangeConcatenation
    DEF IInv, UniqueInv, OutboxTypeOK, TypeOK, KnownFaces
  <2>3. IsFiniteSet(KnownFaces) /\ Cardinality(KnownFaces) = Len(u)
    BY <2>1, <2>2, InjectiveRange
  <2>4. Cardinality(stored) <= Cardinality(KnownFaces)
    BY <1>3, <2>1, <2>3 DEF ProbeInv
  <2>5. /\ KnownFaces \subseteq stored
        /\ Cardinality(KnownFaces) <= Cardinality(stored)
        /\ Cardinality(KnownFaces) = Cardinality(stored) => KnownFaces = stored
    BY <1>3, FS_Subset DEF StoredInv
  <2>6. Cardinality(KnownFaces) \in Nat /\ Cardinality(stored) \in Nat
    BY <1>3, <2>3, FS_CardinalityType
  <2> QED BY <2>4, <2>5, <2>6
<1>4. I => HealthySound
  BY <1>3 DEF HealthySound, KnownFaces
<1> QED BY <1>1, <1>2, <1>4, PTL DEF HealthSpec

-----------------------------------------------------------------------------
(* Claims.                                                                 *)

(* One reaper, or drains that end before the stuck timeout.                *)
ClaimsHold == SlowReapers => \A r, s \in Callers : r = s

ClaimInv ==
  /\ \A r \in Callers : reaper[r] \in {"tick", "drain"} => batch[r] = {}
  /\ \A r \in Callers : \A f \in batch[r] :
       row[f] = "merging" /\ (~SlowReapers => f \notin old)
  /\ ExclusiveClaims

(* Nobody holds a row at the start.                                        *)
LEMMA ClaimInit == Init => ClaimInv
BY DEF Init, ClaimInv, ExclusiveClaims

(* A claim takes pending rows only, and a reclaim takes nobody else's.     *)
LEMMA ClaimStep ==
  ASSUME ClaimsHold, OutboxTypeOK, StoredInv, ClaimInv, [Next]_vars
  PROVE  ClaimInv'
<1> USE DEF ClaimInv, ExclusiveClaims, OutboxTypeOK
<1>1. ASSUME NEW f \in Face, Enqueue(f)
      PROVE  ClaimInv'
  <2>1. \A r \in Callers : f \notin batch[r]
    BY <1>1 DEF Enqueue, StoredInv
  <2> QED BY <1>1, <2>1 DEF Enqueue, SetStatus, reaping
<1>2. ASSUME NEW f \in Face, Expire(f)
      PROVE  ClaimInv'
  BY <1>2 DEF Expire, reaping
<1>3. ASSUME NEW r \in Callers, Reclaim(r) \/ NothingPending(r)
      PROVE  ClaimInv'
  <2>1. /\ reaper[r] \in {"tick", "drain"} /\ UNCHANGED <<batch, old>>
        /\ \A q \in Callers \ {r} : reaper'[q] = reaper[q]
    BY <1>3 DEF Reclaim, NothingPending, Step, rows
  <2>2. \A q \in Callers : \A f \in batch[q] : row'[f] = row[f]
    <3>1. CASE NothingPending(r)
      BY <3>1 DEF NothingPending, rows
    <3>2. CASE Reclaim(r)
      BY <2>1, <3>2 DEF Reclaim, SetStatus, ClaimsHold
    <3> QED BY <1>3, <3>1, <3>2
  <2> QED BY <2>1, <2>2
<1>4. ASSUME NEW r \in Callers, Claim(r) \/ ClaimInDoubt(r)
      PROVE  ClaimInv'
  <2>1. PICK S \in SUBSET Claimable :
          /\ SetStatus(S, "merging") /\ old' = old \ S
          /\ \/ batch' = [batch EXCEPT ![r] = S] /\ reaper' = [reaper EXCEPT ![r] = "add"]
             \/ batch' = batch /\ reaper' = [reaper EXCEPT ![r] = "tick"]
    <3>1. CASE Claim(r)
      BY <3>1 DEF Claim, ClaimRows, Step
    <3>2. CASE ClaimInDoubt(r)
      BY <3>2 DEF ClaimInDoubt, ClaimRows, Step
    <3> QED BY <1>4, <3>1, <3>2
  <2>2. batch[r] = {}
    BY <1>4 DEF Claim, ClaimInDoubt
  <2>3. S \subseteq Face /\ \A q \in Callers : S \intersect batch[q] = {}
    BY DEF Claimable
  <2>4. \A q \in Callers : reaper'[q] \in {"tick", "drain"} => batch'[q] = {}
    BY <2>1, <2>2
  <2>5. \A q \in Callers : batch'[q] \in {batch[q], S}
    BY <2>1
  <2>6. \A q \in Callers : \A f \in batch'[q] :
          row'[f] = "merging" /\ (~SlowReapers => f \notin old')
    BY <2>1, <2>3, <2>5 DEF SetStatus
  <2>7. ExclusiveClaims'
    BY <2>1, <2>3
  <2> QED BY <2>4, <2>6, <2>7
<1>5. ASSUME NEW r \in Callers, Push(r) \/ MergeAlone(r)
      PROVE  ClaimInv'
  BY <1>5 DEF Push, MergeAlone, rows, reaping
<1>6. ASSUME NEW r \in Callers, MergeAll(r) \/ PushFails(r)
      PROVE  ClaimInv'
  BY <1>6 DEF MergeAll, PushFails, Step, rows
<1>7. ASSUME NEW r \in Callers, MarkFailed(r) \/ MarkCommitted(r) \/ TickFails(r)
      PROVE  ClaimInv'
  <2>1. /\ batch'[r] = {} /\ UNCHANGED old
        /\ \A q \in Callers \ {r} : reaper'[q] = reaper[q] /\ batch'[q] = batch[q]
    BY <1>7 DEF MarkFailed, MarkCommitted, TickFails, EndTick, Step, rows
  <2>2. \A f \in Face \ batch[r] : row'[f] = row[f]
    BY <1>7 DEF MarkFailed, MarkCommitted, TickFails, SetStatus, rows
  <2>3. \A q \in Callers : q # r => batch[q] \subseteq Face \ batch[r]
    OBVIOUS
  <2> QED BY <2>1, <2>2, <2>3
<1>8. ASSUME NEW r \in Callers, NEW f \in Face, Prune(r, f)
      PROVE  ClaimInv'
  BY <1>8 DEF Prune, SetStatus, reaping
<1>9. CASE RecoverSnapshot \/ RecoverDone \/ RecoverFails \/ Boot
  BY <1>9 DEF RecoverSnapshot, RecoverDone, RecoverFails, Boot, rows, reaping
<1>10. CASE Die
  BY <1>10 DEF Die
<1>11. CASE UNCHANGED vars
  BY <1>11 DEF vars, rows, reaping
<1>12. ASSUME NEW P \in SUBSET Face, RecoverPage(P)
       PROVE  ClaimInv'
  <2>1. \A r \in Callers : \A f \in batch[r] : f \notin Rowless(P)
    BY DEF Rowless
  <2> QED BY <1>12, <2>1 DEF RecoverPage, SetStatus, reaping
<1>13. ASSUME NEW P \in SUBSET Face, LosePage(P)
       PROVE  ClaimInv'
  BY <1>13 DEF LosePage, rows, reaping
<1> QED
  BY <1>1, <1>2, <1>3, <1>4, <1>5, <1>6, <1>7, <1>8, <1>9, <1>10, <1>11, <1>12,
     <1>13
  DEF Next, ReaperStep, RecoveryStep, RecoveryFault, MergeAlone

(* What the next three theorems start from.                                *)
LEMMA ClaimHolds ==
  ASSUME ClaimsHold
  PROVE  Spec => [](OutboxTypeOK /\ StoredInv /\ ClaimInv)
BY OutboxTypeInit, StoredInit, ClaimInit, OutboxTypeStep, StoredStep, ClaimStep,
   PTL DEF Spec

(* No two reapers ever work on one row.                                    *)
THEOREM ClaimsAreExclusive ==
  ASSUME ClaimsHold
  PROVE  Spec => []ExclusiveClaims
<1>1. ClaimInv => ExclusiveClaims
  BY DEF ClaimInv
<1> QED BY <1>1, ClaimHolds, PTL

(* Whatever a reaper holds, nobody has reclaimed, parked or committed.     *)
THEOREM ClaimsAreMerging ==
  ASSUME ClaimsHold
  PROVE  Spec => []ClaimedIsMerging
<1>1. ClaimInv => ClaimedIsMerging
  BY DEF ClaimInv, ClaimedIsMerging
<1> QED BY <1>1, ClaimHolds, PTL

-----------------------------------------------------------------------------
(* What one step does to the status of a row.                              *)

(* No step but the pruning takes a committed row back.                     *)
LEMMA RowStep ==
  ASSUME ClaimsHold, OutboxTypeOK, StoredInv, ClaimInv, [Next]_vars,
         NEW f \in Face
  PROVE  /\ row[f] = "committed" => row'[f] \in {"committed", "none"}
         /\ row[f] = "failed" => row'[f] = "failed"
         /\ row'[f] = "failed" => f \in stored
<1> USE DEF OutboxTypeOK
<1>1. ASSUME (\E g \in Face : Enqueue(g)) \/ (\E P \in SUBSET Face : RecoverPage(P))
      PROVE  (row[f] = "none" /\ row'[f] = "pending") \/ row'[f] = row[f]
  BY <1>1 DEF Enqueue, RecoverPage, Rowless, SetStatus, StoredInv
<1>2. ASSUME NEW r \in Callers, Reclaim(r) \/ Claim(r) \/ ClaimInDoubt(r)
      PROVE  \/ row[f] \in {"pending", "merging"} /\ row'[f] \in {"pending", "merging"}
             \/ row'[f] = row[f]
  BY <1>2 DEF Reclaim, Claim, ClaimInDoubt, ClaimRows, Claimable, SetStatus
<1>3. ASSUME NEW r \in Callers, MarkFailed(r) \/ MarkCommitted(r)
      PROVE  /\ row[f] = "merging" \/ row'[f] = row[f]
             /\ row'[f] = "failed" => f \in stored
  BY <1>3 DEF MarkFailed, MarkCommitted, SetStatus, ClaimInv, StoredInv
<1>4. ASSUME NEW r \in Callers, NEW g \in Face, Prune(r, g)
      PROVE  (row[f] = "committed" /\ row'[f] = "none") \/ row'[f] = row[f]
  BY <1>4 DEF Prune, SetStatus
<1>5. ASSUME NEW r \in Callers,
             NothingPending(r) \/ Push(r) \/ MergeAll(r) \/ PushFails(r)
             \/ MergeAlone(r) \/ TickFails(r)
      PROVE  row'[f] = row[f]
  BY <1>5 DEF NothingPending, Push, MergeAll, PushFails, MergeAlone, TickFails,
              rows
<1>6. ASSUME NEW g \in Face, Expire(g)
      PROVE  row'[f] = row[f]
  BY <1>6 DEF Expire
<1>7. ASSUME RecoverSnapshot \/ RecoverDone \/ RecoveryFault \/ Die \/ Boot
             \/ UNCHANGED vars
      PROVE  row'[f] = row[f]
  BY <1>7 DEF RecoverSnapshot, RecoverDone, RecoveryFault, RecoverFails, LosePage,
              Die, Boot, vars, rows
<1>8. row[f] # "none" => f \in stored
  BY DEF StoredInv
<1> QED
  BY <1>1, <1>2, <1>3, <1>4, <1>5, <1>6, <1>7, <1>8
  DEF Next, ReaperStep, RecoveryStep, RecoveryFault, MergeAlone

(* committed is terminal.                                                  *)
THEOREM CommittedStays ==
  ASSUME ClaimsHold
  PROVE  Spec => CommittedIsTerminal
<1>1. /\ OutboxTypeOK /\ StoredInv /\ ClaimInv
      /\ [Next]_vars
      => [\A f \in Face : row[f] = "committed" => row'[f] \in {"committed", "none"}]_vars
  BY RowStep
<1> QED BY <1>1, ClaimHolds, PTL DEF Spec, CommittedIsTerminal

-----------------------------------------------------------------------------
(* Durability.                                                             *)

(* Saves and loads succeed and the index needs no training: each of the    *)
(* three is refuted by a run (NeverDisagree, CommittedIsDurable) or taints *)
(* the index.                                                              *)
FilesHold == MaxSaveFaults = 0 /\ MaxLoadFaults = 0 /\ ~IsIVF

(* Then index and ids agree whenever nobody is merging.                    *)
CleanInv ==
  /\ ~tainted
  /\ up => trained /\ (lock = NoCaller => live_index = live_ids)

(* An empty index agrees with its ids.                                     *)
LEMMA CleanInit == FilesHold /\ InitIndex => CleanInv
BY DEF FilesHold, InitIndex, CleanInv

(* While files hold, a merge that ends leaves index and ids equal.         *)
LEMMA CleanStep ==
  ASSUME FilesHold, IInv, CleanInv, [NextIndex]_indexVars
  PROVE  CleanInv'
<1> USE FaissIndexAssumption DEF CleanInv
<1>1. ASSUME NEW c \in Callers, NEW s, Buffer(c, s)
      PROVE  CleanInv'
  BY <1>1 DEF Buffer
<1>2. ASSUME NEW c \in Callers,
             MergeSkips(c) \/ ForceMerge(c) \/ Catch(c) \/ SaveIds(c) \/ SaveIndex(c)
      PROVE  CleanInv'
  BY <1>2 DEF MergeSkips, ForceMerge, Catch, SaveIds, SaveIndex, memory
<1>3. ASSUME NEW c \in Callers, MergeBegins(c)
      PROVE  CleanInv'
  <2>1. pc[c] = "merge" /\ up
    BY <1>3 DEF MergeBegins, IInv, LockInv
  <2> QED BY <1>3, <2>1 DEF MergeBegins
<1>4. ASSUME NEW c \in Callers, MergeRaises(c)
      PROVE  CleanInv'
  <2>1. trained' = trained \/ trained' = TRUE
    BY <1>4 DEF MergeRaises
  <2>2. up' = up
    BY <1>4 DEF MergeRaises
  <2>3. up' => trained'
    BY <2>1, <2>2, Zenon
  <2> QED BY <1>4, <2>3 DEF MergeRaises
<1>5. ASSUME NEW c \in Callers, SaveFails(c)
      PROVE  CleanInv'
  BY <1>5 DEF SaveFails, FilesHold, IInv, TypeOK
<1>6. ASSUME NEW c \in Callers, Publish(c)
      PROVE  CleanInv'
  <2>1. up /\ lock = c
    BY <1>6 DEF Publish, IInv, LockInv, InMerge
  <2>2. live_index = live_ids \o staging
    BY <2>1 DEF IInv, MemoryInv
  <2> QED BY <1>6, <2>1, <2>2 DEF Publish
<1>7. CASE Crash
  BY <1>7 DEF Crash
<1>8. CASE Start
  BY <1>8, RestoredAligned DEF Start, IInv, FilesHold
<1>9. CASE StartUnreadable
  BY <1>9 DEF StartUnreadable, FilesHold, IInv, TypeOK
<1>10. CASE UNCHANGED indexVars
  BY <1>10 DEF indexVars, memory
<1> QED
  BY <1>1, <1>2, <1>3, <1>4, <1>5, <1>6, <1>7, <1>8, <1>9, <1>10
  DEF NextIndex, MergeStep, Add, AddBatch

(* A restart loads the vectors of the index file.                          *)
LEMMA DurableIsIndex == IInv /\ ~tainted => Durable = Range(disk_index)
BY RestoredAligned DEF IInv, Durable

(* No step takes a face out of the files.                                  *)
LEMMA DurableGrows ==
  ASSUME FilesHold, IInv, CleanInv, [NextIndex]_indexVars
  PROVE  Durable \subseteq Durable'
<1>1. IInv' /\ CleanInv'
  BY IInvStep, CleanStep
<1>2. (IInv /\ ~tainted => Durable = Range(disk_index))'
  BY DurableIsIndex, PTL
<1>3. Durable = Range(disk_index) /\ Durable' = Range(disk_index')
  BY <1>1, <1>2, DurableIsIndex DEF CleanInv
<1>4. ASSUME NEW c \in Callers, SaveIndex(c)
      PROVE  Range(disk_index) \subseteq Range(disk_index')
  <2>1. up /\ lock = c /\ \A d \in Callers : pc[d] # "publish"
    BY <1>4, FaissIndexAssumption DEF SaveIndex, IInv, LockInv, InMerge
  <2>2. disk_index = live_ids /\ live_index = live_ids \o staging
    BY <2>1, FaissIndexAssumption DEF IInv, CleanInv, MemoryInv
  <2>3. disk_index' = live_ids \o staging
    BY <1>4, <2>2 DEF SaveIndex
  <2> QED BY <2>2, <2>3, RangeConcatenation DEF IInv, TypeOK
<1>5. ASSUME NEW c \in Callers,
             \/ \E s : Buffer(c, s)
             \/ ForceMerge(c) \/ Catch(c) \/ MergeSkips(c) \/ MergeBegins(c)
             \/ MergeRaises(c) \/ SaveIds(c) \/ SaveFails(c) \/ Publish(c)
      PROVE  UNCHANGED disk_index
  BY <1>5 DEF Buffer, ForceMerge, Catch, MergeSkips, MergeBegins, MergeRaises,
              SaveIds, SaveFails, Publish, disk
<1>6. ASSUME Crash \/ Start \/ StartUnreadable \/ UNCHANGED indexVars
      PROVE  UNCHANGED disk_index
  BY <1>6 DEF Crash, Start, StartUnreadable, indexVars, disk
<1> QED
  BY <1>3, <1>4, <1>5, <1>6 DEF NextIndex, MergeStep, Add, AddBatch

(* While the process runs, a merge makes no face unknown.                  *)
LEMMA KnownStays ==
  ASSUME TypeOK, NEW c \in Callers, MergeStep(c) \/ ForceMerge(c) \/ Catch(c)
  PROVE  KnownFaces' = KnownFaces
<1>1. CASE Publish(c)
  <2>1. Range(live_ids \o staging) = KnownFaces
    BY RangeConcatenation DEF TypeOK, KnownFaces
  <2> QED BY <1>1, <2>1, RangeEmpty DEF Publish, KnownFaces
<1>2. CASE ~Publish(c)
  <2>1. UNCHANGED <<live_ids, staging>>
    BY <1>2 DEF MergeStep, MergeSkips, MergeBegins, MergeRaises, SaveIds,
                SaveIndex, SaveFails, ForceMerge, Catch, memory
  <2> QED BY <2>1 DEF KnownFaces
<1> QED BY <1>1, <1>2

(* A merge that comes back without an exception has made everything known  *)
(* durable, also when there was nothing left for it to do.                 *)
LEMMA MergeEnds ==
  ASSUME FilesHold, IInv, CleanInv, NEW c \in Callers, MergeStep(c),
         pc'[c] = "idle"
  PROVE  KnownFaces \subseteq Durable
<1> USE FaissIndexAssumption
<1>1. Durable = Range(disk_index)
  BY DurableIsIndex DEF CleanInv
<1>2. Range(live_ids \o staging) = KnownFaces
  BY RangeConcatenation DEF IInv, TypeOK, KnownFaces
<1>3. CASE MergeSkips(c)
  <2>1. up /\ lock = NoCaller
    BY <1>3 DEF MergeSkips, IInv, LockInv
  <2>2. live_ids = disk_index
    BY <2>1 DEF IInv, LockInv, InMerge, CleanInv, MemoryInv
  <2>3. staging = <<>>
    BY <1>3, <2>1 DEF MergeSkips, CanMerge, CleanInv
  <2> QED BY <1>1, <2>2, <2>3, RangeEmpty DEF KnownFaces
<1>4. CASE Publish(c)
  <2>1. up /\ lock = c
    BY <1>4 DEF Publish, IInv, LockInv, InMerge
  <2>2. disk_index = live_ids \o staging
    BY <1>4, <2>1 DEF Publish, IInv, CleanInv, MemoryInv
  <2> QED BY <1>1, <1>2, <2>2
<1>5. CASE MergeBegins(c) \/ MergeRaises(c) \/ SaveIds(c) \/ SaveIndex(c)
  BY <1>5 DEF MergeBegins, MergeRaises, SaveIds, SaveIndex, Goto, IInv, TypeOK
<1>6. ~SaveFails(c)
  BY DEF SaveFails, FilesHold, IInv, TypeOK
<1> QED BY <1>3, <1>4, <1>5, <1>6 DEF MergeStep

-----------------------------------------------------------------------------
(* No face is forgotten.                                                   *)

(* How far a reaper has brought its batch: given to add(), and, once the   *)
(* forced merge is over, in the files.                                     *)
MergedInv ==
  /\ ~up => \A r \in Callers : reaper[r] = "tick"
  /\ \A r \in Callers :
       /\ reaper[r] = "add" => batch[r] \ todo[r] \subseteq KnownFaces
       /\ reaper[r] = "merge" => batch[r] \subseteq KnownFaces
       /\ reaper[r] = "merge" /\ pc[r] = "idle" => batch[r] \subseteq Durable

(* Why a face without a waiting row can be found again.                    *)
BackedInv ==
  /\ snap \subseteq Durable
  /\ \A f \in Face : row[f] = "committed" => f \in Durable
  /\ NoFaceForgotten

DurableInv == IInv /\ CleanInv /\ MergedInv /\ BackedInv

(* At the start nothing is committed.                                      *)
LEMMA DurableInit == FilesHold /\ Init => DurableInv
<1> SUFFICES ASSUME FilesHold, Init PROVE DurableInv
  OBVIOUS
<1>1. IInv /\ CleanInv
  BY IInvInit, CleanInit DEF Init
<1>2. MergedInv
  BY <1>1 DEF Init, InitIndex, MergedInv
<1>3. BackedInv
  BY FaissOutboxAssumption DEF Init, BackedInv, NoFaceForgotten
<1> QED BY <1>1, <1>2, <1>3 DEF DurableInv

(* What a merge has ended, a restart would load.                           *)
LEMMA MergedStep ==
  ASSUME FilesHold, OutboxTypeOK, DurableInv, [Next]_vars
  PROVE  MergedInv'
<1> USE DEF MergedInv
<1>1. IInv /\ CleanInv /\ MergedInv /\ TypeOK
  BY DEF DurableInv, IInv
<1>2. Durable \subseteq Durable'
  BY <1>1, IndexStep, DurableGrows
<1>3. ASSUME UNCHANGED indexVars
      PROVE  UNCHANGED <<up, pc, KnownFaces>>
  BY <1>3 DEF indexVars, KnownFaces, memory
<1>4. ASSUME UNCHANGED indexVars, UNCHANGED reaping
      PROVE  MergedInv'
  BY <1>1, <1>2, <1>3, <1>4 DEF reaping
<1>5. ASSUME UNCHANGED indexVars, NEW r \in Callers,
             reaper' = [reaper EXCEPT ![r] = "tick"]
             \/ reaper' = [reaper EXCEPT ![r] = "drain"],
             \A q \in Callers \ {r} : batch'[q] = batch[q] /\ todo'[q] = todo[q],
             up
      PROVE  MergedInv'
  BY <1>1, <1>2, <1>3, <1>5 DEF OutboxTypeOK
<1>6. ASSUME NEW f \in Face, Enqueue(f) \/ Expire(f)
      PROVE  MergedInv'
  BY <1>4, <1>6 DEF Enqueue, Expire
<1>7. ASSUME RecoveryStep \/ RecoveryFault
      PROVE  MergedInv'
  BY <1>4, <1>7 DEF RecoveryStep, RecoveryFault, RecoverSnapshot, RecoverPage,
                    RecoverDone, RecoverFails, LosePage
<1>8. ASSUME NEW r \in Callers, NEW f \in Face, Prune(r, f)
      PROVE  MergedInv'
  BY <1>4, <1>8 DEF Prune
<1>9. ASSUME NEW r \in Callers,
             Reclaim(r) \/ NothingPending(r) \/ ClaimInDoubt(r)
             \/ MarkFailed(r) \/ MarkCommitted(r) \/ TickFails(r)
      PROVE  MergedInv'
  <2>1. UNCHANGED indexVars
    BY <1>9 DEF Reclaim, NothingPending, ClaimInDoubt, MarkFailed, MarkCommitted,
                TickFails
  <2>2. /\ reaper' = [reaper EXCEPT ![r] = "tick"]
           \/ reaper' = [reaper EXCEPT ![r] = "drain"]
        /\ \A q \in Callers \ {r} : batch'[q] = batch[q] /\ todo'[q] = todo[q]
    BY <1>9 DEF Reclaim, NothingPending, ClaimInDoubt, MarkFailed, MarkCommitted,
                TickFails, EndTick, Step, OutboxTypeOK
  <2>3. up
    BY <1>1, <1>9 DEF Reclaim, NothingPending, ClaimInDoubt, MarkFailed,
                      MarkCommitted, TickFails
  <2> QED BY <1>5, <2>1, <2>2, <2>3
<1>10. ASSUME NEW r \in Callers, Claim(r)
       PROVE  MergedInv'
  <2>1. PICK S \in SUBSET Claimable :
          batch' = [batch EXCEPT ![r] = S] /\ todo' = [todo EXCEPT ![r] = S]
    BY <1>10 DEF Claim
  <2>2. /\ UNCHANGED indexVars /\ up
        /\ reaper' = [reaper EXCEPT ![r] = "add"]
    BY <1>10 DEF Claim, Step
  <2>3. batch'[r] \ todo'[r] = {}
    BY <2>1 DEF OutboxTypeOK
  <2> QED BY <1>1, <1>2, <1>3, <2>1, <2>2, <2>3 DEF OutboxTypeOK
<1>11. ASSUME NEW r \in Callers, Push(r)
       PROVE  MergedInv'
  <2>1. PICK f \in todo[r] :
          /\ Add(r, f) \/ (Known(f) /\ UNCHANGED indexVars)
          /\ todo' = [todo EXCEPT ![r] = @ \ {f}]
    BY <1>11 DEF Push
  <2>2. f \in Face /\ up /\ reaper[r] = "add" /\ UNCHANGED <<reaper, batch>>
    BY <1>1, <1>11, <2>1 DEF Push, OutboxTypeOK
  <2>3. KnownFaces' = KnownFaces \union {f}
    <3>1. CASE Add(r, f)
      BY <1>1, <2>2, <3>1, AddIds
    <3>2. CASE Known(f) /\ UNCHANGED indexVars
      BY <1>3, <3>2 DEF Known, KnownFaces
    <3> QED BY <2>1, <3>1, <3>2
  <2>4. up' = up /\ \A q \in Callers \ {r} : pc'[q] = pc[q]
    <3>1. CASE Add(r, f)
      BY <1>1, <3>1 DEF Add, Buffer, Goto, TypeOK
    <3>2. CASE UNCHANGED indexVars
      BY <1>3, <3>2
    <3> QED BY <2>1, <3>1, <3>2
  <2>5. todo'[r] = todo[r] \ {f} /\ \A q \in Callers \ {r} : todo'[q] = todo[q]
    BY <2>1 DEF OutboxTypeOK
  <2> QED BY <1>1, <1>2, <2>2, <2>3, <2>4, <2>5
<1>12. ASSUME NEW r \in Callers, MergeAlone(r)
       PROVE  MergedInv'
  <2>1. KnownFaces' = KnownFaces
    BY <1>1, <1>12, KnownStays DEF MergeAlone
  <2>2. up' = up /\ \A q \in Callers \ {r} : pc'[q] = pc[q]
    BY <1>1, <1>12 DEF MergeAlone, MergeStep, MergeSkips, MergeBegins, MergeRaises,
       SaveIds, SaveIndex, SaveFails, Publish, Goto, TypeOK
  <2>3. pc'[r] = "idle" => KnownFaces \subseteq Durable
    BY <1>1, <1>12, MergeEnds DEF MergeAlone
  <2> QED BY <1>1, <1>2, <1>12, <2>1, <2>2, <2>3 DEF MergeAlone, reaping
<1>13. ASSUME NEW r \in Callers, MergeAll(r) \/ PushFails(r)
       PROVE  MergedInv'
  <2>1. KnownFaces' = KnownFaces
    BY <1>1, <1>13, KnownStays DEF MergeAll, PushFails
  <2>2. /\ up' = up /\ UNCHANGED <<batch, todo>>
        /\ \A q \in Callers \ {r} : pc'[q] = pc[q] /\ reaper'[q] = reaper[q]
    BY <1>1, <1>13 DEF MergeAll, PushFails, ForceMerge, Catch, Goto, Step,
                       OutboxTypeOK, TypeOK
  <2>3. up
    BY <1>1, <1>13 DEF MergeAll, PushFails, ForceMerge, Catch, IInv, LockInv
  <2>4. CASE MergeAll(r)
    <3>1. reaper[r] = "add" /\ todo[r] = {} /\ pc'[r] = "merge"
      BY <1>1, <2>4 DEF MergeAll, ForceMerge, Goto, TypeOK
    <3>2. reaper'[r] = "merge"
      BY <2>4 DEF MergeAll, Step, OutboxTypeOK
    <3> QED BY <1>1, <1>2, <2>1, <2>2, <2>3, <3>1, <3>2
  <2>5. CASE PushFails(r)
    <3>1. reaper'[r] = "fail"
      BY <2>5 DEF PushFails, Step, OutboxTypeOK
    <3> QED BY <1>1, <1>2, <2>1, <2>2, <2>3, <3>1
  <2> QED BY <1>13, <2>4, <2>5
<1>14. ASSUME Die
       PROVE  MergedInv'
  BY <1>14 DEF Die
<1>15. ASSUME Boot
       PROVE  MergedInv'
  <2>1. \A r \in Callers : reaper[r] = "tick"
    BY <1>1, <1>15 DEF Boot, Start, StartUnreadable
  <2> QED BY <1>15, <2>1 DEF Boot, reaping
<1>16. ASSUME UNCHANGED vars
       PROVE  MergedInv'
  BY <1>4, <1>16 DEF vars
<1> QED
  BY <1>6, <1>7, <1>8, <1>9, <1>10, <1>11, <1>12, <1>13, <1>14, <1>15, <1>16
  DEF Next, ReaperStep, RecoveryStep, RecoveryFault, MergeAlone

(* A stored face is in the files, has a row, or is ahead of the backfill.  *)
LEMMA BackedStep ==
  ASSUME FilesHold, OutboxTypeOK, DurableInv, [Next]_vars
  PROVE  BackedInv'
<1> USE DEF BackedInv, NoFaceForgotten, LeftOut, Durable, OutboxTypeOK
<1>1. IInv /\ CleanInv /\ MergedInv /\ BackedInv
  BY DEF DurableInv
<1>2. Durable \subseteq Durable'
  BY <1>1, IndexStep, DurableGrows
<1>3. ASSUME NEW f \in Face, Enqueue(f)
      PROVE  BackedInv'
  BY <1>1, <1>2, <1>3 DEF Enqueue, SetStatus, recovery
<1>4. ASSUME NEW f \in Face, Expire(f)
      PROVE  BackedInv'
  BY <1>1, <1>2, <1>4 DEF Expire, recovery
<1>5. ASSUME NEW r \in Callers, Reclaim(r)
      PROVE  BackedInv'
  BY <1>1, <1>2, <1>5 DEF Reclaim, SetStatus, recovery
<1>6. ASSUME NEW r \in Callers, Claim(r) \/ ClaimInDoubt(r)
      PROVE  BackedInv'
  <2>1. /\ \E S \in SUBSET Claimable : SetStatus(S, "merging")
        /\ UNCHANGED <<stored, recovery>>
    BY <1>6 DEF Claim, ClaimInDoubt, ClaimRows
  <2> QED BY <1>1, <1>2, <2>1 DEF SetStatus, recovery
<1>7. ASSUME NEW r \in Callers,
             NothingPending(r) \/ Push(r) \/ MergeAll(r) \/ PushFails(r)
             \/ MergeAlone(r) \/ TickFails(r)
      PROVE  BackedInv'
  <2>1. UNCHANGED <<stored, row, recovery>>
    BY <1>7 DEF NothingPending, Push, MergeAll, PushFails, MergeAlone, TickFails,
                rows
  <2> QED BY <1>1, <1>2, <2>1 DEF recovery
<1>8. ASSUME NEW r \in Callers, MarkFailed(r)
      PROVE  BackedInv'
  BY <1>1, <1>2, <1>8 DEF MarkFailed, recovery
<1>9. ASSUME NEW r \in Callers, MarkCommitted(r)
      PROVE  BackedInv'
  <2>1. batch[r] \subseteq Durable
    BY <1>1, <1>9 DEF MarkCommitted, MergedInv
  <2> QED BY <1>1, <1>2, <1>9, <2>1 DEF MarkCommitted, SetStatus, recovery
<1>10. ASSUME NEW r \in Callers, NEW f \in Face, Prune(r, f)
       PROVE  BackedInv'
  BY <1>1, <1>2, <1>10 DEF Prune, SetStatus, recovery
<1>11. ASSUME RecoverSnapshot
       PROVE  BackedInv'
  <2>1. Range(live_ids) \subseteq Durable
    BY <1>1, PublishedAligned, RestoredType, AlignedRange DEF CleanInv, TypeOK
  <2> QED BY <1>1, <1>2, <1>11, <2>1 DEF RecoverSnapshot, rows
<1>12. ASSUME NEW P \in SUBSET Face, RecoverPage(P) \/ LosePage(P)
       PROVE  BackedInv'
  <2>1. scan' = scan \ P /\ UNCHANGED <<stored, rec, snap>>
    BY <1>12 DEF RecoverPage, LosePage, NextPage
  <2>2. ASSUME NEW f \in P, row[f] = "none", f \notin Durable
        PROVE  f \in Rowless(P)
    BY <1>1, <2>2 DEF Rowless
  <2>3. CASE RecoverPage(P)
    BY <1>1, <1>2, <2>1, <2>2, <2>3 DEF RecoverPage, Rowless, SetStatus
  <2>4. CASE LosePage(P)
    BY <1>1, <1>2, <2>1, <2>2, <2>4 DEF LosePage, rows
  <2> QED BY <1>12, <2>3, <2>4
<1>13. ASSUME RecoverDone \/ RecoverFails
       PROVE  BackedInv'
  BY <1>1, <1>2, <1>13 DEF RecoverDone, RecoverFails, rows
<1>14. ASSUME Die
       PROVE  BackedInv'
  BY <1>1, <1>2, <1>14 DEF Die, rows
<1>15. ASSUME Boot \/ UNCHANGED vars
       PROVE  BackedInv'
  BY <1>1, <1>2, <1>15 DEF Boot, vars, rows, recovery
<1> QED
  BY <1>3, <1>4, <1>5, <1>6, <1>7, <1>8, <1>9, <1>10, <1>11, <1>12, <1>13, <1>14,
     <1>15
  DEF Next, ReaperStep, RecoveryStep, RecoveryFault, MergeAlone

(* The two together are inductive.                                         *)
LEMMA DurableStep ==
  ASSUME FilesHold, OutboxTypeOK, DurableInv, [Next]_vars
  PROVE  DurableInv'
<1>1. IInv' /\ CleanInv'
  BY IndexStep, IInvStep, CleanStep DEF DurableInv
<1> QED BY <1>1, MergedStep, BackedStep DEF DurableInv

(* So they always hold.                                                    *)
LEMMA DurableHolds ==
  ASSUME FilesHold
  PROVE  Spec => [](OutboxTypeOK /\ DurableInv)
BY OutboxTypeInit, DurableInit, OutboxTypeStep, DurableStep, PTL DEF Spec

(* Every stored face is in the files, or a row asks for it, or the         *)
(* backfill will come to it, or a statement of the backfill failed and     *)
(* this process's left it out: for any number of reapers, slow ones        *)
(* included, crashes, raising merges and failing statements of theirs.     *)
THEOREM NothingForgotten ==
  ASSUME FilesHold
  PROVE  Spec => []NoFaceForgotten
<1>1. DurableInv => NoFaceForgotten
  BY DEF DurableInv, BackedInv
<1> QED BY <1>1, DurableHolds, PTL

-----------------------------------------------------------------------------
(* The refinement.                                                         *)

parkedFaces == {f \in Face : row[f] = "failed"}

(* What a restart would load are stored faces.                             *)
LEMMA DurableIsStored == OutboxTypeOK /\ StoredInv => Durable \subseteq stored
BY RestoredAligned, RestoredType, AlignedRange
DEF OutboxTypeOK, TypeOK, Durable, StoredInv

(* An initial state of the outbox is one of the catalog.                   *)
LEMMA CatalogInitial == Init => Catalog!CatalogInit
<1> SUFFICES ASSUME Init PROVE Catalog!CatalogInit
  OBVIOUS
<1>1. disk_ids = <<>> /\ disk_index = <<>>
  BY DEF Init, InitIndex
<1>2. RestoredIds = <<>>
  BY <1>1, EmptySeq DEF RestoredIds
<1> QED BY <1>2, RangeEmpty DEF Init, Catalog!CatalogInit

(* A step stores a face, makes stored faces durable, parks stored faces,   *)
(* or changes none of the three.                                           *)
LEMMA CatalogStep ==
  ASSUME ClaimsHold, FilesHold, OutboxTypeOK, StoredInv, ClaimInv, DurableInv,
         [Next]_vars
  PROVE  [Catalog!CatalogNext]_Catalog!catalogVars
<1>1. Durable \subseteq Durable' /\ Durable' \subseteq stored'
  <2>1. Durable \subseteq Durable'
    BY IndexStep, DurableGrows DEF DurableInv
  <2>2. (OutboxTypeOK /\ StoredInv)'
    BY OutboxTypeStep, StoredStep
  <2>3. (OutboxTypeOK /\ StoredInv => Durable \subseteq stored)'
    BY DurableIsStored, PTL
  <2> QED BY <2>1, <2>2, <2>3
<1>2. parkedFaces \subseteq parkedFaces' /\ parkedFaces' \subseteq stored
  BY RowStep DEF parkedFaces
<1>3. ASSUME UNCHANGED indexVars PROVE UNCHANGED Durable
  BY <1>3 DEF indexVars, disk, Durable, RestoredIds
<1>4. ASSUME NEW f \in Face, Enqueue(f)
      PROVE  Catalog!CatalogNext
  <2>1. UNCHANGED <<Durable, parkedFaces>>
    BY <1>3, <1>4
    DEF Enqueue, SetStatus, OutboxTypeOK, StoredInv, parkedFaces
  <2> QED BY <1>4, <2>1
          DEF Enqueue, Durable, parkedFaces, Catalog!CatalogNext, Catalog!Store
<1>5. ASSUME NEW r \in Callers, MarkFailed(r)
      PROVE  [Catalog!CatalogNext]_Catalog!catalogVars
  <2>1. UNCHANGED <<Durable, stored>>
    BY <1>3, <1>5 DEF MarkFailed
  <2>2. parkedFaces' = parkedFaces \union (parkedFaces' \ parkedFaces)
        /\ parkedFaces' \ parkedFaces \in SUBSET (stored \ parkedFaces)
    BY <1>2
  <2> QED BY <2>1, <2>2 DEF Durable, parkedFaces, Catalog!CatalogNext, Catalog!Park,
             Catalog!catalogVars
<1>6. ASSUME UNCHANGED <<stored, parkedFaces>>
      PROVE  [Catalog!CatalogNext]_Catalog!catalogVars
  <2>1. Durable' = Durable \union (Durable' \ Durable)
        /\ Durable' \ Durable \in SUBSET (stored \ Durable)
    BY <1>1, <1>6
  <2> QED BY <1>6, <2>1 DEF Durable, parkedFaces, Catalog!CatalogNext,
             Catalog!MakeDurable, Catalog!catalogVars
<1>7. ASSUME NEW r \in Callers,
             \/ Reclaim(r) \/ Claim(r) \/ ClaimInDoubt(r) \/ MarkCommitted(r)
             \/ \E f \in Face : Prune(r, f)
      PROVE  UNCHANGED <<stored, parkedFaces>>
  BY <1>7 DEF Reclaim, Claim, ClaimInDoubt, ClaimRows, Claimable, MarkCommitted,
              Prune, SetStatus, ClaimInv, OutboxTypeOK, parkedFaces
<1>8. ASSUME NEW r \in Callers,
             NothingPending(r) \/ Push(r) \/ MergeAll(r) \/ PushFails(r)
             \/ MergeAlone(r) \/ TickFails(r)
      PROVE  UNCHANGED <<stored, parkedFaces>>
  BY <1>8 DEF NothingPending, Push, MergeAll, PushFails, MergeAlone, TickFails,
              rows, parkedFaces
<1>9. ASSUME (\E f \in Face : Expire(f)) \/ (\E P \in SUBSET Face : RecoverPage(P))
      PROVE  UNCHANGED <<stored, parkedFaces>>
  BY <1>9 DEF Expire, RecoverPage, Rowless, SetStatus, OutboxTypeOK, parkedFaces
<1>10. ASSUME RecoverSnapshot \/ RecoverDone \/ RecoveryFault \/ Die \/ Boot
              \/ UNCHANGED vars
      PROVE  UNCHANGED <<stored, parkedFaces>>
  BY <1>10 DEF RecoverSnapshot, RecoverDone, RecoveryFault, RecoverFails, LosePage,
               Die, Boot, vars, rows, parkedFaces
<1> QED
  BY <1>4, <1>5, <1>6, <1>7, <1>8, <1>9, <1>10
  DEF Next, ReaperStep, RecoveryStep, RecoveryFault, MergeAlone

(* The outbox with the index below it does what the catalog promises:      *)
(* stored faces become durable or are parked, and nothing is ever undone.  *)
THEOREM OutboxImplementsCatalog ==
  ASSUME ClaimsHold, FilesHold
  PROVE  Spec => ImplementsCatalog
<1>1. /\ OutboxTypeOK /\ StoredInv /\ ClaimInv /\ DurableInv
      /\ [Next]_vars
      => [Catalog!CatalogNext]_Catalog!catalogVars
  BY CatalogStep
<1> QED
  BY <1>1, CatalogInitial, ClaimHolds, DurableHolds, PTL
  DEF Spec, ImplementsCatalog, Catalog!CatalogSpec
=============================================================================
