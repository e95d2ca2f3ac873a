---------------------------- MODULE FaissOutbox -----------------------------
(***************************************************************************)
(* The write-ahead outbox in front of the index: src/src/storage/outbox.py *)
(* (enqueue_face, FaissReaper), the backfill of                            *)
(* IndexingManager._recover_pending_images (src/src/discovery/manager.py)  *)
(* and the index itself, of which the reapers are the callers.             *)
(*                                                                         *)
(* The database survives every crash; the index only what a merge saved;   *)
(* a reaper nothing.  The chain that has to hold is: a face committed to   *)
(* the database has a row, the row leaves `pending' only for a reaper, and *)
(* it becomes `committed' only when the index would survive a crash with   *)
(* the face in it.                                                         *)
(*                                                                         *)
(* faiss_outbox.face_id is unique, so a row is named by its face.  A drain *)
(* takes rows ORDER BY created_at; the column is filled from two clocks    *)
(* and may tie, so which of the pending rows a drain takes is left open.   *)
(***************************************************************************)
EXTENDS FaissIndex, FiniteSetsExt

CONSTANTS
  Legacy,       \* faces stored before the outbox existed: no row, not indexed
  BatchSize,    \* faiss_reaper_batch_size
  MaxAttempts,  \* faiss_reaper_max_attempts
  SlowReapers,  \* a drain may outlast faiss_reaper_stuck_timeout_s
  MaxCrashes,   \* bound on deaths of the process
  MaxDbFaults   \* bound on database statements that fail

ASSUME FaissOutboxAssumption ==
  /\ Legacy \subseteq Face
  /\ BatchSize \in Nat \ {0} /\ MaxAttempts \in Nat \ {0}
  /\ SlowReapers \in BOOLEAN
  /\ MaxCrashes \in Nat /\ MaxDbFaults \in Nat

VARIABLES
  stored,     \* the faces table
  row,        \* status of the face's outbox row, "none" when there is no row
  attempts,   \* attempts of the row
  old,        \* rows whose claimed_at is older than the stuck timeout
  reaper,     \* where each reaper is in its tick
  batch,      \* the rows a reaper has claimed in this tick
  todo,       \* those it has not yet given to add()
  rec,        \* where the recovery thread is in its Phase B
  snap,       \* its snapshot of live_ids_set
  scan,       \* the faces it has still to look at
  lost,       \* history: the faces whose row it lost with a page
  crashes,    \* deaths of the process so far
  db_faults   \* failed statements so far

rows     == <<row, attempts, old>>
reaping  == <<reaper, batch, todo>>
recovery == <<rec, snap, scan, lost>>
bounds   == <<crashes, db_faults>>
vars     == <<indexVars, stored, rows, reaping, recovery, bounds>>

Status == {"none", "pending", "merging", "committed", "failed"}

OutboxTypeOK ==
  /\ TypeOK
  /\ stored \subseteq Face
  /\ row \in [Face -> Status]
  /\ attempts \in [Face -> 0..MaxAttempts]
  /\ old \subseteq Face
  /\ reaper \in [Callers -> {"tick", "drain", "add", "merge", "fail"}]
  /\ batch \in [Callers -> SUBSET Face] /\ todo \in [Callers -> SUBSET Face]
  /\ rec \in {"snap", "scan", "done", "aborted"}
  /\ snap \subseteq Face /\ scan \subseteq Face /\ lost \subseteq Face
  /\ crashes \in 0..MaxCrashes /\ db_faults \in 0..MaxDbFaults

-----------------------------------------------------------------------------
Init ==
  /\ InitIndex
  /\ stored = Legacy
  /\ row = [f \in Face |-> "none"] /\ attempts = [f \in Face |-> 0]
  /\ old = {}
  /\ reaper = [r \in Callers |-> "tick"]
  /\ batch = [r \in Callers |-> {}] /\ todo = [r \in Callers |-> {}]
  /\ rec = "snap" /\ snap = {} /\ scan = {} /\ lost = {}
  /\ crashes = 0 /\ db_faults = 0

(* The rows of S take the status s.                                        *)
SetStatus(S, s) == row' = [f \in Face |-> IF f \in S THEN s ELSE row[f]]

Step(r, stage) == reaper' = [reaper EXCEPT ![r] = stage]

(* The tick is over and the reaper forgets its batch.                      *)
EndTick(r) ==
  /\ Step(r, "tick")
  /\ batch' = [batch EXCEPT ![r] = {}]
  /\ todo' = [todo EXCEPT ![r] = {}]

DbFault == db_faults < MaxDbFaults /\ db_faults' = db_faults + 1

-----------------------------------------------------------------------------
(* The pipeline commits a face and its row in one transaction.             *)
Enqueue(f) ==
  /\ up /\ f \notin stored
  /\ stored' = stored \union {f}
  /\ SetStatus({f}, "pending")
  /\ UNCHANGED <<indexVars, attempts, old, reaping, recovery, bounds>>

(* The stuck timeout passes on a claimed row.                              *)
Expire(f) ==
  /\ row[f] = "merging" /\ f \notin old
  /\ SlowReapers \/ \A r \in Callers : f \notin batch[r]
  /\ old' = old \union {f}
  /\ UNCHANGED <<indexVars, stored, row, attempts, reaping, recovery, bounds>>

-----------------------------------------------------------------------------
(* FaissReaper._run: one tick.                                             *)

(* Mutants of Reclaim: any merging row; no row.                            *)
Reclaim_AnyAge(r) ==
  /\ up /\ reaper[r] = "tick"
  /\ SetStatus({f \in Face : row[f] = "merging"}, "pending")
  /\ Step(r, "drain")
  /\ UNCHANGED <<indexVars, stored, attempts, old, batch, todo, recovery,
                 bounds>>

Reclaim_Never(r) ==
  /\ up /\ reaper[r] = "tick"
  /\ Step(r, "drain")
  /\ UNCHANGED <<indexVars, stored, rows, batch, todo, recovery, bounds>>

(* _reclaim_stuck().                                                       *)
Reclaim(r) ==
  /\ up /\ reaper[r] = "tick"
  /\ SetStatus({f \in old : row[f] = "merging"}, "pending")
  /\ Step(r, "drain")
  /\ UNCHANGED <<indexVars, stored, attempts, old, batch, todo, recovery,
                 bounds>>

(* Mutants of Claimable: no limit on attempts; rows in work as well.       *)
Claimable_NoLimit == {f \in Face : row[f] = "pending"}
Claimable_InWork ==
  {f \in Face : row[f] \in {"pending", "merging"} /\ attempts[f] < MaxAttempts}

Claimable == {f \in Face : row[f] = "pending" /\ attempts[f] < MaxAttempts}

NothingPending(r) ==
  /\ up /\ reaper[r] = "drain" /\ Claimable = {}
  /\ Step(r, "tick")
  /\ UNCHANGED <<indexVars, stored, rows, batch, todo, recovery, bounds>>

(* Step 1 of _drain_once(): SELECT ... FOR UPDATE SKIP LOCKED and the      *)
(* UPDATE to merging, one transaction.                                     *)
ClaimRows(S) ==
  /\ S # {} /\ Cardinality(S) <= BatchSize
  /\ Cardinality(S) = BatchSize \/ S = Claimable
  /\ SetStatus(S, "merging")
  /\ attempts' = [f \in Face |-> IF f \in S THEN attempts[f] + 1 ELSE attempts[f]]
  /\ old' = old \ S

Claim(r) ==
  /\ up /\ reaper[r] = "drain"
  /\ \E S \in SUBSET Claimable :
       /\ ClaimRows(S)
       /\ batch' = [batch EXCEPT ![r] = S]
       /\ todo' = [todo EXCEPT ![r] = S]
  /\ Step(r, "add")
  /\ UNCHANGED <<indexVars, stored, recovery, bounds>>

(* The claim is committed but its acknowledgement is lost: the reaper sees *)
(* an exception and gives up the tick.                                     *)
ClaimInDoubt(r) ==
  /\ up /\ reaper[r] = "drain"
  /\ DbFault
  /\ \E S \in SUBSET Claimable : ClaimRows(S)
  /\ Step(r, "tick")
  /\ UNCHANGED <<indexVars, stored, batch, todo, recovery, crashes>>

(* Step 2: the next row goes to add(), which skips a face it knows.        *)
Push(r) ==
  /\ reaper[r] = "add"
  /\ \E f \in todo[r] :
       /\ \/ Add(r, f)
          \/ Known(f) /\ pc[r] = "idle" /\ lock = NoCaller /\ UNCHANGED indexVars
       /\ todo' = [todo EXCEPT ![r] = @ \ {f}]
  /\ UNCHANGED <<stored, rows, reaper, batch, recovery, bounds>>

MergeAll(r) ==
  /\ reaper[r] = "add" /\ todo[r] = {}
  /\ ForceMerge(r)
  /\ Step(r, "merge")
  /\ UNCHANGED <<stored, rows, batch, todo, recovery, bounds>>

(* Mutant of PushFails: the exception is swallowed.                        *)
PushFails_Swallowed(r) ==
  /\ Catch(r)
  /\ Step(r, "merge")
  /\ UNCHANGED <<stored, rows, batch, todo, recovery, bounds>>

(* A merge, that of add() or that of force_merge(), raises.                *)
PushFails(r) ==
  /\ Catch(r)
  /\ Step(r, "fail")
  /\ UNCHANGED <<stored, rows, batch, todo, recovery, bounds>>

MarkFailed(r) ==
  /\ up /\ reaper[r] = "fail"
  /\ row' = [f \in Face |->
               IF f \notin batch[r] THEN row[f]
               ELSE IF attempts[f] >= MaxAttempts THEN "failed" ELSE "pending"]
  /\ EndTick(r)
  /\ UNCHANGED <<indexVars, stored, attempts, old, recovery, bounds>>

(* Step 3: force_merge() returned.                                         *)
MarkCommitted(r) ==
  /\ up /\ reaper[r] = "merge" /\ pc[r] = "idle"
  /\ SetStatus(batch[r], "committed")
  /\ EndTick(r)
  /\ UNCHANGED <<indexVars, stored, attempts, old, recovery, bounds>>

(* A statement of the tick fails without effect: the exception reaches     *)
(* _run, and rows already claimed stay in merging.                         *)
TickFails(r) ==
  /\ up /\ pc[r] = "idle" /\ reaper[r] \in {"drain", "merge", "fail"}
  /\ DbFault
  /\ EndTick(r)
  /\ UNCHANGED <<indexVars, stored, rows, recovery, crashes>>

(* _prune_committed(), between two ticks, of a row past its retention.     *)
Prune(r, f) ==
  /\ up /\ reaper[r] = "tick"
  /\ row[f] = "committed"
  /\ SetStatus({f}, "none")
  /\ attempts' = [attempts EXCEPT ![f] = 0]
  /\ old' = old \ {f}
  /\ UNCHANGED <<indexVars, stored, reaping, recovery, bounds>>

ReaperStep(r) ==
  \/ Reclaim(r) \/ NothingPending(r) \/ Claim(r)
  \/ Push(r) \/ MergeAll(r) \/ PushFails(r) \/ MarkFailed(r) \/ MarkCommitted(r)
  \/ MergeStep(r) /\ UNCHANGED <<stored, rows, reaping, recovery, bounds>>

-----------------------------------------------------------------------------
(* Phase B of _recover_pending_images.                                     *)

(* The snapshot, under merge_lock.  The scan reads faces in id order; one  *)
(* stored after the snapshot has a row of its own.                         *)
RecoverSnapshot ==
  /\ up /\ rec = "snap" /\ lock = NoCaller
  /\ snap' = Range(live_ids) /\ scan' = stored
  /\ rec' = "scan"
  /\ UNCHANGED <<indexVars, stored, rows, reaping, lost, bounds>>

(* SELECT ... LIMIT 500: some of the faces that are left.                  *)
NextPage(P) ==
  /\ up /\ rec = "scan"
  /\ P # {} /\ P \subseteq scan /\ scan' = scan \ P

Rowless(P) == {f \in P \ snap : row[f] = "none"}

(* INSERT ... ON CONFLICT (face_id) DO NOTHING, the page in a transaction. *)
RecoverPage(P) ==
  /\ NextPage(P)
  /\ SetStatus(Rowless(P), "pending")
  /\ UNCHANGED <<indexVars, stored, attempts, old, reaping, rec, snap, lost, bounds>>

(* An INSERT fails.  Its exception is logged for its face alone, but the   *)
(* server has aborted the transaction and the COMMIT undoes the page.  The *)
(* scan goes on.                                                           *)
LosePage(P) ==
  /\ NextPage(P) /\ P \ snap # {}
  /\ DbFault
  /\ lost' = lost \union Rowless(P)
  /\ UNCHANGED <<indexVars, stored, rows, reaping, rec, snap, crashes>>

RecoverDone ==
  /\ up /\ rec = "scan" /\ scan = {}
  /\ rec' = "done" /\ snap' = {}
  /\ UNCHANGED <<indexVars, stored, rows, reaping, scan, lost, bounds>>

(* A SELECT fails, or the connection: Phase B logs the exception and is    *)
(* not tried again in this process.                                        *)
RecoverFails ==
  /\ up /\ rec = "scan"
  /\ DbFault
  /\ rec' = "aborted" /\ snap' = {} /\ scan' = {}
  /\ UNCHANGED <<indexVars, stored, rows, reaping, lost, crashes>>

RecoveryStep ==
  RecoverSnapshot \/ (\E P \in SUBSET Face : RecoverPage(P)) \/ RecoverDone

RecoveryFault == RecoverFails \/ \E P \in SUBSET Face : LosePage(P)

-----------------------------------------------------------------------------
(* The one process that holds the index, the reapers and the recovery      *)
(* thread dies; the lifespan of main.py starts all three again.            *)
Die ==
  /\ crashes < MaxCrashes /\ crashes' = crashes + 1
  /\ Crash
  /\ reaper' = [r \in Callers |-> "tick"]
  /\ batch' = [r \in Callers |-> {}] /\ todo' = [r \in Callers |-> {}]
  /\ rec' = "snap" /\ snap' = {} /\ scan' = {} /\ lost' = {}
  /\ UNCHANGED <<stored, rows, db_faults>>

Boot ==
  /\ Start \/ StartUnreadable
  /\ UNCHANGED <<stored, rows, reaping, recovery, bounds>>

Next ==
  \/ \E f \in Face : Enqueue(f) \/ Expire(f)
  \/ \E r \in Callers :
       \/ ReaperStep(r) \/ ClaimInDoubt(r) \/ TickFails(r)
       \/ \E f \in Face : Prune(r, f)
  \/ RecoveryStep \/ RecoveryFault
  \/ Die \/ Boot

Spec == Init /\ [][Next]_vars

(* Python schedules every runnable thread; a claimed row ages; the         *)
(* container is restarted (docker-compose: restart: unless-stopped).       *)
Fairness ==
  /\ \A r \in Callers : WF_vars(ReaperStep(r))
  /\ \A f \in Face : WF_vars(Expire(f))
  /\ WF_vars(RecoveryStep)
  /\ WF_vars(Boot)

FairSpec == Spec /\ Fairness

-----------------------------------------------------------------------------
(* This process's backfill leaves the face without a row: it broke off, or *)
(* lost the page.  The next process's comes to it again.                   *)
LeftOut(f) == row[f] = "none" /\ (rec = "aborted" \/ f \in lost)

(* A face in the database is never forgotten: it is in the files a restart *)
(* would load, or a row still asks for it, or the backfill has still to    *)
(* come to it.  Crashes, merges that raise, lost acknowledgements and      *)
(* failing statements of the reapers do not change that, while saves and   *)
(* loads succeed; a failing statement of the backfill itself does, until   *)
(* the process is started again.                                           *)
NoFaceForgotten ==
  \A f \in stored :
    \/ f \in Range(RestoredIds)
    \/ row[f] \in {"pending", "merging", "failed"}
    \/ row[f] = "none" /\ (rec = "snap" \/ f \in scan)
    \/ LeftOut(f)

(* committed is terminal (the lifecycle in the docstring of FaissOutbox):  *)
(* a committed row only ever disappears, whatever two reapers claim,       *)
(* reclaim, fail and mark in between, while a drain is shorter than the    *)
(* stuck timeout.                                                          *)
CommittedIsTerminal ==
  [][\A f \in Face : row[f] = "committed" => row'[f] \in {"committed", "none"}]_vars

(* Two reapers never work on the same row while a drain is shorter than    *)
(* the stuck timeout (SKIP LOCKED and the reclaim in the class docstring). *)
ExclusiveClaims ==
  \A r, s \in Callers : r # s => batch[r] \intersect batch[s] = {}

(* A row somebody works on is merging: nobody else can claim or park it.   *)
ClaimedIsMerging == \A r \in Callers : \A f \in batch[r] : row[f] = "merging"

(* The row can make no progress: parked, or its attempts are used up.      *)
Spent(f) == row[f] = "failed" \/ (row[f] = "pending" /\ attempts[f] = MaxAttempts)

(* Every stored face becomes searchable or spends all its attempts, while  *)
(* saves and loads succeed, unless a failing statement of the backfill it  *)
(* needs leaves it without a row.                                          *)
EventuallySearchable ==
  \A f \in Face :
    f \in stored ~>
      f \in Range(live_ids) \/ Spent(f) \/ LeftOut(f)

(* The outbox and the index together implement the catalog.                *)
Catalog == INSTANCE FaceCatalog WITH
  Preloaded <- Legacy,
  indexed   <- Range(RestoredIds),
  parked    <- {f \in Face : row[f] = "failed"}

ImplementsCatalog == Catalog!CatalogSpec

(* What comments of the code promise and a run refutes.                    *)

(* outbox.py:259: the rows are durably in FAISS before they are marked     *)
(* committed.                                                              *)
CommittedIsDurable == \A f \in Face : row[f] = "committed" => f \in Range(RestoredIds)

(* outbox.py:16: a row that has used up its attempts is parked as failed.  *)
ExhaustedIsParked ==
  \A f \in Face :
    row[f] = "pending" => attempts[f] < MaxAttempts

=============================================================================
