-------------------------- MODULE OneDriveEviction --------------------------
(***************************************************************************)
(* Giving OneDrive its space back: reading a file that is only in the      *)
(* cloud makes it local, the pipeline (src/src/pipeline/processor.py)      *)
(* flags its row, src/scripts/onedrive_evict.ps1 allows OneDrive to free   *)
(* it, and src/scripts/onedrive_audit.ps1 flags again what stayed local.   *)
(* The three share nothing but images.onedrive_revert_pending and the      *)
(* file's attributes.  A row is named by its id.                           *)
(***************************************************************************)
EXTENDS Naturals, FiniteSets

CONSTANTS
  Rows,        \* rows of files under OneDrive, 1..Rows
  Pinned,      \* rows whose attribute cannot be changed
  EvictBatch,  \* BatchSize of the eviction
  AuditBatch,  \* BatchSize of the audit
  MaxReads,    \* bound on files read, moved away or freed by hand
  MaxCuts      \* bound on scripts cut short: time limit, lost database, killed

ASSUME EvictionAssumption ==
  {Rows, EvictBatch, AuditBatch, MaxReads, MaxCuts} \subseteq Nat

VARIABLES
  bytes,    \* of each row's file: cloud, local or missing
  reading,  \* rows the pipeline has read and not yet saved
  allowed,  \* rows whose file OneDrive may free
  flagged,  \* rows with onedrive_revert_pending
  evicting, auditing,  \* the scripts: rows still to look at, rows to update
  reads, cuts

onedrive == <<bytes, reading, allowed, flagged, evicting, auditing, reads, cuts>>

Row     == 1..Rows
Waiting == [on |-> FALSE, rows |-> {}, flip |-> {}]

EvictionInit ==
  /\ bytes \in [Row -> {"cloud", "local"}]
  /\ reading = {} /\ allowed = {}
  /\ flagged = {r \in Row : bytes[r] = "local"}
  /\ evicting = Waiting /\ auditing = Waiting
  /\ reads = 0 /\ cuts = 0

EvictionTypeOK ==
  /\ bytes \in [Row -> {"cloud", "local", "missing"}]
  /\ reading \union allowed \union flagged \subseteq Row
  /\ \A s \in {evicting, auditing} :
       s.on \in BOOLEAN /\ s.rows \subseteq Row /\ s.flip \subseteq Row \ s.rows
  /\ Cardinality(evicting.rows) <= EvictBatch /\ Cardinality(auditing.rows) <= AuditBatch
  /\ reads \in 0..MaxReads /\ cuts \in 0..MaxCuts

(* Mutant of First: the batch has no limit.                                *)
First_All(n, S) == S

First(n, S) == {r \in S : Cardinality({x \in S : x <= r}) <= n}
Lowest(S)   == CHOOSE r \in S : \A x \in S : r <= x
Cut         == cuts < MaxCuts /\ cuts' = cuts + 1

-----------------------------------------------------------------------------
(* The pipeline reads a file, and later flags its row, unless it failed or *)
(* found its content known.                                                *)
ReadFile(r) ==
  /\ bytes[r] # "missing" /\ reads < MaxReads /\ reads' = reads + 1
  /\ bytes' = [bytes EXCEPT ![r] = "local"]
  /\ allowed' = allowed \ {r} /\ reading' = reading \union {r}
  /\ UNCHANGED <<flagged, evicting, auditing, cuts>>

SaveRecord(r) ==
  /\ r \in reading /\ reading' = reading \ {r}
  /\ flagged' \in {flagged \union {r}, flagged}
  /\ UNCHANGED <<bytes, allowed, evicting, auditing, reads, cuts>>

(* The user moves a file away or frees it.                                 *)
UserActs(r) ==
  /\ r \notin Pinned /\ reads < MaxReads /\ reads' = reads + 1
  /\ \E b \in {"cloud", "missing"} \ {bytes[r]} : bytes' = [bytes EXCEPT ![r] = b]
  /\ bytes[r] # "missing"
  /\ UNCHANGED <<reading, allowed, flagged, evicting, auditing, cuts>>

(* OneDrive frees what it may.                                             *)
Free(r) ==
  /\ r \in allowed /\ bytes[r] = "local" /\ bytes' = [bytes EXCEPT ![r] = "cloud"]
  /\ UNCHANGED <<reading, allowed, flagged, evicting, auditing, reads, cuts>>

-----------------------------------------------------------------------------
(* onedrive_evict.ps1: SELECT, a row at a time, one UPDATE.                *)
EvictSelect ==
  /\ ~evicting.on /\ flagged # {}
  /\ evicting' = [on |-> TRUE, rows |-> First(EvictBatch, flagged), flip |-> {}]
  /\ UNCHANGED <<bytes, reading, allowed, flagged, auditing, reads, cuts>>

(* A row is done when its file is gone, is in the cloud or may now be      *)
(* freed; one whose attribute cannot be set is tried again by the next     *)
(* run.                                                                    *)
EvictRow ==
  LET r == Lowest(evicting.rows) IN
  /\ evicting.rows # {}
  /\ LET fails == bytes[r] = "local" /\ r \in Pinned
     IN evicting' = [evicting EXCEPT !.rows = @ \ {r}, !.flip = IF fails THEN @ ELSE @ \union {r}]
  /\ allowed' = IF bytes[r] = "local" THEN allowed \union ({r} \ Pinned) ELSE allowed
  /\ UNCHANGED <<bytes, reading, flagged, auditing, reads, cuts>>

EvictUpdate ==
  /\ evicting.on /\ evicting.rows = {} /\ evicting' = Waiting
  /\ flagged' = flagged \ evicting.flip
  /\ UNCHANGED <<bytes, reading, allowed, auditing, reads, cuts>>

(* The time is up: the rows that were looked at are updated.  Or the       *)
(* UPDATE fails, or the process is killed: none is.                        *)
EvictCut ==
  /\ evicting.on /\ Cut
  /\ \/ evicting' = [evicting EXCEPT !.rows = {}] /\ evicting.rows # {}
     \/ evicting' = Waiting
  /\ UNCHANGED <<bytes, reading, allowed, flagged, auditing, reads>>

Evict == EvictSelect \/ EvictRow \/ EvictUpdate

-----------------------------------------------------------------------------
(* onedrive_audit.ps1, alike.                                              *)
AuditSelect ==
  /\ ~auditing.on /\ flagged # Row
  /\ auditing' = [on |-> TRUE, rows |-> First(AuditBatch, Row \ flagged), flip |-> {}]
  /\ UNCHANGED <<bytes, reading, allowed, flagged, evicting, reads, cuts>>

(* Mutant of StillCached: what the eviction never allowed is left alone.   *)
StillCached_Trusting(r) == bytes[r] = "local" /\ r \in allowed

StillCached(r) == bytes[r] = "local"

AuditRow ==
  LET r == Lowest(auditing.rows) IN
  /\ auditing.rows # {}
  /\ auditing' = [auditing EXCEPT !.rows = @ \ {r},
                            !.flip = IF StillCached(r) THEN @ \union {r} ELSE @]
  /\ UNCHANGED <<bytes, reading, allowed, flagged, evicting, reads, cuts>>

AuditUpdate ==
  /\ auditing.on /\ auditing.rows = {} /\ auditing' = Waiting
  /\ flagged' = flagged \union auditing.flip
  /\ UNCHANGED <<bytes, reading, allowed, evicting, reads, cuts>>

AuditCut ==
  /\ auditing.on /\ Cut
  /\ \/ auditing' = [auditing EXCEPT !.rows = {}] /\ auditing.rows # {}
     \/ auditing' = Waiting
  /\ UNCHANGED <<bytes, reading, allowed, flagged, evicting, reads>>

Audit == AuditSelect \/ AuditRow \/ AuditUpdate

EvictionStep ==
  \/ \E r \in Row : ReadFile(r) \/ SaveRecord(r) \/ UserActs(r) \/ Free(r)
  \/ Evict \/ EvictCut \/ Audit \/ AuditCut

-----------------------------------------------------------------------------
(* A row that neither script comes to: each takes the first rows by id     *)
(* that it finds, the eviction those it could not free before, the audit   *)
(* those it found in order before.                                         *)
Buried(r) ==
  IF r \in flagged THEN r \notin First(EvictBatch, flagged)
                   ELSE r \notin First(AuditBatch, Row \ flagged)

(* What was read is freed in the end, though a flag set while the eviction *)
(* runs is cleared with the batch, unless the file cannot be freed.  The   *)
(* scripts keep no place from run to run, so there is one more exception:  *)
(* a row that from some time on always has a full batch of others before   *)
(* it, unfreeable ones in the eviction or verified ones in the audit,      *)
(* stays where it is.                                                      *)
ReadIsFreed ==
  \A r \in Row \ Pinned :
    bytes[r] = "local" ~> bytes[r] # "local" \/ []Buried(r)
=============================================================================
