---------------------------- MODULE FaissHealth -----------------------------
(***************************************************************************)
(* GET /faiss-health (src/src/api/routes/stats.py), a probe that runs in   *)
(* the process beside the reapers and takes no lock: it counts the faces   *)
(* in the database, then looks at one attribute of the index after the     *)
(* other, then counts the rows of the outbox, and adds up at the end what  *)
(* may never have been true at one time.                                   *)
(***************************************************************************)
EXTENDS FaissOutbox

VARIABLE probe  \* the request: what it reads next, and what it has read and
                \* still needs; crossed is a history field: a face was stored
                \* since it counted them, or the ids it read were those of a
                \* merge that had not cleared the staging buffer yet

healthVars == <<vars, probe>>

NoProbe == [at |-> "faces", faces |-> 0, live |-> 0, crossed |-> FALSE]

ProbeTypeOK ==
  probe \in [at : {"faces", "live", "ids", "staging", "trained", "outbox", "healthy"},
             faces : Nat, live : Nat, crossed : BOOLEAN]

-----------------------------------------------------------------------------
Due(what) == up /\ probe.at = what

(* On to the next reading; or the one just made decides for unhealthy, and *)
(* what the others add to the message is left out.                         *)
Passes(good, next) ==
  probe' = IF good THEN [probe EXCEPT !.at = next] ELSE NoProbe

(* A merge publishes the ids, then the count, and clears staging last.     *)
Publishing == \E c \in Callers : pc[c] = "publish"

(* Mutant of Agree: DRIFT_TOLERANCE is 1.                                  *)
Agree_Tolerant(faces, searchable) == faces \in {searchable, searchable + 1}

Agree(faces, searchable) == faces = searchable

ReadFaces ==
  /\ Due("faces")
  /\ probe' = [NoProbe EXCEPT !.at = "live", !.faces = Cardinality(stored)]
  /\ UNCHANGED vars

ReadLive ==
  /\ Due("live")
  /\ \E n \in {live_count} \union (IF Publishing THEN {Len(live_index)} ELSE {}) :
       probe' = [probe EXCEPT !.at = "ids", !.live = n]
  /\ UNCHANGED vars

ReadIds ==
  /\ Due("ids")
  /\ \/ Passes(Len(live_ids) = probe.live, "staging")
     \/ /\ Publishing /\ Len(live_ids) + Len(staging) = probe.live
        /\ probe' = [probe EXCEPT !.at = "staging", !.crossed = TRUE]
  /\ UNCHANGED vars

ReadStaging ==
  /\ Due("staging")
  /\ probe' = IF Agree(probe.faces, probe.live + Len(staging))
              THEN [NoProbe EXCEPT !.at = "trained", !.crossed = probe.crossed]
              ELSE NoProbe
  /\ UNCHANGED vars

ReadTrained ==
  /\ Due("trained")
  /\ Passes(trained, "outbox")
  /\ UNCHANGED vars

(* count_by_status(); when it raises, no row counts as failed.  The bound  *)
(* on failing statements is not spent on it.                               *)
ReadOutbox ==
  /\ Due("outbox")
  /\ Passes(\A f \in Face : row[f] # "failed", "healthy") \/ Passes(TRUE, "healthy")
  /\ UNCHANGED vars

Answer ==
  /\ Due("healthy") /\ probe' = NoProbe
  /\ UNCHANGED vars

ProbeStep ==
  \/ ReadFaces \/ ReadLive \/ ReadIds \/ ReadStaging \/ ReadTrained \/ ReadOutbox
  \/ Answer

(* The process goes on, or dies and the request with it.                   *)
Meanwhile ==
  IF up' /\ probe.at # "faces"
  THEN [probe EXCEPT !.crossed = @ \/ stored' # stored]
  ELSE NoProbe

HealthInit == Init /\ probe = NoProbe
HealthNext == (Next /\ probe' = Meanwhile) \/ ProbeStep
HealthSpec == HealthInit /\ [][HealthNext]_healthVars

-----------------------------------------------------------------------------
(* An answer of healthy is true although its counts are of six different   *)
(* moments: no stored face is missing from the index, whatever was added,  *)
(* merged and marked between the readings, and even after a failed save or *)
(* an abandoned load.  Two things may not come between: a face stored      *)
(* after the faces were counted, which can stand in for one that is        *)
(* missing, and the middle of a publication, where the ids read are new    *)
(* and the staging buffer still holds them.                                *)
HealthySound ==
  probe.at = "healthy" /\ ~probe.crossed =>
    stored = Range(live_ids) \union Range(staging)
=============================================================================
