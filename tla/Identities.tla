----------------------------- MODULE Identities -----------------------------
(***************************************************************************)
(* The identities of faces: src/src/api/routes/identity.py, whose requests *)
(* merge and split them, and src/scripts/cluster_faces.py, run after every *)
(* scan by src/src/discovery/manager.py and by hand.                       *)
(*                                                                         *)
(* Statements of different transactions interleave (READ COMMITTED).  The  *)
(* requests run one at a time: their handlers never await.  An identity's  *)
(* centroid is the set of faces it is the mean of, {} when it is NULL;     *)
(* which centroid is nearest to a face, and whether near enough, is any    *)
(* choice.  Names are left out.  A merge has one source: a second repeats  *)
(* the same statements.                                                    *)
(***************************************************************************)
EXTENDS Integers, FiniteSets, FiniteSetsExt

CONSTANTS
  Face,
  Late,       \* those the pipeline adds only now
  MaxOps,     \* bound on merges, splits and runs of the script by hand
  RawVectors  \* what the driver returns for a vector column read by raw SQL

ASSUME IdentitiesAssumption ==
  /\ IsFiniteSet(Face) /\ Late \subseteq Face /\ MaxOps \in Nat
  /\ RawVectors \in {"array", "text"}

VARIABLES
  stored,   \* faces with an embedding
  people,   \* identities: id -> cluster_id and centroid
  home,     \* face_identity_map: the identity of a face
  primary,  \* faces marked is_primary
  ids,      \* the sequence of identities.id
  job,      \* the two clusterings: of the scan thread and by hand
  call,     \* the request in progress
  ops,
  crossed   \* history: identities that two clusterings got in each other's
            \* way about

tables == <<people, home, primary, ids, crossed>>
vars   == <<stored, tables, job, call, ops>>

None  == 0
New   == -1
Actor == {"scan", "cli"}
Idle  == [at |-> "idle", faces |-> {}, rows |-> {}, seen |-> {}, top |-> None]
Quiet == [at |-> "idle", from |-> None, to |-> None, faces |-> {}, also |-> {}]

IdentitiesTypeOK ==
  /\ stored \subseteq Face
  /\ DOMAIN people \subseteq 1..ids
  /\ \A i \in DOMAIN people : people[i].cluster \in Nat /\ people[i].centroid \subseteq stored
  /\ \A f \in Face : home[f] \in DOMAIN people \union {None}
  /\ primary \subseteq {f \in stored : home[f] # None}
  /\ ids \in Nat /\ crossed \subseteq 1..ids
  /\ \A a \in Actor :
       /\ job[a].at \in {"idle", "raised", "found", "known", "numbered", "loaded", "wiped", "cleared"}
       /\ job[a].faces \union job[a].rows \subseteq stored /\ job[a].seen \subseteq 1..ids
  /\ call.at \in {"idle", "merge", "moved", "marked", "split"}
  /\ call.faces \union call.also \subseteq stored
  /\ ops \in 0..MaxOps

Init ==
  /\ stored = Face \ Late /\ people = <<>> /\ ids = 0
  /\ home = [f \in Face |-> None] /\ primary = {}
  /\ job = [a \in Actor |-> Idle] /\ call = Quiet
  /\ ops = 0 /\ crossed = {}

-----------------------------------------------------------------------------
Members(i)  == {f \in Face : home[f] = i}
Mapped      == {f \in Face : home[f] # None}
Unmapped    == stored \ Mapped
Op          == ops < MaxOps /\ ops' = ops + 1
Only(t, S)  == [i \in S |-> t[i]]
Number(S)   == CHOOSE n \in [S -> 1..Cardinality(S)] :
                 \A x, y \in S : x # y => n[x] # n[y]

(* SELECT COALESCE(MAX(cluster_id), -1) ... or -1: a maximum of 0 is       *)
(* falsy.                                                                  *)
TopCluster ==
  LET top == IF people = <<>> THEN -1 ELSE Max({people[i].cluster : i \in DOMAIN people})
  IN  IF top = 0 THEN -1 ELSE top

(* Mutant of ClusterAfter: the maximum itself is handed out first.         *)
ClusterAfter_Same(top, k) == top + k - 1

(* The cluster_id of the k-th new identity.                                *)
ClusterAfter(top, k) == top + k

(* The full mode holds the rows it deleted until it commits: those of the  *)
(* mappings, then those of the identities.                                 *)
Wiping   == job["cli"].at \in {"wiped", "cleared"}
Clearing == job["cli"].at = "cleared"

(* The pipeline commits a face.                                            *)
AddFace(f) ==
  /\ f \notin stored /\ stored' = stored \union {f}
  /\ UNCHANGED <<tables, job, call, ops>>

-----------------------------------------------------------------------------
(* Incremental mode.                                                       *)
Raise(a) == job' = [job EXCEPT ![a] = [Idle EXCEPT !.at = "raised"]]

(* The count, then the unmapped faces.  Vectors read by raw SQL are        *)
(* converted to arrays, which raises when they came as text.               *)
FindUnmapped(a) ==
  /\ job[a].at = "idle" /\ Unmapped # {}
  /\ IF RawVectors = "text" THEN Raise(a)
     ELSE job' = [job EXCEPT ![a] = [Idle EXCEPT !.at = "found", !.faces = Unmapped]]
  /\ IF a = "cli" THEN Op ELSE UNCHANGED ops
  /\ UNCHANGED <<stored, tables, call>>

LoadCentroids(a) ==
  /\ job[a].at = "found"
  /\ job' = [job EXCEPT ![a].at = "known",
                        ![a].seen = {i \in DOMAIN people : people[i].centroid # {}}]
  /\ UNCHANGED <<stored, tables, call, ops>>

ReadTop(a) ==
  /\ job[a].at = "known"
  /\ job' = [job EXCEPT ![a].at = "numbered", ![a].top = TopCluster]
  /\ UNCHANGED <<stored, tables, call, ops>>

(* Mutant of Fresh: a face that was mapped meanwhile is mapped again.      *)
Fresh_Overwrites(faces) == faces

(* INSERT ... ON CONFLICT (face_id) DO NOTHING.                            *)
Fresh(faces) == faces \ Mapped

(* The identities of the seeds and the mappings, in one transaction; a     *)
(* chosen identity that is gone fails it.  It waits for rows that the full *)
(* mode is deleting.                                                       *)
Insert(a) ==
  /\ job[a].at = "numbered"
  /\ \E choice \in [job[a].faces -> job[a].seen \union {New}] :
       LET seeds == {f \in job[a].faces : choice[f] = New}
           fresh == Fresh(job[a].faces)
           id    == [f \in seeds |-> ids + Number(seeds)[f]]
           born  == {id[f] : f \in seeds}
           seed  == [i \in born |-> CHOOSE f \in seeds : id[f] = i]
           to    == [f \in job[a].faces |-> IF f \in seeds THEN id[f] ELSE choice[f]]
           known == DOMAIN people \union born
       IN /\ Wiping => fresh = job[a].faces
          /\ Clearing => {to[f] : f \in fresh} \intersect job["cli"].seen = {}
          /\ IF {to[f] : f \in fresh} \subseteq known
             THEN /\ people' = [i \in known |->
                       IF i \in born THEN [cluster |-> ClusterAfter(job[a].top, i - ids), centroid |-> {seed[i]}]
                       ELSE people[i]]
                  /\ home' = [f \in Face |-> IF f \in fresh THEN to[f] ELSE home[f]]
                  /\ primary' = primary \union (seeds \intersect fresh)
                  /\ ids' = ids + Cardinality(seeds)
                  /\ crossed' = crossed \union {id[f] : f \in seeds \ fresh}
                  /\ job' = [job EXCEPT ![a] = Idle]
             ELSE Raise(a) /\ UNCHANGED tables
  /\ UNCHANGED <<stored, call, ops>>

(* Mutant of NextScan: the failure ends the scan thread.                   *)
NextScan_Never(a) == FALSE /\ UNCHANGED vars

(* The failure is logged, and the next scan tries again.                   *)
NextScan(a) ==
  /\ job[a].at = "raised" /\ job' = [job EXCEPT ![a] = Idle]
  /\ UNCHANGED <<stored, tables, call, ops>>

Incremental(a) ==
  FindUnmapped(a) \/ LoadCentroids(a) \/ ReadTop(a) \/ Insert(a) \/ NextScan(a)

-----------------------------------------------------------------------------
(* Full mode, by hand.                                                     *)
FullLoad ==
  /\ job["cli"].at = "idle" /\ stored # {} /\ Op
  /\ job' = [job EXCEPT !["cli"] = [Idle EXCEPT !.at = "loaded", !.faces = stored]]
  /\ UNCHANGED <<stored, tables, call>>

(* A dry run, no --confirm, the process is killed, or a statement fails:   *)
(* nothing is kept.  The DELETE FROM verification_audit always does in a   *)
(* schema of this repository, where no module creates that table (only     *)
(* PRD.md describes it); the steps after it are those of a database that   *)
(* has it, empty of references to identities.                              *)
FullStops ==
  /\ job["cli"].at \in {"loaded", "wiped", "cleared"}
  /\ job' = [job EXCEPT !["cli"] = Idle]
  /\ UNCHANGED <<stored, tables, call, ops>>

(* DELETE FROM face_identity_map: of the rows there are, once no request   *)
(* holds any of them.                                                      *)
FullWipe ==
  /\ job["cli"].at = "loaded"
  /\ call.at \in {"moved", "marked"} => call.faces = {}
  /\ job' = [job EXCEPT !["cli"].at = "wiped", !["cli"].rows = Mapped]
  /\ UNCHANGED <<stored, tables, call, ops>>

(* DELETE FROM verification_audit, a table that stands for nothing here,   *)
(* and DELETE FROM identities, which fails on a mapping committed since.   *)
FullClear ==
  /\ job["cli"].at = "wiped"
  /\ IF Mapped \subseteq job["cli"].rows
     THEN job' = [job EXCEPT !["cli"].at = "cleared", !["cli"].seen = DOMAIN people]
     ELSE Raise("cli")
  /\ UNCHANGED <<stored, tables, call, ops>>

(* The compact labels of the faces; ChineseWhispers tells how they are     *)
(* found.                                                                  *)
Labellings(faces) ==
  {l \in [faces -> 0..Cardinality(faces) - 1] :
     \A f \in faces : \A c \in 0..l[f] : \E g \in faces : l[g] = c}

(* One representative of each identity that has faces in h.                *)
Leaders(h, among) ==
  {P \in SUBSET Face : \A i \in among :
     Cardinality({f \in P : h[f] = i}) = IF \E f \in Face : h[f] = i THEN 1 ELSE 0}

(* An identity per label; then the identities are read back by cluster_id, *)
(* and of two with the same one the later row counts.  The mappings are    *)
(* plain INSERTs, and primary marks are only set, never reset.             *)
FullCommit ==
  LET faces == job["cli"].faces
      kept  == DOMAIN people \ job["cli"].seen
      later == {f \in Face : home[f] \in kept}
  IN
  /\ job["cli"].at = "cleared"
  /\ IF faces \intersect later # {} THEN Raise("cli") /\ UNCHANGED tables
     ELSE \E label \in Labellings(faces) :
       LET labels == {label[f] : f \in faces}
           own    == [c \in labels |-> ids + 1 + c]
           like(c) == {i \in kept : people[i].cluster = c}
       IN \E row \in [labels -> kept \union {own[c] : c \in labels}] :
          /\ \A c \in labels : row[c] \in like(c) \union {own[c]}
          /\ people' = [i \in kept \union {own[c] : c \in labels} |->
               IF i \in kept THEN people[i]
               ELSE [cluster |-> i - ids - 1,
                     centroid |-> {f \in faces : own[label[f]] = i}]]
          /\ home' = [f \in Face |-> CASE f \in faces -> row[label[f]]
                                       [] f \in later -> home[f]
                                       [] OTHER -> None]
          /\ \E best \in Leaders(home', DOMAIN people') :
               /\ best \subseteq faces \union later
               /\ primary' = best \union (primary \intersect later)
               /\ crossed' = crossed \union {home'[f] : f \in (best \ primary) \intersect later}
                    \union UNION {{row[c], own[c]} : c \in {c \in labels : row[c] # own[c]}}
          /\ ids' = ids + Cardinality(labels)
          /\ job' = [job EXCEPT !["cli"] = Idle]
  /\ UNCHANGED <<stored, call, ops>>

Full == FullLoad \/ FullStops \/ FullWipe \/ FullClear \/ FullCommit

-----------------------------------------------------------------------------
(* Merge.                                                                  *)
MergeAsk(from, to) ==
  /\ call.at = "idle" /\ Op
  /\ from # to /\ {from, to} \subseteq DOMAIN people
  /\ call' = [Quiet EXCEPT !.at = "merge", !.from = from, !.to = to]
  /\ UNCHANGED <<stored, tables, job>>

(* The bulk UPDATE of the mappings waits for rows that are being deleted,  *)
(* and fails when the target went meanwhile.                               *)
MergeMove ==
  /\ call.at = "merge"
  /\ Wiping => Members(call.from) = {}
  /\ call' = IF Members(call.from) # {} /\ call.to \notin DOMAIN people THEN Quiet
             ELSE [call EXCEPT !.at = "moved", !.faces = Members(call.from)]
  /\ UNCHANGED <<stored, tables, job, ops>>

(* db.delete(source) marks the mappings that were added meanwhile, too.    *)
MergeMark ==
  /\ call.at = "moved"
  /\ call' = [call EXCEPT !.at = "marked", !.also = Members(call.from) \ call.faces]
  /\ UNCHANGED <<stored, tables, job, ops>>

(* Mutant of Remarked: only one mark is added.                             *)
Remarked_Adds(h, among, P) == \E best \in Leaders(h, among) : P = primary \union best

(* The marks of the identities in among: all cleared, then the best set.   *)
Remarked(h, among, P) ==
  \E best \in Leaders(h, among) :
    /\ \A f \in best : h[f] \in among
    /\ P = {f \in primary : h[f] \notin among \union {None}} \union best

(* The flush deletes the source; a mapping added since fails the request.  *)
MergeCommit ==
  LET gone == call.also \intersect Members(call.from)
      h    == [f \in Face |-> IF f \in call.faces THEN call.to
                              ELSE IF f \in gone THEN None ELSE home[f]]
  IN
  /\ call.at = "marked" /\ ~Wiping /\ call' = Quiet
  /\ IF Members(call.from) \ (call.faces \union call.also) # {} THEN UNCHANGED tables
     ELSE /\ home' = h
          /\ people' = [i \in DOMAIN people \ {call.from} |->
               IF i # call.to \/ \A f \in Face : h[f] # i THEN people[i]
               ELSE [people[i] EXCEPT !.centroid = {f \in Face : h[f] = i}]]
          /\ Remarked(h, {call.to}, primary')
          /\ UNCHANGED <<ids, crossed>>
  /\ UNCHANGED <<stored, job, ops>>

-----------------------------------------------------------------------------
(* Split.  Some faces of the identity, or none, but never all of them.     *)
SplitLeaves(i, faces) == faces \subseteq Members(i) /\ faces # Members(i)

SplitAsk(i, faces) ==
  /\ call.at = "idle" /\ Op
  /\ i \in DOMAIN people /\ SplitLeaves(i, faces)
  /\ call' = [Quiet EXCEPT !.at = "split", !.from = i, !.faces = faces]
  /\ UNCHANGED <<stored, tables, job>>

(* Mutant of Recomputed: only the new identity's centroid.                 *)
Recomputed_NewOnly(i, new, h) == i = new

(* Whose centroid _recompute_centroid() replaces: those that have faces.   *)
Recomputed(i, new, h) == i \in {call.from, new} /\ \E f \in Face : h[f] = i

(* The new identity and the move, which takes the faces still there.       *)
SplitCommit ==
  LET new   == ids + 1
      moved == call.faces \intersect Members(call.from)
      h     == [f \in Face |-> IF f \in moved THEN new ELSE home[f]]
  IN
  /\ call.at = "split" /\ ~Wiping /\ call' = Quiet
  /\ ids' = new /\ home' = h
  /\ people' = [i \in DOMAIN people \union {new} |->
       [cluster  |-> IF i = new THEN ClusterAfter(TopCluster, 1) ELSE people[i].cluster,
        centroid |-> IF Recomputed(i, new, h) THEN {f \in Face : h[f] = i}
                     ELSE IF i = new THEN {} ELSE people[i].centroid]]
  /\ Remarked(h, {call.from, new}, primary')
  /\ UNCHANGED <<stored, job, ops, crossed>>

Request == MergeMove \/ MergeMark \/ MergeCommit \/ SplitCommit

Next ==
  \/ \E f \in Face : AddFace(f)
  \/ \E a \in Actor : Incremental(a)
  \/ Full
  \/ \E i, j \in DOMAIN people : MergeAsk(i, j)
  \/ \E i \in DOMAIN people : \E faces \in SUBSET Members(i) : SplitAsk(i, faces)
  \/ Request

(* Scans repeat; a request and a run of the script, once begun, end.       *)
Fairness ==
  /\ WF_vars(Incremental("scan"))
  /\ WF_vars(job["cli"].at # "idle" /\ (Incremental("cli") \/ Full))
  /\ WF_vars(Request)

Spec == Init /\ [][Next]_vars /\ Fairness

-----------------------------------------------------------------------------
(* A centroid is of faces the identity has: none that were split off,      *)
(* merged away or that a seed lost to another clustering.  So an identity  *)
(* with a centroid is never empty.                                         *)
CentroidOfItsOwn ==
  \A i \in DOMAIN people \ crossed : people[i].centroid \subseteq Members(i)

(* An identity that has faces has one primary face, which the dashboard    *)
(* shows, whatever was merged, split, assigned or clustered anew.          *)
OnePrimary ==
  \A i \in DOMAIN people \ crossed :
    Members(i) # {} => Cardinality(primary \intersect Members(i)) = 1

(* "Existing assignments are NEVER changed" by an incremental clustering:  *)
(* a mapped face changes its identity or loses it by a merge, a split or a *)
(* full clustering only.                                                   *)
NeverReassigned ==
  [][\A f \in Mapped : home'[f] # home[f] =>
       call' # call \/ (Clearing /\ job'["cli"] = Idle)]_vars

(* Every face is eventually under some identity, merges that fail the      *)
(* clustering and full clusterings that start over included.               *)
EveryFaceMapped == \A f \in Face : f \in stored ~> home[f] # None
=============================================================================
