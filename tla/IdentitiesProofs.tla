-------------------------- MODULE IdentitiesProofs --------------------------
(***************************************************************************)
(* Proofs about Identities, for any finite set of faces and any number of  *)
(* requests and runs of the script: an incremental clustering never takes  *)
(* a face from its identity, a centroid is of faces the identity has, and  *)
(* an identity that has faces has one primary face, unless two clusterings *)
(* got in each other's way about it.                                       *)
(***************************************************************************)
EXTENDS Identities, FiniteSetTheorems, FunctionTheorems, TLAPS

-----------------------------------------------------------------------------
(* Finite sets.                                                            *)

(* A finite set of integers has a maximum.                                 *)
LEMMA MaxIsIn ==
  ASSUME NEW S \in SUBSET Int, IsFiniteSet(S), S # {}
  PROVE  Max(S) \in S /\ \A y \in S : Max(S) >= y
  <1> DEFINE above(x) == {y \in S : y > x}
             T == {above(x) : x \in S}
  <1>1. IsWellFoundedOn(StrictSubsetOrdering(S), FiniteSubsetsOf(S))
    BY FS_StrictSubsetOrderingWellFounded
  <1>2. T \subseteq FiniteSubsetsOf(S) /\ T # {}
    <2>1. \A x \in S : above(x) \in SUBSET S
      OBVIOUS
    <2>2. \A x \in S : IsFiniteSet(above(x))
      BY <2>1, FS_Subset
    <2> QED BY <2>1, <2>2 DEF FiniteSubsetsOf
  <1>3. PICK A \in T : \A B \in T : <<B, A>> \notin StrictSubsetOrdering(S)
    BY <1>1, <1>2, WFMin
  <1>4. PICK x \in S : A = above(x)
    BY <1>3
  <1>5. \A y \in S : x >= y
    <2> SUFFICES ASSUME NEW y \in S, y > x PROVE FALSE
      OBVIOUS
    <2>1. y \in above(x) /\ y \notin above(y)
      OBVIOUS
    <2>2. \A z \in S : z > y => z > x
      OBVIOUS
    <2>3. above(y) \subseteq above(x)
      BY <2>2
    <2>4. above(x) # above(y)
      BY <2>1
    <2>5. <<above(y), above(x)>> \in StrictSubsetOrdering(S)
      BY <2>3, <2>4 DEF StrictSubsetOrdering
    <2> QED BY <1>3, <1>4, <2>5
  <1> QED BY <1>5 DEF Max

(* The numbers of the seeds are theirs alone.                              *)
LEMMA NumberFits ==
  ASSUME NEW S, IsFiniteSet(S)
  PROVE  /\ Number(S) \in [S -> 1..Cardinality(S)]
         /\ \A x, y \in S : x # y => Number(S)[x] # Number(S)[y]
  <1>1. ExistsBijection(S, 1..Cardinality(S))
    BY FS_CardinalityType, Fun_ExistsBijSymmetric
  <1>2. PICK n : n \in Bijection(S, 1..Cardinality(S))
    BY <1>1 DEF ExistsBijection
  <1>3. n \in [S -> 1..Cardinality(S)] /\ \A x, y \in S : x # y => n[x] # n[y]
    BY <1>2 DEF Bijection, Injection, IsInjective
  <1> QED BY <1>3 DEF Number

(* Compact labels are less than their number.                              *)
LEMMA LabelsFit ==
  ASSUME NEW faces, IsFiniteSet(faces), NEW l \in Labellings(faces)
  PROVE  /\ IsFiniteSet({l[f] : f \in faces})
         /\ \A c \in {l[f] : f \in faces} :
              c \in Nat /\ c < Cardinality({l[f] : f \in faces})
  <1> DEFINE labels == {l[f] : f \in faces}
  <1>1. /\ l \in [faces -> 0..Cardinality(faces) - 1] /\ Cardinality(faces) \in Nat
        /\ \A f \in faces : \A c \in 0..l[f] : \E g \in faces : l[g] = c
    BY FS_CardinalityType DEF Labellings
  <1>2. l \in Surjection(faces, labels)
    BY <1>1 DEF Surjection
  <1>3. IsFiniteSet(labels)
    BY <1>2, FS_Surjection
  <1>4. ASSUME NEW c \in labels PROVE c \in Nat /\ c < Cardinality(labels)
    <2>1. c \in Nat
      BY <1>1
    <2>2. 0..c \in SUBSET labels
      BY <1>1
    <2>3. Cardinality(0..c) = c + 1
      BY <2>1, FS_Interval
    <2>4. Cardinality(0..c) <= Cardinality(labels)
      BY <1>3, <2>2, FS_Subset
    <2>5. Cardinality(labels) \in Nat
      BY <1>3, FS_CardinalityType
    <2> QED BY <2>1, <2>3, <2>4, <2>5
  <1> QED BY <1>3, <1>4

-----------------------------------------------------------------------------
(* The invariant.                                                          *)

Jobs ==
  [at : {"idle", "raised", "found", "known", "numbered", "loaded", "wiped", "cleared"},
   faces : SUBSET Face, rows : SUBSET Face, seen : SUBSET Nat, top : Nat \union {-1}]

Calls == [at : {"idle", "merge", "moved", "marked", "split"}, from : Nat, to : Nat,
          faces : SUBSET Face, also : SUBSET Face]

(* The tables refer to each other: a mapping to an identity, a mark to a   *)
(* mapping, a mapping to a stored face.                                    *)
TablesFit ==
  /\ stored \subseteq Face /\ ids \in Nat /\ crossed \subseteq 1..ids
  /\ people = [i \in DOMAIN people |-> people[i]] /\ DOMAIN people \subseteq 1..ids
  /\ \A i \in DOMAIN people : people[i].cluster \in Nat /\ people[i].centroid \subseteq stored
  /\ \A f \in Face : home[f] \in DOMAIN people \union {None}
  /\ \A f \in Face : home[f] # None => f \in stored
  /\ \A f \in primary : f \in Face /\ home[f] # None

(* A clustering that has read the centroids may assign only to identities  *)
(* that have faces: one without would get no primary face.                 *)
JobFits(j) ==
  /\ j \in Jobs /\ j.faces \union j.rows \subseteq stored /\ j.seen \subseteq 1..ids
  /\ j.at \in {"known", "numbered"} =>
       \A i \in j.seen : i \in DOMAIN people /\ i \notin crossed =>
         \E f \in Face : home[f] = i

(* A merge holds the rows it has moved, so that neither they nor its target *)
(* can go, and a split leaves the identity a face.                         *)
CallFits(c) ==
  /\ c \in Calls /\ c.from \in 0..ids /\ c.to \in 0..ids
  /\ c.faces \union c.also \subseteq stored
  /\ c.at # "idle" => c.from # None
  /\ c.at \in {"merge", "moved", "marked"} => c.to # None /\ c.from # c.to
  /\ c.at \in {"moved", "marked"} =>
       /\ \A f \in c.faces : home[f] = c.from
       /\ c.faces # {} => c.to \in DOMAIN people /\ ~Wiping
  /\ c.at = "split" /\ c.from \in DOMAIN people =>
       \E f \in Face \ c.faces : home[f] = c.from

JobsFit == job \in [Actor -> Jobs] /\ \A a \in Actor : JobFits(job[a])

IInv == /\ TablesFit /\ JobsFit /\ CallFits(call) /\ ops \in 0..MaxOps
        /\ CentroidOfItsOwn /\ OnePrimary

(* The types follow from the invariant.                                    *)
LEMMA IInvTypes == IInv => IdentitiesTypeOK
  <1> SUFFICES ASSUME IInv PROVE IdentitiesTypeOK
    OBVIOUS
  <1>1. primary \subseteq {f \in stored : home[f] # None}
    BY DEF IInv, TablesFit
  <1>2. \A a \in Actor :
       /\ job[a].at \in {"idle", "raised", "found", "known", "numbered", "loaded", "wiped", "cleared"}
       /\ job[a].faces \union job[a].rows \subseteq stored /\ job[a].seen \subseteq 1..ids
    BY DEF IInv, JobsFit, JobFits, Jobs
  <1>3. /\ call.at \in {"idle", "merge", "moved", "marked", "split"}
        /\ call.faces \union call.also \subseteq stored
    BY DEF IInv, CallFits, Calls
  <1> QED BY <1>1, <1>2, <1>3 DEF IInv, TablesFit, IdentitiesTypeOK

(* Faces without clusters satisfy it.                                      *)
LEMMA IInvInit == Init => IInv
  <1> SUFFICES ASSUME Init PROVE IInv
    OBVIOUS
  <1>1. DOMAIN people = {}
    BY DEF Init
  <1>2. TablesFit
    BY <1>1, IdentitiesAssumption DEF Init, TablesFit
  <1>3. JobsFit
    BY DEF Init, JobsFit, JobFits, Idle, Jobs, None
  <1>4. CallFits(call)
    BY DEF Init, CallFits, Quiet, Calls, None
  <1>5. CentroidOfItsOwn /\ OnePrimary /\ ops \in 0..MaxOps
    BY <1>1, IdentitiesAssumption DEF Init, CentroidOfItsOwn, OnePrimary
  <1> QED BY <1>2, <1>3, <1>4, <1>5 DEF IInv

-----------------------------------------------------------------------------
(* Steps that change no table.                                             *)

(* A clustering that only reads, and a request that does.                  *)
LEMMA JobMoves ==
  ASSUME IInv, UNCHANGED <<stored, tables, call>>, ops' \in 0..MaxOps,
         NEW a \in Actor, NEW j, job' = [job EXCEPT ![a] = j], JobFits(j),
         Wiping' => Wiping \/ (call.at \in {"moved", "marked"} => call.faces = {})
  PROVE  IInv'
  <1>1. UNCHANGED <<people, home, primary, ids, crossed>>
    BY DEF tables
  <1>2. /\ TablesFit /\ JobsFit /\ CallFits(call) /\ CentroidOfItsOwn /\ OnePrimary
    BY DEF IInv
  <1>3. TablesFit' /\ CentroidOfItsOwn' /\ OnePrimary'
    BY <1>1, <1>2 DEF TablesFit, CentroidOfItsOwn, OnePrimary, Members
  <1>4. JobsFit'
    <2>1. job' \in [Actor -> Jobs]
      BY <1>2 DEF JobsFit, JobFits
    <2>2. ASSUME NEW b \in Actor PROVE JobFits(job'[b])
      BY <1>2 DEF JobsFit
    <2> QED BY <1>1, <2>1, <2>2 DEF JobsFit, JobFits
  <1>5. CallFits(call)'
    BY <1>1, <1>2 DEF CallFits
  <1> QED BY <1>3, <1>4, <1>5 DEF IInv

(* A call moves on and nothing else changes.                               *)
LEMMA CallMoves ==
  ASSUME IInv, UNCHANGED <<stored, tables, job>>, ops' \in 0..MaxOps,
         CallFits(call')
  PROVE  IInv'
  <1>1. UNCHANGED <<people, home, primary, ids, crossed>>
    BY DEF tables
  <1>2. /\ TablesFit /\ JobsFit /\ CentroidOfItsOwn /\ OnePrimary
    BY DEF IInv
  <1>3. TablesFit' /\ CentroidOfItsOwn' /\ OnePrimary'
    BY <1>1, <1>2 DEF TablesFit, CentroidOfItsOwn, OnePrimary, Members
  <1>4. JobsFit'
    BY <1>1, <1>2 DEF JobsFit, JobFits
  <1>5. CallFits(call)'
    BY <1>1 DEF CallFits, Wiping
  <1> QED BY <1>3, <1>4, <1>5 DEF IInv

(* A job, and a request, go on fitting while identities keep their faces   *)
(* and new ones get new numbers.                                           *)
LEMMA JobStays ==
  ASSUME NEW j, JobFits(j), ids \in Nat, ids' \in Nat, ids <= ids',
         stored \subseteq stored', crossed \subseteq crossed',
         \A i \in DOMAIN people' : i \in DOMAIN people \/ i > ids,
         \A i \in DOMAIN people' : i \in DOMAIN people /\ i \notin crossed' =>
           ((\E f \in Face : home[f] = i) => \E f \in Face : home'[f] = i)
  PROVE  JobFits(j)'
  <1>1. \A i \in j.seen : i \in 1..ids
    BY DEF JobFits
  <1>2. /\ j.faces \union j.rows \subseteq stored' /\ j.seen \subseteq 1..ids'
    BY <1>1 DEF JobFits
  <1>3. ASSUME j.at \in {"known", "numbered"},
               NEW i \in j.seen, i \in DOMAIN people', i \notin crossed'
        PROVE  \E f \in Face : home'[f] = i
    <2>1. i \in DOMAIN people
      BY <1>1, <1>3
    <2> QED BY <1>3, <2>1 DEF JobFits
  <1> QED BY <1>2, <1>3 DEF JobFits

(* The maximum of the cluster numbers is one of them, or there is none.    *)
LEMMA TopFits == TablesFit => TopCluster \in Nat \union {-1}
  <1> SUFFICES ASSUME TablesFit PROVE TopCluster \in Nat \union {-1}
    OBVIOUS
  <1> DEFINE S == {people[i].cluster : i \in DOMAIN people}
  <1>1. CASE people = <<>>
    BY <1>1 DEF TopCluster
  <1>2. CASE people # <<>> /\ S # {}
    <2>1. IsFiniteSet(1..ids)
      BY FS_Interval DEF TablesFit
    <2>2. IsFiniteSet(DOMAIN people)
      BY <2>1, FS_Subset DEF TablesFit
    <2>3. [i \in DOMAIN people |-> people[i].cluster] \in Surjection(DOMAIN people, S)
      BY DEF Surjection
    <2>4. IsFiniteSet(S)
      BY <2>2, <2>3, FS_Surjection
    <2>5. S \subseteq Nat /\ S \in SUBSET Int
      BY DEF TablesFit
    <2> HIDE DEF S
    <2>6. Max(S) \in S
      BY <1>2, <2>4, <2>5, MaxIsIn
    <2> QED BY <1>2, <2>5, <2>6 DEF TopCluster, S
  <1>3. CASE people # <<>> /\ S = {}
    <2>1. DOMAIN people = {}
      BY <1>3
    <2>2. people = [i \in {} |-> people[i]]
      BY <2>1 DEF TablesFit
    <2> QED BY <1>3, <2>2
  <1> QED BY <1>1, <1>2, <1>3

(* What the clusterings read, until one writes.                            *)
LEMMA ReadingStep ==
  ASSUME IInv, NEW a \in Actor,
         \/ FindUnmapped(a) \/ LoadCentroids(a) \/ ReadTop(a) \/ NextScan(a)
         \/ (a = "cli" /\ (FullLoad \/ FullStops \/ FullWipe \/ FullClear))
  PROVE  IInv'
  <1>1. /\ TablesFit /\ JobsFit /\ job[a] \in Jobs /\ JobFits(job[a]) /\ CallFits(call)
        /\ ops \in 0..MaxOps /\ MaxOps \in Nat /\ CentroidOfItsOwn
    BY IdentitiesAssumption DEF IInv, JobsFit
  <1>2. UNCHANGED <<stored, tables, call>> /\ ops' \in 0..MaxOps
    BY <1>1 DEF FindUnmapped, LoadCentroids, ReadTop, NextScan, FullLoad, FullStops,
       FullWipe, FullClear, Op
  <1>3. job \in [Actor -> Jobs]
    BY <1>1 DEF JobsFit
  <1>4. ASSUME NEW j, job' = [job EXCEPT ![a] = j], JobFits(j),
               j.at \in {"wiped", "cleared"} =>
                 Wiping \/ (call.at \in {"moved", "marked"} => call.faces = {})
        PROVE  IInv'
    <2>1. Wiping' => Wiping \/ (call.at \in {"moved", "marked"} => call.faces = {})
      BY <1>3, <1>4 DEF Wiping, Actor
    <2> QED BY <1>2, <1>4, <2>1, JobMoves
  <1>5. ASSUME Raise(a) PROVE IInv'
    <2>1. JobFits([Idle EXCEPT !.at = "raised"])
      BY DEF JobFits, Jobs, Idle, None
    <2> QED BY <1>4, <1>5, <2>1 DEF Raise, Idle
  <1>6. ASSUME job' = [job EXCEPT ![a] = Idle] PROVE IInv'
    <2>1. JobFits(Idle)
      BY DEF JobFits, Jobs, Idle, None
    <2> QED BY <1>4, <1>6, <2>1 DEF Idle
  <1>7. CASE FindUnmapped(a)
    <2>1. CASE job' = [job EXCEPT ![a] = [Idle EXCEPT !.at = "found", !.faces = Unmapped]]
      <3>1. Unmapped \subseteq stored /\ stored \subseteq Face
        BY <1>1 DEF Unmapped, TablesFit
      <3>2. JobFits([Idle EXCEPT !.at = "found", !.faces = Unmapped])
        BY <3>1 DEF JobFits, Jobs, Idle, None
      <3> QED BY <1>4, <2>1, <3>2 DEF Idle
    <2> QED BY <1>5, <1>7, <2>1 DEF FindUnmapped
  <1>8. CASE LoadCentroids(a)
    <2> DEFINE seen == {i \in DOMAIN people : people[i].centroid # {}}
               j == [job[a] EXCEPT !.at = "known", !.seen = seen]
    <2>1. job' = [job EXCEPT ![a] = j]
      BY <1>3, <1>8 DEF LoadCentroids
    <2>2. seen \subseteq 1..ids /\ seen \subseteq Nat
      BY <1>1 DEF TablesFit
    <2>3. j \in Jobs /\ j.seen = seen /\ j.faces = job[a].faces /\ j.rows = job[a].rows
          /\ j.at = "known"
      BY <1>1, <2>2 DEF Jobs
    <2>4. \A i \in seen : i \notin crossed => \E f \in Face : home[f] = i
      BY <1>1 DEF CentroidOfItsOwn, Members
    <2>5. JobFits(j)
      BY <1>1, <2>2, <2>3, <2>4 DEF JobFits
    <2> QED BY <1>4, <2>1, <2>3, <2>5
  <1>9. CASE ReadTop(a)
    <2> DEFINE j == [job[a] EXCEPT !.at = "numbered", !.top = TopCluster]
    <2>1. job' = [job EXCEPT ![a] = j] /\ job[a].at = "known"
      BY <1>3, <1>9 DEF ReadTop
    <2>2. j \in Jobs /\ j.seen = job[a].seen /\ j.faces = job[a].faces
          /\ j.rows = job[a].rows /\ j.at = "numbered"
      BY <1>1, TopFits DEF Jobs
    <2>3. JobFits(j)
      BY <1>1, <2>1, <2>2 DEF JobFits
    <2> QED BY <1>4, <2>1, <2>2, <2>3
  <1>10. CASE NextScan(a)
    BY <1>6, <1>10 DEF NextScan
  <1>11. CASE a = "cli" /\ FullLoad
    <2> DEFINE j == [Idle EXCEPT !.at = "loaded", !.faces = stored]
    <2>1. JobFits(j)
      BY <1>1 DEF JobFits, Jobs, Idle, None, TablesFit
    <2> QED BY <1>4, <1>11, <2>1 DEF FullLoad, Idle
  <1>12. CASE a = "cli" /\ FullStops
    BY <1>6, <1>12 DEF FullStops
  <1>13. CASE a = "cli" /\ FullWipe
    <2> DEFINE j == [job[a] EXCEPT !.at = "wiped", !.rows = Mapped]
    <2>1. job' = [job EXCEPT ![a] = j]
      BY <1>3, <1>13 DEF FullWipe
    <2>2. Mapped \subseteq stored /\ Mapped \subseteq Face
      BY <1>1 DEF TablesFit, Mapped
    <2>3. j \in Jobs /\ j.seen = job[a].seen /\ j.faces = job[a].faces
          /\ j.rows = Mapped /\ j.at = "wiped"
      BY <1>1, <2>2 DEF Jobs
    <2>4. JobFits(j)
      BY <1>1, <2>2, <2>3 DEF JobFits
    <2> QED BY <1>4, <1>13, <2>1, <2>4 DEF FullWipe
  <1>14. CASE a = "cli" /\ FullClear
    <2> DEFINE j == [job[a] EXCEPT !.at = "cleared", !.seen = DOMAIN people]
    <2>1. CASE job' = [job EXCEPT !["cli"].at = "cleared", !["cli"].seen = DOMAIN people]
      <3>1. job' = [job EXCEPT ![a] = j]
        BY <1>3, <1>14, <2>1
      <3>2. DOMAIN people \subseteq 1..ids /\ DOMAIN people \subseteq Nat
        BY <1>1 DEF TablesFit
      <3>3. j \in Jobs /\ j.seen = DOMAIN people /\ j.faces = job[a].faces
            /\ j.rows = job[a].rows /\ j.at = "cleared"
        BY <1>1, <3>2 DEF Jobs
      <3>4. JobFits(j)
        BY <1>1, <3>2, <3>3 DEF JobFits
      <3>5. Wiping
        BY <1>14 DEF FullClear, Wiping
      <3> QED BY <1>4, <3>1, <3>4, <3>5
    <2> QED BY <1>5, <1>14, <2>1 DEF FullClear
  <1> QED BY <1>7, <1>8, <1>9, <1>10, <1>11, <1>12, <1>13, <1>14

(* What a request reads and locks, until it writes.                        *)
LEMMA AskingStep ==
  ASSUME IInv,
         \/ \E i, j \in DOMAIN people : MergeAsk(i, j)
         \/ \E i \in DOMAIN people : \E faces \in SUBSET Members(i) : SplitAsk(i, faces)
         \/ MergeMove \/ MergeMark
  PROVE  IInv'
  <1>1. /\ TablesFit /\ CallFits(call) /\ call \in Calls
        /\ ops \in 0..MaxOps /\ MaxOps \in Nat
    BY IdentitiesAssumption DEF IInv, CallFits
  <1>2. UNCHANGED <<stored, tables, job>> /\ (ops' = ops \/ Op)
    <2>1. ASSUME NEW i, NEW j, MergeAsk(i, j) PROVE UNCHANGED <<stored, tables, job>> /\ Op
      BY <2>1 DEF MergeAsk
    <2>2. ASSUME NEW i, NEW faces, SplitAsk(i, faces)
          PROVE UNCHANGED <<stored, tables, job>> /\ Op
      BY <2>2 DEF SplitAsk
    <2> QED BY <2>1, <2>2 DEF MergeMove, MergeMark
  <1>3. ASSUME NEW i \in DOMAIN people, NEW j \in DOMAIN people, MergeAsk(i, j)
        PROVE  CallFits(call')
    <2>1. call' = [Quiet EXCEPT !.at = "merge", !.from = i, !.to = j] /\ i # j
      BY <1>3 DEF MergeAsk
    <2>2. i \in 1..ids /\ j \in 1..ids /\ i \in Nat /\ j \in Nat
      BY <1>1 DEF TablesFit
    <2>3. call' \in Calls /\ call'.at = "merge" /\ call'.from = i /\ call'.to = j
          /\ call'.faces = {} /\ call'.also = {}
      BY <2>1, <2>2 DEF Quiet, Calls
    <2> QED BY <1>1, <2>1, <2>2, <2>3 DEF CallFits, None, TablesFit
  <1>4. ASSUME NEW i \in DOMAIN people, NEW faces \in SUBSET Members(i), SplitAsk(i, faces)
        PROVE  CallFits(call')
    <2>1. call' = [Quiet EXCEPT !.at = "split", !.from = i, !.faces = faces]
          /\ faces # Members(i)
      BY <1>4 DEF SplitAsk, SplitLeaves
    <2>2. i \in 1..ids /\ i \in Nat /\ faces \subseteq stored /\ faces \subseteq Face
      BY <1>1 DEF TablesFit, Members, None
    <2>3. call' \in Calls /\ call'.at = "split" /\ call'.from = i /\ call'.to = None
          /\ call'.faces = faces /\ call'.also = {}
      BY <2>1, <2>2 DEF Quiet, Calls, None
    <2>4. \E f \in Face \ faces : home[f] = i
      BY <2>1 DEF Members
    <2> QED BY <1>1, <2>2, <2>3, <2>4 DEF CallFits, None, TablesFit
  <1>5. ASSUME MergeMove PROVE CallFits(call')
    <2>1. CASE call' = Quiet
      BY <1>1, <2>1 DEF Quiet, CallFits, Calls, None, TablesFit
    <2>2. CASE call' = [call EXCEPT !.at = "moved", !.faces = Members(call.from)]
               /\ (Members(call.from) # {} => call.to \in DOMAIN people)
      <3>1. Members(call.from) \subseteq stored /\ Members(call.from) \subseteq Face
        BY <1>1, <1>5 DEF MergeMove, CallFits, Members, TablesFit
      <3>2. call' \in Calls /\ call'.at = "moved" /\ call'.from = call.from
            /\ call'.to = call.to /\ call'.faces = Members(call.from)
            /\ call'.also = call.also
        BY <1>1, <2>2, <3>1 DEF Calls
      <3>3. Members(call.from) # {} => ~Wiping
        BY <1>5 DEF MergeMove
      <3> QED BY <1>1, <1>5, <2>2, <3>1, <3>2, <3>3 DEF MergeMove, CallFits, Members
    <2> QED BY <1>5, <2>1, <2>2 DEF MergeMove
  <1>6. ASSUME MergeMark PROVE CallFits(call')
    <2>1. call' = [call EXCEPT !.at = "marked", !.also = Members(call.from) \ call.faces]
      BY <1>6 DEF MergeMark
    <2>2. Members(call.from) \subseteq stored /\ Members(call.from) \subseteq Face
      BY <1>1, <1>6 DEF MergeMark, CallFits, Members, TablesFit
    <2>3. call' \in Calls /\ call'.at = "marked" /\ call'.from = call.from
          /\ call'.to = call.to /\ call'.faces = call.faces
          /\ call'.also = Members(call.from) \ call.faces
      BY <1>1, <2>1, <2>2 DEF Calls
    <2> QED BY <1>1, <1>6, <2>2, <2>3 DEF MergeMark, CallFits
  <1>7. CallFits(call')
    BY <1>3, <1>4, <1>5, <1>6
  <1>8. ops' \in 0..MaxOps
    BY <1>1, <1>2 DEF Op
  <1> QED BY <1>2, <1>7, <1>8, CallMoves

(* A new face is nobody's yet.                                             *)
LEMMA AddFaceStep ==
  ASSUME IInv, NEW f \in Face, AddFace(f)
  PROVE  IInv'
  <1>1. /\ UNCHANGED <<people, home, primary, ids, crossed, job, call, ops>>
        /\ stored' = stored \union {f}
    BY DEF AddFace, tables
  <1>2. /\ TablesFit /\ JobsFit /\ CallFits(call) /\ CentroidOfItsOwn /\ OnePrimary
    BY DEF IInv
  <1>3. TablesFit' /\ CentroidOfItsOwn' /\ OnePrimary'
    BY <1>1, <1>2 DEF TablesFit, CentroidOfItsOwn, OnePrimary, Members
  <1>4. JobsFit'
    BY <1>1, <1>2 DEF JobsFit, JobFits
  <1>5. CallFits(call)'
    BY <1>1, <1>2 DEF CallFits, Wiping
  <1> QED BY <1>1, <1>3, <1>4, <1>5 DEF IInv

-----------------------------------------------------------------------------
(* Insert.                                                                 *)

(* Seen with the seeds and where each face goes: a seed goes to an identity *)
(* of its own, another face to one that was known, and no face that has    *)
(* been mapped meanwhile goes anywhere.                                    *)
Inserted(a, seeds, fresh, to) ==
  /\ seeds \subseteq job[a].faces /\ fresh = job[a].faces \ Mapped
  /\ ids' \in Nat /\ ids' >= ids
  /\ \A f \in seeds : to[f] \in ids + 1..ids'
  /\ \A f, g \in seeds : f # g => to[f] # to[g]
  /\ \A f \in job[a].faces \ seeds : to[f] \in job[a].seen
  /\ \A f \in fresh \ seeds : to[f] \in DOMAIN people
  /\ people' = [i \in DOMAIN people' |-> people'[i]]
  /\ DOMAIN people' = DOMAIN people \union {to[f] : f \in seeds}
  /\ \A i \in DOMAIN people : people'[i] = people[i]
  /\ \A f \in seeds : people'[to[f]].cluster \in Nat /\ people'[to[f]].centroid = {f}
  /\ \A f \in Face : home'[f] = IF f \in fresh THEN to[f] ELSE home[f]
  /\ primary' = primary \union (seeds \intersect fresh)
  /\ crossed' = crossed \union {to[f] : f \in seeds \ fresh}
  /\ job' = [job EXCEPT ![a] = Idle]

(* What the insertion of one cluster writes.                               *)
LEMMA InsertEffect ==
  ASSUME IInv, NEW a \in Actor, Insert(a)
  PROVE  \/ Raise(a) /\ UNCHANGED tables
         \/ \E seeds, fresh, to : Inserted(a, seeds, fresh, to)
  <1> DEFINE faces == job[a].faces
  <1>1. /\ TablesFit /\ JobFits(job[a]) /\ job[a] \in Jobs
        /\ faces \subseteq Face /\ IsFiniteSet(faces)
        /\ job[a].seen \subseteq 1..ids /\ job[a].top \in Nat \union {-1}
    <2>1. job[a] \in Jobs /\ JobFits(job[a]) /\ TablesFit
      BY DEF IInv, JobsFit
    <2>2. faces \in SUBSET Face
      BY <2>1 DEF Jobs
    <2> QED BY <2>1, <2>2, FS_Subset, IdentitiesAssumption DEF Jobs, JobFits
  <1>2. PICK choice \in [faces -> job[a].seen \union {New}] :
       LET seeds == {f \in faces : choice[f] = New}
           fresh == Fresh(faces)
           id    == [f \in seeds |-> ids + Number(seeds)[f]]
           born  == {id[f] : f \in seeds}
           seed  == [i \in born |-> CHOOSE f \in seeds : id[f] = i]
           to    == [f \in faces |-> IF f \in seeds THEN id[f] ELSE choice[f]]
           known == DOMAIN people \union born
       IN IF {to[f] : f \in fresh} \subseteq known
             THEN /\ people' = [i \in known |->
                       IF i \in born THEN [cluster |-> ClusterAfter(job[a].top, i - ids), centroid |-> {seed[i]}]
                       ELSE people[i]]
                  /\ home' = [f \in Face |-> IF f \in fresh THEN to[f] ELSE home[f]]
                  /\ primary' = primary \union (seeds \intersect fresh)
                  /\ ids' = ids + Cardinality(seeds)
                  /\ crossed' = crossed \union {id[f] : f \in seeds \ fresh}
                  /\ job' = [job EXCEPT ![a] = Idle]
             ELSE Raise(a) /\ UNCHANGED tables
    BY DEF Insert
  <1> DEFINE seeds == {f \in faces : choice[f] = New}
             fresh == Fresh(faces)
             id    == [f \in seeds |-> ids + Number(seeds)[f]]
             born  == {id[f] : f \in seeds}
             seed  == [i \in born |-> CHOOSE f \in seeds : id[f] = i]
             to    == [f \in faces |-> IF f \in seeds THEN id[f] ELSE choice[f]]
             known == DOMAIN people \union born
  <1>3. CASE ~({to[f] : f \in fresh} \subseteq known)
    BY <1>2, <1>3
  <1>4. CASE {to[f] : f \in fresh} \subseteq known
    <2>1. /\ people' = [i \in known |->
               IF i \in born THEN [cluster |-> ClusterAfter(job[a].top, i - ids), centroid |-> {seed[i]}]
               ELSE people[i]]
          /\ home' = [f \in Face |-> IF f \in fresh THEN to[f] ELSE home[f]]
          /\ primary' = primary \union (seeds \intersect fresh)
          /\ ids' = ids + Cardinality(seeds)
          /\ crossed' = crossed \union {id[f] : f \in seeds \ fresh}
          /\ job' = [job EXCEPT ![a] = Idle]
      BY <1>2, <1>4
    <2>2. IsFiniteSet(seeds) /\ Cardinality(seeds) \in Nat
      BY <1>1, FS_Subset, FS_CardinalityType
    <2>3. /\ Number(seeds) \in [seeds -> 1..Cardinality(seeds)]
          /\ \A x, y \in seeds : x # y => Number(seeds)[x] # Number(seeds)[y]
      BY <2>2, NumberFits
    <2>4. ids \in Nat /\ DOMAIN people \subseteq 1..ids
      BY <1>1 DEF TablesFit
    <2>5. \A f \in seeds : id[f] \in ids + 1..ids + Cardinality(seeds)
      BY <2>2, <2>3, <2>4
    <2>6. \A f, g \in seeds : f # g => id[f] # id[g]
      BY <2>3, <2>4
    <2>7. \A f \in seeds : f \in faces /\ to[f] = id[f]
      OBVIOUS
    <2>8. \A f \in faces \ seeds : to[f] \in job[a].seen
      OBVIOUS
    <2>9. \A f \in seeds : seed[id[f]] = f
      BY <2>6
    <2>10. /\ \A i \in born : i > ids
           /\ \A i \in DOMAIN people : i \notin born
      <3> HIDE DEF seeds, id
      <3>1. \A i \in born : i \in ids + 1..ids + Cardinality(seeds)
        BY <2>5
      <3> HIDE DEF born
      <3>2. \A i \in born : i > ids
        BY <3>1, <2>2, <2>4
      <3>3. \A i \in DOMAIN people : ~(i > ids)
        BY <2>4
      <3> QED BY <3>2, <3>3
    <2>11. fresh = faces \ Mapped
      BY DEF Fresh
    <2>12. born = {to[f] : f \in seeds} /\ \A f \in fresh \ seeds : to[f] \in DOMAIN people
      <3>1. born = {to[f] : f \in seeds}
        BY <2>7
      <3>2. ASSUME NEW f \in fresh \ seeds PROVE to[f] \in DOMAIN people
        <4>1. f \in faces /\ to[f] \in known
          BY <1>4, <2>11, <3>2
        <4>2. to[f] \in 1..ids
          BY <1>1, <2>8, <3>2, <4>1
        <4> HIDE DEF seeds, id, born, to, fresh
        <4>3. to[f] \notin born
          BY <2>4, <2>10, <4>2
        <4> QED BY <4>1, <4>3
      <3> QED BY <3>1, <3>2
    <2>13. {id[f] : f \in seeds \ fresh} = {to[f] : f \in seeds \ fresh}
      BY <2>7
    <2> HIDE DEF seeds, fresh, id, born, seed, to, faces
    <2>14. DOMAIN people' = known /\ people' = [i \in DOMAIN people' |-> people'[i]]
      BY <2>1
    <2>15. \A i \in DOMAIN people : people'[i] = people[i]
      BY <2>1, <2>10
    <2>16. \A f \in seeds : people'[to[f]].cluster \in Nat /\ people'[to[f]].centroid = {f}
      <3> SUFFICES ASSUME NEW f \in seeds
                   PROVE  people'[to[f]].cluster \in Nat /\ people'[to[f]].centroid = {f}
        OBVIOUS
      <3>1. id[f] \in born /\ to[f] = id[f] /\ seed[id[f]] = f
        BY <2>7, <2>9 DEF born
      <3>2. people'[id[f]] = [cluster |-> ClusterAfter(job[a].top, id[f] - ids), centroid |-> {f}]
        BY <2>1, <3>1
      <3>3. job[a].top + (id[f] - ids) \in Nat
        BY <1>1, <2>2, <2>4, <2>5
      <3> QED BY <3>1, <3>2, <3>3 DEF ClusterAfter
    <2>17. Inserted(a, seeds, fresh, to)
      <3>1. seeds \subseteq job[a].faces /\ fresh = job[a].faces \ Mapped
        BY <2>7, <2>11 DEF faces
      <3>2. /\ ids' \in Nat /\ ids' >= ids
            /\ \A f \in seeds : to[f] \in ids + 1..ids'
        BY <2>1, <2>2, <2>4, <2>5, <2>7
      <3>3. \A f, g \in seeds : f # g => to[f] # to[g]
        BY <2>6, <2>7
      <3>4. \A f \in job[a].faces \ seeds : to[f] \in job[a].seen
        BY <2>8 DEF faces
      <3>5. crossed' = crossed \union {to[f] : f \in seeds \ fresh}
        BY <2>1, <2>13
      <3>6. \A f \in Face : home'[f] = IF f \in fresh THEN to[f] ELSE home[f]
        BY <2>1
      <3> QED BY <2>1, <2>12, <2>14, <2>15, <2>16, <3>1, <3>2, <3>3, <3>4, <3>5, <3>6
             DEF Inserted
    <2> QED BY <2>17
  <1> QED BY <1>3, <1>4

(* An incremental clustering leaves the identities there are as they are,  *)
(* but for the faces it adds to those that have some; a new one has its    *)
(* seed for centroid and primary face, unless it lost it.                  *)
LEMMA InsertStep ==
  ASSUME IInv, NEW a \in Actor, Insert(a)
  PROVE  IInv'
  <1>1. /\ TablesFit /\ JobsFit /\ CallFits(call) /\ CentroidOfItsOwn /\ OnePrimary
        /\ job \in [Actor -> Jobs] /\ job[a] \in Jobs /\ JobFits(job[a])
        /\ ids \in Nat /\ job[a].at = "numbered"
        /\ UNCHANGED <<stored, call, ops>> /\ ops \in 0..MaxOps
    BY DEF IInv, JobsFit, TablesFit, Insert
  <1>2. CASE Raise(a) /\ UNCHANGED tables
    <2>1. JobFits([Idle EXCEPT !.at = "raised"])
      BY DEF JobFits, Jobs, Idle, None
    <2>2. job' = [job EXCEPT ![a] = [Idle EXCEPT !.at = "raised"]]
      BY <1>2 DEF Raise
    <2>3. Wiping' => Wiping
      BY <1>1, <2>2 DEF Wiping, Idle, Actor
    <2> QED BY <1>1, <1>2, <2>1, <2>2, <2>3, JobMoves
  <1>3. ASSUME NEW seeds, NEW fresh, NEW to, Inserted(a, seeds, fresh, to)
        PROVE  IInv'
    <2>1. PICK faces : faces = job[a].faces
      OBVIOUS
    <2>2. PICK seen : seen = job[a].seen
      OBVIOUS
    <2>3. /\ seeds \subseteq faces /\ fresh \subseteq faces /\ faces \subseteq Face
          /\ faces \subseteq stored /\ seen \subseteq 1..ids
          /\ \A f \in fresh : home[f] = None
          /\ ids' \in Nat /\ ids' >= ids
          /\ \A f \in seeds : to[f] \in ids + 1..ids'
          /\ \A f, g \in seeds : f # g => to[f] # to[g]
          /\ \A f \in faces \ seeds : to[f] \in seen
          /\ \A f \in fresh \ seeds : to[f] \in DOMAIN people
          /\ people' = [i \in DOMAIN people' |-> people'[i]]
          /\ DOMAIN people' = DOMAIN people \union {to[f] : f \in seeds}
          /\ \A i \in DOMAIN people : people'[i] = people[i]
          /\ \A f \in seeds : people'[to[f]].cluster \in Nat /\ people'[to[f]].centroid = {f}
          /\ \A f \in Face : home'[f] = IF f \in fresh THEN to[f] ELSE home[f]
          /\ primary' = primary \union (seeds \intersect fresh)
          /\ crossed' = crossed \union {to[f] : f \in seeds \ fresh}
          /\ job' = [job EXCEPT ![a] = Idle]
      <3>1. faces \subseteq Face /\ faces \subseteq stored /\ seen \subseteq 1..ids
        BY <1>1, <2>1, <2>2 DEF Jobs, JobFits
      <3>2. \A f \in fresh : f \in faces /\ home[f] = None
        BY <1>3, <2>1, <3>1 DEF Inserted, Mapped
      <3> QED BY <1>3, <2>1, <2>2, <3>1, <3>2 DEF Inserted
    <2>4. DOMAIN people \subseteq 1..ids /\ \A i \in DOMAIN people : i # None
      BY <1>1 DEF TablesFit, None
    <2>5. ASSUME NEW i \in DOMAIN people'
          PROVE  \/ i \in DOMAIN people /\ i \in 1..ids
                 \/ \E f \in seeds : i = to[f] /\ i > ids /\ i \notin DOMAIN people
      <3>1. CASE i \in DOMAIN people
        BY <2>4, <3>1
      <3>2. ASSUME NEW f \in seeds, i = to[f] PROVE i > ids /\ i \notin DOMAIN people
        BY <1>1, <2>3, <2>4, <3>2
      <3> QED BY <2>3, <3>1, <3>2
    <2>6. \A f \in Face : home[f] # None => home'[f] = home[f] /\ f \notin fresh
      BY <2>3
    <2>7. TablesFit'
      <3>1. DOMAIN people' \subseteq 1..ids'
        BY <1>1, <2>3, <2>5
      <3>2. crossed' \subseteq 1..ids'
        <4>1. crossed \subseteq 1..ids /\ \A f \in seeds : to[f] \in 1..ids'
          BY <1>1, <2>3 DEF TablesFit
        <4>2. 1..ids \subseteq 1..ids'
          BY <1>1, <2>3
        <4> QED BY <2>3, <4>1, <4>2
      <3>3. \A i \in DOMAIN people' : people'[i].cluster \in Nat /\ people'[i].centroid \subseteq stored
        BY <1>1, <2>3 DEF TablesFit
      <3>4. \A f \in fresh : to[f] \in DOMAIN people'
        BY <2>3
      <3>5. \A f \in Face : home'[f] \in DOMAIN people' \union {None}
        BY <1>1, <2>3, <3>4 DEF TablesFit
      <3>6. \A f \in Face : home'[f] # None => f \in stored
        BY <1>1, <2>3 DEF TablesFit
      <3>7. \A f \in fresh : home'[f] # None
        BY <2>3, <3>1, <3>4 DEF None
      <3>8. \A f \in primary' : f \in Face /\ home'[f] # None
        BY <1>1, <2>3, <2>6, <3>7 DEF TablesFit
      <3> QED BY <1>1, <2>3, <3>1, <3>2, <3>3, <3>5, <3>6, <3>8 DEF TablesFit
    <2>8. CentroidOfItsOwn'
      <3> SUFFICES ASSUME NEW i \in DOMAIN people', i \notin crossed', NEW f \in people'[i].centroid
                   PROVE  f \in Face /\ home'[f] = i
        BY DEF CentroidOfItsOwn, Members
      <3>1. CASE i \in DOMAIN people
        <4>1. f \in Face /\ home[f] = i
          BY <1>1, <2>3, <3>1 DEF CentroidOfItsOwn, Members
        <4> QED BY <2>4, <2>6, <3>1, <4>1
      <3>2. ASSUME NEW g \in seeds, i = to[g] PROVE f \in Face /\ home'[f] = i
        BY <2>3, <3>2
      <3> QED BY <2>5, <3>1, <3>2
    <2>9. OnePrimary'
      <3> SUFFICES ASSUME NEW i \in DOMAIN people', i \notin crossed', NEW h \in Face, home'[h] = i
                   PROVE  Cardinality(primary' \intersect {f \in Face : home'[f] = i}) = 1
        BY DEF OnePrimary, Members
      <3>1. CASE i \in DOMAIN people
        <4>1. \E f \in Face : home[f] = i
          <5>1. CASE h \in fresh
            <6>1. h \notin seeds
              BY <1>1, <2>3, <2>4, <3>1, <5>1
            <6>2. i \in seen /\ i \notin crossed
              BY <2>3, <5>1, <6>1
            <6> QED BY <1>1, <2>2, <3>1, <6>2 DEF JobFits
          <5>2. CASE h \notin fresh
            BY <2>3, <5>2
          <5> QED BY <5>1, <5>2
        <4>2. Cardinality(primary \intersect {f \in Face : home[f] = i}) = 1
          BY <1>1, <2>3, <3>1, <4>1 DEF OnePrimary, Members
        <4>3. \A f \in seeds \intersect fresh : home'[f] # i
          BY <1>1, <2>3, <2>4, <3>1
        <4>4. \A f \in primary : f \in Face /\ home'[f] = home[f]
          BY <1>1, <2>6 DEF TablesFit
        <4>5. primary' \intersect {f \in Face : home'[f] = i}
                = primary \intersect {f \in Face : home[f] = i}
          BY <2>3, <4>3, <4>4
        <4> QED BY <4>2, <4>5
      <3>2. ASSUME NEW g \in seeds, i = to[g], i \notin DOMAIN people
            PROVE  Cardinality(primary' \intersect {f \in Face : home'[f] = i}) = 1
        <4>1. g \in fresh /\ g \in Face /\ home'[g] = i
          BY <2>3, <3>2
        <4>2. \A f \in primary : f \in Face /\ home'[f] # i
          BY <1>1, <2>6, <3>2, <2>4 DEF TablesFit
        <4>3. \A f \in seeds \intersect fresh : home'[f] = i => f = g
          BY <2>3, <3>2
        <4>4. primary' \intersect {f \in Face : home'[f] = i} = {g}
          BY <2>3, <4>1, <4>2, <4>3
        <4> QED BY <4>4, FS_Singleton
      <3> QED BY <2>5, <3>1, <3>2
    <2>10. JobsFit'
      <3>1. job' \in [Actor -> Jobs]
        BY <1>1, <2>3 DEF Idle, Jobs, None
      <3>2. ASSUME NEW b \in Actor PROVE JobFits(job[b])'
        <4>1. CASE b = a
          <5>1. job'[b] = Idle
            BY <1>1, <2>3, <4>1
          <5> QED BY <5>1 DEF JobFits, Jobs, Idle, None
        <4>2. CASE b # a
          <5>1. PICK j : j = job[b]
            OBVIOUS
          <5>2. job'[b] = j /\ JobFits(j)
            BY <1>1, <2>3, <4>2, <5>1 DEF JobsFit
          <5>3. \A i \in DOMAIN people' : i \in DOMAIN people \/ i > ids
            BY <2>5
          <5>4. \A i \in DOMAIN people' : i \in DOMAIN people /\ i \notin crossed' =>
                  ((\E f \in Face : home[f] = i) => \E f \in Face : home'[f] = i)
            BY <2>4, <2>6
          <5>5. crossed \subseteq crossed' /\ stored \subseteq stored' /\ ids <= ids'
            BY <1>1, <2>3
          <5>6. JobFits(j)'
            BY <1>1, <2>3, <5>2, <5>3, <5>4, <5>5, JobStays
          <5> QED BY <5>2, <5>6 DEF JobFits
        <4> QED BY <4>1, <4>2
      <3> QED BY <3>1, <3>2 DEF JobsFit
    <2>11. CallFits(call)'
      <3>1. Wiping' => Wiping
        BY <1>1, <2>3 DEF Wiping, Idle, Actor
      <3>2. DOMAIN people \subseteq DOMAIN people' /\ call.from \in 0..ids' /\ call.to \in 0..ids'
        BY <1>1, <2>3 DEF CallFits
      <3>3. call.at \in {"moved", "marked"} =>
              /\ \A f \in call.faces : home'[f] = call.from
              /\ call.faces # {} => call.to \in DOMAIN people' /\ ~Wiping'
        <4>1. call.faces \subseteq Face
          BY <1>1 DEF CallFits, TablesFit
        <4> QED BY <1>1, <2>6, <3>1, <3>2, <4>1 DEF CallFits
      <3>4. call.at = "split" /\ call.from \in DOMAIN people' =>
              \E f \in Face \ call.faces : home'[f] = call.from
        <4>1. call.from \in DOMAIN people' => call.from \in DOMAIN people
          BY <1>1, <2>5 DEF CallFits
        <4> QED BY <1>1, <2>6, <4>1 DEF CallFits
      <3> QED BY <1>1, <3>2, <3>3, <3>4 DEF CallFits
    <2> QED BY <1>1, <2>7, <2>8, <2>9, <2>10, <2>11 DEF IInv
  <1> QED BY <1>2, <1>3, InsertEffect

-----------------------------------------------------------------------------
(* The commit of the full mode.                                            *)

(* Seen with the identity each face founds (own) and the one it goes to    *)
(* (row): its own, or one that another clustering gave the same cluster    *)
(* number. Identities and mappings committed since the wipe are kept.      *)
Committed(faces, kept, later, own, row, best) ==
  /\ faces = job["cli"].faces /\ kept = DOMAIN people \ job["cli"].seen
  /\ later = {f \in Face : home[f] \in kept} /\ faces \intersect later = {}
  /\ ids' \in Nat /\ ids' >= ids
  /\ \A f \in faces : own[f] \in ids + 1..ids'
  /\ \A f \in faces : row[f] \in kept \union {own[f]}
  /\ \A f, g \in faces : own[f] = own[g] => row[f] = row[g]
  /\ people' = [i \in DOMAIN people' |-> people'[i]]
  /\ DOMAIN people' = kept \union {own[f] : f \in faces}
  /\ \A i \in kept : people'[i] = people[i]
  /\ \A f \in faces : /\ people'[own[f]].cluster \in Nat
                      /\ people'[own[f]].centroid = {g \in faces : own[g] = own[f]}
  /\ \A f \in Face : home'[f] = IF f \in faces THEN row[f]
                                ELSE IF f \in later THEN home[f] ELSE None
  /\ best \subseteq faces \union later
  /\ \A i \in DOMAIN people' : (\E f \in Face : home'[f] = i) =>
       Cardinality({f \in best : home'[f] = i}) = 1
  /\ primary' = best \union (primary \intersect later)
  /\ crossed \subseteq crossed' /\ crossed' \subseteq 1..ids'
  /\ \A f \in best \intersect later : f \notin primary => home'[f] \in crossed'
  /\ \A f \in faces : row[f] # own[f] => row[f] \in crossed' /\ own[f] \in crossed'
  /\ job' = [job EXCEPT !["cli"] = Idle]

(* What a full clustering leaves behind.                                   *)
LEMMA FullEffect ==
  ASSUME IInv, FullCommit
  PROVE  \/ Raise("cli") /\ UNCHANGED tables
         \/ \E faces, kept, later, own, row, best :
              Committed(faces, kept, later, own, row, best)
  <1> DEFINE faces == job["cli"].faces
             kept  == DOMAIN people \ job["cli"].seen
             later == {f \in Face : home[f] \in kept}
  <1>1. /\ TablesFit /\ faces \subseteq Face /\ IsFiniteSet(faces)
        /\ ids \in Nat /\ crossed \subseteq 1..ids /\ DOMAIN people \subseteq 1..ids
    <2>1. job["cli"] \in Jobs /\ TablesFit
      BY DEF IInv, JobsFit, Actor
    <2>2. faces \in SUBSET Face
      BY <2>1 DEF Jobs
    <2> QED BY <2>1, <2>2, FS_Subset, IdentitiesAssumption DEF TablesFit
  <1>2. CASE faces \intersect later # {}
    BY <1>2 DEF FullCommit
  <1>3. CASE faces \intersect later = {}
    <2>1. PICK label \in Labellings(faces) :
       LET labels == {label[f] : f \in faces}
           own    == [c \in labels |-> ids + 1 + c]
           like(c) == {i \in kept : people[i].cluster = c}
       IN \E row \in [labels -> kept \union {own[c] : c \in labels}] :
          /\ \A c \in labels : row[c] \in like(c) \union {own[c]}
          /\ people' = [i \in kept \union {own[c] : c \in labels} |->
               IF i \in kept THEN people[i]
               ELSE [cluster |-> i - ids - 1,
                     centroid |-> {f \in faces : own[label[f]] = i}]]
          /\ home' = [f \in Face |-> CASE f \in faces -> row[label[f]]
                                       [] f \in later -> home[f]
                                       [] OTHER -> None]
          /\ \E best \in Leaders(home', DOMAIN people') :
               /\ best \subseteq faces \union later
               /\ primary' = best \union (primary \intersect later)
               /\ crossed' = crossed \union {home'[f] : f \in (best \ primary) \intersect later}
                    \union UNION {{row[c], own[c]} : c \in {c \in labels : row[c] # own[c]}}
          /\ ids' = ids + Cardinality(labels)
          /\ job' = [job EXCEPT !["cli"] = Idle]
      BY <1>3 DEF FullCommit
    <2> DEFINE labels == {label[f] : f \in faces}
               own    == [c \in labels |-> ids + 1 + c]
    <2>2. PICK row \in [labels -> kept \union {own[c] : c \in labels}], best \in SUBSET Face :
          /\ \A c \in labels : row[c] \in kept \union {own[c]}
          /\ people' = [i \in kept \union {own[c] : c \in labels} |->
               IF i \in kept THEN people[i]
               ELSE [cluster |-> i - ids - 1,
                     centroid |-> {f \in faces : own[label[f]] = i}]]
          /\ home' = [f \in Face |-> CASE f \in faces -> row[label[f]]
                                       [] f \in later -> home[f]
                                       [] OTHER -> None]
          /\ best \in Leaders(home', DOMAIN people')
          /\ best \subseteq faces \union later
          /\ primary' = best \union (primary \intersect later)
          /\ crossed' = crossed \union {home'[f] : f \in (best \ primary) \intersect later}
               \union UNION {{row[c], own[c]} : c \in {c \in labels : row[c] # own[c]}}
          /\ ids' = ids + Cardinality(labels)
          /\ job' = [job EXCEPT !["cli"] = Idle]
      BY <2>1 DEF Leaders
    <2>3. /\ IsFiniteSet(labels) /\ Cardinality(labels) \in Nat
          /\ \A c \in labels : c \in Nat /\ c < Cardinality(labels)
      BY <1>1, LabelsFit, FS_CardinalityType
    <2>4. \A f \in faces : label[f] \in labels
      OBVIOUS
    <2>5. \A c \in labels : \E f \in faces : c = label[f]
      OBVIOUS
    <2> HIDE DEF labels
    <2>6. \A c \in labels : own[c] = ids + 1 + c /\ own[c] \in ids + 1..ids + Cardinality(labels)
      BY <1>1, <2>3
    <2>7. \A c, d \in labels : own[c] = own[d] => c = d
      BY <1>1, <2>3
    <2>8. \A c \in labels : own[c] \notin kept
      BY <1>1, <2>3
    <2> DEFINE Own == [f \in faces |-> own[label[f]]]
               Row == [f \in faces |-> row[label[f]]]
    <2>9. {own[c] : c \in labels} = {Own[f] : f \in faces}
      <3> HIDE DEF own, faces
      <3>1. \A f \in faces : Own[f] = own[label[f]]
        OBVIOUS
      <3> HIDE DEF Own
      <3> QED BY <2>4, <2>5, <3>1
    <2>10. \A f \in faces : /\ Own[f] = own[label[f]] /\ Row[f] = row[label[f]]
                            /\ Row[f] \in kept \union {Own[f]}
      BY <2>2, <2>4
    <2>11. \A f, g \in faces : Own[f] = Own[g] => Row[f] = Row[g]
      BY <2>4, <2>7
    <2> HIDE DEF own, faces, kept, later, Own, Row
    <2>12. /\ people' = [i \in DOMAIN people' |-> people'[i]]
           /\ DOMAIN people' = kept \union {Own[f] : f \in faces}
           /\ \A i \in kept : people'[i] = people[i]
      BY <2>2, <2>9
    <2>13. ASSUME NEW f \in faces
           PROVE  /\ people'[Own[f]].cluster \in Nat
                  /\ people'[Own[f]].centroid = {g \in faces : Own[g] = Own[f]}
      <3>1. Own[f] = own[label[f]] /\ label[f] \in labels /\ Own[f] \notin kept
        BY <2>4, <2>8, <2>10
      <3>2. people'[Own[f]] = [cluster |-> Own[f] - ids - 1,
                               centroid |-> {g \in faces : own[label[g]] = Own[f]}]
        BY <2>2, <3>1
      <3>3. Own[f] - ids - 1 \in Nat
        BY <1>1, <2>3, <2>6, <3>1
      <3>4. {g \in faces : own[label[g]] = Own[f]} = {g \in faces : Own[g] = Own[f]}
        BY <2>10
      <3> QED BY <3>2, <3>3, <3>4
    <2>14. \A f \in Face : home'[f] = IF f \in faces THEN Row[f]
                                      ELSE IF f \in later THEN home[f] ELSE None
      BY <1>3, <2>2, <2>10
    <2>15. \A i \in DOMAIN people' : (\E f \in Face : home'[f] = i) =>
             Cardinality({f \in best : home'[f] = i}) = 1
      BY <2>2 DEF Leaders
    <2>16. ids' = ids + Cardinality(labels) /\ ids' \in Nat /\ ids' >= ids
           /\ \A f \in faces : Own[f] \in ids + 1..ids'
      BY <1>1, <2>2, <2>3, <2>4, <2>6, <2>10
    <2>17. \A f \in faces : Row[f] # Own[f] => Row[f] \in crossed' /\ Own[f] \in crossed'
      <3> SUFFICES ASSUME NEW f \in faces, Row[f] # Own[f]
                   PROVE  Row[f] \in crossed' /\ Own[f] \in crossed'
        OBVIOUS
      <3>1. label[f] \in {c \in labels : row[c] # own[c]}
        BY <2>4, <2>10
      <3> QED BY <2>2, <2>10, <3>1
    <2>18. \A f \in best \intersect later : f \notin primary => home'[f] \in crossed'
      BY <2>2
    <2>19. crossed' \subseteq 1..ids'
      <3>1. \A c \in labels : row[c] \in 1..ids' /\ own[c] \in 1..ids'
        <4>1. kept \subseteq 1..ids'
          BY <1>1, <2>16 DEF kept
        <4>2. \A c \in labels : own[c] \in 1..ids'
          BY <1>1, <2>3, <2>6, <2>16
        <4> QED BY <2>2, <4>1, <4>2
      <3>2. \A f \in best \intersect later : home'[f] \in 1..ids'
        <4>1. \A f \in best \intersect later : f \in Face /\ f \notin faces /\ home[f] \in kept
          BY <1>3, <2>2 DEF later
        <4> QED BY <1>1, <2>14, <2>16, <4>1 DEF kept
      <3>3. crossed \subseteq 1..ids'
        BY <1>1, <2>16
      <3> QED BY <2>2, <3>1, <3>2, <3>3
    <2>20. Committed(faces, kept, later, Own, Row, best)
      <3>1. faces = job["cli"].faces /\ kept = DOMAIN people \ job["cli"].seen
            /\ later = {f \in Face : home[f] \in kept}
        BY DEF faces, kept, later
      <3> QED BY <1>3, <2>2, <2>10, <2>11, <2>12, <2>13, <2>14, <2>15, <2>16, <2>17, <2>18,
                 <2>19, <3>1 DEF Committed
    <2> QED BY <2>20
  <1> QED BY <1>2, <1>3

(* A full clustering leaves the identities that were committed while it ran *)
(* as they are; what it founds has the faces it labelled so and one primary *)
(* face, unless it shares a cluster number with one of those.              *)
LEMMA FullCommitStep ==
  ASSUME IInv, FullCommit
  PROVE  IInv'
  <1>1. /\ TablesFit /\ JobsFit /\ CallFits(call) /\ CentroidOfItsOwn /\ OnePrimary
        /\ job \in [Actor -> Jobs] /\ job["cli"] \in Jobs /\ JobFits(job["cli"])
        /\ ids \in Nat /\ Wiping
        /\ UNCHANGED <<stored, call, ops>> /\ ops \in 0..MaxOps
    BY DEF IInv, JobsFit, TablesFit, FullCommit, Wiping, Actor
  <1>2. CASE Raise("cli") /\ UNCHANGED tables
    <2>1. JobFits([Idle EXCEPT !.at = "raised"])
      BY DEF JobFits, Jobs, Idle, None
    <2>2. job' = [job EXCEPT !["cli"] = [Idle EXCEPT !.at = "raised"]]
      BY <1>2 DEF Raise
    <2> QED BY <1>1, <1>2, <2>1, <2>2, JobMoves DEF Actor
  <1>3. ASSUME NEW faces, NEW kept, NEW later, NEW own, NEW row, NEW best,
               Committed(faces, kept, later, own, row, best)
        PROVE  IInv'
    <2>1. /\ faces \subseteq Face /\ faces \subseteq stored
          /\ kept \subseteq DOMAIN people
          /\ \A f \in later : f \in Face /\ home[f] \in kept /\ f \notin faces
          /\ \A f \in Face : home[f] \in kept => f \in later
          /\ ids' \in Nat /\ ids' >= ids
          /\ \A f \in faces : own[f] \in ids + 1..ids'
          /\ \A f \in faces : row[f] \in kept \union {own[f]}
          /\ \A f, g \in faces : own[f] = own[g] => row[f] = row[g]
          /\ people' = [i \in DOMAIN people' |-> people'[i]]
          /\ DOMAIN people' = kept \union {own[f] : f \in faces}
          /\ \A i \in kept : people'[i] = people[i]
          /\ \A f \in faces : /\ people'[own[f]].cluster \in Nat
                              /\ people'[own[f]].centroid = {g \in faces : own[g] = own[f]}
          /\ \A f \in Face : home'[f] = IF f \in faces THEN row[f]
                                        ELSE IF f \in later THEN home[f] ELSE None
          /\ best \subseteq faces \union later
          /\ \A i \in DOMAIN people' : (\E f \in Face : home'[f] = i) =>
               Cardinality({f \in best : home'[f] = i}) = 1
          /\ primary' = best \union (primary \intersect later)
          /\ crossed \subseteq crossed' /\ crossed' \subseteq 1..ids'
          /\ \A f \in best \intersect later : f \notin primary => home'[f] \in crossed'
          /\ \A f \in faces : row[f] # own[f] => row[f] \in crossed' /\ own[f] \in crossed'
          /\ job' = [job EXCEPT !["cli"] = Idle]
      <3>1. faces \subseteq Face /\ faces \subseteq stored
        BY <1>1, <1>3 DEF Committed, Jobs, JobFits
      <3>2. \A f \in later : f \in Face /\ home[f] \in kept /\ f \notin faces
        BY <1>3 DEF Committed
      <3> QED BY <1>3, <3>1, <3>2 DEF Committed
    <2>2. DOMAIN people \subseteq 1..ids /\ \A i \in DOMAIN people : i # None
      BY <1>1 DEF TablesFit, None
    <2>3. ASSUME NEW i \in DOMAIN people'
          PROVE  \/ i \in kept /\ i \in 1..ids /\ \A f \in faces : i # own[f]
                 \/ \E f \in faces : i = own[f] /\ i > ids /\ i \notin kept
      <3>1. CASE i \in kept
        BY <1>1, <2>1, <2>2, <3>1
      <3>2. ASSUME NEW f \in faces, i = own[f] PROVE i > ids /\ i \notin kept
        BY <1>1, <2>1, <2>2, <3>2
      <3> QED BY <2>1, <3>1, <3>2
    <2>4. \A f \in Face : home[f] \in kept => home'[f] = home[f] /\ f \notin faces
      BY <2>1
    <2>5. TablesFit'
      <3>1. DOMAIN people' \subseteq 1..ids'
        BY <1>1, <2>1, <2>3
      <3>2. \A i \in DOMAIN people' : people'[i].cluster \in Nat /\ people'[i].centroid \subseteq stored
        <4> SUFFICES ASSUME NEW i \in DOMAIN people'
                     PROVE  people'[i].cluster \in Nat /\ people'[i].centroid \subseteq stored
          OBVIOUS
        <4>1. CASE i \in kept
          BY <1>1, <2>1, <4>1 DEF TablesFit
        <4>2. ASSUME NEW f \in faces, i = own[f]
              PROVE  people'[i].cluster \in Nat /\ people'[i].centroid \subseteq stored
          BY <2>1, <4>2
        <4> QED BY <2>3, <4>1, <4>2
      <3>3. \A f \in faces : row[f] \in DOMAIN people'
        BY <2>1
      <3>4. \A f \in Face : home'[f] \in DOMAIN people' \union {None}
        BY <2>1, <3>3
      <3>5. \A f \in Face : home'[f] # None => f \in stored
        <4>1. \A f \in later : f \in stored
          BY <1>1, <2>1, <2>2 DEF TablesFit
        <4> QED BY <2>1, <4>1
      <3>6. \A f \in Face : f \in faces \union later => home'[f] # None
        BY <2>1, <2>2, <3>1, <3>3 DEF None
      <3>7. \A f \in primary' : f \in Face /\ home'[f] # None
        BY <2>1, <3>6
      <3> QED BY <1>1, <2>1, <3>1, <3>2, <3>4, <3>5, <3>7 DEF TablesFit
    <2>6. CentroidOfItsOwn'
      <3> SUFFICES ASSUME NEW i \in DOMAIN people', i \notin crossed', NEW f \in people'[i].centroid
                   PROVE  f \in Face /\ home'[f] = i
        BY DEF CentroidOfItsOwn, Members
      <3>1. CASE i \in kept
        <4>1. f \in Face /\ home[f] = i
          BY <1>1, <2>1, <3>1 DEF CentroidOfItsOwn, Members
        <4> QED BY <2>4, <3>1, <4>1
      <3>2. ASSUME NEW g \in faces, i = own[g] PROVE f \in Face /\ home'[f] = i
        <4>1. f \in faces /\ own[f] = i
          BY <2>1, <3>2
        <4>2. row[f] = i
          BY <2>1, <4>1
        <4> QED BY <2>1, <4>1, <4>2
      <3> QED BY <2>3, <3>1, <3>2
    <2>7. OnePrimary'
      <3> SUFFICES ASSUME NEW i \in DOMAIN people', i \notin crossed', NEW h \in Face, home'[h] = i
                   PROVE  Cardinality(primary' \intersect {f \in Face : home'[f] = i}) = 1
        BY DEF OnePrimary, Members
      <3>1. Cardinality({f \in best : home'[f] = i}) = 1
        BY <2>1
      <3>2. CASE i \in kept
        <4>1. \A f \in faces : row[f] # i
          BY <2>1, <2>3, <3>2
        <4>2. \A f \in Face : home'[f] = i => home[f] = i /\ f \in later
          BY <2>1, <2>2, <3>2, <4>1
        <4>3. Cardinality(primary \intersect {f \in Face : home[f] = i}) = 1
          BY <1>1, <2>1, <3>2, <4>2 DEF OnePrimary, Members
        <4>4. primary' \intersect {f \in Face : home'[f] = i}
                = primary \intersect {f \in Face : home[f] = i}
          <5>1. \A f \in best : f \in Face /\ (home'[f] = i => f \in primary)
            BY <2>1, <4>2
          <5>2. \A f \in Face : home[f] = i => home'[f] = i /\ f \in later
            BY <2>1, <2>4, <3>2
          <5> QED BY <2>1, <4>2, <5>1, <5>2
        <4> QED BY <4>3, <4>4
      <3>3. CASE i \notin kept
        <4>1. \A f \in later : home'[f] # i
          BY <2>1, <3>3
        <4>2. primary' \intersect {f \in Face : home'[f] = i} = {f \in best : home'[f] = i}
          BY <2>1, <4>1
        <4> QED BY <3>1, <4>2
      <3> QED BY <3>2, <3>3
    <2>8. JobsFit'
      <3>1. job' \in [Actor -> Jobs]
        BY <1>1, <2>1 DEF Idle, Jobs, None
      <3>2. ASSUME NEW b \in Actor PROVE JobFits(job[b])'
        <4>1. CASE b = "cli"
          <5>1. job'[b] = Idle
            BY <1>1, <2>1, <4>1
          <5> QED BY <5>1 DEF JobFits, Jobs, Idle, None
        <4>2. CASE b # "cli"
          <5>1. PICK j : j = job[b]
            OBVIOUS
          <5>2. job'[b] = j /\ JobFits(j)
            BY <1>1, <2>1, <4>2, <5>1 DEF JobsFit
          <5>3. \A i \in DOMAIN people' : i \in DOMAIN people \/ i > ids
            BY <2>1, <2>3
          <5>4. \A i \in DOMAIN people' : i \in DOMAIN people /\ i \notin crossed' =>
                  ((\E f \in Face : home[f] = i) => \E f \in Face : home'[f] = i)
            <6>1. \A i \in DOMAIN people' : i \in DOMAIN people => i \in kept
              BY <1>1, <2>2, <2>3
            <6> QED BY <2>4, <6>1
          <5>5. crossed \subseteq crossed' /\ stored \subseteq stored' /\ ids <= ids'
            BY <1>1, <2>1
          <5>6. JobFits(j)'
            BY <1>1, <2>1, <5>2, <5>3, <5>4, <5>5, JobStays
          <5> QED BY <5>2, <5>6 DEF JobFits
        <4> QED BY <4>1, <4>2
      <3> QED BY <3>1, <3>2 DEF JobsFit
    <2>9. CallFits(call)'
      <3>1. call.from \in 0..ids /\ call.to \in 0..ids
        BY <1>1 DEF CallFits
      <3>2. call.from \in 0..ids' /\ call.to \in 0..ids'
        BY <1>1, <2>1, <3>1
      <3>3. call.at \in {"moved", "marked"} => call.faces = {}
        BY <1>1 DEF CallFits
      <3>4. call.at = "split" /\ call.from \in DOMAIN people' =>
              \E f \in Face \ call.faces : home'[f] = call.from
        <4>1. call.from \in DOMAIN people' => call.from \in kept
          BY <1>1, <2>3, <3>1
        <4> QED BY <1>1, <2>1, <2>4, <4>1 DEF CallFits
      <3> QED BY <1>1, <3>2, <3>3, <3>4 DEF CallFits
    <2> QED BY <1>1, <2>5, <2>6, <2>7, <2>8, <2>9 DEF IInv
  <1> QED BY <1>2, <1>3, FullEffect

(* What a merge that commits does: the faces it moved are the target's, the *)
(* ones it found added meanwhile are unmapped, and the source is gone.     *)
LEMMA MergeEffect ==
  ASSUME IInv, MergeCommit, Members(call.from) \ (call.faces \union call.also) = {}
  PROVE  \E best \in SUBSET Face :
           /\ people' = [i \in DOMAIN people' |-> people'[i]]
           /\ DOMAIN people' = DOMAIN people \ {call.from}
           /\ \A i \in DOMAIN people' : /\ people'[i].cluster = people[i].cluster
                /\ IF i # call.to \/ \A f \in Face : home'[f] # i
                   THEN people'[i].centroid = people[i].centroid
                   ELSE people'[i].centroid = {f \in Face : home'[f] = i}
           /\ \A f \in Face : \/ home[f] = call.from /\ home'[f] \in {call.to, None}
                              \/ home[f] # call.from /\ home'[f] = home[f]
           /\ \A f \in Face : home[f] = call.from /\ home'[f] = call.to =>
                call.to \in DOMAIN people
           /\ \A f \in best : home'[f] = call.to
           /\ (\E f \in Face : home'[f] = call.to) =>
                Cardinality({f \in best : home'[f] = call.to}) = 1
           /\ primary' = {f \in primary : home'[f] \notin {call.to, None}} \union best
           /\ UNCHANGED <<ids, crossed>>
  <1> DEFINE gone == call.also \intersect Members(call.from)
             h == [f \in Face |-> IF f \in call.faces THEN call.to
                                  ELSE IF f \in gone THEN None ELSE home[f]]
  <1>1. /\ TablesFit /\ CallFits(call) /\ call.at = "marked"
        /\ \A f \in call.faces : home[f] = call.from
        /\ call.faces # {} => call.to \in DOMAIN people
    BY DEF IInv, MergeCommit, CallFits
  <1>2. /\ home' = h
        /\ people' = [i \in DOMAIN people \ {call.from} |->
             IF i # call.to \/ \A f \in Face : h[f] # i THEN people[i]
             ELSE [people[i] EXCEPT !.centroid = {f \in Face : h[f] = i}]]
        /\ Remarked(h, {call.to}, primary')
        /\ UNCHANGED <<ids, crossed>>
    BY DEF MergeCommit
  <1>3. \A f \in Face : home'[f] = IF f \in call.faces THEN call.to
                                   ELSE IF f \in gone THEN None ELSE home[f]
    BY <1>2
  <1>4. PICK best \in SUBSET Face :
          /\ \A f \in best : home'[f] \in {call.to}
          /\ best \in Leaders(home', {call.to})
          /\ primary' = {f \in primary : home'[f] \notin {call.to} \union {None}} \union best
    <2> HIDE DEF h
    <2>1. Remarked(home', {call.to}, primary')
      BY <1>2
    <2> QED BY <2>1 DEF Remarked, Leaders
  <1>5. (\E f \in Face : home'[f] = call.to) => Cardinality({f \in best : home'[f] = call.to}) = 1
    BY <1>4 DEF Leaders
  <1>6. ASSUME NEW f \in Face
        PROVE  \/ home[f] = call.from /\ home'[f] \in {call.to, None}
               \/ home[f] # call.from /\ home'[f] = home[f]
    <2>1. CASE f \in call.faces
      BY <1>1, <1>3, <2>1
    <2>2. CASE f \notin call.faces /\ f \in gone
      BY <1>3, <2>2 DEF Members
    <2>3. CASE f \notin call.faces /\ f \notin gone
      <3>1. home[f] # call.from
        BY <2>3 DEF Members
      <3> QED BY <1>3, <2>3, <3>1
    <2> QED BY <2>1, <2>2, <2>3
  <1>7. ASSUME NEW f \in Face, home[f] = call.from, home'[f] = call.to
        PROVE  call.to \in DOMAIN people
    <2>1. call.to # None /\ call.to # call.from
      BY <1>1 DEF CallFits
    <2>2. f \in call.faces
      BY <1>3, <1>7, <2>1
    <2> QED BY <1>1, <2>2
  <1>8. people' = [i \in DOMAIN people \ {call.from} |->
             IF i # call.to \/ \A f \in Face : home'[f] # i THEN people[i]
             ELSE [people[i] EXCEPT !.centroid = {f \in Face : home'[f] = i}]]
    BY <1>2
  <1> HIDE DEF h, gone
  <1>9. /\ people' = [i \in DOMAIN people' |-> people'[i]]
        /\ DOMAIN people' = DOMAIN people \ {call.from}
    BY <1>8
  <1>10. ASSUME NEW i \in DOMAIN people'
         PROVE  /\ people'[i].cluster = people[i].cluster
                /\ IF i # call.to \/ \A f \in Face : home'[f] # i
                   THEN people'[i].centroid = people[i].centroid
                   ELSE people'[i].centroid = {f \in Face : home'[f] = i}
    <2>1. people'[i] = IF i # call.to \/ \A f \in Face : home'[f] # i THEN people[i]
                       ELSE [people[i] EXCEPT !.centroid = {f \in Face : home'[f] = i}]
      BY <1>8
    <2> QED BY <2>1, <1>1 DEF TablesFit
  <1> QED BY <1>2, <1>4, <1>5, <1>6, <1>7, <1>9, <1>10

(* The source has no faces left and the target has its faces' centroid and  *)
(* one primary face; a request that fails keeps nothing.                   *)
LEMMA MergeCommitStep ==
  ASSUME IInv, MergeCommit
  PROVE  IInv'
  <1>1. /\ TablesFit /\ JobsFit /\ CentroidOfItsOwn /\ OnePrimary /\ ids \in Nat
        /\ call.to # None /\ call.from # None /\ call.from # call.to
        /\ call' = Quiet /\ UNCHANGED <<stored, job, ops>> /\ ops \in 0..MaxOps
    BY DEF IInv, MergeCommit, CallFits, TablesFit
  <1>2. CASE UNCHANGED tables
    <2>1. CallFits(Quiet)
      BY <1>1 DEF CallFits, Quiet, Calls, None
    <2> QED BY <1>1, <1>2, <2>1, CallMoves
  <1>3. CASE Members(call.from) \ (call.faces \union call.also) = {}
    <2>1. PICK best \in SUBSET Face :
           /\ people' = [i \in DOMAIN people' |-> people'[i]]
           /\ DOMAIN people' = DOMAIN people \ {call.from}
           /\ \A i \in DOMAIN people' : /\ people'[i].cluster = people[i].cluster
                /\ IF i # call.to \/ \A f \in Face : home'[f] # i
                   THEN people'[i].centroid = people[i].centroid
                   ELSE people'[i].centroid = {f \in Face : home'[f] = i}
           /\ \A f \in Face : \/ home[f] = call.from /\ home'[f] \in {call.to, None}
                              \/ home[f] # call.from /\ home'[f] = home[f]
           /\ \A f \in Face : home[f] = call.from /\ home'[f] = call.to =>
                call.to \in DOMAIN people
           /\ \A f \in best : home'[f] = call.to
           /\ (\E f \in Face : home'[f] = call.to) =>
                Cardinality({f \in best : home'[f] = call.to}) = 1
           /\ primary' = {f \in primary : home'[f] \notin {call.to, None}} \union best
           /\ UNCHANGED <<ids, crossed>>
      BY <1>3, MergeEffect
    <2>2. \A f \in Face : home'[f] \in DOMAIN people' \union {None}
      BY <1>1, <2>1 DEF TablesFit
    <2>3. \A f \in Face : home'[f] # None => f \in stored
      BY <1>1, <2>1 DEF TablesFit
    <2>4. TablesFit'
      <3>1. ASSUME NEW i \in DOMAIN people'
            PROVE  people'[i].cluster \in Nat /\ people'[i].centroid \subseteq stored
        <4>1. people[i].cluster \in Nat /\ people[i].centroid \subseteq stored
          BY <1>1, <2>1 DEF TablesFit
        <4>2. {f \in Face : home'[f] = i} \subseteq stored
          BY <1>1, <2>1, <2>3, <4>1 DEF TablesFit, None
        <4> QED BY <2>1, <4>1, <4>2
      <3>2. \A f \in primary' : f \in Face /\ home'[f] # None
        BY <1>1, <2>1 DEF TablesFit
      <3> QED BY <1>1, <2>1, <2>2, <2>3, <3>1, <3>2 DEF TablesFit
    <2>5. CentroidOfItsOwn'
      <3> SUFFICES ASSUME NEW i \in DOMAIN people', i \notin crossed, NEW f \in people'[i].centroid
                   PROVE  f \in Face /\ home'[f] = i
        BY <2>1 DEF CentroidOfItsOwn, Members
      <3>1. CASE people'[i].centroid = people[i].centroid
        <4>1. f \in Face /\ home[f] = i
          BY <1>1, <2>1, <3>1 DEF CentroidOfItsOwn, Members
        <4> QED BY <2>1, <4>1
      <3>2. CASE people'[i].centroid = {g \in Face : home'[g] = i}
        BY <3>2
      <3> QED BY <2>1, <3>1, <3>2
    <2>6. OnePrimary'
      <3> SUFFICES ASSUME NEW i \in DOMAIN people', i \notin crossed, NEW g \in Face, home'[g] = i
                   PROVE  Cardinality(primary' \intersect {f \in Face : home'[f] = i}) = 1
        BY <2>1 DEF OnePrimary, Members
      <3>1. CASE i = call.to
        <4>1. primary' \intersect {f \in Face : home'[f] = i} = {f \in best : home'[f] = call.to}
          BY <2>1, <3>1
        <4> QED BY <2>1, <3>1, <4>1
      <3>2. CASE i # call.to
        <4>1. i \in DOMAIN people /\ i # None /\ i # call.from
          BY <1>1, <2>1 DEF TablesFit, None
        <4>2. \A f \in Face : home'[f] = i <=> home[f] = i
          BY <2>1, <3>2, <4>1
        <4>3. Cardinality(primary \intersect {f \in Face : home[f] = i}) = 1
          BY <1>1, <4>1, <4>2 DEF OnePrimary, Members
        <4>4. primary' \intersect {f \in Face : home'[f] = i}
                = primary \intersect {f \in Face : home[f] = i}
          BY <2>1, <3>2, <4>1, <4>2
        <4> QED BY <4>3, <4>4
      <3> QED BY <3>1, <3>2
    <2>7. JobsFit'
      <3>1. job' \in [Actor -> Jobs]
        BY <1>1 DEF JobsFit
      <3>2. ASSUME NEW b \in Actor PROVE JobFits(job[b])'
        <4>1. PICK j : j = job[b]
          OBVIOUS
        <4>2. job'[b] = j /\ JobFits(j)
          BY <1>1, <4>1 DEF JobsFit
        <4>3. \A i \in DOMAIN people' : i \in DOMAIN people \/ i > ids
          BY <2>1
        <4>4. \A i \in DOMAIN people' : i \in DOMAIN people /\ i \notin crossed' =>
                ((\E f \in Face : home[f] = i) => \E f \in Face : home'[f] = i)
          BY <2>1
        <4>5. crossed \subseteq crossed' /\ stored \subseteq stored' /\ ids' \in Nat /\ ids <= ids'
          BY <1>1, <2>1
        <4>6. JobFits(j)'
          BY <1>1, <4>2, <4>3, <4>4, <4>5, JobStays
        <4> QED BY <4>2, <4>6 DEF JobFits
      <3> QED BY <3>1, <3>2 DEF JobsFit
    <2>8. CallFits(call)'
      BY <1>1, <2>1 DEF CallFits, Quiet, Calls, None
    <2> QED BY <1>1, <2>4, <2>5, <2>6, <2>7, <2>8 DEF IInv
  <1> QED BY <1>2, <1>3 DEF MergeCommit

(* What a split does: the faces still there are the new identity's, and    *)
(* each of the two that has faces has their centroid.                      *)
Halved(new, best) ==
  /\ new \in Nat /\ ids' = new
  /\ people' = [i \in DOMAIN people' |-> people'[i]]
  /\ DOMAIN people' = DOMAIN people \union {new}
  /\ \A i \in DOMAIN people' :
       /\ people'[i].cluster \in Nat
       /\ people'[i].centroid =
            IF i \in {call.from, new} /\ \E f \in Face : home'[f] = i
            THEN {f \in Face : home'[f] = i}
            ELSE IF i = new THEN {} ELSE people[i].centroid
  /\ \A f \in Face : home'[f] = IF f \in call.faces /\ home[f] = call.from
                                THEN new ELSE home[f]
  /\ \A f \in best : home'[f] \in {call.from, new}
  /\ \A i \in {call.from, new} : (\E f \in Face : home'[f] = i) =>
       Cardinality({f \in best : home'[f] = i}) = 1
  /\ primary' = {f \in primary : home'[f] \notin {call.from, new} \union {None}} \union best
  /\ UNCHANGED crossed

(* What a split leaves of the old cluster and gives to the new one.        *)
LEMMA SplitEffect ==
  ASSUME IInv, SplitCommit, NEW new, new = ids + 1
  PROVE  \E best \in SUBSET Face : Halved(new, best)
  <1> DEFINE moved == call.faces \intersect Members(call.from)
             h == [f \in Face |-> IF f \in moved THEN new ELSE home[f]]
  <1>1. /\ TablesFit /\ ids \in Nat /\ new \in Nat /\ TopCluster \in Nat \union {-1}
        /\ \A i \in DOMAIN people : i \in 1..ids
    BY TopFits DEF IInv, TablesFit
  <1>2. /\ ids' = new /\ home' = h
        /\ people' = [i \in DOMAIN people \union {new} |->
             [cluster  |-> IF i = new THEN ClusterAfter(TopCluster, 1) ELSE people[i].cluster,
              centroid |-> IF Recomputed(i, new, h) THEN {f \in Face : h[f] = i}
                           ELSE IF i = new THEN {} ELSE people[i].centroid]]
        /\ Remarked(h, {call.from, new}, primary')
        /\ UNCHANGED crossed
    BY DEF SplitCommit
  <1>3. \A f \in Face : home'[f] = IF f \in call.faces /\ home[f] = call.from
                                   THEN new ELSE home[f]
    BY <1>2 DEF Members
  <1>4. PICK best \in SUBSET Face :
          /\ \A f \in best : home'[f] \in {call.from, new}
          /\ best \in Leaders(home', {call.from, new})
          /\ primary' = {f \in primary : home'[f] \notin {call.from, new} \union {None}} \union best
    <2> HIDE DEF h
    <2>1. Remarked(home', {call.from, new}, primary')
      BY <1>2
    <2> QED BY <2>1 DEF Remarked, Leaders
  <1>5. \A i \in {call.from, new} : (\E f \in Face : home'[f] = i) =>
          Cardinality({f \in best : home'[f] = i}) = 1
    BY <1>4 DEF Leaders
  <1>6. people' = [i \in DOMAIN people \union {new} |->
          [cluster  |-> IF i = new THEN ClusterAfter(TopCluster, 1) ELSE people[i].cluster,
           centroid |-> IF i \in {call.from, new} /\ \E f \in Face : home'[f] = i
                        THEN {f \in Face : home'[f] = i}
                        ELSE IF i = new THEN {} ELSE people[i].centroid]]
    BY <1>2 DEF Recomputed
  <1>7. ClusterAfter(TopCluster, 1) \in Nat
    BY <1>1 DEF ClusterAfter
  <1>8. \A i \in DOMAIN people : people[i].cluster \in Nat
    BY <1>1 DEF TablesFit
  <1> HIDE DEF moved, h
  <1>9. /\ people' = [i \in DOMAIN people' |-> people'[i]]
        /\ DOMAIN people' = DOMAIN people \union {new}
    BY <1>6
  <1>10. ASSUME NEW i \in DOMAIN people'
         PROVE  /\ people'[i].cluster \in Nat
                /\ people'[i].centroid =
                     IF i \in {call.from, new} /\ \E f \in Face : home'[f] = i
                     THEN {f \in Face : home'[f] = i}
                     ELSE IF i = new THEN {} ELSE people[i].centroid
    <2>1. people'[i] =
            [cluster  |-> IF i = new THEN ClusterAfter(TopCluster, 1) ELSE people[i].cluster,
             centroid |-> IF i \in {call.from, new} /\ \E f \in Face : home'[f] = i
                          THEN {f \in Face : home'[f] = i}
                          ELSE IF i = new THEN {} ELSE people[i].centroid]
      BY <1>6
    <2> QED BY <1>7, <1>8, <1>9, <2>1
  <1>11. ids' = new /\ UNCHANGED crossed
    BY <1>2
  <1>12. Halved(new, best)
    BY <1>1, <1>3, <1>4, <1>5, <1>9, <1>10, <1>11 DEF Halved
  <1> QED BY <1>12

(* Both identities have one primary face, and the split one keeps a face.  *)
LEMMA SplitCommitStep ==
  ASSUME IInv, SplitCommit
  PROVE  IInv'
  <1>1. /\ TablesFit /\ JobsFit /\ CentroidOfItsOwn /\ OnePrimary /\ ids \in Nat
        /\ CallFits(call) /\ call.at = "split" /\ call.from # None
        /\ call' = Quiet /\ UNCHANGED <<stored, job, ops>> /\ ops \in 0..MaxOps
    BY DEF IInv, SplitCommit, CallFits, TablesFit
  <1>0. PICK new : new = ids + 1
    OBVIOUS
  <1>2. PICK best \in SUBSET Face : Halved(new, best)
    BY <1>0, SplitEffect
  <1>3. \A i \in DOMAIN people : i \in 1..ids /\ i # None /\ i # new
    BY <1>0, <1>1, <1>2 DEF TablesFit, None, Halved
  <1>4. /\ new # None /\ new # call.from /\ \A f \in Face : home[f] # new
        /\ new \notin crossed /\ call.from \in 0..ids
    <2>1. call.from \in 0..ids /\ new \notin crossed /\ new # None
      BY <1>0, <1>1, <1>2 DEF CallFits, TablesFit, None, Halved
    <2>2. \A f \in Face : home[f] # new
      BY <1>1, <1>3, <2>1 DEF TablesFit
    <2> QED BY <1>0, <1>1, <1>2, <2>1, <2>2 DEF Halved
  <1>5. TablesFit'
    <2>1. DOMAIN people' \subseteq 1..ids' /\ crossed' \subseteq 1..ids' /\ ids' \in Nat
      BY <1>0, <1>1, <1>2, <1>3 DEF TablesFit, Halved
    <2>2. \A f \in Face : home'[f] \in DOMAIN people' \union {None}
      BY <1>0, <1>1, <1>2 DEF TablesFit, Halved
    <2>3. \A f \in Face : home'[f] # None => f \in stored
      BY <1>0, <1>1, <1>2 DEF TablesFit, Halved
    <2>4. ASSUME NEW i \in DOMAIN people' PROVE people'[i].centroid \subseteq stored
      <3>1. i # None
        BY <1>2, <1>3, <1>4 DEF Halved
      <3>2. {f \in Face : home'[f] = i} \subseteq stored
        BY <2>3, <3>1
      <3>3. i \in DOMAIN people => people[i].centroid \subseteq stored
        BY <1>1 DEF TablesFit
      <3>4. \/ people'[i].centroid = {f \in Face : home'[f] = i}
            \/ people'[i].centroid = {}
            \/ i \in DOMAIN people /\ people'[i].centroid = people[i].centroid
        BY <1>2 DEF Halved
      <3> QED BY <3>2, <3>3, <3>4
    <2>5. \A f \in primary' : f \in Face /\ home'[f] # None
      BY <1>0, <1>1, <1>2, <1>4 DEF TablesFit, Halved
    <2> QED BY <1>0, <1>1, <1>2, <2>1, <2>2, <2>3, <2>4, <2>5 DEF TablesFit, Halved
  <1>6. CentroidOfItsOwn'
    <2> SUFFICES ASSUME NEW i \in DOMAIN people', i \notin crossed, NEW f \in people'[i].centroid
                 PROVE  f \in Face /\ home'[f] = i
      BY <1>2 DEF CentroidOfItsOwn, Members, Halved
    <2>1. CASE people'[i].centroid = {g \in Face : home'[g] = i}
      BY <2>1
    <2>2. CASE people'[i].centroid # {g \in Face : home'[g] = i}
      <3>1. i # new /\ i \in DOMAIN people /\ people'[i].centroid = people[i].centroid
        BY <1>2, <2>2 DEF Halved
      <3>2. f \in Face /\ home[f] = i
        BY <1>1, <3>1 DEF CentroidOfItsOwn, Members
      <3>3. CASE i = call.from
        <4>1. \A g \in Face : home'[g] # i
          BY <1>2, <2>2, <3>3 DEF Halved
        <4>2. \E g \in Face \ call.faces : home[g] = call.from
          BY <1>1, <3>1, <3>3 DEF CallFits
        <4> QED BY <1>2, <3>3, <4>1, <4>2 DEF Halved
      <3>4. CASE i # call.from
        BY <1>2, <3>2, <3>4 DEF Halved
      <3> QED BY <3>3, <3>4
    <2> QED BY <2>1, <2>2
  <1>7. OnePrimary'
    <2> SUFFICES ASSUME NEW i \in DOMAIN people', i \notin crossed, NEW g \in Face, home'[g] = i
                 PROVE  Cardinality(primary' \intersect {f \in Face : home'[f] = i}) = 1
      BY <1>2 DEF OnePrimary, Members, Halved
    <2>1. CASE i \in {call.from, new}
      <3>1. \A f \in Face : home'[f] = i => (f \in primary' <=> f \in best)
        BY <1>2, <2>1 DEF Halved
      <3>2. \A f \in best : f \in Face
        OBVIOUS
      <3>3. primary' \intersect {f \in Face : home'[f] = i} = {f \in best : home'[f] = i}
        BY <3>1, <3>2
      <3>4. Cardinality({f \in best : home'[f] = i}) = 1
        BY <1>2, <2>1 DEF Halved
      <3> QED BY <3>3, <3>4
    <2>2. CASE i \notin {call.from, new}
      <3>1. i \in DOMAIN people /\ i # None
        BY <1>2, <1>3, <2>2 DEF Halved
      <3>2. \A f \in Face : home'[f] = i <=> home[f] = i
        BY <1>2, <2>2 DEF Halved
      <3>3. Cardinality(primary \intersect {f \in Face : home[f] = i}) = 1
        BY <1>1, <3>1, <3>2 DEF OnePrimary, Members
      <3>4. primary' \intersect {f \in Face : home'[f] = i}
              = primary \intersect {f \in Face : home[f] = i}
        BY <1>2, <2>2, <3>1, <3>2 DEF Halved
      <3> QED BY <3>3, <3>4
    <2> QED BY <2>1, <2>2
  <1>8. JobsFit'
    <2>1. job' \in [Actor -> Jobs]
      BY <1>1 DEF JobsFit
    <2>2. ASSUME NEW b \in Actor PROVE JobFits(job[b])'
      <3>1. PICK j : j = job[b]
        OBVIOUS
      <3>2. job'[b] = j /\ JobFits(j)
        BY <1>1, <3>1 DEF JobsFit
      <3>3. \A i \in DOMAIN people' : i \in DOMAIN people \/ i > ids
        BY <1>0, <1>1, <1>2 DEF Halved
      <3>4. \A i \in DOMAIN people' : i \in DOMAIN people /\ i \notin crossed' =>
              ((\E f \in Face : home[f] = i) => \E f \in Face : home'[f] = i)
        <4> SUFFICES ASSUME NEW i \in DOMAIN people, NEW f \in Face, home[f] = i
                     PROVE  \E g \in Face : home'[g] = i
          OBVIOUS
        <4>1. CASE i = call.from
          <5>1. \E g \in Face \ call.faces : home[g] = call.from
            BY <1>1, <4>1 DEF CallFits
          <5> QED BY <1>2, <4>1, <5>1 DEF Halved
        <4>2. CASE i # call.from
          BY <1>2, <4>2 DEF Halved
        <4> QED BY <4>1, <4>2
      <3>5. crossed \subseteq crossed' /\ stored \subseteq stored' /\ ids' \in Nat /\ ids <= ids'
        BY <1>0, <1>1, <1>2 DEF Halved
      <3>6. JobFits(j)'
        BY <1>1, <3>2, <3>3, <3>4, <3>5, JobStays
      <3> QED BY <3>2, <3>6 DEF JobFits
    <2> QED BY <2>1, <2>2 DEF JobsFit
  <1>9. CallFits(call)'
    BY <1>0, <1>1, <1>2 DEF CallFits, Quiet, Calls, None, Halved
  <1> QED BY <1>1, <1>5, <1>6, <1>7, <1>8, <1>9 DEF IInv

-----------------------------------------------------------------------------
(* Every call and every transaction keeps the invariant.                   *)
LEMMA IInvStep == IInv /\ [Next]_vars => IInv'
  <1> SUFFICES ASSUME IInv, [Next]_vars PROVE IInv'
    OBVIOUS
  <1>1. CASE UNCHANGED vars
    <2>1. UNCHANGED <<stored, tables, job, call, ops>>
      BY <1>1 DEF vars
    <2>2. CallFits(call') /\ ops' \in 0..MaxOps
      BY <2>1 DEF IInv
    <2> QED BY <2>1, <2>2, CallMoves
  <1>2. ASSUME NEW f \in Face, AddFace(f) PROVE IInv'
    BY <1>2, AddFaceStep
  <1>3. ASSUME NEW a \in Actor, Incremental(a) PROVE IInv'
    BY <1>3, ReadingStep, InsertStep DEF Incremental
  <1>4. CASE Full
    BY <1>4, ReadingStep, FullCommitStep DEF Full, Actor
  <1>5. CASE \/ \E i, j \in DOMAIN people : MergeAsk(i, j)
             \/ \E i \in DOMAIN people : \E faces \in SUBSET Members(i) : SplitAsk(i, faces)
    BY <1>5, AskingStep
  <1>6. CASE Request
    BY <1>6, AskingStep, MergeCommitStep, SplitCommitStep DEF Request
  <1> QED BY <1>1, <1>2, <1>3, <1>4, <1>5, <1>6 DEF Next

(* So it always holds.                                                     *)
LEMMA Invariance == Spec => []IInv
  BY IInvInit, IInvStep, PTL DEF Spec

-----------------------------------------------------------------------------
(* Faces, identities, marks and requests keep their types and refer to what *)
(* there is: TLC's Identities run checks three faces, this theorem covers  *)
(* any finite number.                                                      *)
THEOREM IdentitiesTypeCorrect == Spec => []IdentitiesTypeOK
  BY Invariance, IInvTypes, PTL

(* A centroid is of faces the identity has, through merges, splits, failed *)
(* requests and clusterings in any order (cluster_faces.py and the routes  *)
(* of identity.py recompute it whenever they move a face).                 *)
THEOREM CentroidsAreOwn == Spec => []CentroidOfItsOwn
  <1>1. IInv => CentroidOfItsOwn
    BY DEF IInv
  <1> QED BY <1>1, Invariance, PTL

(* An identity that has faces has one primary face for the dashboard to    *)
(* show, which _recompute_primary() and the clusterings see to.            *)
THEOREM PrimaryIsOne == Spec => []OnePrimary
  <1>1. IInv => OnePrimary
    BY DEF IInv
  <1> QED BY <1>1, Invariance, PTL

(* An incremental clustering changes no assignment: ON CONFLICT DO NOTHING *)
(* keeps what a request or another clustering committed since it read.     *)
THEOREM AssignmentsStay == Spec => NeverReassigned
  <1> DEFINE Kept == \A f \in Mapped : home'[f] # home[f] =>
                       call' # call \/ (Clearing /\ job'["cli"] = Idle)
  <1>1. ASSUME IInv, [Next]_vars PROVE [Kept]_vars
    <2>1. CASE UNCHANGED home
      BY <2>1
    <2>2. ASSUME NEW a \in Actor, Insert(a) PROVE Kept
      <3>1. CASE UNCHANGED tables
        BY <3>1 DEF tables
      <3>2. ASSUME NEW seeds, NEW fresh, NEW to, Inserted(a, seeds, fresh, to) PROVE Kept
        BY <3>2 DEF Inserted, Mapped
      <3> QED BY <1>1, <2>2, <3>1, <3>2, InsertEffect
    <2>3. CASE FullCommit
      <3>1. CASE UNCHANGED tables
        BY <3>1 DEF tables
      <3>2. CASE job' = [job EXCEPT !["cli"] = Idle]
        <4>1. job'["cli"] = Idle
          BY <1>1, <3>2 DEF IInv, JobsFit, Actor
        <4> QED BY <2>3, <4>1 DEF FullCommit, Clearing
      <3> QED BY <2>3, <3>1, <3>2 DEF FullCommit
    <2>4. CASE MergeCommit \/ SplitCommit
      BY <2>4 DEF MergeCommit, SplitCommit, Quiet
    <2>5. CASE \/ \E f \in Face : AddFace(f)
               \/ \E a \in Actor : FindUnmapped(a) \/ LoadCentroids(a) \/ ReadTop(a) \/ NextScan(a)
               \/ FullLoad \/ FullStops \/ FullWipe \/ FullClear
               \/ \E i, j \in DOMAIN people : MergeAsk(i, j)
               \/ \E i \in DOMAIN people : \E faces \in SUBSET Members(i) : SplitAsk(i, faces)
               \/ MergeMove \/ MergeMark \/ UNCHANGED vars
      BY <2>1, <2>5 DEF AddFace, FindUnmapped, LoadCentroids, ReadTop, NextScan, FullLoad,
         FullStops, FullWipe, FullClear, MergeAsk, SplitAsk, MergeMove, MergeMark, tables, vars
    <2> QED BY <1>1, <2>2, <2>3, <2>4, <2>5 DEF Next, Incremental, Full, Request
  <1> QED BY <1>1, Invariance, PTL DEF Spec, NeverReassigned

=============================================================================
