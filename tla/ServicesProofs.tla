--------------------------- MODULE ServicesProofs ---------------------------
(***************************************************************************)
(* Proofs about the parts that MCServices puts side by side, for any       *)
(* number of files, drives, tasks, clients, rows, records and faces: what  *)
(* each promises holds in every state.  The parts share no state, so each  *)
(* has an inductive invariant of its own.                                  *)
(***************************************************************************)
EXTENDS MCServices, FiniteSetTheorems, SequenceTheorems, TLAPS

(* In a step one part moves and the others stand still.                    *)
LEMMA OnePartMoves ==
  ASSUME [Next]_vars
  PROVE  /\ ScannerStep \/ UNCHANGED scanner
         /\ WatchStep \/ UNCHANGED watching
         /\ VerificationStep \/ UNCHANGED verification
         /\ DashboardStep \/ UNCHANGED dashboard
         /\ EvictionStep \/ UNCHANGED onedrive
         /\ ProgressStep \/ UNCHANGED progress
         /\ WhispersStep \/ UNCHANGED whispers
         /\ RebuildStep \/ UNCHANGED rebuildVars
         /\ UNCHANGED part
  BY DEF Next, vars, OnlyScans, OnlyWatches, OnlyVerifies, OnlyBroadcasts, OnlyEvicts,
     OnlyCounts, OnlyClusters, OnlyRebuilds

-----------------------------------------------------------------------------
(* The progress counters.                                                  *)

(* Inductive: a record counts as discovered before it counts as queued, so *)
(* files_discovered is ahead by what is between its two counts.            *)
Ahead ==
  (IF eventAt = "counted" THEN 1 ELSE 0)
    + (IF scanAt \in {"offer", "count"} THEN 1 ELSE 0)

CountersFit ==
  ~torn => IF scanAt = "reset" THEN discovered >= Ahead ELSE discovered - queued >= Ahead

CountersInv == ProgressTypeOK /\ CountersFit /\ CountersHonest

(* All counters start at zero.                                             *)
LEMMA CountersInit == ProgressInit => CountersInv
  <1> SUFFICES ASSUME ProgressInit PROVE CountersInv
    OBVIOUS
  <1>1. ProgressTypeOK
    <2>1. torn \in BOOLEAN
      BY DEF ProgressInit
    <2> QED BY <2>1, ProgressAssumption DEF ProgressInit, ProgressTypeOK
  <1>2. CountersFit /\ CountersHonest
    BY DEF ProgressInit, CountersFit, CountersHonest, Ahead, FilesSkipped
  <1> QED BY <1>1, <1>2 DEF CountersInv

(* The types, one thread after the other.                                  *)
LEMMA ProgressTypes ==
  ASSUME ProgressTypeOK, ProgressStep \/ UNCHANGED progress
  PROVE  ProgressTypeOK'
  <1> USE ProgressAssumption DEF ProgressTypeOK, counts, seen, history
  <1>0. CASE ResetDiscovered
    <2>1. torn' \in BOOLEAN
      BY <1>0 DEF ResetDiscovered
    <2> QED BY <1>0, <2>1 DEF ResetDiscovered
  <1>1. CASE ResetQueued \/ ResetDrive \/ Discover
    BY <1>1 DEF ResetQueued, ResetDrive, Discover
  <1>2. CASE Offer \/ CountQueued \/ ScanDone \/ EventPuts \/ EventCounts
    BY <1>2 DEF Offer, CountQueued, ScanDone, EventPuts, EventCounts
  <1>3. CASE Get \/ WorkerCounts \/ WorkerRaises \/ WorkerBumps \/ GetProgress
    BY <1>3 DEF Get, WorkerCounts, WorkerRaises, WorkerBumps, GetProgress
  <1>4. CASE UNCHANGED progress
    BY <1>4 DEF progress
  <1> QED BY <1>0, <1>1, <1>2, <1>3, <1>4 DEF ProgressStep

(* Every step of scan, events and workers keeps the counts in order.       *)
LEMMA CountersStep ==
  ASSUME CountersInv, ProgressStep \/ UNCHANGED progress
  PROVE  CountersInv'
  <1>1. ProgressTypeOK /\ CountersFit /\ ProgressTypeOK'
    BY ProgressTypes DEF CountersInv
  <1>2. CountersFit'
    <2> USE <1>1 DEF ProgressTypeOK, CountersFit, Ahead, counts, seen, history
    <2>1. CASE ResetDiscovered \/ ResetQueued \/ ResetDrive \/ Discover
      BY <2>1 DEF ResetDiscovered, ResetQueued, ResetDrive, Discover
    <2>2. CASE Offer \/ CountQueued \/ ScanDone
      BY <2>2 DEF Offer, CountQueued, ScanDone
    <2>3. CASE EventPuts \/ EventCounts
      BY <2>3 DEF EventPuts, EventCounts
    <2>4. CASE Get \/ WorkerCounts \/ WorkerRaises \/ WorkerBumps \/ GetProgress
      BY <2>4 DEF Get, WorkerCounts, WorkerRaises, WorkerBumps, GetProgress
    <2>5. CASE UNCHANGED progress
      BY <2>5 DEF progress
    <2> QED BY <2>1, <2>2, <2>3, <2>4, <2>5 DEF ProgressStep
  <1>3. (put = depth + (IF workAt = "work" THEN 1 ELSE 0) + processed + errors + dropped)'
    <2> USE <1>1 DEF ProgressTypeOK, CountersHonest, CountersInv, counts, seen, history
    <2>1. CASE ResetDiscovered \/ ResetQueued \/ ResetDrive \/ Discover
      BY <2>1 DEF ResetDiscovered, ResetQueued, ResetDrive, Discover
    <2>2. CASE Offer \/ CountQueued \/ ScanDone \/ EventPuts \/ EventCounts
      BY <2>2 DEF Offer, CountQueued, ScanDone, EventPuts, EventCounts
    <2>3. CASE Get \/ WorkerCounts \/ WorkerRaises \/ WorkerBumps \/ GetProgress
      BY <2>3 DEF Get, WorkerCounts, WorkerRaises, WorkerBumps, GetProgress
    <2>4. CASE UNCHANGED progress
      BY <2>4 DEF progress
    <2> QED BY <2>1, <2>2, <2>3, <2>4 DEF ProgressStep
  <1>4. CountersHonest'
    BY <1>1, <1>2, <1>3 DEF ProgressTypeOK, CountersFit, Ahead, CountersHonest, FilesSkipped
  <1> QED BY <1>1, <1>2, <1>4 DEF CountersInv

(* files_skipped is what was discovered and not queued, and every record   *)
(* is accounted for, whichever of the three threads of manager.py counts   *)
(* when.                                                                   *)
THEOREM CountersAreHonest == Spec => []CountersHonest
  <1>1. Init => CountersInv
    BY CountersInit DEF Init
  <1>2. CountersInv /\ [Next]_vars => CountersInv'
    BY OnePartMoves, CountersStep
  <1>3. CountersInv => CountersHonest
    BY DEF CountersInv
  <1> QED BY <1>1, <1>2, <1>3, PTL DEF Spec

-----------------------------------------------------------------------------
(* The dashboard.                                                          *)

(* Inductive: who is registered is served, a send fails only on a          *)
(* connection that closed, and what is broadcast has no raised answer.     *)
ConnectionsFit ==
  /\ \A c \in Listed : endpoint[c] = "serving"
  /\ \A c \in Client : endpoint[c] # "off" => socket[c] # "none"
  /\ \A c \in Client : endpoint[c] = "serving" /\ socket[c] = "open" => c \in Listed
  /\ \A c \in snapshot : socket[c] # "none"
  /\ \A c \in dead : socket[c] = "closed"
  /\ broadcaster = "send" => probes \in [Service -> Answer \ {"raised"}]

DashboardInv == DashboardTypeOK /\ ConnectionsFit

(* Nobody is connected at the start.                                       *)
LEMMA ConnectionsInit == DashboardInit => DashboardInv
  BY DEF DashboardInit, DashboardInv, DashboardTypeOK, ConnectionsFit, Listed, Unasked

(* Every step of clients, endpoints and broadcast keeps them fitting.      *)
LEMMA ConnectionsStep ==
  ASSUME DashboardInv, DashboardStep \/ UNCHANGED dashboard
  PROVE  DashboardInv'
  <1> USE DEF DashboardInv, DashboardTypeOK, ConnectionsFit, Listed
  <1>1. ASSUME NEW c \in Client, Accept(c) PROVE DashboardInv'
    BY <1>1 DEF Accept
  <1>2. ASSUME NEW c \in Client, Connect(c) PROVE DashboardInv'
    <2>1. registry[c] = 0
      BY <1>2 DEF Connect
    <2> QED BY <1>2, <2>1 DEF Connect
  <1>3. ASSUME NEW c \in Client, Close(c) PROVE DashboardInv'
    BY <1>3 DEF Close
  <1>4. ASSUME NEW c \in Client, Disconnect(c) PROVE DashboardInv'
    BY <1>4 DEF Disconnect, Without
  <1>5. CASE Wake
    BY <1>5 DEF Wake
  <1>6. CASE Probe
    <2>1. PICK answers \in [Service -> Answer] :
            IF \E s \in Service : answers[s] = "raised"
            THEN broadcaster' = "sleep" /\ UNCHANGED <<probes, snapshot>>
            ELSE broadcaster' = "send" /\ probes' = answers /\ snapshot' = Listed
      BY <1>6 DEF Probe
    <2>2. CASE \E s \in Service : answers[s] = "raised"
      BY <1>6, <2>1, <2>2 DEF Probe
    <2>3. CASE ~\E s \in Service : answers[s] = "raised"
      <3>1. probes' \in [Service -> Answer \ {"raised"}]
        BY <2>1, <2>3
      <3>2. probes' \in [Service -> Answer \union {"none"}]
        BY <2>1, <2>3
      <3> QED BY <1>6, <2>1, <2>3, <3>1, <3>2 DEF Probe
    <2> QED BY <2>2, <2>3
  <1>7. ASSUME NEW c \in Client, Send(c) PROVE DashboardInv'
    BY <1>7 DEF Send
  <1>8. CASE SendEnds
    <2>1. probes' \in [Service -> Answer \union {"none"}]
      BY <1>8 DEF SendEnds, Unasked
    <2> QED BY <1>8, <2>1 DEF SendEnds
  <1>9. CASE Prune
    BY <1>9 DEF Prune, Pruned, Without
  <1>10. CASE UNCHANGED dashboard
    BY <1>10 DEF dashboard
  <1> QED BY <1>1, <1>2, <1>3, <1>4, <1>5, <1>6, <1>7, <1>8, <1>9, <1>10
          DEF DashboardStep, Broadcast

(* A client that is connected and served is registered, and a request on   *)
(* demand is told what is broadcast (ConnectionManager and                 *)
(* broadcast_health_status() of the dashboard's backend).                  *)
THEOREM ClientsAreServed == Spec => []ClientsServed
  <1>1. Init => DashboardInv
    BY ConnectionsInit DEF Init
  <1>2. DashboardInv /\ [Next]_vars => DashboardInv'
    BY OnePartMoves, ConnectionsStep
  <1>3. ASSUME DashboardInv PROVE ClientsServed
    <2>1. \A c \in Client : endpoint[c] = "serving" /\ socket[c] = "open" => c \in Listed
      BY <1>3 DEF DashboardInv, ConnectionsFit
    <2>2. ASSUME broadcaster = "send", NEW s \in Service, NEW scanning \in BOOLEAN,
                 probes[s] # "other"
          PROVE  Status(s, probes[s], scanning) = Drilldown(s, probes[s], scanning)
      BY <2>2 DEF Drilldown
    <2>3. ASSUME broadcaster = "send",
                 TopLine(probes["search-api"], probes["vector-db"]) = "online",
                 NEW s \in Service \ {"indexing-engine"}
          PROVE  Status(s, probes[s], FALSE) = "online"
      <3>1. probes["search-api"] \in {"object", "other"} /\ probes["vector-db"] = "object"
        BY <2>3 DEF TopLine
      <3>2. probes[s] \in {"object", "other"}
        BY <2>3, <3>1 DEF Service
      <3> QED BY <3>2 DEF Status
    <2> QED BY <2>1, <2>2, <2>3 DEF ClientsServed
  <1> QED BY <1>1, <1>2, <1>3, PTL DEF Spec

-----------------------------------------------------------------------------
(* Finite sets of integers.                                                *)

(* One that is not empty has a greatest element and a least.               *)
LEMMA GreatestIn ==
  ASSUME NEW S \in SUBSET Int, IsFiniteSet(S), S # {}
  PROVE  \E x \in S : \A y \in S : x >= y
  <1> DEFINE above(x) == {y \in S : y > x}
             T == {above(x) : x \in S}
  <1>1. IsWellFoundedOn(StrictSubsetOrdering(S), FiniteSubsetsOf(S))
    BY FS_StrictSubsetOrderingWellFounded
  <1>2. T \subseteq FiniteSubsetsOf(S) /\ T # {}
    <2>1. \A x \in S : above(x) \in SUBSET S
      OBVIOUS
    <2>2. \A x \in S : IsFiniteSet(above(x))
      BY <2>1, FS_Subset
    <2> QED BY <2>1, <2>2 DEF FiniteSubsetsOf
  <1>3. PICK A \in T : \A B \in T : <<B, A>> \notin StrictSubsetOrdering(S)
    BY <1>1, <1>2, WFMin
  <1>4. PICK x \in S : A = above(x)
    BY <1>3
  <1>5. \A y \in S : x >= y
    <2> SUFFICES ASSUME NEW y \in S, y > x PROVE FALSE
      OBVIOUS
    <2>1. y \in above(x) /\ y \notin above(y)
      OBVIOUS
    <2>2. \A z \in S : z > y => z > x
      OBVIOUS
    <2>3. above(y) \subseteq above(x) /\ above(x) # above(y)
      BY <2>1, <2>2
    <2>4. <<above(y), above(x)>> \in StrictSubsetOrdering(S)
      BY <2>3 DEF StrictSubsetOrdering
    <2> QED BY <1>3, <1>4, <2>4
  <1> QED BY <1>5

(* A finite set of integers has a least one.                               *)
LEMMA LeastIn ==
  ASSUME NEW S \in SUBSET Int, IsFiniteSet(S), S # {}
  PROVE  \E x \in S : \A y \in S : x <= y
  <1> DEFINE T == {-x : x \in S}
             f == [x \in S |-> -x]
  <1>1. f \in Surjection(S, T)
    BY DEF Surjection
  <1>2. IsFiniteSet(T)
    BY <1>1, FS_Surjection
  <1>3. T \in SUBSET Int /\ T # {}
    OBVIOUS
  <1> HIDE DEF f
  <1>4. PICK m \in T : \A n \in T : m >= n
    <2> HIDE DEF T
    <2> QED BY <1>2, <1>3, GreatestIn
  <1>5. PICK x \in S : m = -x
    BY <1>4
  <1>6. \A y \in S : -y \in T
    OBVIOUS
  <1> HIDE DEF T
  <1> QED BY <1>4, <1>5, <1>6

-----------------------------------------------------------------------------
(* The clustering of faces.                                                *)

(* Being linked goes both ways.                                            *)
LEMMA LinkedSym ==
  ASSUME NEW i \in Node, NEW j \in Node, Linked(i, j)
  PROVE  Linked(j, i)
  <1> SUFFICES ASSUME NEW S \in SUBSET Node, j \in S, i \notin S
               PROVE  \E x \in S, y \in Node \ S : sim[{x, y}] >= Threshold
    BY DEF Linked
  <1>1. PICK x \in Node \ S, y \in Node \ (Node \ S) : sim[{x, y}] >= Threshold
    BY DEF Linked
  <1>2. {y, x} = {x, y} /\ y \in S
    OBVIOUS
  <1>3. sim[{y, x}] >= Threshold
    BY <1>1, <1>2
  <1> QED BY <1>2, <1>3

(* It goes on from node to node.                                           *)
LEMMA LinkedTrans ==
  ASSUME NEW i \in Node, NEW j \in Node, NEW k \in Node, Linked(i, j), Linked(j, k)
  PROVE  Linked(i, k)
  BY DEF Linked

(* An edge links its ends.                                                 *)
LEMMA LinkedEdge ==
  ASSUME NEW i \in Node, NEW j \in Node, sim[{i, j}] >= Threshold
  PROVE  Linked(i, j)
  BY DEF Linked

(* What a node is told to be labelled is a neighbour's label.              *)
LEMMA BestHeard ==
  ASSUME NEW i \in Node, adj \in [Node -> SUBSET Node], labels \in [Node -> Node],
         adj[i] # {}
  PROVE  \E j \in adj[i] : Best(i) = labels[j]
  <1> DEFINE heard == {labels[j] : j \in adj[i]}
             top == {l \in heard : \A m \in heard : Weight(i, l) >= Weight(i, m)}
             weights == {Weight(i, l) : l \in heard}
             weigh == [l \in heard |-> Weight(i, l)]
  <1>1. heard \subseteq Node /\ heard # {} /\ heard \subseteq Int
    <2>1. heard \subseteq Node /\ heard # {}
      OBVIOUS
    <2> HIDE DEF heard
    <2> QED BY <2>1, WhispersAssumption
  <1>2. IsFiniteSet(heard) /\ IsFiniteSet(adj[i])
    BY <1>1, WhispersAssumption, FS_Subset
  <1>3. \A l \in heard : Weight(i, l) \in Nat
    <2>1. IsFiniteSet(1..Highest)
      BY WhispersAssumption, FS_Interval
    <2>2. IsFiniteSet(adj[i] \X (1..Highest))
      BY <1>2, <2>1, FS_Product
    <2> TAKE l \in heard
    <2>3. IsFiniteSet({e \in adj[i] \X (1..Highest) :
                         labels[e[1]] = l /\ e[2] <= sim[{i, e[1]}]})
      BY <2>2, FS_Subset
    <2> QED BY <2>3, FS_CardinalityType DEF Weight
  <1> HIDE DEF heard
  <1>4. weigh \in Surjection(heard, weights)
    BY DEF Surjection
  <1>5. IsFiniteSet(weights)
    BY <1>2, <1>4, FS_Surjection
  <1>6. weights \in SUBSET Int /\ weights # {}
    <2>1. weights \in SUBSET Nat
      BY <1>3
    <2>2. weights # {}
      BY <1>1
    <2> HIDE DEF weights
    <2> QED BY <2>1, <2>2
  <1>7. PICK w \in weights : \A v \in weights : w >= v
    <2> HIDE DEF weights
    <2> QED BY <1>5, <1>6, GreatestIn
  <1>8. top # {} /\ top \subseteq heard
    BY <1>7
  <1>9. \E l \in top : \A m \in top : l <= m
    <2>1. IsFiniteSet(top) /\ top \in SUBSET Int
      BY <1>1, <1>2, <1>8, FS_Subset
    <2> HIDE DEF top
    <2> QED BY <1>8, <2>1, LeastIn
  <1>10. Best(i) = CHOOSE l \in top : \A m \in top : l <= m
    BY <1>1 DEF Best, heard
  <1>11. Best(i) \in heard
    BY <1>8, <1>9, <1>10
  <1> QED BY <1>11 DEF heard

(* Ranks within a finite set have no gap.                                  *)
LEMMA RanksAreDense ==
  ASSUME NEW R \in SUBSET Nat, IsFiniteSet(R)
  PROVE  {Cardinality({l \in R : l < x}) : x \in R} = 0..Cardinality(R) - 1
  <1> DEFINE below(x) == {l \in R : l < x}
             rank == [x \in R |-> Cardinality(below(x))]
             n == Cardinality(R)
  <1>1. n \in Nat
    BY FS_CardinalityType
  <1>2. \A x \in R : below(x) \in SUBSET R /\ IsFiniteSet(below(x))
                     /\ Cardinality(below(x)) \in Nat
    BY FS_Subset, FS_CardinalityType
  <1>3. ASSUME NEW x \in R PROVE Cardinality(below(x)) < n
    <2>1. below(x) # R
      OBVIOUS
    <2> HIDE DEF below
    <2> QED BY <1>1, <1>2, <2>1, FS_Subset
  <1>4. ASSUME NEW x \in R, NEW y \in R, x < y PROVE Cardinality(below(x)) < Cardinality(below(y))
    <2>1. below(x) \in SUBSET below(y) /\ below(x) # below(y)
      <3>1. x \in below(y) /\ x \notin below(x)
        BY <1>4
      <3>2. \A l \in R : l < x => l < y
        BY <1>4
      <3> QED BY <3>1, <3>2
    <2> HIDE DEF below
    <2> QED BY <1>2, <2>1, FS_Subset
  <1>5. rank \in [R -> 0..n - 1]
    <2> HIDE DEF below, n
    <2> QED BY <1>1, <1>2, <1>3
  <1>6. \A x, y \in R : rank[x] = rank[y] => x = y
    <2> HIDE DEF below
    <2> QED BY <1>2, <1>4
  <1>7. rank \in Injection(R, 0..n - 1)
    BY <1>5, <1>6 DEF Injection, IsInjective
  <1>8. IsFiniteSet(0..n - 1) /\ Cardinality(0..n - 1) = n
    <2> HIDE DEF n
    <2> QED BY <1>1, FS_Interval
  <1>9. rank \in Surjection(R, 0..n - 1)
    <2> HIDE DEF rank
    <2> QED BY <1>7, <1>8, FS_Injection
  <1>10. \A k \in 0..n - 1 : \E x \in R : rank[x] = k
    BY <1>9 DEF Surjection
  <1> QED BY <1>5, <1>10

(* Inductive: an edge is similar enough, the nodes of one label are linked, *)
(* and in a sweep that has changed nothing yet the nodes it has visited    *)
(* have the label their neighbours speak for.                              *)
WhispersInv ==
  /\ WhispersTypeOK
  /\ \A i \in Node : \A j \in adj[i] : sim[{i, j}] >= Threshold
  /\ phase = "idle" => labels = [i \in Node |-> i]
  /\ phase = "done" => order = {}
  /\ phase # "idle" => changed \/ \A i \in Node \ order : labels[i] = Best(i)
  /\ \A i, j \in Node : labels[i] = labels[j] => Linked(i, j)

(* Every node is alone with its label at the start.                        *)
LEMMA WhispersInvInit == WhispersInit => WhispersInv
  <1> SUFFICES ASSUME WhispersInit PROVE WhispersInv
    OBVIOUS
  <1>1. WhispersTypeOK
    <2>0. sweep \in 0..MaxIter
      BY WhispersAssumption DEF WhispersInit
    <2>1. changed \in BOOLEAN
      BY DEF WhispersInit
    <2>2. adj \in [Node -> SUBSET Node] /\ labels \in [Node -> Node]
      BY DEF WhispersInit
    <2> QED BY <2>0, <2>1, <2>2 DEF WhispersInit, WhispersTypeOK
  <1>2. \A i, j \in Node : labels[i] = labels[j] => Linked(i, j)
    BY DEF WhispersInit, Linked
  <1> QED BY <1>1, <1>2 DEF WhispersInit, WhispersInv

(* A node takes the label of a neighbour, to which it is linked.           *)
LEMMA WhispersInvStep ==
  ASSUME WhispersInv, WhispersStep \/ UNCHANGED whispers
  PROVE  WhispersInv'
  <1>1. /\ WhispersTypeOK /\ adj \in [Node -> SUBSET Node] /\ labels \in [Node -> Node]
        /\ \A i \in Node : \A j \in adj[i] : sim[{i, j}] >= Threshold
        /\ \A i, j \in Node : labels[i] = labels[j] => Linked(i, j)
    BY DEF WhispersInv, WhispersTypeOK
  <1>2. CASE Build
    <2>1. /\ labels = [i \in Node |-> i] /\ labels' = labels /\ order' = Node
          /\ phase' = "sweeping" /\ sweep' = 1 /\ changed' = FALSE
          /\ adj' = [i \in Node |-> Edges(sim', i)]
      BY <1>2 DEF Build, WhispersInv
    <2>2. ASSUME NEW i \in Node
          PROVE  /\ adj'[i] \subseteq Node
                 /\ \A j \in adj'[i] : sim'[{i, j}] >= Threshold
      BY <2>1 DEF Edges, Near
    <2>3. adj' \in [Node -> SUBSET Node]
      BY <2>1, <2>2
    <2>4. \A i, j \in Node : labels'[i] = labels'[j] => i = j
      BY <2>1
    <2>5. (\A i, j \in Node : labels[i] = labels[j] => Linked(i, j))'
      BY <2>4 DEF Linked
    <2>6. WhispersTypeOK'
      <3>1. sweep' \in 0..MaxIter
        BY <2>1, WhispersAssumption
      <3>2. changed' \in BOOLEAN
        BY <2>1
      <3> QED BY <1>1, <2>1, <2>3, <3>1, <3>2 DEF WhispersTypeOK
    <2>7. (phase # "idle" => changed \/ \A i \in Node \ order : labels[i] = Best(i))'
      BY <2>1
    <2> QED BY <2>1, <2>2, <2>5, <2>6, <2>7 DEF WhispersInv
  <1>3. CASE Whisper
    <2>1. PICK i \in order :
            /\ order' = order \ {i}
            /\ labels' = [labels EXCEPT ![i] = Best(i)]
            /\ changed' = (changed \/ Best(i) # labels[i])
      BY <1>3 DEF Whisper
    <2>2. UNCHANGED <<sim, adj, sweep, phase>> /\ phase = "sweeping" /\ i \in Node
      BY <1>1, <1>3 DEF Whisper, WhispersTypeOK
    <2>3. Best(i) = labels[i] \/ \E j \in adj[i] : Best(i) = labels[j]
      <3>1. adj[i] = {} => Best(i) = labels[i]
        BY DEF Best
      <3> QED BY <1>1, <2>2, <3>1, BestHeard
    <2>4. Best(i) \in Node
      BY <1>1, <2>2, <2>3
    <2>5. labels' \in [Node -> Node] /\ \A k \in Node : labels'[k] = IF k = i THEN Best(i) ELSE labels[k]
      BY <1>1, <2>1, <2>2, <2>4
    <2>6. \A k \in Node : labels[k] = Best(i) => Linked(i, k) /\ Linked(k, i)
      <3> SUFFICES ASSUME NEW k \in Node, labels[k] = Best(i)
                   PROVE  Linked(i, k) /\ Linked(k, i)
        OBVIOUS
      <3>1. CASE Best(i) = labels[i]
        BY <1>1, <2>2, <3>1
      <3>2. ASSUME NEW j \in adj[i], Best(i) = labels[j] PROVE Linked(i, k)
        <4>1. j \in Node /\ sim[{i, j}] >= Threshold
          BY <1>1, <2>2
        <4>2. Linked(j, k)
          BY <1>1, <3>2, <4>1
        <4> QED BY <2>2, <4>1, <4>2, LinkedEdge, LinkedTrans
      <3> QED BY <2>2, <2>3, <3>1, <3>2, LinkedSym
    <2>7. \A k, m \in Node : labels'[k] = labels'[m] => Linked(k, m)
      <3> SUFFICES ASSUME NEW k \in Node, NEW m \in Node, labels'[k] = labels'[m]
                   PROVE  Linked(k, m)
        OBVIOUS
      <3>1. CASE k = m
        BY <1>1, <3>1
      <3>2. CASE k # m
        BY <1>1, <2>2, <2>5, <2>6, <3>2
      <3> QED BY <3>1, <3>2
    <2>8. (\A k, m \in Node : labels[k] = labels[m] => Linked(k, m))'
      BY <2>2, <2>7 DEF Linked
    <2>9. ASSUME ~changed' PROVE \A k \in Node \ order' : labels'[k] = Best(k)'
      <3>1. ~changed /\ Best(i) = labels[i]
        BY <2>1, <2>9
      <3>2. labels' = labels
        BY <1>1, <2>1, <2>2, <3>1
      <3>3. \A k \in Node : Best(k)' = Best(k)
        BY <2>2, <3>2 DEF Best, Weight
      <3>4. \A k \in Node \ order : labels[k] = Best(k)
        BY <2>2, <3>1 DEF WhispersInv
      <3> QED BY <2>1, <3>1, <3>2, <3>3, <3>4
    <2>10. changed' \in BOOLEAN /\ order' \subseteq Node
      BY <1>1, <2>1 DEF WhispersTypeOK
    <2>11. WhispersTypeOK'
      BY <1>1, <2>2, <2>5, <2>10 DEF WhispersTypeOK
    <2> QED BY <1>1, <2>2, <2>8, <2>9, <2>11 DEF WhispersInv
  <1>4. CASE SweepEnds
    <2>1. UNCHANGED <<sim, adj, labels>> /\ phase = "sweeping" /\ order = {}
          /\ IF changed /\ sweep < MaxIter
             THEN order' = Node /\ sweep' = sweep + 1 /\ changed' = FALSE /\ UNCHANGED phase
             ELSE phase' = "done" /\ UNCHANGED <<order, sweep, changed>>
      BY <1>4 DEF SweepEnds
    <2>2. (\A k, m \in Node : labels[k] = labels[m] => Linked(k, m))'
      BY <1>1, <2>1 DEF Linked
    <2>3. WhispersTypeOK'
      <3>1. changed' \in BOOLEAN
        BY <1>1, <2>1 DEF WhispersTypeOK
      <3>2. sweep' \in 0..MaxIter /\ order' \subseteq Node
        BY <1>1, <2>1, WhispersAssumption DEF WhispersTypeOK
      <3> QED BY <1>1, <2>1, <3>1, <3>2 DEF WhispersTypeOK
    <2>4. \A k \in Node : Best(k)' = Best(k)
      BY <2>1 DEF Best, Weight
    <2>5. (phase # "idle" => changed \/ \A k \in Node \ order : labels[k] = Best(k))'
      <3>1. changed \/ \A k \in Node \ order : labels[k] = Best(k)
        BY <2>1 DEF WhispersInv
      <3> QED BY <2>1, <2>4, <3>1
    <2> QED BY <1>1, <2>1, <2>2, <2>3, <2>5 DEF WhispersInv
  <1>5. CASE UNCHANGED whispers
    <2>1. UNCHANGED <<sim, adj, labels, order, sweep, changed, phase>>
      BY <1>5 DEF whispers
    <2>2. WhispersTypeOK'
      BY <1>1, <2>1 DEF WhispersTypeOK
    <2>3. (\A i, j \in Node : labels[i] = labels[j] => Linked(i, j))'
      BY <1>1, <2>1 DEF Linked
    <2>4. \A k \in Node : Best(k)' = Best(k)
      BY <2>1 DEF Best, Weight
    <2>5. (phase # "idle" => changed \/ \A k \in Node \ order : labels[k] = Best(k))'
      BY <2>1, <2>4 DEF WhispersInv
    <2> QED BY <1>1, <2>1, <2>2, <2>3, <2>5 DEF WhispersInv
  <1> QED BY <1>2, <1>3, <1>4, <1>5 DEF WhispersStep

(* Faces of one cluster are linked by faces that are similar enough, and   *)
(* when the last sweep changed nothing the clustering is stable; cluster   *)
(* numbers have no gap.  The Services run takes four faces and three       *)
(* similarities, this any number (cluster_faces.py).                       *)
THEOREM ClustersAreLinked == Spec => []ClustersLinked
  <1>1. Init => WhispersInv
    BY WhispersInvInit DEF Init
  <1>2. WhispersInv /\ [Next]_vars => WhispersInv'
    BY OnePartMoves, WhispersInvStep
  <1>3. ASSUME WhispersInv PROVE ClustersLinked
    <2>1. \A i, j \in Node : labels[i] = labels[j] => Linked(i, j)
      BY <1>3 DEF WhispersInv
    <2>2. phase = "done" => changed \/ \A i \in Node : labels[i] = Best(i)
      BY <1>3 DEF WhispersInv
    <2>3. {Compact(i) : i \in Node} = 0..Cardinality(Range(labels)) - 1
      <3> DEFINE R == Range(labels)
      <3>1. labels \in [Node -> Node]
        BY <1>3 DEF WhispersInv, WhispersTypeOK
      <3>2. R = {labels[i] : i \in Node}
        BY <3>1 DEF Range
      <3>3. R \in SUBSET Nat /\ IsFiniteSet(R)
        <4>1. R \in SUBSET Node
          BY <3>1, <3>2
        <4> QED BY <4>1, WhispersAssumption, FS_Subset
      <3>4. {Cardinality({l \in R : l < x}) : x \in R} = 0..Cardinality(R) - 1
        BY <3>3, RanksAreDense
      <3>5. {Compact(i) : i \in Node} = {Cardinality({l \in R : l < x}) : x \in R}
        <4>1. \A i \in Node : labels[i] \in R /\ Compact(i) = Cardinality({l \in R : l < labels[i]})
          BY <3>2 DEF Compact
        <4>2. \A x \in R : \E i \in Node : labels[i] = x
          BY <3>2
        <4> HIDE DEF R
        <4> QED BY <4>1, <4>2
      <3> QED BY <3>4, <3>5
    <2> QED BY <2>1, <2>2, <2>3 DEF ClustersLinked
  <1> QED BY <1>1, <1>2, <1>3, PTL DEF Spec

-----------------------------------------------------------------------------
(* The verification queue.                                                 *)

Item  == [task : 0..MaxTasks, priority : Priority, failed : BOOLEAN]
Logs  == [task : 1..MaxTasks, undone : BOOLEAN]

(* The tasks of a queue or of the log, and that none is there twice.       *)
Names(q)    == {q[i].task : i \in DOMAIN q}
Distinct(q) == \A i, j \in DOMAIN q : q[i].task = q[j].task => i = j

(* Inductive: a fresh task comes after none of lower priority, failed ones *)
(* included, and after those of its own that came before it.               *)
Sorted(q) ==
  \A i, j \in DOMAIN q : i < j /\ ~q[j].failed =>
    /\ q[i].priority >= q[j].priority
    /\ ~q[i].failed /\ q[i].priority = q[j].priority => q[i].task < q[j].task

(* What an item of the queue is made of.                                   *)
LEMMA ItemFields ==
  \A x \in Item : x.task \in Nat /\ x.priority \in Nat
  <1>1. MaxTasks \in Nat
    BY VerificationAssumption
  <1>2. 0..MaxTasks \subseteq Nat /\ Priority \subseteq Nat
    BY <1>1 DEF Priority
  <1>3. \A x \in Item : x.task \in 0..MaxTasks /\ x.priority \in Priority
    BY DEF Item
  <1> QED BY <1>2, <1>3

(* A queue without its head.                                               *)
LEMMA TailFits ==
  ASSUME NEW q \in Seq(Item), q # <<>>
  PROVE  /\ Head(q) \in Item /\ Tail(q) \in Seq(Item)
         /\ Names(q) = Names(Tail(q)) \union {Head(q).task}
         /\ Distinct(q) => Distinct(Tail(q)) /\ Head(q).task \notin Names(Tail(q))
         /\ Sorted(q) => Sorted(Tail(q))
  <1> DEFINE n == Len(q)
             t == Tail(q)
  <1>1. /\ n \in Nat /\ n >= 1 /\ DOMAIN q = 1..n /\ Head(q) = q[1] /\ Head(q) \in Item
        /\ t \in Seq(Item) /\ DOMAIN t = 1..n - 1
        /\ \A i \in 1..n - 1 : t[i] = q[i + 1]
    OBVIOUS
  <1> HIDE DEF n, t
  <1>2. \A i \in 1..n : i = 1 \/ i - 1 \in 1..n - 1
    BY <1>1
  <1>3. Names(q) = Names(t) \union {Head(q).task}
    <2>1. \A i \in DOMAIN q : q[i].task \in Names(t) \union {Head(q).task}
      <3> SUFFICES ASSUME NEW i \in 1..n, i # 1 PROVE q[i].task \in Names(t)
        BY <1>1
      <3>1. i - 1 \in DOMAIN t /\ t[i - 1] = q[i]
        BY <1>1
      <3> QED BY <3>1 DEF Names
    <2>2. \A i \in DOMAIN t : i + 1 \in DOMAIN q /\ t[i] = q[i + 1]
      BY <1>1
    <2>3. \A i \in DOMAIN t : t[i].task \in Names(q)
      BY <2>2 DEF Names
    <2>4. Head(q).task \in Names(q)
      BY <1>1 DEF Names
    <2>5. \A y \in Names(q) : y \in Names(t) \union {Head(q).task}
      BY <2>1 DEF Names
    <2>6. \A y \in Names(t) : y \in Names(q)
      BY <2>3 DEF Names
    <2> QED BY <2>4, <2>5, <2>6
  <1>4. ASSUME Distinct(q) PROVE Distinct(t) /\ Head(q).task \notin Names(t)
    <2>0. \A i, j \in 1..n : q[i].task = q[j].task => i = j
      BY <1>1, <1>4 DEF Distinct
    <2>1. ASSUME NEW i \in DOMAIN t, NEW j \in DOMAIN t, t[i].task = t[j].task PROVE i = j
      <3>1. i + 1 \in 1..n /\ j + 1 \in 1..n /\ t[i] = q[i + 1] /\ t[j] = q[j + 1]
        BY <1>1
      <3>2. i + 1 = j + 1
        BY <2>0, <2>1, <3>1
      <3> QED BY <1>1, <3>2
    <2>2. ASSUME NEW i \in DOMAIN t PROVE t[i].task # Head(q).task
      <3>1. i + 1 \in 1..n /\ 1 \in 1..n /\ t[i] = q[i + 1] /\ i + 1 # 1
        BY <1>1
      <3> QED BY <1>1, <2>0, <3>1
    <2> QED BY <2>1, <2>2 DEF Distinct, Names
  <1>5. ASSUME Sorted(q) PROVE Sorted(t)
    <2> SUFFICES ASSUME NEW i \in DOMAIN t, NEW j \in DOMAIN t, i < j, ~t[j].failed
                 PROVE  /\ t[i].priority >= t[j].priority
                        /\ ~t[i].failed /\ t[i].priority = t[j].priority
                             => t[i].task < t[j].task
      BY DEF Sorted
    <2>1. /\ i + 1 \in DOMAIN q /\ j + 1 \in DOMAIN q /\ i + 1 < j + 1
          /\ t[i] = q[i + 1] /\ t[j] = q[j + 1]
      BY <1>1
    <2> QED BY <1>5, <2>1 DEF Sorted
  <1> QED BY <1>1, <1>3, <1>4, <1>5 DEF t

(* A queue or a log with one more at its end.                              *)
LEMMA AppendNames ==
  ASSUME NEW S, NEW q \in Seq(S), NEW x
  PROVE  /\ Names(Append(q, x)) = Names(q) \union {x.task}
         /\ Distinct(q) /\ x.task \notin Names(q) => Distinct(Append(q, x))
  <1> DEFINE n == Len(q)
             a == Append(q, x)
  <1>1. /\ n \in Nat /\ DOMAIN q = 1..n /\ DOMAIN a = 1..n + 1 /\ a[n + 1] = x
        /\ \A i \in 1..n : a[i] = q[i]
    OBVIOUS
  <1> HIDE DEF n, a
  <1>2. \A i \in DOMAIN a : (i \in DOMAIN q /\ a[i] = q[i]) \/ (i = n + 1 /\ a[i] = x)
    BY <1>1
  <1>3. \A i \in DOMAIN q : i \in DOMAIN a /\ a[i] = q[i] /\ i # n + 1
    BY <1>1
  <1>4. n + 1 \in DOMAIN a
    BY <1>1
  <1>5. Names(a) = Names(q) \union {x.task}
    BY <1>1, <1>2, <1>3, <1>4 DEF Names
  <1>6. Distinct(q) /\ x.task \notin Names(q) => Distinct(a)
    BY <1>2 DEF Distinct, Names
  <1> QED BY <1>5, <1>6 DEF a

(* A failed task goes to the end and is in nobody's way there.             *)
LEMMA RequeuedSorted ==
  ASSUME NEW q \in Seq(Item), NEW x \in Item, Sorted(q),
         x.failed \/ \A i \in DOMAIN q : q[i].priority >= x.priority /\ q[i].task < x.task
  PROVE  Append(q, x) \in Seq(Item) /\ Sorted(Append(q, x))
  <1> DEFINE n == Len(q)
             a == Append(q, x)
  <1>1. /\ n \in Nat /\ DOMAIN q = 1..n /\ DOMAIN a = 1..n + 1 /\ a[n + 1] = x
        /\ \A i \in 1..n : a[i] = q[i] /\ a \in Seq(Item)
    OBVIOUS
  <1>2. a \in Seq(Item)
    OBVIOUS
  <1> HIDE DEF n, a
  <1>4. Sorted(a)
    <2> SUFFICES ASSUME NEW i \in 1..n + 1, NEW j \in 1..n + 1, i < j, ~a[j].failed
                 PROVE  /\ a[i].priority >= a[j].priority
                        /\ ~a[i].failed /\ a[i].priority = a[j].priority
                             => a[i].task < a[j].task
      BY <1>1 DEF Sorted
    <2>1. i \in 1..n /\ a[i] = q[i] /\ (j = n + 1 \/ j \in 1..n)
      BY <1>1
    <2>2. CASE j = n + 1
      BY <1>1, <2>1, <2>2
    <2>3. CASE j \in 1..n
      BY <1>1, <2>1, <2>3 DEF Sorted
    <2> QED BY <2>1, <2>2, <2>3
  <1> QED BY <1>2, <1>4 DEF a

(* A new task goes before the first one of lower priority.                 *)
LEMMA InsertFits ==
  ASSUME NEW q \in Seq(Item), NEW x \in Item, ~x.failed, Sorted(q),
         NEW k \in DOMAIN q, x.priority > q[k].priority,
         \A i \in DOMAIN q : i < k => q[i].priority >= x.priority,
         \A i \in DOMAIN q : q[i].task < x.task
  PROVE  /\ InsertAt(q, k, x) \in Seq(Item)
         /\ Names(InsertAt(q, k, x)) = Names(q) \union {x.task}
         /\ Distinct(q) => Distinct(InsertAt(q, k, x))
         /\ Sorted(InsertAt(q, k, x))
  <1> DEFINE n == Len(q)
             a == InsertAt(q, k, x)
  <1>0. n \in Nat /\ k \in 1..n /\ DOMAIN q = 1..n /\ \A i \in 1..n : q[i] \in Item
    OBVIOUS
  <1>1. a \in Seq(Item) /\ Len(a) = n + 1
    BY <1>0 DEF InsertAt
  <1>2. DOMAIN a = 1..n + 1
    BY <1>1
  <1>3. \A i \in 1..n + 1 : a[i] = IF i < k THEN q[i] ELSE IF i = k THEN x ELSE q[i - 1]
    <2> DEFINE l == SubSeq(q, 1, k - 1)
               m == <<x>>
               r == SubSeq(q, k, n)
    <2>1. /\ l \in Seq(Item) /\ Len(l) = k - 1
          /\ \A i \in 1..k - 1 : l[i] = q[i]
      BY <1>0
    <2>2. /\ r \in Seq(Item) /\ Len(r) = n - k + 1
          /\ \A i \in 1..n - k + 1 : r[i] = q[k + i - 1]
      BY <1>0
    <2>3. m \in Seq(Item) /\ Len(m) = 1 /\ m[1] = x
      OBVIOUS
    <2>4. a = (l \o m) \o r
      BY DEF InsertAt
    <2> HIDE DEF l, m, r, a, n
    <2>5. /\ l \o m \in Seq(Item) /\ Len(l \o m) = k
          /\ \A i \in 1..k : (l \o m)[i] = IF i < k THEN q[i] ELSE x
      <3>1. /\ l \o m \in Seq(Item) /\ Len(l \o m) = Len(l) + Len(m)
            /\ \A i \in 1..Len(l) + Len(m) :
                 (l \o m)[i] = IF i <= Len(l) THEN l[i] ELSE m[i - Len(l)]
        BY <2>1, <2>3, ConcatProperties
      <3>4. k - 1 + 1 = k /\ k - (k - 1) = 1 /\ \A i \in 1..k : i <= k - 1 <=> i < k
        BY <1>0
      <3> DEFINE c == l \o m
      <3> HIDE DEF c
      <3>2. /\ c \in Seq(Item) /\ Len(c) = k
            /\ \A i \in 1..k : c[i] = IF i <= k - 1 THEN l[i] ELSE m[i - (k - 1)]
        BY <2>1, <2>3, <3>1, <3>4 DEF c
      <3>3. ASSUME NEW i \in 1..k PROVE c[i] = IF i < k THEN q[i] ELSE x
        <4>1. CASE i < k
          <5>1. i \in 1..k - 1
            BY <1>0, <4>1
          <5> QED BY <2>1, <3>2, <3>4, <4>1, <5>1
        <4>2. CASE i = k
          BY <1>0, <2>3, <3>2, <3>4, <4>2
        <4> QED BY <1>0, <4>1, <4>2
      <3> QED BY <3>2, <3>3 DEF c
    <2> DEFINE b == l \o m
    <2> HIDE DEF b
    <2>6. /\ b \in Seq(Item) /\ Len(b) = k /\ a = b \o r
          /\ \A i \in 1..k : b[i] = IF i < k THEN q[i] ELSE x
      BY <2>4, <2>5 DEF b
    <2>7. \A i \in 1..n + 1 : a[i] = IF i <= k THEN b[i] ELSE r[i - k]
      BY <1>0, <2>2, <2>6
    <2>8. \A i \in 1..n + 1 : i > k => i - k \in 1..n - k + 1 /\ k + (i - k) - 1 = i - 1
      BY <1>0
    <2> SUFFICES ASSUME NEW i \in 1..n + 1
                 PROVE  a[i] = IF i < k THEN q[i] ELSE IF i = k THEN x ELSE q[i - 1]
      OBVIOUS
    <2>9. CASE i <= k
      BY <1>0, <2>6, <2>7, <2>9
    <2>10. CASE i > k
      <3>1. a[i] = r[i - k]
        BY <1>0, <2>7, <2>10
      <3>2. r[i - k] = q[k + (i - k) - 1]
        BY <1>0, <2>2, <2>8, <2>10
      <3> QED BY <1>0, <2>8, <2>10, <3>1, <3>2
    <2> QED BY <1>0, <2>9, <2>10
  <1> HIDE DEF n, a
  <1>4. \A i \in 1..n : (IF i < k THEN i ELSE i + 1) \in DOMAIN a
                        /\ a[IF i < k THEN i ELSE i + 1] = q[i]
    BY <1>0, <1>2, <1>3
  <1>5. \A i \in DOMAIN a : \/ i = k /\ a[i] = x
                            \/ i < k /\ i \in 1..n /\ a[i] = q[i]
                            \/ i > k /\ i - 1 \in 1..n /\ a[i] = q[i - 1]
    BY <1>0, <1>2, <1>3
  <1>6. k \in DOMAIN a /\ a[k] = x
    BY <1>0, <1>2, <1>3
  <1>7. Names(a) = Names(q) \union {x.task}
    <2>1. \A i \in DOMAIN a : a[i].task \in Names(q) \union {x.task}
      BY <1>0, <1>5 DEF Names
    <2>2. \A i \in DOMAIN q : q[i].task \in Names(a)
      BY <1>0, <1>4 DEF Names
    <2> QED BY <1>6, <2>1, <2>2 DEF Names
  <1>8. ASSUME Distinct(q), NEW i \in DOMAIN a, NEW j \in DOMAIN a, a[i].task = a[j].task
        PROVE  i = j
    <2>1. \A m \in 1..n : q[m].task # x.task
      BY <1>0, ItemFields
    <2>2. \A m, l \in 1..n : q[m].task = q[l].task => m = l
      BY <1>0, <1>8 DEF Distinct
    <2>3. i \in 1..n + 1 /\ j \in 1..n + 1
      BY <1>2, <1>8
    <2> QED BY <1>0, <1>5, <1>8, <2>1, <2>2, <2>3
  <1>9. ASSUME NEW i \in DOMAIN a, NEW j \in DOMAIN a, i < j, ~a[j].failed
        PROVE  /\ a[i].priority >= a[j].priority
               /\ ~a[i].failed /\ a[i].priority = a[j].priority => a[i].task < a[j].task
    <2>1. i \in 1..n + 1 /\ j \in 1..n + 1
      BY <1>2
    <2>2. \A m, l \in 1..n : m < l /\ ~q[l].failed =>
            /\ q[m].priority >= q[l].priority
            /\ ~q[m].failed /\ q[m].priority = q[l].priority => q[m].task < q[l].task
      BY <1>0 DEF Sorted
    <2>3. \A m \in 1..n : q[m].priority \in Nat /\ q[m].task \in Nat
      BY <1>0, ItemFields
    <2>4. x.priority \in Nat /\ x.task \in Nat
      BY ItemFields
    <2>5. \A m \in 1..n : m >= k /\ ~q[m].failed => x.priority > q[m].priority
      BY <1>0, <2>2, <2>3, <2>4
    <2>6. CASE j = k
      BY <1>0, <1>5, <1>6, <1>9, <2>1, <2>6
    <2>7. CASE i = k
      <3>1. j - 1 \in 1..n /\ a[j] = q[j - 1] /\ j - 1 >= k
        BY <1>0, <1>5, <1>9, <2>1, <2>7
      <3>2. a[i] = x /\ x.priority > q[j - 1].priority
        BY <1>6, <1>9, <2>5, <2>7, <3>1
      <3> QED BY <2>3, <2>4, <3>1, <3>2
    <2>8. CASE i # k /\ j # k
      BY <1>0, <1>5, <1>9, <2>1, <2>2, <2>8
    <2> QED BY <2>6, <2>7, <2>8
  <1>10. Distinct(q) => Distinct(a)
    BY <1>8 DEF Distinct
  <1>11. Sorted(a)
    BY <1>9 DEF Sorted
  <1> QED BY <1>1, <1>7, <1>10, <1>11 DEF a

(* The undo stack u of log a: UndoIsTheEnd, of any log and stack.          *)
IsTheEnd(a, u) ==
  /\ \A i, j \in DOMAIN u : i < j => u[i] < u[j]
  /\ \A i \in DOMAIN u : ~a[u[i]].undone
  /\ \A n \in DOMAIN a :
       ~a[n].undone => n \in Range(u) \/ \A i \in DOMAIN u : n < u[i]

(* A done task is logged, and what undoes it goes on top.                  *)
LEMMA EndAppend ==
  ASSUME NEW a \in Seq(Logs), NEW u \in Seq(1..Len(a)), IsTheEnd(a, u),
         NEW x \in Logs, ~x.undone
  PROVE  /\ Append(a, x) \in Seq(Logs)
         /\ Append(u, Len(a) + 1) \in Seq(1..Len(a) + 1)
         /\ IsTheEnd(Append(a, x), Append(u, Len(a) + 1))
  <1> DEFINE m == Len(a)
             l == Len(u)
             b == Append(a, x)
             v == Append(u, m + 1)
  <1>1. /\ m \in Nat /\ DOMAIN a = 1..m /\ DOMAIN b = 1..m + 1 /\ b[m + 1] = x
        /\ \A i \in 1..m : b[i] = a[i]
    OBVIOUS
  <1>2. b \in Seq(Logs)
    OBVIOUS
  <1>3. 1..m \subseteq 1..m + 1 /\ m + 1 \in 1..m + 1
    BY <1>1
  <1>4. u \in Seq(1..m + 1)
    BY <1>3
  <1>5. v \in Seq(1..m + 1)
    BY <1>3, <1>4
  <1>6. /\ l \in Nat /\ DOMAIN u = 1..l /\ DOMAIN v = 1..l + 1 /\ v[l + 1] = m + 1
        /\ \A i \in 1..l : v[i] = u[i] /\ u[i] \in 1..m
    OBVIOUS
  <1> HIDE DEF m, l, b, v
  <1>7. \A i, j \in DOMAIN v : i < j => v[i] < v[j]
    <2> SUFFICES ASSUME NEW i \in 1..l + 1, NEW j \in 1..l + 1, i < j PROVE v[i] < v[j]
      BY <1>6
    <2>1. i \in 1..l /\ v[i] = u[i] /\ u[i] \in 1..m /\ (j = l + 1 \/ j \in 1..l)
      BY <1>6
    <2>2. CASE j = l + 1
      BY <1>1, <1>6, <2>1, <2>2
    <2>3. CASE j \in 1..l
      BY <1>6, <2>1, <2>3 DEF IsTheEnd
    <2> QED BY <2>1, <2>2, <2>3
  <1>8. \A i \in DOMAIN v : ~b[v[i]].undone
    <2> SUFFICES ASSUME NEW i \in 1..l + 1 PROVE ~b[v[i]].undone
      BY <1>6
    <2>1. CASE i = l + 1
      BY <1>1, <1>6, <2>1
    <2>2. CASE i \in 1..l
      BY <1>1, <1>6, <2>2 DEF IsTheEnd
    <2> QED BY <1>6, <2>1, <2>2
  <1>9. ASSUME NEW n \in DOMAIN b, ~b[n].undone
        PROVE  n \in Range(v) \/ \A i \in DOMAIN v : n < v[i]
    <2>1. n = m + 1 \/ n \in 1..m
      BY <1>1
    <2>2. CASE n = m + 1
      <3>1. l + 1 \in DOMAIN v /\ v[l + 1] = n
        BY <1>6, <2>2
      <3> QED BY <3>1 DEF Range
    <2>3. CASE n \in 1..m
      <3>1. n \in Range(u) \/ \A i \in 1..l : n < u[i]
        BY <1>1, <1>6, <1>9, <2>3 DEF IsTheEnd
      <3>2. CASE n \in Range(u)
        <4>1. PICK i \in 1..l : u[i] = n
          BY <1>6, <3>2 DEF Range
        <4>2. i \in DOMAIN v /\ v[i] = n
          BY <1>6, <4>1
        <4> QED BY <4>2 DEF Range
      <3>3. CASE \A i \in 1..l : n < u[i]
        <4>1. \A i \in 1..l + 1 : n < v[i]
          <5> SUFFICES ASSUME NEW i \in 1..l + 1 PROVE n < v[i]
            OBVIOUS
          <5>1. CASE i = l + 1
            BY <1>1, <1>6, <2>3, <5>1
          <5>2. CASE i \in 1..l
            BY <1>6, <3>3, <5>2
          <5> QED BY <1>6, <5>1, <5>2
        <4> QED BY <1>6, <4>1
      <3> QED BY <3>1, <3>2, <3>3
    <2> QED BY <2>1, <2>2, <2>3
  <1>10. IsTheEnd(b, v)
    BY <1>7, <1>8, <1>9 DEF IsTheEnd
  <1> QED BY <1>2, <1>5, <1>10 DEF b, v, m

(* The stack is full: its oldest entry is forgotten.                       *)
LEMMA EndTail ==
  ASSUME NEW a \in Seq(Logs), NEW u \in Seq(1..Len(a)), IsTheEnd(a, u), u # <<>>
  PROVE  /\ Tail(u) \in Seq(1..Len(a)) /\ Len(Tail(u)) = Len(u) - 1
         /\ IsTheEnd(a, Tail(u))
  <1> DEFINE l == Len(u)
             v == Tail(u)
  <1>1. /\ l \in Nat /\ l >= 1 /\ DOMAIN u = 1..l /\ DOMAIN v = 1..l - 1
        /\ \A i \in 1..l - 1 : v[i] = u[i + 1]
        /\ \A i \in 1..l : u[i] \in 1..Len(a)
    OBVIOUS
  <1>2. v \in Seq(1..Len(a)) /\ Len(v) = l - 1
    BY HeadTailProperties
  <1>3. DOMAIN a = 1..Len(a) /\ Len(a) \in Nat
    OBVIOUS
  <1> HIDE DEF l, v
  <1>4. \A i, j \in 1..l : i < j => u[i] < u[j]
    BY <1>1 DEF IsTheEnd
  <1>5. ASSUME NEW i \in DOMAIN v, NEW j \in DOMAIN v, i < j PROVE v[i] < v[j]
    <2>0. i \in 1..l - 1 /\ j \in 1..l - 1
      BY <1>1
    <2>1. i + 1 \in 1..l /\ j + 1 \in 1..l /\ i + 1 < j + 1 /\ v[i] = u[i + 1] /\ v[j] = u[j + 1]
      <3>0. l \in Nat
        BY <1>1
      <3>1. \A k \in 1..l - 1 : k + 1 \in 1..l /\ k \in Nat
        BY <3>0
      <3>2. i + 1 < j + 1
        BY <1>5, <2>0, <3>1
      <3> QED BY <1>1, <2>0, <3>1, <3>2
    <2> QED BY <1>4, <2>1
  <1>6. ASSUME NEW i \in DOMAIN v PROVE ~a[v[i]].undone
    <2>1. i + 1 \in DOMAIN u /\ v[i] = u[i + 1]
      BY <1>1
    <2> QED BY <2>1 DEF IsTheEnd
  <1>7. ASSUME NEW n \in DOMAIN a, ~a[n].undone
        PROVE  n \in Range(v) \/ \A i \in DOMAIN v : n < v[i]
    <2>1. \A i \in DOMAIN v : i + 1 \in 1..l /\ v[i] = u[i + 1] /\ 1 \in 1..l /\ 1 < i + 1
      BY <1>1
    <2>2. n \in Range(u) \/ \A i \in 1..l : n < u[i]
      BY <1>1, <1>7 DEF IsTheEnd
    <2>3. CASE \A i \in 1..l : n < u[i]
      BY <2>1, <2>3
    <2>4. CASE n \in Range(u)
      <3>1. PICK i \in 1..l : u[i] = n
        BY <1>1, <2>4 DEF Range
      <3>2. CASE i = 1
        BY <1>4, <2>1, <3>1, <3>2
      <3>3. CASE i # 1
        <4>1. i - 1 \in DOMAIN v /\ v[i - 1] = n
          BY <1>1, <3>1, <3>3
        <4> QED BY <4>1 DEF Range
      <3> QED BY <3>2, <3>3
    <2> QED BY <2>2, <2>3, <2>4
  <1>8. IsTheEnd(a, v)
    BY <1>5, <1>6, <1>7 DEF IsTheEnd
  <1> QED BY <1>2, <1>8 DEF l, v

(* A function of 1..k is a sequence.                                       *)
LEMMA SeqOfFunction ==
  ASSUME NEW S, NEW k \in Nat, NEW f, \A i \in 1..k : f[i] \in S
  PROVE  [i \in 1..k |-> f[i]] \in Seq(S)
  OBVIOUS

Undone(a, k) == [a EXCEPT ![k].undone = TRUE]

(* The newest entry is undone and leaves the stack.                        *)
LEMMA EndUndo ==
  ASSUME NEW a \in Seq(Logs), NEW u \in Seq(1..Len(a)), IsTheEnd(a, u), u # <<>>,
         NEW b, b = Undone(a, Last(u))
  PROVE  /\ b \in Seq(Logs) /\ Len(b) = Len(a)
         /\ \A i \in DOMAIN a : b[i].task = a[i].task
         /\ Front(u) \in Seq(1..Len(a)) /\ Len(Front(u)) = Len(u) - 1
         /\ IsTheEnd(b, Front(u))
  <1> DEFINE m == Len(a)
             l == Len(u)
             v == Front(u)
             h == u[l]
  <1>1. /\ l \in Nat /\ l >= 1 /\ DOMAIN u = 1..l /\ m \in Nat /\ DOMAIN a = 1..m
        /\ \A i \in 1..l : u[i] \in 1..m
        /\ \A i \in 1..m : a[i] \in Logs
    OBVIOUS
  <1>2. h \in 1..m
    BY <1>1
  <1>3. /\ v \in Seq(1..m) /\ Len(v) = l - 1
        /\ \A i \in 1..l - 1 : v[i] = u[i]
    <2>1. 1 \in Int /\ l - 1 \in Int /\ \A i \in 1..l - 1 : u[i] \in 1..m
      BY <1>1
    <2> DEFINE w == SubSeq(u, 1, l - 1)
    <2>2. /\ w \in Seq(1..m) /\ Len(w) = (IF 1 <= l - 1 THEN l - 1 - 1 + 1 ELSE 0)
          /\ \A i \in 1..l - 1 - 1 + 1 : w[i] = u[1 + i - 1]
      BY <2>1, SubSeqProperties
    <2>3. v = w
      BY DEF Front
    <2> HIDE DEF w, v, l, m
    <2>4. Len(w) = l - 1
      BY <1>1, <2>2
    <2>5. \A i \in 1..l - 1 : i \in 1..l - 1 - 1 + 1 /\ 1 + i - 1 = i
      BY <1>1
    <2>6. \A i \in 1..l - 1 : w[i] = u[i]
      BY <2>2, <2>5
    <2> QED BY <2>2, <2>3, <2>4, <2>6
  <1>4. DOMAIN v = 1..l - 1
    BY <1>3
  <1>5. b = [a EXCEPT ![h] = [@ EXCEPT !.undone = TRUE]]
    BY DEF Last, Undone
  <1>6. /\ DOMAIN b = 1..m
        /\ \A i \in 1..m : b[i] = IF i = h THEN [a[h] EXCEPT !.undone = TRUE] ELSE a[i]
    BY <1>1, <1>2, <1>5
  <1> HIDE DEF m, l, v, h
  <1>7. \A i \in 1..m : b[i] \in Logs /\ b[i].task = a[i].task /\ (i # h => b[i] = a[i])
    BY <1>1, <1>2, <1>6 DEF Logs
  <1>8. b \in Seq(Logs) /\ Len(b) = m
    <2>1. b = [i \in 1..m |-> b[i]]
      <3>1. b = [i \in DOMAIN a |-> IF i = h THEN [a[h] EXCEPT !.undone = TRUE] ELSE a[i]]
        BY <1>1, <1>2, <1>5
      <3> DEFINE f == [i \in 1..m |-> IF i = h THEN [a[h] EXCEPT !.undone = TRUE] ELSE a[i]]
      <3>2. b = f
        BY <1>1, <3>1
      <3>3. f = [i \in 1..m |-> f[i]]
        OBVIOUS
      <3> QED BY <3>2, <3>3
    <2>2. [i \in 1..m |-> b[i]] \in Seq(Logs)
      <3>1. \A i \in 1..m : b[i] \in Logs
        BY <1>7
      <3>2. m \in Nat
        BY <1>1
      <3> QED BY ONLY <3>1, <3>2, SeqOfFunction
    <2>3. b \in Seq(Logs)
      BY <2>1, <2>2
    <2>4. Len(b) \in Nat /\ 1..Len(b) = 1..m
      BY <1>6, <2>3
    <2>5. Len(b) = m
      <3>1. \A i : i \in 1..Len(b) <=> i \in 1..m
        BY <2>4
      <3>2. m + 1 \notin 1..m /\ Len(b) + 1 \notin 1..Len(b)
        BY <1>1, <2>4
      <3>3. ~(Len(b) < m) /\ ~(m < Len(b))
        <4>1. Len(b) < m => Len(b) + 1 \in 1..m
          BY <1>1, <2>4
        <4>2. m < Len(b) => m + 1 \in 1..Len(b)
          BY <1>1, <2>4
        <4> QED BY <3>1, <3>2, <4>1, <4>2
      <3> QED BY <1>1, <2>4, <3>3
    <2> QED BY <2>3, <2>5
  <1>9. \A i, j \in 1..l : i < j => u[i] < u[j]
    BY <1>1 DEF IsTheEnd
  <1>10. \A i \in 1..l - 1 : i \in 1..l /\ v[i] = u[i] /\ u[i] \in 1..m /\ u[i] < h
    <2> SUFFICES ASSUME NEW i \in 1..l - 1 PROVE i \in 1..l /\ v[i] = u[i] /\ u[i] \in 1..m /\ u[i] < h
      OBVIOUS
    <2>1. i \in 1..l /\ l \in 1..l /\ i < l
      BY <1>1
    <2> QED BY <1>1, <1>3, <1>9, <2>1 DEF h
  <1>11. \A i, j \in DOMAIN v : i < j => v[i] < v[j]
    BY <1>4, <1>9, <1>10
  <1>12. ASSUME NEW i \in DOMAIN v PROVE ~b[v[i]].undone
    <2>1. i \in 1..l /\ v[i] = u[i] /\ u[i] \in 1..m /\ u[i] < h /\ h \in 1..m
      BY <1>2, <1>4, <1>10
    <2>2. u[i] # h
      BY <2>1
    <2> QED BY <1>1, <1>7, <2>1, <2>2 DEF IsTheEnd
  <1>13. ASSUME NEW n \in DOMAIN b, ~b[n].undone
         PROVE  n \in Range(v) \/ \A i \in DOMAIN v : n < v[i]
    <2>0. h \in 1..m /\ b[h].undone
      <3>1. b[h] = [a[h] EXCEPT !.undone = TRUE] /\ a[h] \in Logs
        BY <1>1, <1>2, <1>6
      <3> QED BY <1>2, <3>1 DEF Logs
    <2>1. n \in 1..m /\ n # h
      BY <1>6, <1>13, <2>0
    <2>2. n \in Range(u) \/ \A i \in 1..l : n < u[i]
      BY <1>1, <1>7, <1>13, <2>1 DEF IsTheEnd
    <2>3. CASE n \in Range(u)
      <3>1. PICK i \in 1..l : u[i] = n
        BY <1>1, <2>3 DEF Range
      <3>2. i # l
        BY <2>1, <3>1 DEF h
      <3>3. i \in DOMAIN v /\ v[i] = n
        BY <1>1, <1>4, <1>10, <3>1, <3>2
      <3> QED BY <3>3 DEF Range
    <2>4. CASE \A i \in 1..l : n < u[i]
      BY <1>4, <1>10, <2>4
    <2> QED BY <2>2, <2>3, <2>4
  <1>14. IsTheEnd(b, v)
    BY <1>11, <1>12, <1>13 DEF IsTheEnd
  <1> QED BY <1>1, <1>3, <1>7, <1>8, <1>14 DEF m, v, l

Hands == {runner[r].item.task : r \in {s \in Runner : Handling(s)}}

(* Inductive: every task that was added is in exactly one place, and at    *)
(* most one caller has one in hand, while the queue is being processed.    *)
TasksApart ==
  /\ \A r \in Runner : Handling(r) => processing /\ runner[r].item.task # 0
  /\ \A r, s \in Runner : Handling(r) /\ Handling(s) => r = s
  /\ Distinct(tasks) /\ Distinct(audit)
  /\ Names(tasks) \union Hands \union Names(audit) \union cancelled = 1..added
  /\ Names(tasks) \intersect (Hands \union Names(audit) \union cancelled) = {}
  /\ Hands \intersect (Names(audit) \union cancelled) = {}
  /\ Names(audit) \intersect cancelled = {}

VerificationInv ==
  VerificationTypeOK /\ TasksApart /\ UndoIsTheEnd /\ Sorted(tasks)

(* process_queue() goes on with queue q: it has its head in hand, or       *)
(* nothing, and nothing of q is lost or doubled.                           *)
LEMMA ProceedKeeps ==
  ASSUME NEW r \in Runner, NEW q \in Seq(Item), NEW n \in Nat, Proceed(r, q, n),
         runner \in [Runner -> [item : Item, count : 0..Batch]],
         \A s \in Runner : Handling(s) => s = r,
         Distinct(q), Sorted(q), 0 \notin Names(q)
  PROVE  /\ tasks' \in Seq(Item) /\ processing' \in BOOLEAN
         /\ runner' \in [Runner -> [item : Item, count : 0..Batch]]
         /\ Distinct(tasks') /\ Sorted(tasks')
         /\ \A s \in Runner : runner'[s] # Resting =>
              s = r /\ processing' /\ runner'[s].item.task # 0
         /\ Names(tasks') \union Hands' = Names(q)
         /\ Names(tasks') \intersect Hands' = {}
  <1>0. Batch \in Nat /\ MaxTasks \in Nat
    BY VerificationAssumption
  <1>1. CASE q # <<>> /\ n < Batch
    <2>1. /\ tasks' = Tail(q) /\ processing' = TRUE
          /\ runner' = [runner EXCEPT ![r] = [item |-> Head(q), count |-> n]]
      BY <1>1 DEF Proceed
    <2>2. /\ Head(q) \in Item /\ Tail(q) \in Seq(Item)
          /\ Names(q) = Names(Tail(q)) \union {Head(q).task}
          /\ Distinct(Tail(q)) /\ Head(q).task \notin Names(Tail(q))
          /\ Sorted(Tail(q))
      BY <1>1, TailFits
    <2>3. n \in 0..Batch
      BY <1>0, <1>1
    <2>4. /\ runner'[r] = [item |-> Head(q), count |-> n]
          /\ \A s \in Runner : s # r => runner'[s] = runner[s]
      BY <2>1
    <2>5. runner' \in [Runner -> [item : Item, count : 0..Batch]]
      BY <2>1, <2>2, <2>3
    <2>6. Head(q).task # 0
      BY <2>2
    <2>7. runner'[r] # Resting
      BY <2>4, <2>6 DEF Resting, NoTask
    <2>8. \A s \in Runner : runner'[s] # Resting => s = r
      BY <2>4 DEF Handling
    <2>9. \A x : x \in Hands' <=> x = Head(q).task
      <3>1. Hands' = {runner'[s].item.task : s \in {s \in Runner : runner'[s] # Resting}}
        BY DEF Hands, Handling
      <3>2. runner'[r].item.task = Head(q).task
        BY <2>4
      <3> QED BY <2>7, <2>8, <3>1, <3>2
    <2> QED BY <2>1, <2>2, <2>4, <2>5, <2>6, <2>8, <2>9
  <1>2. CASE ~(q # <<>> /\ n < Batch)
    <2>1. /\ tasks' = q /\ processing' = FALSE
          /\ runner' = [runner EXCEPT ![r] = Resting]
      BY <1>2 DEF Proceed
    <2>2. Resting \in [item : Item, count : 0..Batch]
      BY <1>0 DEF Resting, NoTask, Item, Low, Priority
    <2>3. \A s \in Runner : runner'[s] = Resting
      BY <2>1 DEF Handling
    <2>4. runner' \in [Runner -> [item : Item, count : 0..Batch]]
      BY <2>1, <2>2
    <2>5. Hands' = {}
      BY <2>3 DEF Hands, Handling
    <2> QED BY <2>1, <2>3, <2>4, <2>5
  <1> QED BY <1>1, <1>2

(* Where there is one caller with a task in hand, that task is Hands.      *)
LEMMA OneHand ==
  ASSUME TasksApart, NEW r \in Runner, Handling(r)
  PROVE  Hands = {runner[r].item.task} /\ \A s \in Runner : Handling(s) => s = r
  BY DEF TasksApart, Hands

(* The number of the next task is nobody's yet.                            *)
LEMMA AddedIsNew ==
  ASSUME VerificationTypeOK, TasksApart, added < MaxTasks
  PROVE  /\ added + 1 \in 1..MaxTasks /\ added \in Nat
         /\ 1..added + 1 = (1..added) \union {added + 1}
         /\ \A t \in 1..added : t < added + 1 /\ t # 0
         /\ added + 1 \notin 1..added
  <1>1. added \in 0..MaxTasks /\ MaxTasks \in Nat
    BY VerificationAssumption DEF VerificationTypeOK
  <1> QED BY <1>1

(* An empty queue with nobody at work.                                     *)
LEMMA AccountsInit == VerificationInit => VerificationInv
  <1> SUFFICES ASSUME VerificationInit PROVE VerificationInv
    OBVIOUS
  <1> USE DEF VerificationInit
  <1>0. /\ MaxTasks \in Nat /\ Batch \in Nat /\ MaxFailures \in Nat /\ UndoDepth \in Nat
    BY VerificationAssumption
  <1>1. VerificationTypeOK
    <2>1. /\ 0 \in 0..MaxTasks /\ 0 \in 0..Batch /\ 0 \in 0..MaxFailures
          /\ Low \in Priority /\ 0 <= UndoDepth
      BY <1>0 DEF Low, Priority
    <2>2. NoTask \in [task : 0..MaxTasks, priority : Priority, failed : BOOLEAN]
      BY <2>1 DEF NoTask
    <2>3. Resting \in [item : [task : 0..MaxTasks, priority : Priority, failed : BOOLEAN],
                       count : 0..Batch]
      BY <2>1, <2>2 DEF Resting
    <2>4. /\ runner \in [Runner -> [item : [task : 0..MaxTasks, priority : Priority,
                                             failed : BOOLEAN], count : 0..Batch]]
          /\ processing \in BOOLEAN /\ cancelled \subseteq 1..MaxTasks
      BY <2>3
    <2>5. /\ added \in 0..MaxTasks /\ failures \in 0..MaxFailures
          /\ Len(undo) <= UndoDepth
      BY <2>1
    <2>6. \A S : tasks \in Seq(S) /\ audit \in Seq(S) /\ undo \in Seq(S)
      OBVIOUS
    <2> QED BY <2>4, <2>5, <2>6 DEF VerificationTypeOK
  <1>2. \A r \in Runner : ~Handling(r)
    BY DEF Handling
  <1>3. Names(tasks) = {} /\ Names(audit) = {} /\ Hands = {} /\ 1..added = {}
    BY <1>2 DEF Names, Hands
  <1>4. TasksApart
    BY <1>2, <1>3 DEF TasksApart, Distinct
  <1>5. UndoIsTheEnd /\ Sorted(tasks)
    BY DEF UndoIsTheEnd, Sorted
  <1> QED BY <1>1, <1>4, <1>5 DEF VerificationInv

(* add_task() queues a new task in its place.                              *)
LEMMA AddTaskKeeps ==
  ASSUME VerificationInv, NEW p \in Priority, AddTask(p)
  PROVE  VerificationInv'
  <1> DEFINE x == [task |-> added + 1, priority |-> p, failed |-> FALSE]
             lower == {i \in DOMAIN tasks : Outranks(p, tasks[i].priority)}
  <1>1. /\ added < MaxTasks /\ added' = added + 1
        /\ runner' = runner /\ processing' = processing /\ audit' = audit /\ undo' = undo
        /\ failures' = failures /\ cancelled' = cancelled
    BY DEF AddTask
  <1>2. /\ added + 1 \in 1..MaxTasks /\ added \in Nat
        /\ 1..added + 1 = (1..added) \union {added + 1}
        /\ \A t \in 1..added : t < added + 1 /\ t # 0
        /\ added + 1 \notin 1..added
    BY <1>1, AddedIsNew DEF VerificationInv
  <1>3. /\ tasks \in Seq(Item) /\ Sorted(tasks) /\ Distinct(tasks)
        /\ Names(tasks) \subseteq 1..added
    BY DEF VerificationInv, VerificationTypeOK, Item, TasksApart
  <1>4. x \in Item
    <2>1. added + 1 \in 0..MaxTasks
      BY <1>2
    <2> QED BY <2>1 DEF Item
  <1>5. \A i \in DOMAIN tasks : tasks[i].task < x.task
    BY <1>2, <1>3 DEF Names
  <1>6. \A i \in DOMAIN tasks : tasks[i] \in Item /\ tasks[i].priority \in Nat
    BY <1>3, ItemFields
  <1>7. p \in Nat /\ x.priority = p /\ x.task = added + 1 /\ ~x.failed
    BY DEF Priority
  <1>8. x.task \notin Names(tasks)
    BY <1>2, <1>3
  <1>9. /\ tasks' \in Seq(Item) /\ Names(tasks') = Names(tasks) \union {added + 1}
        /\ Distinct(tasks') /\ Sorted(tasks')
    <2>1. CASE lower = {}
      <3>1. tasks' = Append(tasks, x)
        BY <2>1 DEF AddTask
      <3>2. \A i \in DOMAIN tasks : tasks[i].priority >= x.priority
        BY <1>6, <1>7, <2>1 DEF Outranks
      <3> HIDE DEF x
      <3>3. Append(tasks, x) \in Seq(Item) /\ Sorted(Append(tasks, x))
        BY <1>3, <1>4, <1>5, <3>2, RequeuedSorted
      <3>4. /\ Names(Append(tasks, x)) = Names(tasks) \union {x.task}
            /\ Distinct(Append(tasks, x))
        BY <1>3, <1>8, AppendNames
      <3> QED BY <1>7, <3>1, <3>3, <3>4
    <2>2. CASE lower # {}
      <3> DEFINE k == CHOOSE i \in lower : \A j \in lower : i <= j
      <3>1. tasks' = InsertAt(tasks, k, x)
        BY <2>2 DEF AddTask
      <3>2. lower \in SUBSET Int /\ IsFiniteSet(lower)
        <4>1. Len(tasks) \in Nat /\ DOMAIN tasks = 1..Len(tasks) /\ lower \subseteq 1..Len(tasks)
          BY <1>3
        <4>2. IsFiniteSet(1..Len(tasks)) /\ 1..Len(tasks) \subseteq Int
          BY <4>1, FS_Interval
        <4> QED BY <4>1, <4>2, FS_Subset
      <3>3. \E i \in lower : \A j \in lower : i <= j
        <4> HIDE DEF lower
        <4> QED BY <2>2, <3>2, LeastIn
      <3>4. k \in lower /\ \A j \in lower : k <= j
        <4> HIDE DEF lower
        <4> QED BY <3>3
      <3> HIDE DEF k
      <3>5. k \in DOMAIN tasks /\ x.priority > tasks[k].priority
        BY <1>7, <3>4 DEF Outranks
      <3>6. ASSUME NEW i \in DOMAIN tasks, i < k PROVE tasks[i].priority >= x.priority
        <4>1. DOMAIN tasks \subseteq Int
          BY <1>3
        <4>2. i \notin lower
          <5> HIDE DEF lower
          <5> QED BY <3>2, <3>4, <3>6, <4>1
        <4> QED BY <1>6, <1>7, <4>2 DEF Outranks
      <3> HIDE DEF x, lower
      <3>7. /\ InsertAt(tasks, k, x) \in Seq(Item)
            /\ Names(InsertAt(tasks, k, x)) = Names(tasks) \union {x.task}
            /\ Distinct(InsertAt(tasks, k, x)) /\ Sorted(InsertAt(tasks, k, x))
        BY <1>3, <1>4, <1>5, <1>7, <3>5, <3>6, InsertFits
      <3> QED BY <1>7, <3>1, <3>7
    <2> QED BY <2>1, <2>2
  <1>10. Hands' = Hands /\ \A r \in Runner : Handling(r)' = Handling(r)
    BY <1>1 DEF Hands, Handling
  <1>11. VerificationTypeOK'
    <2>1. added' \in 0..MaxTasks
      BY <1>1, <1>2
    <2> QED BY <1>1, <1>9, <2>1 DEF VerificationInv, VerificationTypeOK, Item
  <1>12. TasksApart'
    <2>1. added + 1 \notin Hands \union Names(audit) \union cancelled
      BY <1>2 DEF VerificationInv, TasksApart
    <2>2. /\ Names(tasks') \union Hands \union Names(audit) \union cancelled = 1..added + 1
          /\ Names(tasks') \intersect (Hands \union Names(audit) \union cancelled) = {}
      BY <1>2, <1>9, <2>1 DEF VerificationInv, TasksApart
    <2> QED BY <1>1, <1>9, <1>10, <2>2 DEF VerificationInv, TasksApart, Handling
  <1>13. UndoIsTheEnd'
    BY <1>1 DEF VerificationInv, UndoIsTheEnd
  <1> QED BY <1>9, <1>11, <1>12, <1>13 DEF VerificationInv

(* A caller finds nobody at work and takes the head of the queue.          *)
LEMMA ProcessQueueKeeps ==
  ASSUME VerificationInv, NEW r \in Runner, ProcessQueue(r)
  PROVE  VerificationInv'
  <1>1. /\ ~processing /\ Proceed(r, tasks, 0)
        /\ audit' = audit /\ undo' = undo /\ added' = added
        /\ failures' = failures /\ cancelled' = cancelled
    BY DEF ProcessQueue
  <1>2. \A s \in Runner : ~Handling(s)
    BY <1>1 DEF VerificationInv, TasksApart
  <1>3. Hands = {}
    BY <1>2 DEF Hands
  <1>4. /\ tasks \in Seq(Item) /\ Sorted(tasks) /\ Distinct(tasks)
        /\ runner \in [Runner -> [item : Item, count : 0..Batch]]
        /\ Names(tasks) \subseteq 1..added
    BY DEF VerificationInv, VerificationTypeOK, Item, TasksApart
  <1>5. 0 \notin Names(tasks) /\ 0 \in Nat
    <2>1. 0 \notin 1..added
      BY DEF VerificationInv, VerificationTypeOK
    <2> QED BY <1>4, <2>1
  <1>6. /\ tasks' \in Seq(Item) /\ processing' \in BOOLEAN
        /\ runner' \in [Runner -> [item : Item, count : 0..Batch]]
        /\ Distinct(tasks') /\ Sorted(tasks')
        /\ \A s \in Runner : runner'[s] # Resting =>
             s = r /\ processing' /\ runner'[s].item.task # 0
        /\ Names(tasks') \union Hands' = Names(tasks)
        /\ Names(tasks') \intersect Hands' = {}
    BY <1>1, <1>2, <1>4, <1>5, ProceedKeeps
  <1>7. VerificationTypeOK'
    BY <1>1, <1>6 DEF VerificationInv, VerificationTypeOK, Item
  <1>8. TasksApart'
    <2>1. /\ Names(tasks') \union Hands' \union Names(audit) \union cancelled = 1..added
          /\ Names(tasks') \intersect (Hands' \union Names(audit) \union cancelled) = {}
          /\ Hands' \intersect (Names(audit) \union cancelled) = {}
          /\ Names(audit) \intersect cancelled = {} /\ Distinct(audit)
      BY <1>3, <1>6 DEF VerificationInv, TasksApart
    <2>2. /\ \A s \in Runner : Handling(s)' => processing' /\ runner'[s].item.task # 0
          /\ \A s, t \in Runner : Handling(s)' /\ Handling(t)' => s = t
      BY <1>6 DEF Handling
    <2> QED BY <1>1, <1>6, <2>1, <2>2 DEF TasksApart
  <1>9. UndoIsTheEnd'
    BY <1>1 DEF VerificationInv, UndoIsTheEnd
  <1> QED BY <1>6, <1>7, <1>8, <1>9 DEF VerificationInv

(* The handler returned True: its task is logged and can be undone.        *)
LEMMA HandlerSucceedsKeeps ==
  ASSUME VerificationInv, NEW r \in Runner, HandlerSucceeds(r)
  PROVE  VerificationInv'
  <1> DEFINE x == [task |-> runner[r].item.task, undone |-> FALSE]
             u == Append(undo, Len(audit) + 1)
             n == runner[r].count + 1
  <1>1. /\ Handling(r) /\ Proceed(r, tasks, n)
        /\ audit' = Append(audit, x)
        /\ undo' = IF Len(u) > UndoDepth THEN Tail(u) ELSE u
        /\ added' = added /\ failures' = failures /\ cancelled' = cancelled
    BY DEF HandlerSucceeds
  <1>2. Hands = {x.task} /\ \A s \in Runner : Handling(s) => s = r
    BY <1>1, OneHand DEF VerificationInv
  <1>3. /\ tasks \in Seq(Item) /\ Sorted(tasks) /\ Distinct(tasks)
        /\ runner \in [Runner -> [item : Item, count : 0..Batch]]
        /\ Names(tasks) \subseteq 1..added
        /\ audit \in Seq(Logs) /\ Distinct(audit)
        /\ undo \in Seq(1..Len(audit)) /\ Len(undo) <= UndoDepth /\ IsTheEnd(audit, undo)
    BY DEF VerificationInv, VerificationTypeOK, Item, Logs, TasksApart, UndoIsTheEnd, IsTheEnd
  <1>4. 0 \notin Names(tasks) /\ n \in Nat
    <2>1. 0 \notin 1..added
      BY DEF VerificationInv, VerificationTypeOK
    <2>2. Batch \in Nat
      BY VerificationAssumption
    <2>3. runner[r].count \in 0..Batch
      BY <1>3
    <2> QED BY <1>3, <2>1, <2>2, <2>3
  <1>5. /\ tasks' \in Seq(Item) /\ processing' \in BOOLEAN
        /\ runner' \in [Runner -> [item : Item, count : 0..Batch]]
        /\ Distinct(tasks') /\ Sorted(tasks')
        /\ \A s \in Runner : runner'[s] # Resting =>
             s = r /\ processing' /\ runner'[s].item.task # 0
        /\ Names(tasks') \union Hands' = Names(tasks)
        /\ Names(tasks') \intersect Hands' = {}
    <2> HIDE DEF n
    <2> QED BY <1>1, <1>2, <1>3, <1>4, ProceedKeeps
  <1>6. x \in Logs /\ x.task \in 1..added /\ x.task \notin Names(audit)
    <2>1. x.task \in 1..added /\ x.task \notin Names(audit)
      BY <1>2 DEF VerificationInv, TasksApart
    <2>2. 1..added \subseteq 1..MaxTasks
      BY VerificationAssumption DEF VerificationInv, VerificationTypeOK
    <2> QED BY <2>1, <2>2 DEF Logs
  <1>7. ~x.undone /\ Len(audit) \in Nat /\ UndoDepth \in Nat
    BY <1>3, VerificationAssumption
  <1> HIDE DEF x
  <1>8. /\ audit' \in Seq(Logs) /\ u \in Seq(1..Len(audit) + 1)
        /\ IsTheEnd(audit', u)
    BY <1>1, <1>3, <1>6, <1>7, EndAppend
  <1>9. Len(audit') = Len(audit) + 1 /\ Len(u) = Len(undo) + 1
    BY <1>1, <1>3
  <1>10. Names(audit') = Names(audit) \union {x.task} /\ Distinct(audit')
    BY <1>1, <1>3, <1>6, AppendNames
  <1>11. /\ undo' \in Seq(1..Len(audit')) /\ Len(undo') <= UndoDepth
         /\ IsTheEnd(audit', undo')
    <2> HIDE DEF u
    <2>1. CASE Len(u) > UndoDepth
      <3>1. undo' = Tail(u) /\ u # <<>>
        BY <1>1, <1>7, <2>1
      <3>2. u \in Seq(1..Len(audit'))
        BY <1>8, <1>9
      <3>3. /\ Tail(u) \in Seq(1..Len(audit')) /\ Len(Tail(u)) = Len(u) - 1
            /\ IsTheEnd(audit', Tail(u))
        BY <1>8, <3>1, <3>2, EndTail
      <3>4. Len(undo') <= UndoDepth
        <4>1. Len(undo) \in Nat /\ Len(u) - 1 = Len(undo)
          BY <1>3, <1>9
        <4> QED BY <1>3, <3>1, <3>3, <4>1
      <3> QED BY <3>1, <3>3, <3>4
    <2>2. CASE ~(Len(u) > UndoDepth)
      <3>1. Len(undo) \in Nat
        BY <1>3
      <3> QED BY <1>1, <1>7, <1>8, <1>9, <2>2, <3>1
    <2> QED BY <2>1, <2>2
  <1>12. VerificationTypeOK'
    BY <1>1, <1>5, <1>8, <1>11 DEF VerificationInv, VerificationTypeOK, Item, Logs
  <1>13. TasksApart'
    <2>1. /\ Names(tasks') \union Hands' \union Names(audit') \union cancelled = 1..added
          /\ Names(tasks') \intersect (Hands' \union Names(audit') \union cancelled) = {}
          /\ Hands' \intersect (Names(audit') \union cancelled) = {}
          /\ Names(audit') \intersect cancelled = {}
      BY <1>2, <1>5, <1>10 DEF VerificationInv, TasksApart
    <2>2. /\ \A s \in Runner : Handling(s)' => processing' /\ runner'[s].item.task # 0
          /\ \A s, t \in Runner : Handling(s)' /\ Handling(t)' => s = t
      BY <1>5 DEF Handling
    <2> QED BY <1>1, <1>5, <1>10, <2>1, <2>2 DEF TasksApart
  <1>14. UndoIsTheEnd'
    BY <1>11 DEF UndoIsTheEnd, IsTheEnd
  <1> QED BY <1>5, <1>12, <1>13, <1>14 DEF VerificationInv

(* The handler failed: its task goes to the end of the queue.              *)
LEMMA HandlerFailsKeeps ==
  ASSUME VerificationInv, NEW r \in Runner, HandlerFails(r)
  PROVE  VerificationInv'
  <1> DEFINE item == runner[r].item
             n == runner[r].count
  <1>1. PICK p \in {Low, IF item.priority > Low THEN item.priority - 1 ELSE Low} :
             Proceed(r, Requeued(item, p), n)
    BY DEF HandlerFails
  <1>2. /\ Handling(r) /\ failures < MaxFailures /\ failures' = failures + 1
        /\ audit' = audit /\ undo' = undo /\ added' = added /\ cancelled' = cancelled
    BY DEF HandlerFails
  <1>3. Hands = {item.task} /\ \A s \in Runner : Handling(s) => s = r
    BY <1>2, OneHand DEF VerificationInv
  <1>4. /\ tasks \in Seq(Item) /\ Sorted(tasks) /\ Distinct(tasks)
        /\ runner \in [Runner -> [item : Item, count : 0..Batch]]
        /\ Names(tasks) \subseteq 1..added /\ Hands \subseteq 1..added
        /\ Names(tasks) \intersect Hands = {}
        /\ failures \in 0..MaxFailures
    BY DEF VerificationInv, VerificationTypeOK, Item, TasksApart
  <1>5. item \in Item /\ n \in 0..Batch
    BY <1>4
  <1>6. p \in Priority
    <2>1. item.priority \in 1..3
      BY <1>5 DEF Item, Priority
    <2> QED BY <2>1 DEF Low, Priority
  <1> DEFINE x == [item EXCEPT !.priority = p, !.failed = TRUE]
  <1>7. x \in Item /\ x.task = item.task /\ x.failed
    BY <1>5, <1>6 DEF Item
  <1>8. 0 \notin Names(tasks) \union Hands /\ n \in Nat
    <2>1. 0 \notin 1..added
      BY DEF VerificationInv, VerificationTypeOK
    <2>2. Batch \in Nat
      BY VerificationAssumption
    <2> QED BY <1>4, <1>5, <2>1, <2>2
  <1> DEFINE q == Append(tasks, x)
  <1>9. Proceed(r, q, n)
    BY <1>1 DEF Requeued
  <1>10. q \in Seq(Item) /\ Sorted(q)
    <2> HIDE DEF x
    <2> QED BY <1>4, <1>7, RequeuedSorted
  <1>11. Names(q) = Names(tasks) \union Hands /\ Distinct(q)
    <2>1. x.task \notin Names(tasks)
      BY <1>3, <1>4, <1>7
    <2> HIDE DEF x
    <2>2. /\ Names(q) = Names(tasks) \union {x.task}
          /\ Distinct(q)
      BY <1>4, <2>1, AppendNames
    <2> QED BY <1>3, <1>7, <2>2
  <1> HIDE DEF q, n
  <1>12. 0 \notin Names(q)
    BY <1>8, <1>11
  <1>13. /\ tasks' \in Seq(Item) /\ processing' \in BOOLEAN
         /\ runner' \in [Runner -> [item : Item, count : 0..Batch]]
         /\ Distinct(tasks') /\ Sorted(tasks')
         /\ \A s \in Runner : runner'[s] # Resting =>
              s = r /\ processing' /\ runner'[s].item.task # 0
         /\ Names(tasks') \union Hands' = Names(q)
         /\ Names(tasks') \intersect Hands' = {}
    BY <1>3, <1>4, <1>8, <1>9, <1>10, <1>11, <1>12, ProceedKeeps
  <1>14. VerificationTypeOK'
    <2>1. failures' \in 0..MaxFailures
      BY <1>2, <1>4, VerificationAssumption
    <2> QED BY <1>2, <1>13, <2>1 DEF VerificationInv, VerificationTypeOK, Item
  <1>15. TasksApart'
    <2>1. /\ Names(tasks') \union Hands' \union Names(audit) \union cancelled = 1..added
          /\ Names(tasks') \intersect (Hands' \union Names(audit) \union cancelled) = {}
          /\ Hands' \intersect (Names(audit) \union cancelled) = {}
          /\ Names(audit) \intersect cancelled = {} /\ Distinct(audit)
      BY <1>11, <1>13 DEF VerificationInv, TasksApart
    <2>2. /\ \A s \in Runner : Handling(s)' => processing' /\ runner'[s].item.task # 0
          /\ \A s, t \in Runner : Handling(s)' /\ Handling(t)' => s = t
      BY <1>13 DEF Handling
    <2> QED BY <1>2, <1>13, <2>1, <2>2 DEF TasksApart
  <1>16. UndoIsTheEnd'
    BY <1>2 DEF VerificationInv, UndoIsTheEnd
  <1> QED BY <1>13, <1>14, <1>15, <1>16 DEF VerificationInv

(* The caller is cancelled and its task with it.                           *)
LEMMA HandlerCancelledKeeps ==
  ASSUME VerificationInv, NEW r \in Runner, HandlerCancelled(r)
  PROVE  VerificationInv'
  <1>1. /\ Handling(r) /\ failures < MaxFailures /\ failures' = failures + 1
        /\ cancelled' = cancelled \union {runner[r].item.task}
        /\ runner' = [runner EXCEPT ![r] = Resting] /\ processing' = FALSE
        /\ tasks' = tasks /\ audit' = audit /\ undo' = undo /\ added' = added
    BY DEF HandlerCancelled
  <1>2. Hands = {runner[r].item.task} /\ \A s \in Runner : Handling(s) => s = r
    BY <1>1, OneHand DEF VerificationInv
  <1>3. runner \in [Runner -> [item : Item, count : 0..Batch]]
    BY DEF VerificationInv, VerificationTypeOK, Item
  <1>4. \A s \in Runner : runner'[s] = Resting
    BY <1>1, <1>2, <1>3 DEF Handling
  <1>5. Hands' = {} /\ \A s \in Runner : ~Handling(s)'
    BY <1>4 DEF Hands, Handling
  <1>6. /\ MaxTasks \in Nat /\ Batch \in Nat /\ MaxFailures \in Nat
        /\ failures \in 0..MaxFailures /\ added \in 0..MaxTasks
    BY VerificationAssumption DEF VerificationInv, VerificationTypeOK
  <1>7. runner' \in [Runner -> [item : Item, count : 0..Batch]]
    <2>1. Resting \in [item : Item, count : 0..Batch]
      BY <1>6 DEF Resting, NoTask, Item, Low, Priority
    <2> QED BY <1>1, <1>3, <2>1
  <1>8. VerificationTypeOK'
    <2>1. failures' \in 0..MaxFailures
      BY <1>1, <1>6
    <2>2. 1..added \subseteq 1..MaxTasks
      BY <1>6
    <2>3. cancelled' \subseteq 1..MaxTasks
      BY <1>1, <1>2, <2>2 DEF VerificationInv, TasksApart
    <2>4. processing' \in BOOLEAN
      BY <1>1
    <2> QED BY <1>1, <1>7, <2>1, <2>3, <2>4 DEF VerificationInv, VerificationTypeOK, Item
  <1>9. TasksApart'
    <2>1. /\ Names(tasks) \union Hands' \union Names(audit) \union cancelled' = 1..added
          /\ Names(tasks) \intersect (Hands' \union Names(audit) \union cancelled') = {}
          /\ Hands' \intersect (Names(audit) \union cancelled') = {}
          /\ Names(audit) \intersect cancelled' = {} /\ Distinct(audit) /\ Distinct(tasks)
      BY <1>1, <1>2, <1>5 DEF VerificationInv, TasksApart
    <2> QED BY <1>1, <1>5, <2>1 DEF TasksApart
  <1>10. UndoIsTheEnd' /\ Sorted(tasks')
    BY <1>1 DEF VerificationInv, UndoIsTheEnd
  <1> QED BY <1>8, <1>9, <1>10 DEF VerificationInv

(* undo_last_action() marks the newest of the log that is not undone.      *)
LEMMA UndoKeeps ==
  ASSUME VerificationInv, UndoLastAction
  PROVE  VerificationInv'
  <1>1. /\ undo # <<>> /\ undo' = Front(undo)
        /\ audit' = [audit EXCEPT ![Last(undo)].undone = TRUE]
        /\ tasks' = tasks /\ runner' = runner /\ processing' = processing
        /\ added' = added /\ failures' = failures /\ cancelled' = cancelled
    BY DEF UndoLastAction
  <1>2. /\ audit \in Seq(Logs) /\ undo \in Seq(1..Len(audit)) /\ Len(undo) <= UndoDepth
        /\ IsTheEnd(audit, undo)
    BY DEF VerificationInv, VerificationTypeOK, Logs, UndoIsTheEnd, IsTheEnd
  <1>3. /\ audit' \in Seq(Logs) /\ Len(audit') = Len(audit)
        /\ \A i \in DOMAIN audit : audit'[i].task = audit[i].task
        /\ undo' \in Seq(1..Len(audit)) /\ Len(undo') = Len(undo) - 1
        /\ IsTheEnd(audit', undo')
    <2>1. /\ audit' \in Seq(Logs) /\ Len(audit') = Len(audit)
          /\ \A i \in DOMAIN audit : audit'[i].task = audit[i].task
          /\ Front(undo) \in Seq(1..Len(audit)) /\ Len(Front(undo)) = Len(undo) - 1
          /\ IsTheEnd(audit', Front(undo))
      <3>1. audit' = Undone(audit, Last(undo)) /\ undo # <<>>
        BY <1>1 DEF Undone
      <3> QED BY ONLY <1>2, <3>1, EndUndo
    <2> QED BY <1>1, <2>1
  <1>4. DOMAIN audit' = DOMAIN audit
    BY <1>2, <1>3
  <1>5. Names(audit') = Names(audit) /\ (Distinct(audit) => Distinct(audit'))
    BY <1>3, <1>4 DEF Names, Distinct
  <1>6. Hands' = Hands /\ \A r \in Runner : Handling(r)' = Handling(r)
    BY <1>1 DEF Hands, Handling
  <1>7. Len(undo') <= UndoDepth
    BY <1>2, <1>3, VerificationAssumption
  <1>8. VerificationTypeOK'
    BY <1>1, <1>3, <1>7 DEF VerificationInv, VerificationTypeOK, Logs
  <1>9. TasksApart'
    BY <1>1, <1>5, <1>6 DEF VerificationInv, TasksApart, Handling
  <1>10. UndoIsTheEnd' /\ Sorted(tasks')
    BY <1>1, <1>3 DEF VerificationInv, UndoIsTheEnd, IsTheEnd
  <1> QED BY <1>8, <1>9, <1>10 DEF VerificationInv

(* A step of the queue, or of a part that leaves it alone.                 *)
LEMMA AccountsStep ==
  ASSUME VerificationInv, VerificationStep \/ UNCHANGED verification
  PROVE  VerificationInv'
  <1>1. CASE UNCHANGED verification
    <2> USE <1>1 DEF verification
    <2>1. VerificationTypeOK' /\ UndoIsTheEnd' /\ Sorted(tasks')
      BY DEF VerificationInv, VerificationTypeOK, UndoIsTheEnd
    <2>2. Hands' = Hands /\ \A r \in Runner : Handling(r)' = Handling(r)
      BY DEF Hands, Handling
    <2>3. TasksApart'
      BY <2>2 DEF VerificationInv, TasksApart, Handling
    <2> QED BY <2>1, <2>3 DEF VerificationInv
  <1>2. CASE VerificationStep
    BY <1>2, AddTaskKeeps, ProcessQueueKeeps, HandlerSucceedsKeeps, HandlerFailsKeeps,
       HandlerCancelledKeeps, UndoKeeps DEF VerificationStep
  <1> QED BY <1>1, <1>2

(* How often a task is in a queue or a log.                                *)
LEMMA OnceOrNever ==
  ASSUME NEW q, Distinct(q), NEW t
  PROVE  Cardinality({i \in DOMAIN q : q[i].task = t}) = IF t \in Names(q) THEN 1 ELSE 0
  <1>1. CASE t \in Names(q)
    <2>1. PICK i \in DOMAIN q : q[i].task = t
      BY <1>1 DEF Names
    <2>2. {j \in DOMAIN q : q[j].task = t} = {i}
      BY <2>1 DEF Distinct
    <2> QED BY <1>1, <2>2, FS_Singleton
  <1>2. CASE t \notin Names(q)
    <2>1. {j \in DOMAIN q : q[j].task = t} = {}
      BY <1>2 DEF Names
    <2> QED BY <1>2, <2>1, FS_EmptySet
  <1> QED BY <1>1, <1>2

(* TasksAccounted: no task is lost or handled twice, through failures,     *)
(* batches and concurrent callers of process_queue(); what can be undone   *)
(* is the end of what is not undone, and the newest goes first; and the    *)
(* queue serves fresh tasks by priority, in the order they came.           *)
THEOREM TasksAreAccounted == Spec => []TasksAccounted
  <1>1. Init => VerificationInv
    BY AccountsInit DEF Init
  <1>2. VerificationInv /\ [Next]_vars => VerificationInv'
    BY OnePartMoves, AccountsStep
  <1>3. ASSUME VerificationInv PROVE TasksAccounted
    <2>1. ASSUME NEW t \in 1..added
          PROVE  Cardinality(Queued(t)) + Cardinality(Held(t)) + Cardinality(Logged(t))
                   = IF t \in cancelled THEN 0 ELSE 1
      <3>1. /\ Cardinality(Queued(t)) = (IF t \in Names(tasks) THEN 1 ELSE 0)
            /\ Cardinality(Logged(t)) = (IF t \in Names(audit) THEN 1 ELSE 0)
        BY <1>3, OnceOrNever DEF VerificationInv, TasksApart, Queued, Logged
      <3>2. t # 0
        BY <1>3, <2>1 DEF VerificationInv, VerificationTypeOK
      <3>3. \A r \in Runner : runner[r].item.task = t => Handling(r)
        BY <3>2 DEF Handling, Resting, NoTask
      <3>4. Cardinality(Held(t)) = IF t \in Hands THEN 1 ELSE 0
        <4>1. CASE t \in Hands
          <5>1. PICK r \in Runner : Handling(r) /\ runner[r].item.task = t
            BY <4>1 DEF Hands
          <5>2. Held(t) = {r}
            BY <1>3, <3>3, <5>1 DEF Held, VerificationInv, TasksApart
          <5> QED BY <4>1, <5>2, FS_Singleton
        <4>2. CASE t \notin Hands
          <5>1. Held(t) = {}
            BY <3>3, <4>2 DEF Held, Hands
          <5> QED BY <4>2, <5>1, FS_EmptySet
        <4> QED BY <4>1, <4>2
      <3>5. /\ t \in Names(tasks) \/ t \in Hands \/ t \in Names(audit) \/ t \in cancelled
            /\ t \in Names(tasks) => t \notin Hands /\ t \notin Names(audit) /\ t \notin cancelled
            /\ t \in Hands => t \notin Names(audit) /\ t \notin cancelled
            /\ t \in Names(audit) => t \notin cancelled
        BY <1>3, <2>1 DEF VerificationInv, TasksApart
      <3> QED BY <3>1, <3>4, <3>5
    <2>2. FreshInOrder
      <3>1. \A i \in DOMAIN tasks : tasks[i].task \in Nat /\ tasks[i].priority \in Nat
        <4>0. tasks \in Seq(Item)
          BY <1>3 DEF VerificationInv, VerificationTypeOK, Item
        <4>1. \A i \in DOMAIN tasks : tasks[i] \in Item
          BY <4>0
        <4> QED BY <4>1, ItemFields
      <3> QED BY <1>3, <3>1 DEF VerificationInv, Sorted, FreshInOrder
    <2> QED BY <1>3, <2>1, <2>2 DEF VerificationInv, TasksAccounted
  <1> QED BY <1>1, <1>2, <1>3, PTL DEF Spec

-----------------------------------------------------------------------------
(* The drive scan.                                                         *)

(* Inductive.  A directory is listed by one walk and once, and its entries *)
(* go from the walk to the queue, the batch and the caller: an entry is in *)
(* one of these places only after its directory was listed, and in one     *)
(* only.                                                                   *)
Walker ==
  [at : {"off", "walk", "put", "last", "done"}, dirs : SUBSET (Drive \union Folder),
   files : SUBSET Entry, record : Entry \union {NoEntry}]

ScanTypes ==
  /\ producer \in [Drive -> Walker] /\ listed \in [Drive -> SUBSET (Drive \union Folder)]
  /\ here \in SUBSET Entry /\ moved \in SUBSET Entry /\ failed \in SUBSET (Drive \union Folder)
  /\ records \in Seq(Entry \union Drive) /\ Len(records) <= RecordQueue
  /\ buffer \in Seq(Entry) /\ Len(buffer) <= BatchSize
  /\ consumer \in {"idle", "draining"} => Len(buffer) < BatchSize
  /\ drained \in Nat
  /\ consumer \in {"idle", "draining", "yielding", "flushing", "ended", "dropped"}
  /\ handed \in [Entry -> Nat]

(* What a walk holds of the entries it has listed.                         *)
HeldBy(p) == p.files \union (IF p.at = "put" THEN {p.record} ELSE {})

(* A walk by itself: what it has yet to list hangs from what it has listed.*)
WalkFits(p, done, d) ==
  /\ p.dirs \subseteq Folder \union {d} /\ done \subseteq Folder \union {d}
  /\ p.at \notin {"walk", "put"} => p.dirs = {} /\ p.files = {}
  /\ p.at = "put" => p.record \in Entry /\ p.record \notin p.files
  /\ \A x \in p.dirs \union done : x \in Folder => In[x] \in done
  /\ \A x \in p.dirs : x \notin done
  /\ \A e \in HeldBy(p) : In[e] \in done

WalksFit ==
  /\ \A d \in Drive : WalkFits(producer[d], listed[d], d)
  /\ consumer = "idle" =>
       \A d \in Drive : producer[d].at = "off" /\ producer[d].dirs = {} /\ listed[d] = {}
  /\ consumer # "idle" =>
       \A d \in Drive \ failed : producer[d].at # "off" /\ d \in listed[d] \union producer[d].dirs

Apart ==
  \A d, c \in Drive : \A x \in producer[d].dirs \union listed[d] :
    x \in producer[c].dirs \union listed[c] => d = c

(* What has left the walks.                                                *)
Out == {e \in Entry : e \in Range(records) \/ e \in Range(buffer) \/ handed[e] # 0}

PlacesFit ==
  /\ IsInjective(records) /\ IsInjective(buffer)
  /\ \A e \in Out : \E d \in Drive : In[e] \in listed[d]
  /\ \A d \in Drive : \A e \in HeldBy(producer[d]) : e \notin Out
  /\ \A e \in Range(records) : e \notin Range(buffer)
  /\ \A e \in Entry : e \in Range(records) \/ e \in Range(buffer) => handed[e] = 0
  /\ \A e \in Entry : handed[e] <= 1

(* The last of the entries below A is followed by sentinel d.              *)
Closed(q, A, d) ==
  \A j \in DOMAIN q : q[j] \in Entry /\ In[q[j]] \in A => \E i \in DOMAIN q : j < i /\ q[i] = d

Ended == {d \in Drive : producer[d].at = "done"}

(* The sentinel of a drive comes after its entries, and once.              *)
SentinelsFit ==
  /\ \A d \in Drive : d \in Range(records) => d \in Ended
  /\ drained = Cardinality(Ended \ Range(records))
  /\ \A d \in Ended : Closed(records, listed[d], d)
  /\ consumer \in {"flushing", "ended"} => drained = Cardinality(Drive)
  /\ consumer = "ended" => buffer = <<>>
  /\ consumer = "idle" => records = <<>> /\ buffer = <<>>

(* Nothing is lost below a drive whose walk did not raise.                 *)
FoldersFit ==
  \A d \in Drive \ failed : \A s \in Folder \ Excluded :
    In[s] \in listed[d] => s \in listed[d] \union producer[d].dirs \union failed

EntriesFit ==
  \A d \in Drive \ failed : \A e \in (here \intersect Wanted) \ moved :
    In[e] \in listed[d] => e \in HeldBy(producer[d]) \union Out

ScanFits == WalksFit /\ Apart /\ PlacesFit /\ SentinelsFit /\ FoldersFit /\ EntriesFit

ScanInv == ScanTypes /\ ScanFits

(* A queue of different things that loses its head or gains one thing.     *)
LEMMA WithoutHead ==
  ASSUME NEW S, NEW q \in Seq(S), q # <<>>, IsInjective(q)
  PROVE  /\ Head(q) \in S /\ Head(q) \in Range(q)
         /\ Tail(q) \in Seq(S) /\ Len(Tail(q)) = Len(q) - 1
         /\ IsInjective(Tail(q)) /\ Range(Tail(q)) = Range(q) \ {Head(q)}
         /\ \A A, d : Closed(q, A, d) => Closed(Tail(q), A, d)
  <1> DEFINE n == Len(q)
             t == Tail(q)
  <1>1. /\ n \in Nat /\ n >= 1 /\ DOMAIN q = 1..n /\ Head(q) = q[1] /\ Head(q) \in S
        /\ t \in Seq(S) /\ Len(t) = n - 1 /\ DOMAIN t = 1..n - 1
        /\ \A i \in 1..n - 1 : t[i] = q[i + 1]
    OBVIOUS
  <1> HIDE DEF n, t
  <1>2. \A i \in 1..n : i = 1 \/ i - 1 \in 1..n - 1
    BY <1>1
  <1>3. \A i \in 1..n - 1 : i + 1 \in 1..n /\ i + 1 # 1
    BY <1>1
  <1>4. \A i, j \in 1..n : q[i] = q[j] => i = j
    BY <1>1 DEF IsInjective
  <1>5. IsInjective(t)
    <2> SUFFICES ASSUME NEW i \in 1..n - 1, NEW j \in 1..n - 1, t[i] = t[j] PROVE i = j
      BY <1>1 DEF IsInjective
    <2>1. i + 1 = j + 1
      BY <1>1, <1>3, <1>4
    <2> QED BY <1>1, <2>1
  <1>6. Head(q) \in Range(q)
    BY <1>1 DEF Range
  <1>7. Range(t) = Range(q) \ {Head(q)}
    <2>1. \A i \in 1..n - 1 : t[i] \in Range(q) \ {Head(q)}
      <3> SUFFICES ASSUME NEW i \in 1..n - 1 PROVE q[i + 1] \in Range(q) /\ q[i + 1] # q[1]
        BY <1>1
      <3>1. i + 1 \in 1..n /\ 1 \in 1..n /\ i + 1 # 1
        BY <1>1
      <3> QED BY <1>1, <1>4, <3>1 DEF Range
    <2>2. \A i \in 1..n : q[i] # Head(q) => q[i] \in Range(t)
      <3> SUFFICES ASSUME NEW i \in 1..n, i # 1 PROVE q[i] \in Range(t)
        BY <1>1
      <3>1. i - 1 \in DOMAIN t /\ t[i - 1] = q[i]
        BY <1>1
      <3> QED BY <3>1 DEF Range
    <2>3. \A y \in Range(t) : y \in Range(q) \ {Head(q)}
      BY <1>1, <2>1 DEF Range
    <2>4. \A y \in Range(q) : y # Head(q) => y \in Range(t)
      BY <1>1, <2>2 DEF Range
    <2> QED BY <2>3, <2>4
  <1>8. ASSUME NEW A, NEW d, Closed(q, A, d) PROVE Closed(t, A, d)
    <2> SUFFICES ASSUME NEW j \in 1..n - 1, t[j] \in Entry, In[t[j]] \in A
                 PROVE  \E i \in 1..n - 1 : j < i /\ t[i] = d
      BY <1>1 DEF Closed
    <2>1. j + 1 \in 1..n /\ t[j] = q[j + 1]
      BY <1>1
    <2>2. PICK i \in 1..n : j + 1 < i /\ q[i] = d
      BY <1>1, <1>8, <2>1 DEF Closed
    <2>3. i - 1 \in 1..n - 1 /\ j < i - 1 /\ t[i - 1] = q[i]
      BY <1>1, <2>1, <2>2
    <2> QED BY <2>2, <2>3
  <1> QED BY <1>1, <1>5, <1>6, <1>7, <1>8 DEF t, n

LEMMA WithOneMore ==
  ASSUME NEW S, NEW q \in Seq(S), NEW x \in S, x \notin Range(q), IsInjective(q)
  PROVE  /\ Append(q, x) \in Seq(S) /\ Len(Append(q, x)) = Len(q) + 1
         /\ IsInjective(Append(q, x)) /\ Range(Append(q, x)) = Range(q) \union {x}
         /\ \A A, d : Closed(q, A, d) /\ (x \in Entry => In[x] \notin A) => Closed(Append(q, x), A, d)
         /\ x \notin Entry => \A A : Closed(Append(q, x), A, x)
  <1> DEFINE n == Len(q)
             a == Append(q, x)
  <1>1. /\ n \in Nat /\ DOMAIN q = 1..n
        /\ a \in Seq(S) /\ Len(a) = n + 1 /\ DOMAIN a = 1..n + 1
        /\ \A i \in 1..n : a[i] = q[i]
        /\ a[n + 1] = x
    OBVIOUS
  <1> HIDE DEF n, a
  <1>2. \A i \in 1..n + 1 : i = n + 1 \/ i \in 1..n
    BY <1>1
  <1>3. n + 1 \in 1..n + 1 /\ n + 1 \notin 1..n /\ \A i \in 1..n : i \in 1..n + 1 /\ i < n + 1
    BY <1>1
  <1>4. (\A i \in 1..n : q[i] # x) /\ \A i, j \in 1..n : q[i] = q[j] => i = j
    BY <1>1 DEF IsInjective, Range
  <1>5. IsInjective(a)
    BY <1>1, <1>2, <1>3, <1>4 DEF IsInjective
  <1>6. Range(a) = Range(q) \union {x}
    <2>1. \A y \in Range(a) : y \in Range(q) \union {x}
      BY <1>1, <1>2 DEF Range
    <2>2. \A y \in Range(q) : y \in Range(a)
      BY <1>1, <1>3 DEF Range
    <2>3. x \in Range(a)
      BY <1>1, <1>3 DEF Range
    <2> QED BY <2>1, <2>2, <2>3
  <1>7. ASSUME NEW A, NEW d, Closed(q, A, d), x \in Entry => In[x] \notin A
        PROVE  Closed(a, A, d)
    <2> SUFFICES ASSUME NEW j \in 1..n + 1, a[j] \in Entry, In[a[j]] \in A
                 PROVE  \E i \in 1..n + 1 : j < i /\ a[i] = d
      BY <1>1 DEF Closed
    <2>1. j \in 1..n /\ a[j] = q[j]
      BY <1>1, <1>2, <1>7
    <2>2. PICK i \in 1..n : j < i /\ q[i] = d
      BY <1>1, <1>7, <2>1 DEF Closed
    <2> QED BY <1>1, <1>3, <2>2
  <1>8. ASSUME NEW A, x \notin Entry PROVE Closed(a, A, x)
    <2> SUFFICES ASSUME NEW j \in 1..n + 1, a[j] \in Entry
                 PROVE  \E i \in 1..n + 1 : j < i /\ a[i] = x
      BY <1>1 DEF Closed
    <2>1. j \in 1..n
      BY <1>1, <1>2, <1>8
    <2> QED BY <1>1, <1>3, <2>1
  <1> QED BY <1>1, <1>5, <1>6, <1>7, <1>8 DEF a, n

LEMMA ScanInit == ScannerInit => ScanInv
  <1> SUFFICES ASSUME ScannerInit PROVE ScanInv
    OBVIOUS
  <1>1. /\ records = <<>> /\ buffer = <<>> /\ DOMAIN records = {} /\ DOMAIN buffer = {}
        /\ Range(records) = {} /\ Range(buffer) = {} /\ Out = {}
        /\ \A d \in Drive : producer[d] = Off /\ listed[d] = {} /\ producer[d].dirs = {}
                            /\ HeldBy(producer[d]) = {}
    BY DEF ScannerInit, Range, Out, HeldBy, Off
  <1>2. ScanTypes
    <2>1. Off \in Walker
      BY DEF Off, Walker
    <2>2. /\ records \in Seq(Entry \union Drive) /\ Len(records) = 0
          /\ buffer \in Seq(Entry) /\ Len(buffer) = 0
      BY <1>1
    <2> QED BY <2>1, <2>2, ScannerAssumption DEF ScannerInit, ScanTypes
  <1>3. WalksFit /\ Apart /\ FoldersFit /\ EntriesFit
    <2>1. \A d \in Drive : WalkFits(producer[d], listed[d], d)
      BY <1>1 DEF WalkFits, Off
    <2>2. consumer = "idle" /\ \A d \in Drive : producer[d].at = "off"
      BY <1>1 DEF ScannerInit, Off
    <2> QED BY <1>1, <2>1, <2>2 DEF WalksFit, Apart, FoldersFit, EntriesFit
  <1>5. PlacesFit
    BY <1>1 DEF ScannerInit, PlacesFit, IsInjective
  <1>4. SentinelsFit
    <2>1. Ended = {}
      BY <1>1 DEF Ended, Off
    <2>2. Cardinality(Ended \ Range(records)) = 0
      BY <2>1, FS_EmptySet
    <2> QED BY <1>1, <2>1, <2>2 DEF ScannerInit, SentinelsFit
  <1> QED BY <1>2, <1>3, <1>4, <1>5 DEF ScanInv, ScanFits

(* One walk goes on and the others stand still.                            *)
LEMMA OneWalk ==
  ASSUME ScanTypes, NEW d \in Drive, NEW p \in Walker, Walk(d, p)
  PROVE  /\ producer' \in [Drive -> Walker] /\ producer'[d] = p
         /\ \A c \in Drive : c # d => producer'[c] = producer[c]
  BY DEF ScanTypes, Walk

LEMMA ScanTypesStep ==
  ASSUME ScanTypes, WalksFit, ScannerStep \/ UNCHANGED scanner
  PROVE  ScanTypes'
  <1> USE DEF ScanTypes
  <1>1. CASE \E e \in Entry : ComeOrGo(e)
    BY <1>1 DEF ComeOrGo
  <1>2. ASSUME NEW d \in Drive, Producer(d) \/ PassOver(d) \/ WalkRaises(d) PROVE ScanTypes'
    <2> DEFINE p == producer[d]
    <2>1. p \in Walker /\ Off \in Walker /\ WalkFits(p, listed[d], d)
      BY DEF WalksFit, Off, Walker
    <2>2. CASE List(d)
      <3>1. PICK dir \in p.dirs :
              /\ Walk(d, [p EXCEPT
                   !.files = {e \in here : In[e] = dir},
                   !.dirs  = (@ \ {dir}) \union {s \in Folder \ Excluded : In[s] = dir}])
              /\ listed' = [listed EXCEPT ![d] = @ \union {dir}]
        BY <2>2 DEF List
      <3>2. [p EXCEPT !.files = {e \in here : In[e] = dir},
                      !.dirs  = (@ \ {dir}) \union {s \in Folder \ Excluded : In[s] = dir}] \in Walker
        BY <2>1 DEF Walker
      <3>3. dir \in Drive \union Folder
        BY <2>1 DEF Walker
      <3>4. listed' \in [Drive -> SUBSET (Drive \union Folder)]
        BY <3>1, <3>3
      <3> QED BY <2>2, <3>1, <3>2, <3>4, OneWalk DEF List
    <2>3. CASE PassOver(d)
      <3>1. PICK dir \in p.dirs : Walk(d, [p EXCEPT !.dirs = @ \ {dir}]) /\ failed' = failed \union {dir}
        BY <2>3 DEF PassOver
      <3>2. [p EXCEPT !.dirs = @ \ {dir}] \in Walker /\ dir \in Drive \union Folder
        BY <2>1 DEF Walker
      <3> QED BY <2>3, <3>1, <3>2, OneWalk DEF PassOver
    <2>4. CASE Visit(d)
      <3>1. PICK e \in p.files :
              Walk(d, IF e \in Wanted \intersect here
                      THEN [p EXCEPT !.files = @ \ {e}, !.at = "put", !.record = e]
                      ELSE [p EXCEPT !.files = @ \ {e}])
        BY <2>4 DEF Visit
      <3>2. /\ [p EXCEPT !.files = @ \ {e}, !.at = "put", !.record = e] \in Walker
            /\ [p EXCEPT !.files = @ \ {e}] \in Walker
        BY <2>1 DEF Walker
      <3>3. CASE e \in Wanted \intersect here
        BY <2>4, <3>1, <3>2, <3>3, OneWalk DEF Visit
      <3>4. CASE e \notin Wanted \intersect here
        BY <2>4, <3>1, <3>2, <3>4, OneWalk DEF Visit
      <3> QED BY <3>3, <3>4
    <2>5. CASE PutRecord(d)
      <3>1. p.record \in Entry /\ [p EXCEPT !.at = "walk", !.record = NoEntry] \in Walker
        BY <2>1, <2>5 DEF PutRecord, WalkFits, Walker
      <3>2. producer' \in [Drive -> Walker]
        BY <2>5, <3>1, OneWalk DEF PutRecord
      <3>3. records' \in Seq(Entry \union Drive) /\ Len(records') <= RecordQueue
        BY <2>5, <3>1, ScannerAssumption DEF PutRecord, Enqueue
      <3> QED BY <2>5, <3>2, <3>3 DEF PutRecord
    <2>6. CASE PutSentinel(d)
      <3>1. [p EXCEPT !.at = "done"] \in Walker
        BY <2>1 DEF Walker
      <3>2. producer' \in [Drive -> Walker]
        BY <2>6, <3>1, OneWalk DEF PutSentinel
      <3>3. records' \in Seq(Entry \union Drive) /\ Len(records') <= RecordQueue
        BY <2>6, ScannerAssumption DEF PutSentinel, Enqueue
      <3> QED BY <2>6, <3>2, <3>3 DEF PutSentinel
    <2>7. CASE WalkEnds(d)
      <3>1. [p EXCEPT !.at = "last"] \in Walker
        BY <2>1 DEF Walker
      <3> QED BY <2>7, <3>1, OneWalk DEF WalkEnds
    <2>8. CASE WalkRaises(d)
      <3>1. [Off EXCEPT !.at = "last"] \in Walker
        BY <2>1 DEF Walker
      <3> QED BY <2>8, <3>1, OneWalk DEF WalkRaises
    <2> QED BY <1>2, <2>2, <2>3, <2>4, <2>5, <2>6, <2>7, <2>8 DEF Producer
  <1>3. CASE Launch
    <2>1. \A d \in Drive : [Off EXCEPT !.at = "walk", !.dirs = {d}] \in Walker
      BY DEF Off, Walker
    <2> QED BY <1>3, <2>1 DEF Launch
  <1>4. CASE Drain
    <2>1. /\ records' \in Seq(Entry \union Drive) /\ Len(records') <= RecordQueue
          /\ Head(records) \in Entry \union Drive
      BY <1>4, ScannerAssumption DEF Drain
    <2>2. CASE Head(records) \in Drive
      BY <1>4, <2>1, <2>2 DEF Drain
    <2>3. CASE Head(records) \notin Drive
      <3>1. /\ buffer' \in Seq(Entry) /\ Len(buffer') = Len(buffer) + 1 /\ drained' = drained
            /\ consumer' = IF Len(buffer) + 1 >= BatchSize THEN "yielding" ELSE "draining"
        <4>1. Head(records) \in Entry /\ buffer \in Seq(Entry)
          BY <2>1, <2>3
        <4>2. /\ buffer' = Append(buffer, Head(records)) /\ drained' = drained
              /\ consumer' = IF Len(buffer) + 1 >= BatchSize THEN "yielding" ELSE "draining"
          BY <1>4, <2>3 DEF Drain
        <4> QED BY <4>1, <4>2
      <3>2. Len(buffer) \in Nat /\ Len(buffer) < BatchSize
        BY <1>4 DEF Drain
      <3> QED BY <1>4, <2>1, <3>1, <3>2, ScannerAssumption DEF Drain
    <2> QED BY <2>2, <2>3
  <1>5. CASE HandOver
    <2>1. buffer' = <<>> /\ buffer' \in Seq(Entry) /\ Len(buffer') = 0
      BY <1>5 DEF HandOver
    <2>2. \A e \in Entry : Given(e) \in Nat
      <3> TAKE e \in Entry
      <3>1. DOMAIN buffer = 1..Len(buffer) /\ Len(buffer) \in Nat
        OBVIOUS
      <3>2. IsFiniteSet(1..Len(buffer))
        BY <3>1, FS_Interval
      <3> QED BY <3>1, <3>2, FS_Subset, FS_CardinalityType DEF Given
    <2>3. handed' \in [Entry -> Nat]
      BY <1>5, <2>2 DEF HandOver
    <2> QED BY <1>5, <2>1, <2>3, ScannerAssumption DEF HandOver
  <1>6. CASE DropScan
    BY <1>6 DEF DropScan
  <1>7. CASE UNCHANGED scanner
    BY <1>7 DEF scanner
  <1> QED BY <1>1, <1>2, <1>3, <1>4, <1>5, <1>6, <1>7 DEF ScannerStep

(* What concerns the queue and the batch, when only walks go on.           *)
LEMMA OnlyWalks ==
  ASSUME ScanFits, UNCHANGED <<records, buffer, handed, drained, consumer>>,
         Ended' = Ended, \A c \in Ended : listed'[c] = listed[c]
  PROVE  Out' = Out /\ SentinelsFit'
  BY DEF ScanFits, Out, SentinelsFit

LEMMA ListKeeps ==
  ASSUME ScanInv, NEW d \in Drive, List(d)
  PROVE  ScanFits'
  <1> DEFINE p == producer[d]
             q == producer'[d]
  <1>0. /\ p \in Walker /\ listed \in [Drive -> SUBSET (Drive \union Folder)]
        /\ here \in SUBSET Entry /\ ScanTypes /\ ScanFits
    BY DEF ScanInv, ScanTypes
  <1>1. PICK dir \in p.dirs :
          /\ Walk(d, [p EXCEPT
               !.files = {e \in here : In[e] = dir},
               !.dirs  = (@ \ {dir}) \union {s \in Folder \ Excluded : In[s] = dir}])
          /\ listed' = [listed EXCEPT ![d] = @ \union {dir}]
    BY DEF List
  <1>2. p.at = "walk" /\ p.files = {} /\ UNCHANGED <<here, moved, records, buffer, drained, consumer, handed, failed>>
    BY DEF List
  <1>3. [p EXCEPT !.files = {e \in here : In[e] = dir},
                  !.dirs  = (@ \ {dir}) \union {s \in Folder \ Excluded : In[s] = dir}] \in Walker
    BY <1>0 DEF Walker
  <1>4. /\ q = [p EXCEPT !.files = {e \in here : In[e] = dir},
                  !.dirs  = (@ \ {dir}) \union {s \in Folder \ Excluded : In[s] = dir}]
        /\ \A c \in Drive : c # d => producer'[c] = producer[c]
    BY <1>0, <1>1, <1>3, OneWalk
  <1>5. /\ q.at = "walk" /\ q.files = {e \in here : In[e] = dir} /\ HeldBy(q) = q.files
        /\ q.dirs = (p.dirs \ {dir}) \union {s \in Folder \ Excluded : In[s] = dir}
        /\ HeldBy(p) = {}
    BY <1>0, <1>2, <1>4 DEF Walker, HeldBy
  <1>6. listed'[d] = listed[d] \union {dir} /\ \A c \in Drive : c # d => listed'[c] = listed[c]
    BY <1>0, <1>1
  <1>7. \A c \in Drive : WalkFits(producer[c], listed[c], c)
    BY <1>0 DEF ScanFits, WalksFit
  <1>8. \A c \in Drive : dir \notin listed[c]
    BY <1>0, <1>1, <1>7 DEF ScanFits, Apart, WalkFits
  <1> HIDE DEF p, q
  <1>9. Out' = Out /\ SentinelsFit'
    <2>1. Ended' = Ended /\ \A c \in Ended : listed'[c] = listed[c]
      BY <1>2, <1>4, <1>5, <1>6 DEF Ended, p, q
    <2> QED BY <1>0, <1>2, <2>1, OnlyWalks
  <1>10. WalkFits(q, listed'[d], d)
    BY <1>1, <1>5, <1>6, <1>7, <1>8 DEF WalkFits, p
  <1>11. WalksFit'
    <2>1. \A c \in Drive : WalkFits(producer'[c], listed'[c], c)
      BY <1>4, <1>6, <1>7, <1>10 DEF q
    <2>2. consumer # "idle" /\ \A c \in Drive \ failed : producer[c].at # "off" /\ c \in listed[c] \union producer[c].dirs
      BY <1>0, <1>2 DEF ScanFits, WalksFit, p
    <2>3. \A c \in Drive \ failed : producer'[c].at # "off" /\ c \in listed'[c] \union producer'[c].dirs
      BY <2>2, <1>2, <1>4, <1>5, <1>6 DEF p, q
    <2> QED BY <2>1, <2>2, <2>3, <1>2 DEF WalksFit
  <1>12. Apart'
    <2>1. \A c \in Drive : c # d => \A x \in q.dirs \union listed'[d] : x \notin producer[c].dirs \union listed[c]
      <3> SUFFICES ASSUME NEW c \in Drive, c # d, NEW x \in q.dirs \union listed'[d],
                          x \in producer[c].dirs \union listed[c]
                   PROVE  FALSE
        OBVIOUS
      <3>1. x \notin p.dirs \union listed[d]
        BY <1>0 DEF ScanFits, Apart, p
      <3>2. x \in Folder /\ In[x] = dir
        BY <3>1, <1>1, <1>5, <1>6
      <3>3. dir \in listed[c]
        BY <3>2, <1>7 DEF WalkFits
      <3> QED BY <3>3, <1>8
    <2>2. \A c \in Drive : c # d => producer'[c].dirs \union listed'[c] = producer[c].dirs \union listed[c]
      BY <1>4, <1>6
    <2> QED BY <2>1, <2>2, <1>0 DEF Apart, ScanFits, q
  <1>13. PlacesFit'
    <2>1. \A e \in Out : \E c \in Drive : In[e] \in listed'[c]
      BY <1>0, <1>6 DEF ScanFits, PlacesFit
    <2>2. \A e \in q.files : e \notin Out
      BY <1>0, <1>5, <1>8 DEF ScanFits, PlacesFit
    <2>3. \A c \in Drive : \A e \in HeldBy(producer'[c]) : e \notin Out
      BY <2>2, <1>0, <1>4, <1>5 DEF ScanFits, PlacesFit, q
    <2> QED BY <2>1, <2>3, <1>0, <1>2, <1>9 DEF ScanFits, PlacesFit
  <1>14. FoldersFit'
    BY <1>0, <1>1, <1>2, <1>4, <1>5, <1>6 DEF ScanFits, FoldersFit, p, q
  <1>15. EntriesFit'
    <2>1. \A e \in here : In[e] \in listed'[d] => In[e] \in listed[d] \/ e \in HeldBy(q)
      BY <1>5, <1>6
    <2>2. \A c \in Drive : c # d => producer'[c] = producer[c] /\ listed'[c] = listed[c]
      BY <1>4, <1>6
    <2> QED BY <2>1, <2>2, <1>0, <1>2, <1>5, <1>9 DEF ScanFits, EntriesFit, p, q
  <1> QED BY <1>9, <1>11, <1>12, <1>13, <1>14, <1>15 DEF ScanFits

(* A walk that lists nothing gives up what is in a directory it could not  *)
(* read, what is not wanted, or all it has when it raised.                 *)
LEMMA WalkKeeps ==
  ASSUME ScanInv, NEW d \in Drive, NEW q \in Walker, Walk(d, q),
         producer[d].at = "walk", q.at \in {"walk", "put", "last"}, WalkFits(q, listed[d], d),
         q.dirs \subseteq producer[d].dirs, HeldBy(q) \subseteq HeldBy(producer[d]),
         UNCHANGED <<here, moved, listed, records, buffer, drained, consumer, handed>>,
         failed \subseteq failed',
         d \notin failed' => \A x \in producer[d].dirs : x \in q.dirs \/ x \in failed',
         d \notin failed' => \A e \in here \intersect Wanted : e \in HeldBy(producer[d]) => e \in HeldBy(q)
  PROVE  ScanFits'
  <1> DEFINE p == producer[d]
  <1>0. ScanTypes /\ ScanFits
    BY DEF ScanInv
  <1>1. /\ producer'[d] = q
        /\ \A c \in Drive : c # d => producer'[c] = producer[c]
    BY <1>0, OneWalk
  <1>2. \A c \in Drive : WalkFits(producer[c], listed[c], c)
    BY <1>0 DEF ScanFits, WalksFit
  <1>3. Out' = Out /\ SentinelsFit'
    <2>1. Ended' = Ended
      BY <1>1 DEF Ended
    <2> QED BY <1>0, <2>1, OnlyWalks
  <1>4. WalksFit'
    <2>1. \A c \in Drive : WalkFits(producer'[c], listed'[c], c)
      BY <1>1, <1>2
    <2>2. consumer # "idle" /\ \A c \in Drive \ failed : producer[c].at # "off" /\ c \in listed[c] \union producer[c].dirs
      BY <1>0 DEF ScanFits, WalksFit
    <2>3. \A c \in Drive \ failed' : producer'[c].at # "off" /\ c \in listed'[c] \union producer'[c].dirs
      BY <2>2, <1>1
    <2> QED BY <2>1, <2>2, <2>3 DEF WalksFit
  <1>5. Apart'
    BY <1>0, <1>1 DEF ScanFits, Apart
  <1>6. PlacesFit'
    BY <1>0, <1>1, <1>3 DEF ScanFits, PlacesFit
  <1>7. FoldersFit'
    BY <1>0, <1>1 DEF ScanFits, FoldersFit
  <1>8. EntriesFit'
    BY <1>0, <1>1, <1>3 DEF ScanFits, EntriesFit
  <1> QED BY <1>3, <1>4, <1>5, <1>6, <1>7, <1>8 DEF ScanFits

(* The four steps that are such steps.                                     *)
LEMMA WalkStepsKeep ==
  ASSUME ScanInv, NEW d \in Drive, PassOver(d) \/ Visit(d) \/ WalkEnds(d) \/ WalkRaises(d)
  PROVE  ScanFits'
  <1> DEFINE p == producer[d]
  <1>0. p \in Walker /\ p.at = "walk" /\ WalkFits(p, listed[d], d)
    BY DEF ScanInv, ScanTypes, ScanFits, WalksFit, PassOver, Visit, WalkEnds, WalkRaises
  <1>1. CASE PassOver(d)
    <2>1. PICK dir \in p.dirs : Walk(d, [p EXCEPT !.dirs = @ \ {dir}]) /\ failed' = failed \union {dir}
      BY <1>1 DEF PassOver
    <2> DEFINE q == [p EXCEPT !.dirs = @ \ {dir}]
    <2>2. q \in Walker /\ q.at = "walk" /\ q.dirs = p.dirs \ {dir} /\ q.files = p.files /\ q.record = p.record
      BY <1>0 DEF Walker
    <2> HIDE DEF q
    <2>3. WalkFits(q, listed[d], d) /\ HeldBy(q) = HeldBy(p)
      BY <1>0, <2>2 DEF WalkFits, HeldBy
    <2> QED BY <1>0, <1>1, <2>1, <2>2, <2>3, WalkKeeps DEF PassOver, q
  <1>2. CASE Visit(d)
    <2>1. PICK e \in p.files :
            Walk(d, IF e \in Wanted \intersect here
                    THEN [p EXCEPT !.files = @ \ {e}, !.at = "put", !.record = e]
                    ELSE [p EXCEPT !.files = @ \ {e}])
      BY <1>2 DEF Visit
    <2>2. UNCHANGED <<here, moved, listed, records, buffer, drained, consumer, handed, failed>>
      BY <1>2 DEF Visit
    <2>3. CASE e \in Wanted \intersect here
      <3> DEFINE q == [p EXCEPT !.files = @ \ {e}, !.at = "put", !.record = e]
      <3>1. q \in Walker /\ q.at = "put" /\ q.dirs = p.dirs /\ q.files = p.files \ {e} /\ q.record = e /\ e \in Entry
        BY <1>0 DEF Walker
      <3>2. Walk(d, q)
        BY <2>1, <2>3
      <3> HIDE DEF q
      <3>3. WalkFits(q, listed[d], d) /\ HeldBy(q) = HeldBy(p)
        BY <1>0, <3>1 DEF WalkFits, HeldBy
      <3> QED BY <1>0, <2>2, <3>1, <3>2, <3>3, WalkKeeps
    <2>4. CASE e \notin Wanted \intersect here
      <3> DEFINE q == [p EXCEPT !.files = @ \ {e}]
      <3>1. q \in Walker /\ q.at = "walk" /\ q.dirs = p.dirs /\ q.files = p.files \ {e}
        BY <1>0 DEF Walker
      <3>2. Walk(d, q)
        BY <2>1, <2>4
      <3> HIDE DEF q
      <3>3. WalkFits(q, listed[d], d) /\ HeldBy(q) = HeldBy(p) \ {e}
        BY <1>0, <3>1 DEF WalkFits, HeldBy
      <3> QED BY <1>0, <2>2, <2>4, <3>1, <3>2, <3>3, WalkKeeps
    <2> QED BY <2>3, <2>4
  <1>3. CASE WalkEnds(d)
    <2> DEFINE q == [p EXCEPT !.at = "last"]
    <2>1. q \in Walker /\ q.at = "last" /\ q.dirs = {} /\ q.files = {} /\ p.dirs = {} /\ p.files = {}
      BY <1>0, <1>3 DEF Walker, WalkEnds
    <2> HIDE DEF q
    <2>2. WalkFits(q, listed[d], d) /\ HeldBy(q) = {} /\ HeldBy(p) = {}
      BY <1>0, <2>1 DEF WalkFits, HeldBy
    <2> QED BY <1>0, <1>3, <2>1, <2>2, WalkKeeps DEF WalkEnds, q
  <1>4. CASE WalkRaises(d)
    <2> DEFINE q == [Off EXCEPT !.at = "last"]
    <2>1. q \in Walker /\ q.at = "last" /\ q.dirs = {} /\ q.files = {}
      BY DEF Walker, Off
    <2> HIDE DEF q
    <2>2. WalkFits(q, listed[d], d) /\ HeldBy(q) = {}
      BY <1>0, <2>1 DEF WalkFits, HeldBy
    <2>3. /\ Walk(d, q) /\ failed' = failed \union {d}
          /\ UNCHANGED <<here, moved, listed, records, buffer, drained, consumer, handed>>
      BY <1>4 DEF WalkRaises, q
    <2> QED BY <1>0, <2>1, <2>2, <2>3, WalkKeeps
  <1> QED BY <1>1, <1>2, <1>3, <1>4

LEMMA PutRecordKeeps ==
  ASSUME ScanInv, NEW d \in Drive, PutRecord(d)
  PROVE  ScanFits'
  <1> DEFINE p == producer[d]
             e == p.record
             q == [p EXCEPT !.at = "walk", !.record = NoEntry]
  <1>0. /\ p \in Walker /\ ScanTypes /\ ScanFits /\ records \in Seq(Entry \union Drive)
        /\ p.at = "put" /\ WalkFits(p, listed[d], d)
    BY DEF ScanInv, ScanTypes, PutRecord, ScanFits, WalksFit
  <1>1. /\ UNCHANGED <<here, moved, listed, buffer, drained, consumer, handed, failed>>
        /\ records' = Append(records, e) /\ Walk(d, q)
    BY DEF PutRecord, Enqueue
  <1>2. /\ q \in Walker /\ q.at = "walk" /\ q.dirs = p.dirs /\ q.files = p.files
        /\ e \in Entry /\ e \notin p.files /\ e \notin Drive
    BY <1>0, ScannerAssumption DEF Walker, WalkFits
  <1>3. HeldBy(p) = p.files \union {e} /\ HeldBy(q) = p.files
    BY <1>0, <1>2 DEF HeldBy
  <1>4. producer'[d] = q /\ \A c \in Drive : c # d => producer'[c] = producer[c]
    BY <1>0, <1>1, <1>2, OneWalk
  <1>5. \A c \in Drive : WalkFits(producer[c], listed[c], c)
    BY <1>0 DEF ScanFits, WalksFit
  <1> HIDE DEF q, e
  <1>6. e \notin Out /\ e \notin Range(records) /\ e \notin Range(buffer) /\ handed[e] = 0 /\ In[e] \in listed[d]
    <2>1. e \notin Out /\ In[e] \in listed[d]
      BY <1>0, <1>3 DEF ScanFits, PlacesFit, WalkFits
    <2> QED BY <2>1, <1>2 DEF Out
  <1>7. /\ IsInjective(records') /\ Range(records') = Range(records) \union {e}
        /\ \A A, c : Closed(records, A, c) /\ (e \in Entry => In[e] \notin A) => Closed(records', A, c)
    <2>1. IsInjective(records) /\ e \in Entry \union Drive
      BY <1>0, <1>2 DEF ScanFits, PlacesFit
    <2> QED BY <1>0, <1>1, <1>6, <2>1, WithOneMore
  <1>8. Out' = Out \union {e}
    BY <1>1, <1>2, <1>7 DEF Out
  <1>9. WalksFit'
    <2>1. WalkFits(q, listed[d], d)
      BY <1>0, <1>2, <1>3 DEF WalkFits
    <2>2. \A c \in Drive : WalkFits(producer'[c], listed'[c], c)
      BY <1>1, <1>4, <1>5, <2>1
    <2>3. consumer # "idle"
      BY <1>0 DEF ScanFits, WalksFit
    <2> QED BY <2>2, <2>3, <1>0, <1>1, <1>2, <1>4 DEF ScanFits, WalksFit
  <1>10. Apart'
    BY <1>0, <1>1, <1>2, <1>4 DEF ScanFits, Apart
  <1>11. PlacesFit'
    <2>1. \A c \in Drive : c # d => e \notin HeldBy(producer[c])
      <3> SUFFICES ASSUME NEW c \in Drive, c # d, e \in HeldBy(producer[c]) PROVE FALSE
        OBVIOUS
      <3>1. In[e] \in listed[c] /\ In[e] \in listed[d]
        BY <1>5, <1>6 DEF WalkFits
      <3> QED BY <1>0, <3>1 DEF ScanFits, Apart
    <2>2. \A c \in Drive : \A x \in HeldBy(producer'[c]) : x \notin Out'
      BY <2>1, <1>0, <1>2, <1>3, <1>4, <1>8 DEF ScanFits, PlacesFit
    <2>3. \A x \in Out' : \E c \in Drive : In[x] \in listed[c]
      BY <1>0, <1>6, <1>8 DEF ScanFits, PlacesFit
    <2> QED BY <2>2, <2>3, <1>0, <1>1, <1>6, <1>7 DEF ScanFits, PlacesFit
  <1>12. SentinelsFit'
    <2>1. Ended' = Ended /\ d \notin Ended
      BY <1>0, <1>2, <1>4 DEF Ended
    <2>2. Ended \ Range(records') = Ended \ Range(records)
      BY <1>2, <1>7 DEF Ended
    <2>3. \A c \in Ended : Closed(records', listed[c], c)
      <3> SUFFICES ASSUME NEW c \in Ended PROVE Closed(records', listed[c], c)
        OBVIOUS
      <3>1. c \in Drive /\ c # d /\ Closed(records, listed[c], c)
        BY <1>0, <2>1 DEF ScanFits, SentinelsFit, Ended
      <3>2. In[e] \notin listed[c]
        BY <1>0, <1>6, <3>1 DEF ScanFits, Apart
      <3> QED BY <1>7, <3>1, <3>2
    <2>4. consumer # "idle"
      BY <1>0 DEF ScanFits, WalksFit
    <2> QED BY <2>1, <2>2, <2>3, <2>4, <1>0, <1>1, <1>2, <1>7 DEF ScanFits, SentinelsFit
  <1>13. FoldersFit'
    BY <1>0, <1>1, <1>2, <1>4 DEF ScanFits, FoldersFit
  <1>14. EntriesFit'
    BY <1>0, <1>1, <1>3, <1>4, <1>8 DEF ScanFits, EntriesFit
  <1> QED BY <1>9, <1>10, <1>11, <1>12, <1>13, <1>14 DEF ScanFits

LEMMA PutSentinelKeeps ==
  ASSUME ScanInv, NEW d \in Drive, PutSentinel(d)
  PROVE  ScanFits'
  <1> DEFINE p == producer[d]
             q == [p EXCEPT !.at = "done"]
  <1>0. /\ p \in Walker /\ ScanTypes /\ ScanFits /\ records \in Seq(Entry \union Drive)
        /\ p.at = "last" /\ WalkFits(p, listed[d], d)
    BY DEF ScanInv, ScanTypes, PutSentinel, ScanFits, WalksFit
  <1>1. /\ UNCHANGED <<here, moved, listed, buffer, drained, consumer, handed, failed>>
        /\ records' = Append(records, d) /\ Walk(d, q)
    BY DEF PutSentinel, Enqueue
  <1>2. /\ q \in Walker /\ q.at = "done" /\ q.dirs = {} /\ q.files = {} /\ p.dirs = {} /\ p.files = {}
        /\ d \notin Entry
    BY <1>0, ScannerAssumption DEF Walker, WalkFits
  <1>3. HeldBy(p) = {} /\ HeldBy(q) = {}
    BY <1>0, <1>2 DEF HeldBy
  <1>4. producer'[d] = q /\ \A c \in Drive : c # d => producer'[c] = producer[c]
    BY <1>0, <1>1, <1>2, OneWalk
  <1>5. \A c \in Drive : WalkFits(producer[c], listed[c], c)
    BY <1>0 DEF ScanFits, WalksFit
  <1> HIDE DEF q
  <1>6. d \notin Ended /\ d \notin Range(records) /\ Ended' = Ended \union {d}
    <2>1. d \notin Ended /\ Ended' = Ended \union {d}
      BY <1>0, <1>2, <1>4 DEF Ended
    <2> QED BY <1>0, <2>1 DEF ScanFits, SentinelsFit
  <1>7. /\ IsInjective(records') /\ Range(records') = Range(records) \union {d}
        /\ \A A, c : Closed(records, A, c) /\ (d \in Entry => In[d] \notin A) => Closed(records', A, c)
        /\ \A A : Closed(records', A, d)
    <2>1. IsInjective(records) /\ d \in Entry \union Drive
      BY <1>0, <1>2 DEF ScanFits, PlacesFit
    <2> QED BY <1>0, <1>1, <1>2, <1>6, <2>1, WithOneMore
  <1>8. Out' = Out
    BY <1>1, <1>2, <1>7 DEF Out
  <1>9. WalksFit'
    <2>1. WalkFits(q, listed[d], d)
      BY <1>0, <1>2, <1>3 DEF WalkFits
    <2>2. \A c \in Drive : WalkFits(producer'[c], listed'[c], c)
      BY <1>1, <1>4, <1>5, <2>1
    <2>3. consumer # "idle"
      BY <1>0 DEF ScanFits, WalksFit
    <2> QED BY <2>2, <2>3, <1>0, <1>1, <1>2, <1>4 DEF ScanFits, WalksFit
  <1>10. Apart'
    BY <1>0, <1>1, <1>2, <1>4 DEF ScanFits, Apart
  <1>11. PlacesFit'
    <2>1. \A x \in Range(records') : x \notin Range(buffer)
      <3>1. buffer \in Seq(Entry)
        BY <1>0 DEF ScanTypes
      <3>2. d \notin Range(buffer)
        BY <1>2, <3>1, RangeOfSeq
      <3> QED BY <3>2, <1>0, <1>7 DEF ScanFits, PlacesFit
    <2>2. \A c \in Drive : \A x \in HeldBy(producer'[c]) : x \notin Out'
      BY <1>0, <1>3, <1>4, <1>8 DEF ScanFits, PlacesFit
    <2>3. \A x \in Entry : x \in Range(records') \/ x \in Range(buffer) => handed[x] = 0
      BY <1>0, <1>2, <1>7 DEF ScanFits, PlacesFit
    <2> QED BY <2>1, <2>2, <2>3, <1>0, <1>1, <1>7, <1>8 DEF ScanFits, PlacesFit
  <1>12. SentinelsFit'
    <2>1. Ended' \ Range(records') = Ended \ Range(records)
      BY <1>6, <1>7
    <2>2. \A c \in Ended' : Closed(records', listed[c], c)
      BY <1>0, <1>2, <1>6, <1>7 DEF ScanFits, SentinelsFit
    <2>3. consumer # "idle"
      BY <1>0 DEF ScanFits, WalksFit
    <2> QED BY <2>1, <2>2, <2>3, <1>0, <1>1, <1>6, <1>7 DEF ScanFits, SentinelsFit
  <1>13. FoldersFit'
    BY <1>0, <1>1, <1>2, <1>4 DEF ScanFits, FoldersFit
  <1>14. EntriesFit'
    BY <1>0, <1>1, <1>3, <1>4, <1>8 DEF ScanFits, EntriesFit
  <1> QED BY <1>9, <1>10, <1>11, <1>12, <1>13, <1>14 DEF ScanFits

LEMMA ComeOrGoKeeps ==
  ASSUME ScanInv, NEW e \in Entry, ComeOrGo(e)
  PROVE  ScanFits'
  <1>0. /\ ScanFits /\ moved' = moved \union {e} /\ here' \subseteq here \union {e}
        /\ UNCHANGED <<producer, listed, records, buffer, drained, consumer, handed, failed>>
    BY DEF ScanInv, ComeOrGo
  <1>1. Out' = Out /\ Ended' = Ended
    BY <1>0 DEF Out, Ended
  <1>2. (WalksFit /\ Apart)'
    BY <1>0 DEF ScanFits, WalksFit, Apart
  <1>3. (PlacesFit /\ SentinelsFit)'
    BY <1>0, <1>1 DEF ScanFits, PlacesFit, SentinelsFit
  <1>4. FoldersFit'
    BY <1>0 DEF ScanFits, FoldersFit
  <1>5. EntriesFit'
    BY <1>0, <1>1 DEF ScanFits, EntriesFit
  <1> QED BY <1>2, <1>3, <1>4, <1>5 DEF ScanFits

LEMMA LaunchKeeps ==
  ASSUME ScanInv, Launch
  PROVE  ScanFits'
  <1>0. /\ ScanFits /\ ScanTypes /\ consumer = "idle" /\ consumer' = "draining"
        /\ producer' = [d \in Drive |-> [Off EXCEPT !.at = "walk", !.dirs = {d}]]
        /\ UNCHANGED <<here, moved, listed, records, buffer, drained, handed, failed>>
    BY DEF ScanInv, Launch
  <1>1. \A d \in Drive : /\ producer'[d].at = "walk" /\ producer'[d].dirs = {d}
                         /\ producer'[d].files = {} /\ HeldBy(producer'[d]) = {}
    BY <1>0 DEF Off, HeldBy
  <1>2. \A d \in Drive : listed[d] = {} /\ producer[d].at = "off" /\ d \notin Folder
    BY <1>0, ScannerAssumption DEF ScanFits, WalksFit
  <1>3. WalksFit'
    <2>1. \A d \in Drive : WalkFits(producer'[d], listed[d], d)
      BY <1>1, <1>2 DEF WalkFits
    <2> QED BY <2>1, <1>0, <1>1 DEF WalksFit
  <1>4. Apart'
    <2>1. \A d \in Drive : producer'[d].dirs \union listed'[d] = {d}
      BY <1>0, <1>1, <1>2
    <2> QED BY <2>1 DEF Apart
  <1>5. Out' = Out /\ Ended = {} /\ Ended' = {}
    BY <1>0, <1>1, <1>2 DEF Out, Ended
  <1>6. PlacesFit'
    BY <1>0, <1>1, <1>5 DEF ScanFits, PlacesFit
  <1>7. SentinelsFit'
    BY <1>0, <1>5 DEF ScanFits, SentinelsFit
  <1>8. FoldersFit' /\ EntriesFit'
    BY <1>0, <1>2 DEF FoldersFit, EntriesFit
  <1> QED BY <1>3, <1>4, <1>6, <1>7, <1>8 DEF ScanFits

LEMMA DrainKeeps ==
  ASSUME ScanInv, Drain
  PROVE  ScanFits'
  <1> DEFINE h == Head(records)
  <1>0. /\ ScanFits /\ ScanTypes /\ records \in Seq(Entry \union Drive) /\ buffer \in Seq(Entry)
        /\ consumer = "draining" /\ records # <<>> /\ records' = Tail(records)
        /\ UNCHANGED <<here, moved, producer, listed, handed, failed>>
    BY DEF ScanInv, ScanTypes, Drain
  <1>1. /\ h \in Entry \union Drive /\ h \in Range(records)
        /\ IsInjective(records') /\ Range(records') = Range(records) \ {h}
        /\ \A A, d : Closed(records, A, d) => Closed(records', A, d)
    BY <1>0, WithoutHead DEF ScanFits, PlacesFit
  <1>2. /\ h \in Drive => /\ drained' = drained + 1 /\ buffer' = buffer
                          /\ consumer' = IF AllDone(drained + 1) THEN "flushing" ELSE "draining"
        /\ h \notin Drive => /\ buffer' = Append(buffer, h) /\ drained' = drained
                             /\ consumer' \in {"draining", "yielding"}
    BY DEF Drain
  <1>3. Drive \intersect Entry = {} /\ IsFiniteSet(Drive)
    BY ScannerAssumption
  <1> HIDE DEF h
  <1>4. /\ IsInjective(buffer') /\ Out' = Out
        /\ Range(buffer') = Range(buffer) \union (IF h \in Drive THEN {} ELSE {h})
    <2>1. CASE h \in Drive
      BY <2>1, <1>0, <1>1, <1>2, <1>3 DEF Out, ScanFits, PlacesFit
    <2>2. CASE h \notin Drive
      <3>1. h \in Entry /\ h \notin Range(buffer) /\ IsInjective(buffer)
        BY <2>2, <1>0, <1>1 DEF ScanFits, PlacesFit
      <3>2. IsInjective(buffer') /\ Range(buffer') = Range(buffer) \union {h}
        <4>1. buffer \in Seq(Entry) /\ buffer' = Append(buffer, h)
          BY <2>2, <1>0, <1>2
        <4>2. IsInjective(Append(buffer, h)) /\ Range(Append(buffer, h)) = Range(buffer) \union {h}
          BY ONLY <3>1, <4>1, WithOneMore
        <4> QED BY <4>1, <4>2
      <3> QED BY <3>1, <3>2, <2>2, <1>0, <1>1 DEF Out
    <2> QED BY <2>1, <2>2
  <1>5. WalksFit'
    BY <1>0, <1>1, <1>2 DEF ScanFits, WalksFit
  <1>6. Apart'
    BY <1>0 DEF ScanFits, Apart
  <1>7. PlacesFit'
    BY <1>0, <1>1, <1>3, <1>4 DEF ScanFits, PlacesFit
  <1>8. SentinelsFit'
    <2>1. Ended' = Ended
      BY <1>0 DEF Ended
    <2>2. drained' = Cardinality(Ended \ Range(records'))
      <3>1. CASE h \in Drive
        <4>1. /\ Ended \ Range(records') = (Ended \ Range(records)) \union {h}
              /\ h \notin Ended \ Range(records)
          BY <3>1, <1>0, <1>1 DEF ScanFits, SentinelsFit
        <4>2. IsFiniteSet(Ended \ Range(records))
          BY <1>3, FS_Subset DEF Ended
        <4>3. drained = Cardinality(Ended \ Range(records))
          BY <1>0 DEF ScanFits, SentinelsFit
        <4> QED BY <4>1, <4>2, <4>3, <3>1, <1>2, FS_AddElement
      <3>2. CASE h \notin Drive
        <4>1. Ended \ Range(records') = Ended \ Range(records)
          BY <3>2, <1>1 DEF Ended
        <4> QED BY <4>1, <3>2, <1>0, <1>2 DEF ScanFits, SentinelsFit
      <3> QED BY <3>1, <3>2
    <2>3. consumer' = "flushing" => drained' = Cardinality(Drive)
      BY <1>1, <1>2 DEF AllDone
    <2>4. consumer' \in {"draining", "yielding", "flushing"}
      BY <1>1, <1>2
    <2> QED BY <2>1, <2>2, <2>3, <2>4, <1>0, <1>1 DEF ScanFits, SentinelsFit
  <1>9. FoldersFit'
    BY <1>0 DEF ScanFits, FoldersFit
  <1>10. EntriesFit'
    BY <1>0, <1>4 DEF ScanFits, EntriesFit
  <1> QED BY <1>5, <1>6, <1>7, <1>8, <1>9, <1>10 DEF ScanFits

(* A batch of different entries gives each of them once.                   *)
LEMMA GivenOnce ==
  ASSUME IsInjective(buffer), NEW e
  PROVE  Given(e) = IF e \in Range(buffer) THEN 1 ELSE 0
  <1>1. CASE e \in Range(buffer)
    <2>1. PICK i \in DOMAIN buffer : buffer[i] = e
      BY <1>1 DEF Range
    <2>2. {j \in DOMAIN buffer : buffer[j] = e} = {i}
      BY <2>1 DEF IsInjective
    <2> QED BY <1>1, <2>2, FS_Singleton DEF Given
  <1>2. CASE e \notin Range(buffer)
    <2>1. {j \in DOMAIN buffer : buffer[j] = e} = {}
      BY <1>2 DEF Range
    <2> QED BY <1>2, <2>1, FS_EmptySet DEF Given
  <1> QED BY <1>1, <1>2

LEMMA HandOverKeeps ==
  ASSUME ScanInv, HandOver
  PROVE  ScanFits'
  <1>0. /\ ScanFits /\ ScanTypes /\ handed \in [Entry -> Nat] /\ IsInjective(buffer)
        /\ consumer \in {"yielding", "flushing"} /\ buffer' = <<>>
        /\ consumer' = IF consumer = "yielding" THEN "draining" ELSE "ended"
        /\ handed' = [e \in Entry |-> handed[e] + Given(e)]
        /\ UNCHANGED <<here, moved, producer, listed, records, drained, failed>>
    BY DEF ScanInv, ScanTypes, HandOver, ScanFits, PlacesFit
  <1>1. \A e \in Entry : handed'[e] = handed[e] + IF e \in Range(buffer) THEN 1 ELSE 0
    <2>1. \A e \in Entry : Given(e) = IF e \in Range(buffer) THEN 1 ELSE 0
      BY <1>0, GivenOnce
    <2> QED BY <2>1, <1>0
  <1>2. \A e \in Entry : IF e \in Range(buffer) THEN handed[e] = 0 /\ handed'[e] = 1
                                                ELSE handed'[e] = handed[e]
    BY <1>0, <1>1 DEF ScanFits, PlacesFit
  <1>3. Range(buffer') = {} /\ IsInjective(buffer')
    BY <1>0 DEF Range, IsInjective
  <1>4. Out' = Out
    BY <1>0, <1>2, <1>3 DEF Out
  <1>5. WalksFit'
    BY <1>0 DEF ScanFits, WalksFit
  <1>6. Apart'
    BY <1>0 DEF ScanFits, Apart
  <1>7. PlacesFit'
    <2>1. \A e \in Entry : e \in Range(records) => handed'[e] = 0
      BY <1>0, <1>2 DEF ScanFits, PlacesFit
    <2>2. \A e \in Entry : handed'[e] <= 1
      BY <1>0, <1>2 DEF ScanFits, PlacesFit
    <2> QED BY <2>1, <2>2, <1>0, <1>3, <1>4 DEF ScanFits, PlacesFit
  <1>8. SentinelsFit'
    <2>1. Ended' = Ended
      BY <1>0 DEF Ended
    <2> QED BY <2>1, <1>0 DEF ScanFits, SentinelsFit
  <1>9. FoldersFit'
    BY <1>0 DEF ScanFits, FoldersFit
  <1>10. EntriesFit'
    BY <1>0, <1>4 DEF ScanFits, EntriesFit
  <1> QED BY <1>5, <1>6, <1>7, <1>8, <1>9, <1>10 DEF ScanFits

LEMMA RestKeeps ==
  ASSUME ScanInv, DropScan \/ UNCHANGED scanner
  PROVE  ScanFits'
  <1>0. /\ ScanFits
        /\ consumer' = consumer \/ (consumer' = "dropped" /\ consumer # "idle")
        /\ UNCHANGED <<here, moved, producer, listed, records, buffer, drained, handed, failed>>
    BY DEF ScanInv, DropScan, scanner
  <1>1. Out' = Out /\ Ended' = Ended
    BY <1>0 DEF Out, Ended
  <1>2. (WalksFit /\ Apart)'
    BY <1>0 DEF ScanFits, WalksFit, Apart
  <1>3. (PlacesFit /\ SentinelsFit)'
    BY <1>0, <1>1 DEF ScanFits, PlacesFit, SentinelsFit
  <1>4. (FoldersFit /\ EntriesFit)'
    BY <1>0, <1>1 DEF ScanFits, FoldersFit, EntriesFit
  <1> QED BY <1>2, <1>3, <1>4 DEF ScanFits

LEMMA ScanStep ==
  ASSUME ScanInv, ScannerStep \/ UNCHANGED scanner
  PROVE  ScanInv'
  <1>1. ScanTypes'
    BY ScanTypesStep DEF ScanInv, ScanFits
  <1>2. ScanFits'
    BY ListKeeps, WalkStepsKeep, PutRecordKeeps, PutSentinelKeeps, ComeOrGoKeeps,
       LaunchKeeps, DrainKeeps, HandOverKeeps, RestKeeps DEF ScannerStep, Producer
  <1> QED BY <1>1, <1>2 DEF ScanInv

(* A directory that can be reached was listed when all walks are over.     *)
LEMMA ReachedIsListed ==
  ASSUME ScanInv, consumer # "idle", \A d \in Drive : producer[d].at = "done",
         NEW e \in Entry, Reached(e)
  PROVE  \E d \in Drive \ failed : In[e] \in listed[d]
  <1>1. PICK path \in SUBSET (Drive \union Folder) :
          /\ In[e] \in path /\ path \intersect (Excluded \union failed) = {}
          /\ \A x \in path \ Drive : In[x] \in path
    BY DEF Reached
  <1> DEFINE B == {x \in path : \A d \in path \intersect Drive : x \notin listed[d]}
  <1>2. \A d \in Drive : producer[d].dirs = {} /\ (d \notin failed => d \in listed[d])
    BY DEF ScanInv, ScanFits, WalksFit, WalkFits
  <1>3. B \subseteq Folder
    BY <1>1, <1>2
  <1>4. ASSUME B # {} PROVE FALSE
    <2>1. PICK x \in B : In[x] \notin B
      BY <1>3, <1>4, ScannerAssumption
    <2>2. x \in path \ Drive /\ x \in Folder /\ x \notin Excluded \union failed
      BY <1>1, <1>3, <2>1, ScannerAssumption
    <2>3. PICK d \in path \intersect Drive : In[x] \in listed[d]
      BY <1>1, <2>1, <2>2
    <2>4. x \in listed[d]
      BY <1>1, <1>2, <2>2, <2>3 DEF ScanInv, ScanFits, FoldersFit
    <2> QED BY <2>1, <2>3, <2>4
  <1> QED BY <1>1, <1>4

LEMMA ScanHandsOnce ==
  ASSUME ScanInv
  PROVE  HandedOnce
  <1>0. ScanTypes /\ ScanFits /\ handed \in [Entry -> Nat] /\ records \in Seq(Entry \union Drive)
    BY DEF ScanInv, ScanTypes
  <1>1. \A e \in Entry : handed[e] + Given(e) <= 1
    <2> SUFFICES ASSUME NEW e \in Entry PROVE handed[e] + Given(e) <= 1
      OBVIOUS
    <2>1. /\ Given(e) = IF e \in Range(buffer) THEN 1 ELSE 0
          /\ e \in Range(buffer) => handed[e] = 0
          /\ handed[e] <= 1 /\ handed[e] \in Nat
      BY <1>0, GivenOnce DEF ScanFits, PlacesFit
    <2> QED BY <2>1
  <1>2. ASSUME consumer = "ended", NEW e \in (here \intersect Wanted) \ moved, Reached(e)
        PROVE  handed[e] = 1
    <2>1. e \in Entry /\ buffer = <<>> /\ Range(buffer) = {}
      BY <1>0, <1>2 DEF ScanTypes, ScanFits, SentinelsFit, Range
    <2>2. Ended \ Range(records) = Drive
      <3>1. Ended \ Range(records) \in SUBSET Drive /\ IsFiniteSet(Drive)
        BY ScannerAssumption DEF Ended
      <3>2. Cardinality(Drive) = Cardinality(Ended \ Range(records))
        BY <1>0, <1>2 DEF ScanFits, SentinelsFit
      <3> QED BY <3>1, <3>2, FS_Subset
    <2>3. \A d \in Drive : producer[d].at = "done" /\ d \in Ended /\ d \notin Range(records)
      BY <2>2 DEF Ended
    <2>4. PICK d \in Drive \ failed : In[e] \in listed[d]
      BY <1>2, <2>1, <2>3, ReachedIsListed
    <2>5. e \in HeldBy(producer[d]) \union Out
      BY <1>0, <1>2, <2>4 DEF ScanFits, EntriesFit
    <2>6. HeldBy(producer[d]) = {}
      BY <1>0, <2>3 DEF ScanFits, WalksFit, WalkFits, HeldBy
    <2>7. e \notin Range(records)
      <3> SUFFICES ASSUME NEW j \in DOMAIN records, records[j] = e PROVE FALSE
        BY DEF Range
      <3>1. Closed(records, listed[d], d)
        BY <1>0, <2>3 DEF ScanFits, SentinelsFit
      <3>2. d \in Range(records)
        BY <2>1, <2>4, <3>1 DEF Closed, Range
      <3> QED BY <2>3, <3>2
    <2>8. handed[e] # 0 /\ handed[e] \in Nat /\ handed[e] <= 1
      BY <1>0, <2>1, <2>5, <2>6, <2>7 DEF Out, ScanFits, PlacesFit
    <2> QED BY <2>8
  <1> QED BY <1>1, <1>2 DEF HandedOnce

(* The types of the drive scan.                                            *)
LEMMA ScanTyped ==
  ASSUME ScanInv
  PROVE  ScannerTypeOK
  <1>0. ScanTypes /\ ScanFits
    BY DEF ScanInv
  <1>1. ASSUME NEW d \in Drive
        PROVE  /\ producer[d].at \in {"off", "walk", "put", "last", "done"}
               /\ producer[d].dirs \subseteq Folder \union {d}
               /\ producer[d].files \subseteq Entry
               /\ producer[d].record \in Entry \union {NoEntry}
               /\ listed[d] \subseteq Folder \union {d}
    <2>1. producer[d] \in Walker /\ WalkFits(producer[d], listed[d], d)
      BY <1>0 DEF ScanTypes, ScanFits, WalksFit
    <2> QED BY <2>1 DEF Walker, WalkFits
  <1>2. drained \in 0..Cardinality(Drive)
    <2>1. Ended \ Range(records) \in SUBSET Drive /\ IsFiniteSet(Drive)
      BY ScannerAssumption DEF Ended
    <2>2. /\ Cardinality(Ended \ Range(records)) <= Cardinality(Drive)
          /\ Cardinality(Drive) \in Nat
      BY <2>1, FS_Subset, FS_CardinalityType
    <2> QED BY <1>0, <2>2 DEF ScanTypes, ScanFits, SentinelsFit
  <1> QED BY <1>0, <1>1, <1>2 DEF ScannerTypeOK, ScanTypes

(* HandedOnce: a file is never handed over twice, whatever the drives and  *)
(* the queue do, and a scan that ended has handed over every wanted file   *)
(* that stood still where its walk could go.                               *)
THEOREM FilesAreHandedOnce == Spec => []HandedOnce
  <1>1. Init => ScanInv
    BY ScanInit DEF Init
  <1>2. ScanInv /\ [Next]_vars => ScanInv'
    BY OnePartMoves, ScanStep
  <1>3. ScanInv => HandedOnce
    BY ScanHandsOnce
  <1> QED BY <1>1, <1>2, <1>3, PTL DEF Spec

-----------------------------------------------------------------------------
(* The types of the file watcher.                                          *)
WatchTypes == WatcherTypeOK /\ reports \in 0..MaxReports

LEMMA WatchTypesInit == WatcherInit /\ reports = 0 => WatchTypes
  <1> SUFFICES ASSUME WatcherInit, reports = 0 PROVE WatchTypes
    OBVIOUS
  <1>1. starting \in BOOLEAN /\ watched \in BOOLEAN
    BY DEF WatcherInit
  <1>2. armed \in [File -> Nat] /\ fired \in [File -> Nat] /\ reports \in 0..MaxReports
    BY ReportsAssumption DEF WatcherInit
  <1>3. entry \in [File -> {"none", "armed", "fired"}]
    BY DEF WatcherInit
  <1> QED BY <1>1, <1>2, <1>3 DEF WatcherInit, WatchTypes, WatcherTypeOK

LEMMA WatchTypesStep ==
  ASSUME WatchTypes, WatchStep \/ UNCHANGED watching
  PROVE  WatchTypes'
  <1> USE ReportsAssumption DEF WatchTypes, WatcherTypeOK, lifecycle, timers
  <1>1. CASE Begin
    BY <1>1 DEF Begin
  <1>2. CASE Look
    <2>1. calling \in File /\ pending' \subseteq File /\ owed' \subseteq File
          /\ calling' = Nobody /\ entry' \in [File -> {"none", "armed", "fired"}]
      BY <1>2 DEF Look, Release
    <2> QED BY <1>2, <2>1 DEF Look, Release
  <1>3. ASSUME NEW f \in File, Timer(f) PROVE WatchTypes'
    <2>1. CASE TimerFires(f)
      <3>1. armed' \in [File -> Nat] /\ fired' \in [File -> Nat]
        BY <2>1 DEF TimerFires
      <3>2. entry' \in [File -> {"none", "armed", "fired"}]
        BY <2>1 DEF TimerFires
      <3> QED BY <1>3, <2>1, <3>1, <3>2 DEF Timer, TimerFires
    <2>2. CASE Trigger(f)
      <3>1. fired' \in [File -> Nat] /\ entry' \in [File -> {"none", "armed", "fired"}]
        BY <2>2 DEF Trigger
      <3>2. calling' \in File \union {Nobody}
        BY <2>2 DEF Trigger
      <3> QED BY <1>3, <2>2, <3>1, <3>2 DEF Timer, Trigger
    <2> QED BY <1>3, <2>1, <2>2 DEF Timer
  <1>4. ASSUME NEW f \in File, NEW kind \in Kinds, Report(f, kind) PROVE WatchTypes'
    <2>1. events' \subseteq File \X Kinds
      BY <1>4 DEF Report, Reported
    <2> QED BY <1>4, <2>1 DEF Report
  <1>5. ASSUME UNCHANGED reports,
               \/ StartWatcher \/ StopWatcher \/ AddWatchPath \/ RemoveWatchPath
               \/ \E f \in File : ScheduleDebounce(f) \/ OnDeleted(f)
        PROVE  WatchTypes'
    <2>1. CASE StartWatcher \/ StopWatcher \/ AddWatchPath \/ RemoveWatchPath
      BY <1>5, <2>1 DEF StartWatcher, StopWatcher, AddWatchPath, RemoveWatchPath, Observe
    <2>2. ASSUME NEW f \in File, ScheduleDebounce(f) PROVE WatchTypes'
      <3>1. armed' \in [File -> Nat] /\ entry' \in [File -> {"none", "armed", "fired"}]
        BY <2>2 DEF ScheduleDebounce
      <3> QED BY <1>5, <2>2, <3>1 DEF ScheduleDebounce
    <2>3. ASSUME NEW f \in File, OnDeleted(f) PROVE WatchTypes'
      BY <1>5, <2>3 DEF OnDeleted
    <2> QED BY <1>5, <2>1, <2>2, <2>3
  <1>6. CASE UNCHANGED watching
    BY <1>6 DEF watching, watcher
  <1> QED BY <1>1, <1>2, <1>3, <1>4, <1>5, <1>6 DEF WatchStep

-----------------------------------------------------------------------------
(* The types of the scripts that give OneDrive its space back: a batch is  *)
(* of rows, no larger than its limit, and a row is looked at once in it.   *)
Batches(n) ==
  {s \in [on : BOOLEAN, rows : SUBSET Row, flip : SUBSET Row] :
     s.flip \intersect s.rows = {} /\ Cardinality(s.rows) <= n}

EvictTypes ==
  /\ bytes \in [Row -> {"cloud", "local", "missing"}]
  /\ reading \in SUBSET Row /\ allowed \in SUBSET Row /\ flagged \in SUBSET Row
  /\ evicting \in Batches(EvictBatch) /\ auditing \in Batches(AuditBatch)
  /\ reads \in 0..MaxReads /\ cuts \in 0..MaxCuts

LEMMA EvictTyped ==
  ASSUME EvictTypes
  PROVE  EvictionTypeOK
  <1>1. \A n : \A s \in Batches(n) : /\ s.on \in BOOLEAN /\ s.rows \subseteq Row
                                     /\ s.flip \subseteq Row \ s.rows
                                     /\ Cardinality(s.rows) <= n
    BY DEF Batches
  <1> QED BY <1>1 DEF EvictTypes, EvictionTypeOK

(* The table is finite.                                                    *)
LEMMA RowsAreFinite == IsFiniteSet(Row) /\ Row \subseteq Int
  <1>1. Rows \in Nat
    BY EvictionAssumption
  <1> QED BY <1>1, FS_Interval DEF Row

(* The rows that are first by id are no more than asked for.               *)
LEMMA FirstAreFew ==
  ASSUME NEW n \in Nat, NEW S \in SUBSET Row
  PROVE  First(n, S) \in SUBSET Row /\ Cardinality(First(n, S)) <= n
  <1> DEFINE F == First(n, S)
             Upto(r) == {x \in S : x <= r}
  <1>1. IsFiniteSet(Row) /\ Row \subseteq Int
    BY RowsAreFinite
  <1>2. F \in SUBSET S /\ IsFiniteSet(S) /\ IsFiniteSet(F) /\ F \in SUBSET Int
    <2>1. F \in SUBSET S
      BY DEF First
    <2> QED BY <1>1, <2>1, FS_Subset
  <1>3. \A r \in F : Cardinality(Upto(r)) <= n
    BY DEF First
  <1> HIDE DEF F
  <1>4. CASE F = {}
    BY <1>2, <1>4, FS_EmptySet DEF F
  <1>5. CASE F # {}
    <2>1. PICK m \in F : \A r \in F : m >= r
      BY <1>2, <1>5, GreatestIn
    <2>2. F \in SUBSET Upto(m) /\ Upto(m) \in SUBSET S
      BY <1>2, <2>1
    <2> HIDE DEF Upto
    <2>3. /\ Cardinality(F) <= Cardinality(Upto(m))
          /\ Cardinality(F) \in Nat /\ Cardinality(Upto(m)) \in Nat
      BY <1>2, <2>2, FS_Subset, FS_CardinalityType
    <2>4. Cardinality(F) <= n
      BY <1>3, <2>1, <2>3
    <2> QED BY <1>2, <2>4 DEF F
  <1> QED BY <1>4, <1>5

LEMMA LowestIsARow ==
  ASSUME NEW S \in SUBSET Row, S # {}
  PROVE  Lowest(S) \in S
  <1>1. IsFiniteSet(S) /\ S \in SUBSET Int
    BY RowsAreFinite, FS_Subset
  <1>2. \E x \in S : \A y \in S : x <= y
    BY <1>1, LeastIn
  <1> QED BY <1>2 DEF Lowest

(* A batch is taken, loses a row, is given up.                             *)
LEMMA BatchSteps ==
  ASSUME NEW n \in Nat
  PROVE  /\ Waiting \in Batches(n)
         /\ \A S \in SUBSET Row :
              [on |-> TRUE, rows |-> First(n, S), flip |-> {}] \in Batches(n)
         /\ \A s \in Batches(n) :
              /\ s.rows \in SUBSET Row /\ s.flip \in SUBSET Row
              /\ [s EXCEPT !.rows = {}] \in Batches(n)
              /\ \A r \in s.rows :
                   /\ r \in Row
                   /\ [s EXCEPT !.rows = @ \ {r}, !.flip = @] \in Batches(n)
                   /\ [s EXCEPT !.rows = @ \ {r}, !.flip = @ \union {r}] \in Batches(n)
  <1>1. Waiting \in Batches(n)
    BY FS_EmptySet DEF Waiting, Batches
  <1>2. ASSUME NEW S \in SUBSET Row
        PROVE  [on |-> TRUE, rows |-> First(n, S), flip |-> {}] \in Batches(n)
    BY FirstAreFew DEF Batches
  <1>3. ASSUME NEW s \in Batches(n)
        PROVE  /\ s.rows \in SUBSET Row /\ s.flip \in SUBSET Row
               /\ [s EXCEPT !.rows = {}] \in Batches(n)
    BY FS_EmptySet DEF Batches
  <1>4. ASSUME NEW s \in Batches(n), NEW r \in s.rows
        PROVE  /\ r \in Row
               /\ [s EXCEPT !.rows = @ \ {r}, !.flip = @] \in Batches(n)
               /\ [s EXCEPT !.rows = @ \ {r}, !.flip = @ \union {r}] \in Batches(n)
    <2>1. /\ s \in [on : BOOLEAN, rows : SUBSET Row, flip : SUBSET Row]
          /\ s.flip \intersect s.rows = {} /\ Cardinality(s.rows) <= n
      BY DEF Batches
    <2>2. IsFiniteSet(s.rows)
      BY <2>1, RowsAreFinite, FS_Subset
    <2>3. /\ Cardinality(s.rows \ {r}) <= Cardinality(s.rows)
          /\ Cardinality(s.rows \ {r}) \in Nat /\ Cardinality(s.rows) \in Nat
      BY <2>2, FS_Subset, FS_CardinalityType
    <2>4. Cardinality(s.rows \ {r}) <= n
      BY <2>1, <2>3
    <2> QED BY <2>1, <2>4 DEF Batches
  <1> QED BY <1>1, <1>2, <1>3, <1>4

LEMMA EvictTypesInit == EvictionInit => EvictTypes
  <1> SUFFICES ASSUME EvictionInit PROVE EvictTypes
    OBVIOUS
  <1>1. evicting \in Batches(EvictBatch) /\ auditing \in Batches(AuditBatch)
    BY BatchSteps, EvictionAssumption DEF EvictionInit
  <1> QED BY <1>1, EvictionAssumption DEF EvictionInit, EvictTypes

LEMMA EvictTypesStep ==
  ASSUME EvictTypes, EvictionStep \/ UNCHANGED onedrive
  PROVE  EvictTypes'
  <1> USE DEF EvictTypes
  <1>0. EvictBatch \in Nat /\ AuditBatch \in Nat /\ MaxReads \in Nat /\ MaxCuts \in Nat
    BY EvictionAssumption
  <1>1. ASSUME NEW r \in Row, ReadFile(r) \/ SaveRecord(r) \/ UserActs(r) \/ Free(r)
        PROVE  EvictTypes'
    <2>1. CASE ReadFile(r)
      BY <1>0, <2>1 DEF ReadFile
    <2>2. CASE SaveRecord(r)
      BY <1>0, <2>2 DEF SaveRecord
    <2>3. CASE UserActs(r)
      BY <1>0, <2>3 DEF UserActs
    <2>4. CASE Free(r)
      BY <1>0, <2>4 DEF Free
    <2> QED BY <1>1, <2>1, <2>2, <2>3, <2>4
  <1>2. CASE EvictSelect
    BY <1>0, <1>2, BatchSteps DEF EvictSelect
  <1>3. CASE EvictRow
    <2> DEFINE r == Lowest(evicting.rows)
               fails == bytes[r] = "local" /\ r \in Pinned
    <2>1. r \in evicting.rows /\ r \in Row
      BY <1>0, <1>3, BatchSteps, LowestIsARow DEF EvictRow
    <2>2. /\ evicting' = [evicting EXCEPT !.rows = @ \ {r},
                            !.flip = IF fails THEN @ ELSE @ \union {r}]
          /\ allowed' = IF bytes[r] = "local" THEN allowed \union ({r} \ Pinned) ELSE allowed
          /\ UNCHANGED <<bytes, reading, flagged, auditing, reads, cuts>>
      BY <1>3 DEF EvictRow
    <2> HIDE DEF r, fails
    <2>3. CASE fails
      BY <1>0, <2>1, <2>2, <2>3, BatchSteps
    <2>4. CASE ~fails
      BY <1>0, <2>1, <2>2, <2>4, BatchSteps
    <2> QED BY <2>3, <2>4
  <1>4. CASE EvictUpdate
    BY <1>0, <1>4, BatchSteps DEF EvictUpdate
  <1>5. CASE EvictCut
    <2>1. cuts' \in 0..MaxCuts
      BY <1>0, <1>5 DEF EvictCut, Cut
    <2>2. evicting' \in Batches(EvictBatch)
      <3>1. evicting' = [evicting EXCEPT !.rows = {}] \/ evicting' = Waiting
        BY <1>5 DEF EvictCut
      <3> QED BY <1>0, <3>1, BatchSteps
    <2> QED BY <2>1, <2>2, <1>5 DEF EvictCut
  <1>6. CASE AuditSelect
    <2>1. Row \ flagged \in SUBSET Row
      OBVIOUS
    <2> QED BY <1>0, <1>6, <2>1, BatchSteps DEF AuditSelect
  <1>7. CASE AuditRow
    <2> DEFINE r == Lowest(auditing.rows)
    <2>1. r \in auditing.rows /\ r \in Row
      BY <1>0, <1>7, BatchSteps, LowestIsARow DEF AuditRow
    <2>2. /\ auditing' = [auditing EXCEPT !.rows = @ \ {r},
                            !.flip = IF StillCached(r) THEN @ \union {r} ELSE @]
          /\ UNCHANGED <<bytes, reading, allowed, flagged, evicting, reads, cuts>>
      BY <1>7 DEF AuditRow
    <2> HIDE DEF r
    <2>3. CASE StillCached(r)
      BY <1>0, <2>1, <2>2, <2>3, BatchSteps
    <2>4. CASE ~StillCached(r)
      BY <1>0, <2>1, <2>2, <2>4, BatchSteps
    <2> QED BY <2>3, <2>4
  <1>8. CASE AuditUpdate
    <2>1. auditing.flip \in SUBSET Row
      BY <1>0, BatchSteps
    <2> QED BY <1>0, <1>8, <2>1, BatchSteps DEF AuditUpdate
  <1>9. CASE AuditCut
    <2>1. cuts' \in 0..MaxCuts
      BY <1>0, <1>9 DEF AuditCut, Cut
    <2>2. auditing' \in Batches(AuditBatch)
      <3>1. auditing' = [auditing EXCEPT !.rows = {}] \/ auditing' = Waiting
        BY <1>9 DEF AuditCut
      <3> QED BY <1>0, <3>1, BatchSteps
    <2> QED BY <2>1, <2>2, <1>9 DEF AuditCut
  <1>10. CASE UNCHANGED onedrive
    BY <1>10 DEF onedrive
  <1> QED BY <1>1, <1>2, <1>3, <1>4, <1>5, <1>6, <1>7, <1>8, <1>9, <1>10
       DEF EvictionStep, Evict, Audit

=============================================================================
