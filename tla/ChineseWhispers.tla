-------------------------- MODULE ChineseWhispers ---------------------------
(***************************************************************************)
(* The clustering of the full mode of src/scripts/cluster_faces.py: the    *)
(* graph of each face's nearest neighbours, the propagation of labels over *)
(* it, and the labels made dense.  A similarity is a small number.         *)
(***************************************************************************)
EXTENDS Integers, FiniteSets, Functions

CONSTANTS
  Node,       \* 0..n-1
  Highest,    \* similarities are 0..Highest
  Threshold,
  K,          \* k_neighbours
  MaxIter

ASSUME WhispersAssumption ==
  /\ Node \subseteq Nat /\ IsFiniteSet(Node)
  /\ Highest \in Nat /\ Threshold \in Nat /\ K \in Nat /\ MaxIter \in Nat \ {0}

VARIABLES
  sim,      \* of each pair of nodes
  adj,      \* the graph: the edges of a node
  labels,
  order,    \* nodes this sweep has still to visit
  sweep,    \* how many sweeps have begun
  changed,  \* labels changed in this sweep
  phase     \* idle, sweeping or done

whispers == <<sim, adj, labels, order, sweep, changed, phase>>

Pairs == {{i, j} : i, j \in Node} \ {{i} : i \in Node}

WhispersInit ==
  /\ sim = [p \in Pairs |-> 0]
  /\ adj = [i \in Node |-> {}] /\ labels = [i \in Node |-> i]
  /\ order = {} /\ sweep = 0 /\ changed = FALSE /\ phase = "idle"

WhispersTypeOK ==
  /\ adj \in [Node -> SUBSET Node] /\ labels \in [Node -> Node]
  /\ order \subseteq Node /\ sweep \in 0..MaxIter
  /\ changed \in BOOLEAN /\ phase \in {"idle", "sweeping", "done"}

-----------------------------------------------------------------------------
(* Mutant of Near: every neighbour found is an edge.                       *)
Near_Any(s, i, j) == TRUE

Near(s, i, j) == s[{i, j}] >= Threshold

(* The K nearest of i; which of those equally near is the index's affair,  *)
(* here the lower number.                                                  *)
Closer(s, i, j, k) == s[{i, j}] > s[{i, k}] \/ (s[{i, j}] = s[{i, k}] /\ j < k)
Nearest(s, i) ==
  {j \in Node \ {i} : Cardinality({k \in Node \ {i} : Closer(s, i, k, j)}) < K}

(* _build_knn_graph(): an edge found from one end is there at both.        *)
Edges(s, i) ==
  {j \in Node \ {i} : (j \in Nearest(s, i) \/ i \in Nearest(s, j)) /\ Near(s, i, j)}

Build ==
  /\ phase = "idle" /\ phase' = "sweeping"
  /\ sim' \in [Pairs -> 0..Highest]
  /\ adj' = [i \in Node |-> Edges(sim', i)]
  /\ order' = Node /\ sweep' = 1 /\ changed' = FALSE
  /\ UNCHANGED labels

(* The sum of the similarities of the neighbours with a label: how many    *)
(* there are below each of them.                                           *)
Weight(i, l) ==
  Cardinality({e \in adj[i] \X (1..Highest) :
                 labels[e[1]] = l /\ e[2] <= sim[{i, e[1]}]})

(* The label with the most weight among the neighbours, the smallest of    *)
(* those.                                                                  *)

Best(i) ==
  LET heard == {labels[j] : j \in adj[i]}
      top   == {l \in heard : \A m \in heard : Weight(i, l) >= Weight(i, m)}
  IN  IF heard = {} THEN labels[i] ELSE CHOOSE l \in top : \A m \in top : l <= m

(* A sweep visits the nodes in any order.                                  *)
Whisper ==
  /\ phase = "sweeping"
  /\ \E i \in order :
       /\ order' = order \ {i}
       /\ labels' = [labels EXCEPT ![i] = Best(i)]
       /\ changed' = (changed \/ Best(i) # labels[i])
  /\ UNCHANGED <<sim, adj, sweep, phase>>

SweepEnds ==
  /\ phase = "sweeping" /\ order = {}
  /\ IF changed /\ sweep < MaxIter
     THEN order' = Node /\ sweep' = sweep + 1 /\ changed' = FALSE /\ UNCHANGED phase
     ELSE phase' = "done" /\ UNCHANGED <<order, sweep, changed>>
  /\ UNCHANGED <<sim, adj, labels>>

(* _compact_labels(): the place of each label among those in use.          *)
Compact(i) == Cardinality({l \in Range(labels) : l < labels[i]})

WhispersStep == Build \/ Whisper \/ SweepEnds

-----------------------------------------------------------------------------
(* No cut parts them.                                                      *)
Linked(i, j) ==
  \A S \in SUBSET Node :
    i \in S /\ j \notin S => \E x \in S, y \in Node \ S : sim[{x, y}] >= Threshold

(* Two faces with one label are linked by faces of which each is similar   *)
(* enough to the next, in every sweep and however it was ordered; and when *)
(* the last sweep changed nothing, every face has the label its neighbours *)
(* speak for and the cluster numbers have no gap.                          *)
ClustersLinked ==
  /\ \A i, j \in Node : labels[i] = labels[j] => Linked(i, j)
  /\ phase = "done" =>
       /\ changed \/ \A i \in Node : labels[i] = Best(i)
       /\ {Compact(i) : i \in Node} = 0..Cardinality(Range(labels)) - 1
=============================================================================
