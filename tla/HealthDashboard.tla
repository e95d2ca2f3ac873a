--------------------------- MODULE HealthDashboard --------------------------
(***************************************************************************)
(* src/operations-dashboard/backend/main.py: the registry of WebSocket     *)
(* connections, the loop that probes the facetracker API and broadcasts    *)
(* what it saw, and the requests that probe it on demand.                  *)
(*                                                                         *)
(* Coroutines interleave at awaits.  The registry's lock is never held     *)
(* across one, so nobody waits for it.                                     *)
(***************************************************************************)
EXTENDS Naturals, FiniteSets

CONSTANT Client

VARIABLES
  socket,       \* of each client: none, open or closed
  endpoint,     \* where its websocket_endpoint() is: off, accepted, serving, over
  registry,     \* how often a client is in active_connections
  probes,       \* the answers of this round
  broadcaster,  \* where broadcast_health_status() is
  snapshot,     \* connections the broadcast has still to send to
  dead          \* those a send failed for

dashboard == <<socket, endpoint, registry, probes, broadcaster, snapshot, dead>>

Service == {"indexing-engine", "search-api", "vector-db"}

(* What _facetracker_get() comes to: 200 with a JSON object, 200 with      *)
(* anything else, another status or one of the four errors it turns into   *)
(* -1, or an error it lets through.                                        *)
Answer  == {"object", "other", "failed", "raised"}
Unasked == [s \in Service |-> "none"]

DashboardInit ==
  /\ socket = [c \in Client |-> "none"] /\ endpoint = [c \in Client |-> "off"]
  /\ registry = [c \in Client |-> 0] /\ snapshot = {} /\ dead = {}
  /\ probes = Unasked /\ broadcaster = "sleep"

DashboardTypeOK ==
  /\ socket \in [Client -> {"none", "open", "closed"}]
  /\ endpoint \in [Client -> {"off", "accepted", "serving", "over"}]
  /\ registry \in [Client -> 0..1]
  /\ snapshot \subseteq Client /\ dead \subseteq Client
  /\ probes \in [Service -> Answer \union {"none"}]
  /\ broadcaster \in {"sleep", "probe", "send", "prune"}

-----------------------------------------------------------------------------
(* Connections.                                                            *)
Accept(c) ==
  /\ socket[c] = "none" /\ socket' = [socket EXCEPT ![c] = "open"]
  /\ endpoint' = [endpoint EXCEPT ![c] = "accepted"]
  /\ UNCHANGED <<registry, probes, broadcaster, snapshot, dead>>

Connect(c) ==
  /\ endpoint[c] = "accepted" /\ endpoint' = [endpoint EXCEPT ![c] = "serving"]
  /\ registry' = [registry EXCEPT ![c] = @ + 1]
  /\ UNCHANGED <<socket, probes, broadcaster, snapshot, dead>>

Close(c) ==
  /\ socket[c] = "open" /\ socket' = [socket EXCEPT ![c] = "closed"]
  /\ UNCHANGED <<endpoint, registry, probes, broadcaster, snapshot, dead>>

Listed    == {c \in Client : registry[c] > 0}

(* list.remove() takes one away; its ValueError is passed over.            *)
Without(S) == [c \in Client |-> IF c \in S \intersect Listed THEN registry[c] - 1 ELSE registry[c]]

(* Mutant of Disconnect: the endpoint leaves it to the broadcast.          *)
Disconnect_Forgets(c) ==
  /\ endpoint[c] = "serving" /\ socket[c] = "closed"
  /\ endpoint' = [endpoint EXCEPT ![c] = "over"]
  /\ UNCHANGED <<socket, registry, probes, broadcaster, snapshot, dead>>

(* The endpoint's receive fails; a connection that is not there any more   *)
(* is not missed.                                                          *)
Disconnect(c) ==
  /\ endpoint[c] = "serving" /\ socket[c] = "closed"
  /\ endpoint' = [endpoint EXCEPT ![c] = "over"]
  /\ registry' = Without({c})
  /\ UNCHANGED <<socket, probes, broadcaster, snapshot, dead>>

-----------------------------------------------------------------------------
(* The status of a service as it is broadcast, from its probe; scanning    *)
(* tells whether the indexing engine says it scans.                        *)
Status(s, answer, scanning) ==
  CASE answer \notin {"object", "other"} -> "offline"
    [] s # "indexing-engine"             -> "online"
    [] OTHER -> IF answer = "object" /\ scanning THEN "processing" ELSE "idle"

(* The same on request: an answer that is no object is offline, except for *)
(* the search API, whose answer is not looked at.                          *)
Drilldown(s, answer, scanning) ==
  IF answer = "other" /\ s # "search-api" THEN "offline" ELSE Status(s, answer, scanning)

(* The top line of the page, from the probes of /health and of the         *)
(* statistics.                                                             *)
TopLine(health, stats) ==
  CASE health \notin {"object", "other"} -> "offline"
    [] stats # "object"                  -> "degraded"
    [] OTHER                             -> "online"

(* The three probes run one after the other; an error that is let through  *)
(* ends the round.                                                         *)
Wake ==
  /\ broadcaster = "sleep" /\ broadcaster' = "probe"
  /\ UNCHANGED <<socket, endpoint, registry, probes, snapshot, dead>>

Probe ==
  /\ broadcaster = "probe"
  /\ \E answers \in [Service -> Answer] :
       IF \E s \in Service : answers[s] = "raised"
       THEN broadcaster' = "sleep" /\ UNCHANGED <<probes, snapshot>>
       ELSE broadcaster' = "send" /\ probes' = answers /\ snapshot' = Listed
  /\ UNCHANGED <<socket, endpoint, registry, dead>>

Send(c) ==
  /\ broadcaster = "send" /\ c \in snapshot /\ snapshot' = snapshot \ {c}
  /\ dead' = IF socket[c] = "open" THEN dead ELSE dead \union {c}
  /\ UNCHANGED <<socket, endpoint, registry, probes, broadcaster>>

SendEnds ==
  /\ broadcaster = "send" /\ snapshot = {} /\ broadcaster' = "prune"
  /\ probes' = Unasked
  /\ UNCHANGED <<socket, endpoint, registry, snapshot, dead>>

(* Mutant of Pruned: all that were not served this round go.               *)
Pruned_Rebuilt == [c \in Client |-> 0]

Pruned == Without(dead)

Prune ==
  /\ broadcaster = "prune" /\ broadcaster' = "sleep"
  /\ registry' = Pruned /\ dead' = {}
  /\ UNCHANGED <<socket, endpoint, probes, snapshot>>

Broadcast == Wake \/ Probe \/ SendEnds \/ Prune \/ \E c \in Client : Send(c)

DashboardStep ==
  \/ \E c \in Client : Accept(c) \/ Connect(c) \/ Close(c) \/ Disconnect(c)
  \/ Broadcast

-----------------------------------------------------------------------------
(* A client whose connection is open and served is registered, whatever    *)
(* connects, closes or is pruned while a broadcast is under way; and a     *)
(* request that gets the answers of a broadcast is told what is broadcast, *)
(* unless an answer is 200 with no object: there the two differ.           *)
ClientsServed ==
  /\ \A c \in Client : endpoint[c] = "serving" /\ socket[c] = "open" => c \in Listed
  /\ broadcaster = "send" =>
       /\ \A s \in Service, scanning \in BOOLEAN :
            probes[s] # "other" =>
              Status(s, probes[s], scanning) = Drilldown(s, probes[s], scanning)
       /\ TopLine(probes["search-api"], probes["vector-db"]) = "online" =>
            \A s \in Service \ {"indexing-engine"} : Status(s, probes[s], FALSE) = "online"

(* A connection that closed leaves the registry for good.                  *)
ClosedLeave ==
  \A c \in Client : socket[c] = "closed" ~> [](c \notin Listed)
=============================================================================
