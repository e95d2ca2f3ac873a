---------------------------- MODULE FaceCatalog -----------------------------
(***************************************************************************)
(* What ingestion promises about a face, with no index, outbox, thread or  *)
(* file in sight: it is stored, and later it is in the index for good or   *)
(* has been parked for an operator.  Crashes do not exist at this level.   *)
(***************************************************************************)
EXTENDS FiniteSets

CONSTANTS
  Face,
  Preloaded   \* faces stored at the start

VARIABLES
  stored,     \* faces with a database row
  indexed,    \* faces a restart would find in the index
  parked      \* faces given up after too many attempts

catalogVars == <<stored, indexed, parked>>

CatalogInit == stored = Preloaded /\ indexed = {} /\ parked = {}

Store(f) ==
  /\ f \notin stored
  /\ stored' = stored \union {f}
  /\ UNCHANGED <<indexed, parked>>

(* A merge makes any number of stored faces durable at once.               *)
MakeDurable ==
  /\ \E S \in SUBSET (stored \ indexed) : S # {} /\ indexed' = indexed \union S
  /\ UNCHANGED <<stored, parked>>

Park ==
  /\ \E S \in SUBSET (stored \ parked) : S # {} /\ parked' = parked \union S
  /\ UNCHANGED <<stored, indexed>>

CatalogNext == (\E f \in Face : Store(f)) \/ MakeDurable \/ Park

CatalogSpec == CatalogInit /\ [][CatalogNext]_catalogVars

=============================================================================
