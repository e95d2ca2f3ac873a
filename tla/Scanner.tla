------------------------------ MODULE Scanner -------------------------------
(***************************************************************************)
(* src/src/discovery/scanner.py: scan_drives(), one producer thread for    *)
(* each drive, a bounded queue of records and sentinels, and the generator *)
(* that makes batches of them for the scan loop of the indexing manager.   *)
(*                                                                         *)
(* A tree is given by the directory of every entry; files come and go      *)
(* while it is walked.  Extension, size and exclusions decide whether a    *)
(* file is wanted, for good.                                               *)
(***************************************************************************)
EXTENDS Naturals, Sequences, FiniteSets

CONSTANTS
  Drive, Folder, Entry,
  In,          \* the drive or folder of each folder and entry
  Wanted,      \* entries whose records are wanted
  Excluded,    \* folders that are not entered
  RecordQueue, \* record_queue's maxsize
  BatchSize,
  MaxMoves     \* bound on files that come or go during the scan

ASSUME ScannerAssumption ==
  /\ Drive # {} /\ IsFiniteSet(Drive) /\ Drive \intersect (Folder \union Entry) = {}
  /\ In \in [Folder \union Entry -> Drive \union Folder]
  /\ \A A \in SUBSET Folder : A # {} => \E x \in A : In[x] \notin A  \* no folder is under itself
  /\ RecordQueue \in Nat \ {0} /\ BatchSize \in Nat \ {0} /\ MaxMoves \in Nat

VARIABLES
  here,      \* entries that exist
  moved,     \* history: entries that came or went during the scan
  producer,  \* of each drive: where its walk is
  listed,    \* history: of each drive, the directories its walk has listed
  records,   \* record_queue: entries, and drives as their sentinels
  buffer,    \* the batch being filled
  drained,   \* sentinels received
  consumer,  \* where scan_drives() is
  handed,    \* history: how often each entry was handed over
  failed     \* history: drives whose walk raised, directories not read

scanner == <<here, moved, producer, listed, records, buffer, drained, consumer, handed, failed>>

NoEntry == "none"
Off     == [at |-> "off", dirs |-> {}, files |-> {}, record |-> NoEntry]

ScannerInit ==
  /\ here \in SUBSET Entry /\ moved = {}
  /\ producer = [d \in Drive |-> Off] /\ listed = [d \in Drive |-> {}]
  /\ records = <<>> /\ buffer = <<>> /\ drained = 0
  /\ consumer = "idle"
  /\ handed = [e \in Entry |-> 0] /\ failed = {}

ScannerTypeOK ==
  /\ here \subseteq Entry /\ moved \subseteq Entry /\ failed \subseteq Drive \union Folder
  /\ \A d \in Drive :
       /\ producer[d].at \in {"off", "walk", "put", "last", "done"}
       /\ producer[d].dirs \subseteq Folder \union {d}
       /\ producer[d].files \subseteq Entry
       /\ producer[d].record \in Entry \union {NoEntry}
       /\ listed[d] \subseteq Folder \union {d}
  /\ records \in Seq(Entry \union Drive) /\ Len(records) <= RecordQueue
  /\ buffer \in Seq(Entry) /\ Len(buffer) <= BatchSize
  /\ drained \in 0..Cardinality(Drive)
  /\ consumer \in {"idle", "draining", "yielding", "flushing", "ended", "dropped"}
  /\ handed \in [Entry -> Nat]

-----------------------------------------------------------------------------
(* The owner of the files.                                                 *)
ComeOrGo(e) ==
  /\ Cardinality(moved) < MaxMoves /\ moved' = moved \union {e}
  /\ here' = IF e \in here THEN here \ {e} ELSE here \union {e}
  /\ UNCHANGED <<producer, listed, records, buffer, drained, consumer, handed, failed>>

Walk(d, p) == producer' = [producer EXCEPT ![d] = p]

(* _scandir_recursive(): the listing of a directory is taken at once, its  *)
(* files come first, then its folders, which are listed when the walk      *)
(* comes to them.                                                          *)
List(d) ==
  LET p == producer[d] IN
  /\ p.at = "walk" /\ p.files = {}
  /\ \E dir \in p.dirs :
       /\ Walk(d, [p EXCEPT
            !.files = {e \in here : In[e] = dir},
            !.dirs  = (@ \ {dir}) \union {s \in Folder \ Excluded : In[s] = dir}])
       /\ listed' = [listed EXCEPT ![d] = @ \union {dir}]
  /\ UNCHANGED <<here, moved, records, buffer, drained, consumer, handed, failed>>

(* A directory that cannot be read is passed over.                         *)
PassOver(d) ==
  LET p == producer[d] IN
  /\ p.at = "walk" /\ p.files = {}
  /\ \E dir \in p.dirs : Walk(d, [p EXCEPT !.dirs = @ \ {dir}]) /\ failed' = failed \union {dir}
  /\ UNCHANGED <<here, moved, listed, records, buffer, drained, consumer, handed>>

(* _scan_single_drive(): a listed file that cannot be read is skipped.     *)
Visit(d) ==
  LET p == producer[d] IN
  /\ p.at = "walk"
  /\ \E e \in p.files :
       Walk(d, IF e \in Wanted \intersect here
               THEN [p EXCEPT !.files = @ \ {e}, !.at = "put", !.record = e]
               ELSE [p EXCEPT !.files = @ \ {e}])
  /\ UNCHANGED <<here, moved, listed, records, buffer, drained, consumer, handed, failed>>

(* Mutant of Enqueue: a full queue drops what it is given.                 *)
Enqueue_NoWait(x) == records' = IF Len(records) < RecordQueue THEN Append(records, x) ELSE records

(* put() without a timeout.                                                *)
Enqueue(x) == Len(records) < RecordQueue /\ records' = Append(records, x)

PutRecord(d) ==
  /\ producer[d].at = "put" /\ Enqueue(producer[d].record)
  /\ Walk(d, [producer[d] EXCEPT !.at = "walk", !.record = NoEntry])
  /\ UNCHANGED <<here, moved, listed, buffer, drained, consumer, handed, failed>>

WalkEnds(d) ==
  /\ producer[d].at = "walk" /\ producer[d].dirs \union producer[d].files = {}
  /\ Walk(d, [producer[d] EXCEPT !.at = "last"])
  /\ UNCHANGED <<here, moved, listed, records, buffer, drained, consumer, handed, failed>>

(* Mutant of WalkRaises: the producer dies without its sentinel.           *)
WalkRaises_Silent(d) ==
  /\ producer[d].at = "walk" /\ failed' = failed \union {d}
  /\ Walk(d, [Off EXCEPT !.at = "done"])
  /\ UNCHANGED <<here, moved, listed, records, buffer, drained, consumer, handed>>

(* The walk fails half-way.                                                *)
WalkRaises(d) ==
  /\ producer[d].at = "walk" /\ failed' = failed \union {d}
  /\ Walk(d, [Off EXCEPT !.at = "last"])
  /\ UNCHANGED <<here, moved, listed, records, buffer, drained, consumer, handed>>

PutSentinel(d) ==
  /\ producer[d].at = "last" /\ Enqueue(d)
  /\ Walk(d, [producer[d] EXCEPT !.at = "done"])
  /\ UNCHANGED <<here, moved, listed, buffer, drained, consumer, handed, failed>>

Producer(d) ==
  List(d) \/ Visit(d) \/ PutRecord(d) \/ WalkEnds(d) \/ PutSentinel(d)

-----------------------------------------------------------------------------
(* The generator.                                                          *)
Launch ==
  /\ consumer = "idle" /\ consumer' = "draining"
  /\ producer' = [d \in Drive |-> [Off EXCEPT !.at = "walk", !.dirs = {d}]]
  /\ UNCHANGED <<here, moved, listed, records, buffer, drained, handed, failed>>

AllDone(n) == n = Cardinality(Drive)

Drain ==
  /\ consumer = "draining" /\ records # <<>>
  /\ records' = Tail(records)
  /\ IF Head(records) \in Drive
     THEN /\ drained' = drained + 1 /\ UNCHANGED buffer
          /\ consumer' = IF AllDone(drained + 1) THEN "flushing" ELSE "draining"
     ELSE /\ buffer' = Append(buffer, Head(records)) /\ UNCHANGED drained
          /\ consumer' = IF Len(buffer) + 1 >= BatchSize THEN "yielding" ELSE "draining"
  /\ UNCHANGED <<here, moved, producer, listed, handed, failed>>

Given(e) == Cardinality({i \in DOMAIN buffer : buffer[i] = e})

(* The caller takes a batch, the last one also when it is not full.        *)
HandOver ==
  /\ consumer \in {"yielding", "flushing"}
  /\ consumer' = IF consumer = "yielding" THEN "draining" ELSE "ended"
  /\ handed' = [e \in Entry |-> handed[e] + Given(e)]
  /\ buffer' = <<>>
  /\ UNCHANGED <<here, moved, producer, listed, records, drained, failed>>

(* The caller drops the generator at a yield: it is stopping, or raised.   *)
DropScan ==
  /\ consumer \in {"yielding", "flushing"} /\ buffer # <<>> /\ consumer' = "dropped"
  /\ UNCHANGED <<here, moved, producer, listed, records, buffer, drained, handed, failed>>

ScannerStep ==
  \/ \E e \in Entry : ComeOrGo(e)
  \/ \E d \in Drive : Producer(d) \/ PassOver(d) \/ WalkRaises(d)
  \/ Launch \/ Drain \/ HandOver \/ DropScan

-----------------------------------------------------------------------------
(* The directories from the entry up to its drive were entered and read.   *)
Reached(e) ==
  \E path \in SUBSET (Drive \union Folder) :
    /\ In[e] \in path /\ path \intersect (Excluded \union failed) = {}
    /\ \A x \in path \ Drive : In[x] \in path

(* A scan that ended handed every wanted file that stood still, under      *)
(* directories that could be read on a drive whose walk did not raise, to  *)
(* its caller exactly once, and no file twice.                             *)
HandedOnce ==
  /\ \A e \in Entry : handed[e] + Given(e) <= 1
  /\ consumer = "ended" =>
       \A e \in (here \intersect Wanted) \ moved :
         Reached(e) => handed[e] = 1

(* A scan that is not dropped comes to its end, and so do its producers,   *)
(* however small the queue and whichever drives fail.                      *)
ScanComes ==
  consumer = "draining" ~>
    consumer = "dropped" \/ (consumer = "ended" /\ \A d \in Drive : producer[d].at = "done")
=============================================================================
