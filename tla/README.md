# Formal models of facetracker

TLA+ models of the parts of facetracker in which threads, crashes and retries
meet, TLC runs on small instances, and TLAPS proofs for all instances.

Parse a module with `tlasany M.tla`, check a run with
`tlc -config X.cfg M.tla`, check the proofs with `tlapm M.tla`.
`PROJECT.json` maps every definition to the lines it models.

## 1. The system

One API process (`src/src/main.py`) owns everything below except the host
scripts and the dashboard. Postgres outlives it.

| Component | State | Operations | Talks to |
|---|---|---|---|
| FAISS index (`storage/faiss_index.py`) | `live_index`, `live_ids`, staging buffer, `merge_lock`, two files | add, add_batch, merge, search, load | reaper, recovery, search, health |
| Outbox and reaper (`storage/outbox.py`) | rows of `faiss_outbox` with status and attempts | enqueue, reclaim, claim, push, mark, prune | index, pipeline, database |
| Recovery (`discovery/manager.py`) | one thread per start | phases A, B, C | images, faces, outbox, index |
| Health (`api/routes/stats.py`) | none | faiss-health | index, outbox |
| Indexing manager (`discovery/manager.py`) | bounded queue, counters, threads, stop event | scan, work, file events, start, stop | scanner, watcher, manifest, pipeline |
| Manifest (`discovery/manifest.py`) | JSON file and its cache; images table | needs_processing, add, delete, save | manager |
| Pipeline (`pipeline/processor.py`) | rows of images and faces, video lock | process_file | readers, detector, outbox |
| Scanner (`discovery/scanner.py`) | bounded queue, a producer per drive | scan_drives | manager |
| Watcher (`discovery/watcher.py`) | debounce timers, pending files | events, start, stop | manager |
| OneDrive eviction (`discovery/onedrive.py`, `scripts/*.ps1`) | `onedrive_revert_pending` | flag, evict, audit | pipeline, host |
| Identities (`api/routes/identity.py`, `scripts/cluster_faces.py`) | identities, face mappings | merge, split, rename, incremental and full clustering | database |
| Verification queue (`identity/verification.py`) | priority queue, undo stack | add, process, undo | nobody at run time |
| Index scripts (`scripts/faiss_*.py`) | the two index files | rebuild, migrate, tune | database, files |
| Connectivity guard (`utils/connectivity.py`) | last known health | wait_for_db | every loop |
| Dashboard backend (`operations-dashboard/backend/main.py`) | WebSocket registry | connect, disconnect, broadcast | API |
| Search (`search/*.py`) | none | single-face, multi-face | index, database |

What makes each correct:

- Index: a vector's position is the only link to its face, so `live_index` and
  `live_ids` must agree in memory, on disk and after any crash; FAISS cannot
  delete, so no face may be added twice.
- Outbox: a face in the database always has somebody who still owes it to the
  index; `committed` means it survives a restart; a row ends committed or failed.
- Recovery: finishes what an earlier process left, and never undoes later work.
- Manager: every file that needs processing is eventually processed; the
  counters satisfy the inequalities their comment states.
- Pipeline: image, faces and outbox rows appear together or not at all; a
  completed row describes the content that is on disk.
- Scanner: a scan hands every file over once and always ends; so do its
  producers.
- Watcher: a change that was delivered is looked at, whatever timers were
  superseded.
- Eviction: what the pipeline made local is freed again.
- Identities: every mapping names an identity that exists, every identity has
  one primary face and a centroid of its own faces, every face comes under one.
- Verification queue: a task is queued, in work, done or cancelled, never two.
- Index scripts: a rebuild leaves a pair of files that agree and cover the table.
- Dashboard: who is connected is served, who left is forgotten.

## 2. Plan

| # | Module | Models | State |
|---|---|---|---|
| 1 | `FaissIndex`, `FaissIndexProofs` | the index, its files, merges, loads | checked, proved |
| 2 | `FaissOutbox` (extends 1), `FaissHealth` (extends it), `FaceCatalog`, `FaissOutboxProofs` | outbox, reapers, backfill; a health request beside them; the abstract catalog | checked, safety and refinement proved |
| 3 | `ImageRecord`, `ImageRecordProofs`, `ImageFacesProofs` | process_file against changing files, insert race, needs_processing, manifest, phases A and C | checked, safety proved |
| 4 | `FileWatcher`, `IndexingManager` (extends it), `Discovery` (composes both), `DiscoveryProofs` | debounce; scan, queue, workers, guard, start and stop; files that change | checked, safety proved |
| 5 | `Identities`, `IdentitiesProofs` | merge, split, incremental and full clustering | checked, safety proved |
| 6 | `Scanner`, `VerificationQueue`, `HealthDashboard`, `OneDriveEviction`, `ProgressCounters`, `ChineseWhispers` | parts that share no state with the rest | checked, by `MCServices`; safety proved in `ServicesProofs` |
| 7 | `FaissRebuild` (extends 1), `FaissRebuildProofs` | rebuild and migration scripts beside the process | checked, by `MCServices`; safety proved |

Every safety invariant, every action property and the refinement that a run
checks are proved; the liveness properties are not, and stay with TLC (section
5). No module declares a RECURSIVE operator. A definition
that no prover expands (a fold, `SelectSeq`, `SetToSortSeq`) is kept out of the
modules proved about (`Table` lists the rows of a table as the increasing
function onto them), or met by a lemma about what it returns.

## 3. Modules

### FaissIndex

A vector is abstracted to its face. `live_index`, `live_ids`, `staging`,
`disk_index` and `disk_ids` are sequences of faces; position stands for the
FAISS id. `lock` is `merge_lock` and `pc[c]` says where a calling thread is in
`_merge_staging_to_live`. `add()` gives up the lock before it merges, so
`Buffer` and the merge are separate steps; inside the merge the in-memory add,
the two renames and the publication are separate steps because the process may
die between any two (`Crash`). A save writes a temporary file and renames it,
which is one step; a save that fails leaves the old file. `SaveFails` keeps the
vectors in `live_index`, as the code does. `RestoredIds` is what loading makes
of the two files. Searches take the lock for one step and change nothing;
what they answer is `AlignedUpTo(live_ids, live_index)`.

`tainted` is a history variable: a merge has begun on an index ahead of its
ids (an earlier save failed), or a load has failed over existing files. After
either, the code gives no guarantee (section 6), and the properties say so.

### FaissOutbox, FaissHealth and FaceCatalog

`FaissOutbox` extends the index; its callers are the reapers. `row`,
`attempts` and `old` (claimed longer ago than the stuck timeout) are the
table; `reaper`, `batch` and `todo` are the locals of `_drain_once`; `rec`,
`snap` and `scan` those of the backfill. A database transaction is one step. A
statement may fail without effect (`TickFails`) or take effect and lose its
acknowledgement (`ClaimInDoubt`). `Die` loses everything but the tables and the
files; `Boot` is the lifespan, index first.

The backfill scans the faces in pages of any size (`RecoverPage`), each a
transaction, and its statements fail in two ways. A failing SELECT, or no
connection, breaks it off (`RecoverFails`). A failing INSERT is caught row by
row, but Postgres has aborted the transaction: the page's rows are gone at the
commit, and the backfill goes on and ends as if nothing had happened
(`LosePage`). `lost` is a history variable, the faces of such pages; they and
those after a broken-off backfill are `LeftOut` until the next start.

`FaissHealth` is a request for the health report. It takes no lock: it counts
the faces, then reads the live count, the ids, the staging buffer and whether
the index is trained, one after the other, and the outbox last, where a failing
query counts as no failed row. Every step of the others may come between two of
these. The fields of `probe` are what it has read and still needs; it dies with
the process. Its field `crossed` is history: a face was stored since the faces
were counted, or the ids it read were those of a merge that had not cleared the
staging buffer. Then the sums may agree by accident (section 6). A failure of
its query does not use up `MaxDbFaults`.

`FaceCatalog` is what all this is for: a face is stored, then durable in the
index or parked. `ImplementsCatalog` maps `indexed` to the faces a restart
would load.

### ImageRecord

A file is a content and a stamp, the stamp standing for mtime and size; every
change gives a new stamp, so an edit that keeps the size and moves the mtime by
less than the second `needs_processing()` tolerates is outside the model.
`images`, `faces` and `manifest` are the tables and the JSON file; `job[w]` is
what a worker holds: the stat its record was found with, the hash, the row its
session has loaded, the content the detector saw, the stat for the row. The
file is read at three moments (`Hash`, `Detect`, `Stat`), the table at two
(`Lookup`, `Select`) and written at one (`Commit`), with `Edit`, `Remove`,
`Deleted` and the other workers in between. `job[w]` in stage `found` or `hash`
may still be in the scanner's batch or in the queue: capacity and order are the
manager's.

Two details of the ORM decide the outcome of a race and are modelled by what
they do. A row once loaded in a session keeps its values when it is queried
again, so `loaded` may date from `Lookup`. An UPDATE writes only the columns
whose new value differs from the loaded one (`Updated`), so two workers that
update one row can leave it with columns of both.

A failing statement, a failing read and a restart of the process are counted by
`MaxFaults`; a file that is gone or cannot be decoded fails without counting.
`Init` lets some paths have been recorded by an earlier run and some have a
`pending` row, which the current pipeline no longer writes but the recovery
exists for.

`raced` is a history variable: paths whose file changed between a worker's
first read and its stat (section 6), or whose row was changed by another worker
between the session's load and its UPDATE. Of those the code guarantees
nothing, and the properties say so.

### FileWatcher, IndexingManager and Discovery

`FileWatcher` is the observer and the per-file debounce timers. `armed[f]` and
`fired[f]` count the timers of a file that still run and those that wait for
the handler's lock: `threading.Timer.cancel()` is without effect on the latter,
so one file may have several, while `_timers` knows one (`entry`). The callback
runs under the lock (`calling`). Deletions skip timer and lock. `owed` is a
history variable: files with a delivered change no callback has looked at.

`IndexingManager` is `_scan_loop`, `_worker_loop`, `_on_file_event` and the
`ConnectivityGuard` that both loops wait in. A file is a version on disk and a
version recorded; `needs_processing()` compares the two when the database is
there and may answer either way when it is not (`MayNeed`; how the JSON
manifest decides is `ImageRecord`). A worker that processes a file records what
is on disk then; what happens when it changes under the worker is, again,
`ImageRecord`. A file whose content is known under
another path (`FindsKnown`), or was only touched, is a success without a record
of its own: `copies` holds those, and a scan queues them again each time, as
the code does. A copy counts as `Settled`, and so does a file whose record is
that of its present version. A timeout is a choice: a
`put()` with one may give up only while the queue is full, and the wait for
postgres at start may end without it, which aborts the process.

`Discovery` puts them together over an owner who edits and removes files, and
adds the start-up thread of the watcher and the two halves of `stop()`. `Edit`
and `Remove` are visible to the watcher only while its root is watched.
`EventuallyRecorded`, that a file on disk is settled sooner or later, does not
lean on the watcher: nothing is assumed of it. It excepts a file beside which
copies are there for good, since they can take every free place of the queue
(section 6).

### Identities

`people`, `home` and `primary` are the tables; `job` holds the locals of the
two clusterings that can run at a time, the scan thread's and one by hand;
`call` those of the request in progress. Each statement of the script is a step,
since a transaction at READ COMMITTED sees what others committed before each;
each request is split at the statements between which a clustering may commit.
What waits for a row lock waits (`Wiping`, `Clearing`). The full mode's
`DELETE FROM verification_audit` is left out of `FullClear`: no file under
`src/src` or `src/scripts` creates that table, so on the repository's own schema
the mode raises there, which `FullStops` covers; `FullClear` and what follows
show the mode on a schema that has it. A centroid is the set
of faces it is the mean of. Which identity is nearest to a face is any choice,
so nothing depends on the threshold. `TopCluster` keeps the `or -1`, which turns
a maximum of 0 into -1.

`RawVectors` says what psycopg2 makes of a vector column in raw SQL. The
repository registers no adapter, so it is `"text"`, and the incremental mode
raises at its first face (`identities_text`, section 6). The passing run sets
it to `"array"`, what the code was written for, to judge everything after that
line.

`crossed` is a history variable: identities about which two clusterings
collided, the loser's seed identities and those that the full mode confused
with another's by `cluster_id`. They may be empty with a centroid or have two
primary faces.

`ChineseWhispers` is the clustering itself: the k-nearest-neighbour graph with
edges found from either end, sweeps in any order, and the labels made dense.
`Identities` takes any labelling.

### Parts without shared state

`MCServices` puts eight parts into one behaviour each; `part`, chosen at the
start, says which, and the others stand still. They are one run because they
are small and share no variable, not because they interact.

- `Scanner`: one producer per drive puts records and a last sentinel on a
  bounded queue without a timeout; the generator drains it into batches. A walk
  may raise, a directory may be unreadable, a file may come or go during the
  scan, the caller may drop the generator at a yield. A drive's tree is given by
  the parent of each entry; `ScannerAssumption` says that no folder is under
  itself. `listed` is a history variable: the directories a walk has listed. An
  entry counts as reachable (`Reached`) when a path from its directory up to the
  drive was neither excluded nor failed to be read.
- `VerificationQueue`: everything between two awaits of a handler is a step.
  `runner[r]` is a caller of `process_queue()`. A failed task goes to the tail
  with its priority lowered, or set to the lowest when the handler raised; a
  cancelled handler takes its task with it.
- `HealthDashboard`: coroutines that interleave at awaits. A broadcast sends to
  a snapshot of the registry and removes afterwards whom a send failed for,
  while endpoints add and remove themselves. The registry is how often a
  connection is in the list, so that a second entry would show. `Status`,
  `Drilldown` and `TopLine` translate a probe's answer for three readers.
- `OneDriveEviction`: the pipeline sets `onedrive_revert_pending`, the eviction
  script selects a batch, allows OneDrive to free each file, and clears the
  batch's flags in one UPDATE, the audit sets it again for what stayed local.
  Both take the first rows by id and keep no cursor, so a row behind a batch of
  others that stay as they are is never reached (`Buried`). Each may be cut
  short by its time limit, a lost database or a kill.
- `ProgressCounters`: one step per augmented assignment of the three threads.
  `torn` is a history variable: a reset fell between an event's two counts.
- `ChineseWhispers`: above.
- `FileWatcher` by itself, with the operations on watched paths, which nothing
  in the repository calls.
- `FaissRebuild`: below.

### FaissRebuild

The rebuild script reads `faces` page by page with OFFSET, writes two temporary
files and renames them, index first, with or without the process beside it. The
migration writes two other files, which the operator moves into place with the
process stopped. The process is `FaissIndex`, except that a save is two steps
here: the script's temporary files have the names of the merge's, so each may
rename, or find gone, what the other wrote. A face is its `faces.id`, which is
given at the insert and not at the commit, hence `Commit` in any order.
`RebuildInit` lets either file have been lost, the reason to run a rebuild.

`RebuildRepairs` claims what the script achieves when nobody disturbs it
(`script.clean`): no file touched between its first temporary file and its last
rename, and no row committed during the fetch that the pages still to come
would not find (`Awaited`). A row that comes after all those fetched is found,
unless the last page was not full: the script adds the page size to the offset
even so, and then the next page begins beyond the row. The property also claims
that a process started on its files keeps it. The history variable `sound`
follows the files and the memory from there: it is given up when a merge that
began before overwrites the files, when one runs on an index a failed save left
ahead, and in the window between the two renames.

## 4. Runs

| Run | Bounds | Shows |
|---|---|---|
| `index` | 3 faces, 2 threads, staging 2, IVF with a training floor of 2, one failed save, one raise, one failed load, any number of crashes | search and restart name vectors rightly; no vector twice; no merge trigger is lost |
| `outbox` | 2 faces, one of them without a row, 1 reaper, batch 2, 2 attempts, slow drains, 1 death, 1 raise, 1 failing statement, whether it ends the backfill or loses it a page | no face forgotten but by a failing backfill; refinement of the catalog; every face becomes searchable or spends its attempts |
| `outbox_reapers` | 2 faces, 2 reapers, batch 1, drains faster than the timeout, one each of failed load, merge, statement and death; a health request | claims are exclusive; a claimed row is left alone; a committed row stays; a healthy report is true although read piece by piece |
| `image_record` | 2 paths, one edited and possibly pending, one recorded earlier; 2 contents, one without faces; 2 workers, 2 changes, 1 fault | what is skipped is recorded, with its faces; nothing completed is undone |
| `discovery` | 2 files, one of which changes or goes; 1 worker, queue of 1; 2 troubles, each a change, a lost database, a scan that raises or a file that fails | no delivered change forgotten by the timers; every file comes to be recorded or found a copy, unless copies stay beside it; a stop ends every thread |
| `identities` | 3 faces, one late; 2 of merge, split and runs of the script by hand | centroids and primary marks stay an identity's own; no assignment changed by the incremental mode; every face comes under an identity |
| `services` | scan: 2 drives, 3 files, one excluded, queue of 1, batch of 2, 1 file that comes or goes; watch: 2 files, 3 changes; verify: 2 callers, 3 tasks, batch 2, undo 2, 2 failures; health: 2 clients; evict: 3 rows, 1 pinned, eviction batch 2, audit batch 2, 1 read, 1 cut; count: 2 records, 2 scans; cluster: 4 faces, 3 similarities, 2 neighbours, 2 sweeps; rebuild: 2 faces, 1 thread, staging 1, pages of 1, 1 script | each part's own properties |
| `index_save_fault`, `outbox_ivf`, `outbox_exhausted`, `image_toctou`, `identities_text` | the smallest instance that shows it | section 6 |

Two faces are enough for one to be merged while another waits, three for a merge
to follow a merge with a face still to come. A staging size of two makes the
size trigger and the forced merge both happen. Two threads, reapers or workers
show every race over one lock, one row or one path: a third repeats one of them.
Two changes let a file change and change back, or vanish and return. The
recorded path is there to be found by hash. `outbox` fails no save and
`outbox_reapers` has no slow drain: with either, the code breaks the properties
(section 6). `outbox_reapers` fails no save either, for size alone:
`HealthySound` does not depend on it, and was also checked outside the project's
runs with one slow reaper, a face without a row, a batch of 2 and one fault of
each kind, 19 million states. The number of faults is bounded by
`MaxSaveFaults`, `MaxRaises`, `MaxLoadFaults`, `MaxCrashes`, `MaxDbFaults` and
`MaxFaults`; attempts by `MaxAttempts`, as in the code; changes by `MaxEdits`.
Workers and reapers, which the code does not tell apart, are symmetric where no
liveness is checked.

In `discovery` two troubles let an outage meet an edit or a failure, and a queue
of one is full as soon as the second file is found. One worker is enough there:
workers meet only in the queue and in the table, and the table is
`image_record`. In `identities` three faces give two identities of which one has
two faces, to merge and to split, and a face that arrives while they are; two
operations let any two of merge, split and script meet beside the scan thread.
In `services` two files among one-place queues make every producer wait; batches
of two exceed the one row that can never be freed and are exceeded by the three
rows, so that one row can be behind a batch of others and yet be reached, or be
buried. `ReadIsFreed` was also checked with four rows of which two can never be
freed and an audit batch of 3, outside the project's runs. In the rebuild part
pages of one make OFFSET matter with two rows; a page of one is never partly
full, so what a short page does is seen with pages of two and three faces,
outside the project's runs, and is covered by the proof. There no save, merge or
load fails by itself: a save fails when the script takes its temporary file. The
property was also checked with a failing save and a failing load and with a
staging size of 2, outside the project's runs.

Fairness. `index` assumes that a thread inside a merge goes on: it waits for
nothing but the lock, and its holder never waits. `outbox` assumes that each
reaper thread, the recovery thread and the restart (`restart: unless-stopped`
in docker-compose.yml) go on, and that time passes. Nothing is assumed of the
faults, which may happen or not. `image_record` has no liveness: what brings a
file back to the queue is the scan of the manager. Deadlock is checked in
the runs of the index and the outbox. It is not in the others, which may come to
rest: files, requests, faults and changes are bounded, and a manager that has
been stopped does nothing more.

## 5. Proofs

`FaissIndexProofs` proves, for any faces, threads, staging size, index family
and any number of faults, from `FaissIndexAssumption` alone:

- `TypeCorrect`, `SearchIsFaithful`, `RestartIsFaithful`, `PublishedSurvives`,
  `VectorsAreUnique`: the five invariants of `index`.

The invariants are not inductive: each relates two of four sequences. `IInv`
orders all of them. Before a merge `disk_index = live_ids`; after the in-memory
add `live_index = live_ids \o staging`; after the first rename `disk_ids`
equals `live_index`; after the second so does `disk_index`; after a failed save
`live_index` is an initial segment of `live_ids \o staging`, which is why a
single failure is harmless and a second merge is not. `live_ids \o staging`
without repetition gives uniqueness.

`ImageRecordProofs` proves, for any paths, contents, workers, edits and faults,
from `ImageRecordAssumption` alone:

- `RecordTypeCorrect`, `SkippedRecorded`, `CompletedRowsStay`: that a file which
  `needs_processing()` skips by its row has the content of that row, and that a
  completed row is never taken back.

`SkippedIsRecorded` speaks of the file and the row, but a worker that has read
an older file or loaded an older row will write later. `IInv` therefore lets
four parties claim that a content goes with a stamp, namely the file, the row,
a loaded row and a worker about to write (`Says`), and states that no two
differ (`Coherent`) and that none names a stamp of the future (`Past`), so that
the next edit's stamp is new to all. Every step but an edit adds no claim
(`NothingNew`): the stat of a path that did not race repeats the file's, and an
UPDATE that mixes columns ends with a pair that the worker or the row had
already (`WriteCoherent`).

`ImageFacesProofs` goes on from it, for the other three invariants of the run:

- `FacesOfCompleted`, `NoOrphans`, `FallbackSound`.

None is inductive without the others. A row speaks for the faces that hang from
it (`RowsFit`), a manifest entry for the file with its stamp (`FilesFit`), and a
worker for what it has read and found (`Fits`): that a hash it holds is that of
the file as long as the stamp is the one the scan found, that a completed row it
loaded is still completed, and that what it is about to enter into the manifest
has its faces in the table. `FitsStays` says which steps of others leave that
alone: those that give new stamps, complete rows and add faces.

`FaissOutboxProofs` extends `FaissIndexProofs`, since every step of the outbox
is one of the index or leaves it alone (`IndexStep`), and proves for any faces,
reapers, batch size and faults:

- `OutboxTypeCorrect`;
- `HealthIsSound`, of `FaissHealth`, if finitely many faces are there at the
  start. The report reads its counts at different moments, so an invariant says
  what each still means after later steps (`ProbeInv`): while the process runs
  the index loses no id (`IdsStay`), so the faces that were counted are still
  stored and the ids and staged faces read earlier still in the index; as ids
  are unique and all stored (`StoredInv`), equal counts then mean equal sets;
- `ClaimsAreExclusive`, `ClaimsAreMerging`, `CommittedStays`, under `ClaimsHold`:
  there is one reaper, or drains end before the stuck timeout;
- `NothingForgotten`, under `FilesHold`: no save and no load fails and the index
  needs no training. It excepts the faces a failing backfill left out
  (`LeftOut`), and no others;
- `OutboxImplementsCatalog`, the refinement of `FaceCatalog`, under both.

The two hypotheses are not for convenience: without `ClaimsHold` a slow drain's
rows are taken and committed rows come back, and without `FilesHold` the runs
`index_save_fault` and `outbox_ivf` refute what would be proved (section 6).
`ClaimInv` says that what a reaper holds is merging and, where drains are quick,
not old. `DurableInv` says that index and ids agree whenever nobody merges, that
what a finished merge was asked for and every committed row is in the files, and
that a stored face is in them, has a row, or is ahead of the backfill: its
snapshot of the index names only faces that are durable.

`DiscoveryProofs` proves, for any files, workers, queue and troubles:

- `DiscoveryTypeCorrect`, the queue's bound with it;
- `EventsSurvive`: `NoEventLost`, made inductive by what `_timers` knows: an
  entry stands for a timer that still runs, and the lock is held exactly while a
  callback is under way (`TimersFit`).

It needs `WatcherAssumption`, that `Nobody` is no file.

`IdentitiesProofs` proves, for any finite set of faces, callers and operations:

- `IdentitiesTypeCorrect`, `CentroidsAreOwn`, `PrimaryIsOne`, `AssignmentsStay`.

The invariant is about what was read before the step that uses it: the tables
refer to each other (`TablesFit`); the identities a clustering took for seeds
exist and have faces, unless they are `crossed` (`JobFits`); a merge holds the
rows it has moved, so that neither they nor its target can go before its last
statement, and a split leaves its identity a face (`CallFits`).

`ServicesProofs` proves, for the parts in `MCServices`, which share no state, so
that each has an invariant of its own (`OnePartMoves`):

- `CountersAreHonest`: a record is counted as discovered before it is counted as
  queued, so each window between the two accounts for the difference;
- `ClientsAreServed`: a send fails only on a connection that closed, so the
  pruning takes no open one;
- `ClustersAreLinked`: nodes with one label are linked, which a node that takes
  a neighbour's label keeps; that the final labels are dense is a lemma about
  ranks (`RanksAreDense`). It assumes finitely many nodes
  (`WhispersAssumption`);
- `TasksAreAccounted`: names in the queue, in hand, in the log and cancelled are
  disjoint and together all that were added (`TasksApart`), the undo stack is an
  ascending list of the end of what is not undone, and the queue is `Sorted`,
  which holds in spite of failed tasks because a fresh one goes before the first
  item of lower priority, failed or not;
- `FilesAreHandedOnce`: a directory is listed by one walk and once, because what
  a walk has yet to list hangs from what it has listed (`WalkFits`) and two
  walks never come to the same one (`Apart`); so an entry is with one walk, in
  the queue, in the batch or handed over, and in one of these only
  (`PlacesFit`). That nothing is missing at the end needs that a drive's
  sentinel comes behind its entries (`SentinelsFit`: when all sentinels are
  drained no entry is left in the queue), that nothing wanted below a listed
  directory is lost (`EntriesFit`), and that on a path which can be reached all
  directories were listed (`ReachedIsListed`, by the least directory that was
  not).

`FaissRebuildProofs` extends it and `FaissIndexProofs`, whose `IInv` does not
hold here, since a script changes the files behind the process:

- `RebuildsRepair`: `RebuildRepairs`, for any table, page size, staging size and
  number of scripts. The invariant is what `IInv` says of memory and of files,
  each as long as `sound` says so (`MemoryFits`, `FilesFit`, and of the two
  together `BothFit`); that the rows fetched without disturbance are an initial
  piece of the table in the order of ids (`FetchFits`), which rests on lemmas
  about ranks in a finite set of numbers (`PlaceIsRank`, `TableLists`,
  `PageExtends`, `FetchedAll`); that the temporary files are what the script
  made of them (`ScriptFits`); and that the migration's two files are of one
  query (`SiblingsFit`);
- `ServicesTyped`: the types and bounds of all eight parts, from their
  invariants.

The assumptions on constants (`VerificationAssumption`, `ProgressAssumption`,
`EvictionAssumption`, `ReportsAssumption`, `ManagerAssumption`,
`IdentitiesAssumption`, `ScannerAssumption`, `FaissRebuildAssumption`) say that
bounds are numbers, sets of drives or faces finite, ids numbers and a tree a
tree, and are evaluated by every run whose module extends theirs.

Only model-checked: liveness (`StagingDrains`, `EventuallySearchable`,
`EventuallyRecorded`, `StopEndsAll`, `EveryFaceMapped`, `ScanComes`,
`ChangesSeen`, `ClosedLeave`, `ReadIsFreed`) and `ENABLED`, which the prover does
not reach.

## 6. Where code and comments disagree

Each is a run that TLC refutes; PROJECT.json quotes the lines.

- `index_save_fault`: after a failed save the next merge adds the same vectors
  again and later ids name the wrong vectors.
- `outbox_ivf`: rows are marked committed although an untrained index merged
  nothing (or a save failed).
- `outbox_exhausted`: a row whose last attempt died stays pending for ever.
- `image_toctou`: a file that changes between its hash and its stat is recorded
  under the new stamp with the old content, and skipped from then on.
- `identities_text`: vectors read by raw SQL are text; the incremental clustering
  raises on the first unmapped face after every scan, and maps none.

Other limits appear as hypotheses of the passing properties, each found by TLC
when it was left out:

- two reapers that both outlast the stuck timeout can take a committed row back
  to pending: `CommittedIsTerminal`, `ExclusiveClaims` and `ClaimedIsMerging` are
  checked with two reapers whose drains end before the timeout, and proved for
  that or for one reaper; no run claims anything of two slow ones;
- a face stored while the health report is being read can make up for one that
  is missing, and between a merge's publication and its clearing of the staging
  buffer a staged face counts twice: `crossed`;
- a failing INSERT in the backfill loses its whole page although the log counts
  its rows as queued, and a failing SELECT the rest: those faces stay without a
  row until the next start, `LeftOut`;
- a file known under another path is hashed again by every scan, since nothing
  of it is recorded, and many of them can keep the queue full at the moments a
  new file is offered: the exception of `EventuallyRecorded`;
- the backfill skips a face the index has lost while its committed row remains;
- two workers that update one row leave the hash of one with the face_count of
  the other: `raced`;
- two clusterings at once leave identities that are empty, or have two primary
  faces: `crossed`;
- a rebuild that dies between its renames leaves files of two orders; a row with
  a smaller id that commits during the fetch is missed or shifts a face into the
  result twice, and one that commits behind a last page that was not full is
  missed; a merge of the running process after a rebuild saves the old
  memory over the new files, so that its docstring's "the API will pick up the
  new index on next startup" needs a process that merges nothing before;
  `--reload` asks for a route that does not exist: `sound`;
- rows that cannot be freed and come first can fill the eviction's batch for
  good; the run keeps them below the batch size. Rows verified in the cloud, or
  unfreeable, that come first fill the audit's for good, and a local row behind
  them whose flag was cleared is not looked at again: `Buried`;
- the full clustering deletes from `verification_audit` (cluster_faces.py:304),
  which no schema in the repository creates; only PRD.md describes it;
- `files_processed` and `files_failed` are never reset, so only the
  inequality of queued and discovered holds of the comment at
  `discovery/manager.py:81`; a worker's `KeyError` on a bucket that a reset took
  leaves the file out of the manifest;
- a handler of the verification queue that always fails keeps one call busy for
  ever, as failures do not count towards the batch;
- a dropped scan leaves its producers blocked on the full queue until the
  process ends;
- a probe that fails otherwise than `_facetracker_get()` expects ends the
  dashboard's round for all three services; and an answer of 200 that is no
  object is online in the broadcast and offline on request.

## 7. Not modelled

- Search: queries without state of their own, filters and rankings over
  floating-point scores. Their one race, the lookup under a merge, is in
  `FaissIndex`.
- Detection, tracking, quality, readers, identity metrics, thumbnails: numeric
  code or image I/O without transitions a model checker could judge.
- `identity/clustering.py` and `storage/thumbnail_cache.py`: nothing calls them.
- `scripts/faiss_autotune_nlist.py`: it reads, measures and prints.
- `discovery/onedrive.py`, and with it the pipeline's download branch: it runs
  `fsutil`, `powershell` and `attrib`, which its own docstring says do not exist
  in the Linux container, and comes back with False.
- Configuration, logging, hashing, authentication, file serving, the frontend:
  no state transitions.

Inside the modelled parts: vectors' values, batch order within a drain (left
open), the thread start and stop of the reaper; the faces whose vector has not
512 components, which the backfill skips; how many times over a path has the
faces of one content; a failing write of the manifest's file and the clean-up of
its list of deleted files; the lock that serialises videos; names and labels of
identities; the generations of threads that a `stop()` giving up after five
seconds and a second `start()` would mix, since nothing starts the manager twice
in a process; the preflight checks and the schema set-up of the lifespan; merges
of more than one source, which repeat the statements of the first.
