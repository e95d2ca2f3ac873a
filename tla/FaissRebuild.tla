---------------------------- MODULE FaissRebuild ----------------------------
(***************************************************************************)
(* The two scripts that write an index from the faces table:               *)
(* src/scripts/faiss_rebuild_from_db.py replaces the two files, beside a   *)
(* running process or without one, and src/scripts/faiss_migrate_ivf.py    *)
(* writes two other files, which the operator moves into place.  The       *)
(* process is FaissIndex, but for its saves: the rebuild gives its         *)
(* temporary files the names that a merge gives them, so here writing one  *)
(* and renaming it are two steps.  A face is named by faces.id, which is   *)
(* taken when a row is inserted and not when it is committed.              *)
(***************************************************************************)
EXTENDS FaissIndex, SequencesExt

CONSTANTS
  Page,      \* BATCH of fetch_embeddings()
  MaxScripts \* bound on scripts started

ASSUME FaissRebuildAssumption ==
  /\ Face \subseteq Nat
  /\ Page \in Nat \ {0}
  /\ MaxScripts \in Nat

VARIABLES
  faces,     \* committed rows of the faces table
  temp,      \* the temporary files, <<>> when there is none
  wrote,     \* the merge under way has written the one it is to rename
  script,    \* the script that runs, one at a time: where it is, the rows it
             \* read, the table it read them from, the offset of the next page
             \* and whether nobody disturbed it
  siblings,  \* the files of the migration, and the table they were read from
  covered,   \* history: the table that the files now in place were read from
  sound,     \* history: the files, or the process's memory, come from a script
             \* that nobody disturbed, and from undisturbed merges since
  scripts

maintenance == <<faces, script, siblings, covered, sound, scripts>>
rebuildVars == <<indexVars, temp, wrote, maintenance>>

NoScript  == [stage |-> "idle", rows |-> <<>>, table |-> {}, offset |-> 0, clean |-> TRUE]
NoSibling == [index |-> <<>>, ids |-> <<>>, table |-> {}]
DiskFile  == {"index", "ids"}
NoTemp    == [x \in DiskFile |-> <<>>]

(* ORDER BY id.                                                            *)
Table(S) ==
  CHOOSE s \in [1..Cardinality(S) -> S] : \A i, j \in DOMAIN s : i < j => s[i] < s[j]

(* The process is stopped over an index of what the table holds, of which  *)
(* either file may have been lost.                                         *)
RebuildInit ==
  /\ faces \in SUBSET Face /\ IsFiniteSet(faces)
  /\ disk_index \in {Table(faces), <<>>} /\ disk_ids \in {Table(faces), <<>>}
  /\ up = FALSE /\ lock = NoCaller /\ pc = [c \in Callers |-> "idle"]
  /\ live_index = <<>> /\ live_ids = <<>> /\ live_count = 0
  /\ trained = FALSE /\ staging = <<>> /\ tainted = FALSE
  /\ save_faults = 0 /\ raises = 0 /\ load_faults = 0
  /\ temp = NoTemp /\ wrote = FALSE
  /\ script = NoScript /\ siblings = NoSibling /\ scripts = 0
  /\ covered = {} /\ sound = [files |-> FALSE, memory |-> FALSE]

RebuildTypeOK ==
  /\ TypeOK
  /\ faces \subseteq Face /\ covered \subseteq faces
  /\ temp \in [DiskFile -> Seq(faces)] /\ wrote \in BOOLEAN
  /\ script \in [stage : {"idle", "fetch", "write_index", "write_ids", "index", "ids",
                          "ivf_index", "ivf_ids"},
                 rows : Seq(faces), table : SUBSET faces, offset : Nat, clean : BOOLEAN]
  /\ siblings \in [index : Seq(faces), ids : Seq(faces), table : SUBSET faces]
  /\ sound \in [files : BOOLEAN, memory : BOOLEAN] /\ scripts \in 0..MaxScripts

-----------------------------------------------------------------------------
(* The process.                                                            *)

(* From its first temporary file to its last rename the rebuild is         *)
(* disturbed by whoever touches the files.                                 *)
Exposed   == script.stage \in {"write_ids", "index", "ids"}
Touched   == script' = [script EXCEPT !.clean = @ /\ ~Exposed]
Saving(c) == pc[c] \in {"save_ids", "save_index"}
Mine(c)   == IF pc[c] = "save_ids" THEN "ids" ELSE "index"
Saved(c)  == IF pc[c] = "save_ids" THEN live_ids \o staging ELSE live_index

(* A row that is committed after a later one was fetched moves the pages   *)
(* that follow; after a page that was not full the offset is beyond the    *)
(* end of the table, and whatever is committed then may be passed over.    *)
Awaited(f) == script.offset = Len(script.rows) /\ \A g \in Range(script.rows) : g < f

Commit(f) ==
  /\ up /\ f \notin faces /\ faces' = faces \union {f}
  /\ script' = [script EXCEPT !.clean = @ /\ (script.stage = "fetch" => Awaited(f))]
  /\ UNCHANGED <<indexVars, temp, wrote, siblings, covered, sound, scripts>>

Write(c) ==
  /\ Saving(c) /\ ~wrote /\ wrote' = TRUE
  /\ temp' = [temp EXCEPT ![Mine(c)] = Saved(c)]
  /\ Touched
  /\ UNCHANGED <<indexVars, faces, siblings, covered, sound, scripts>>

(* Whoever wrote it last, the temporary file is renamed.                   *)
Rename(c) ==
  /\ Saving(c) /\ wrote /\ temp[Mine(c)] # <<>> /\ wrote' = FALSE
  /\ IF Mine(c) = "ids" THEN /\ disk_ids' = temp.ids /\ UNCHANGED disk_index
                             /\ Goto(c, "save_index")
                        ELSE /\ disk_index' = temp.index /\ UNCHANGED disk_ids
                             /\ Goto(c, "publish")
  /\ temp' = [temp EXCEPT ![Mine(c)] = <<>>]
  /\ sound' = [sound EXCEPT !.files = @ /\ sound.memory /\ temp[Mine(c)] = Saved(c)]
  /\ Touched
  /\ UNCHANGED <<up, lock, memory, faults, tainted, faces, siblings, covered, scripts>>

(* The script took the file, or the save fails by itself.                  *)
RenameFails(c) ==
  /\ \/ /\ Saving(c) /\ wrote /\ temp[Mine(c)] = <<>>
        /\ lock' = NoCaller /\ Goto(c, "idle")
        /\ UNCHANGED <<up, memory, disk, faults, tainted>>
     \/ SaveFails(c)
  /\ temp' = [temp EXCEPT ![Mine(c)] = <<>>] /\ wrote' = FALSE
  /\ Touched
  /\ UNCHANGED <<faces, siblings, covered, sound, scripts>>

Merge(c) ==
  /\ MergeBegins(c)
  /\ sound' = [sound EXCEPT !.memory = @ /\ Len(live_ids) = Len(live_index)]
  /\ UNCHANGED <<temp, wrote, faces, script, siblings, covered, scripts>>

Serve(c) ==
  /\ \/ \E f \in faces : Add(c, f)
     \/ ForceMerge(c) \/ MergeSkips(c) \/ MergeRaises(c) \/ Catch(c) \/ Publish(c)
  /\ UNCHANGED <<temp, wrote, maintenance>>

(* Temporary files that a death leaves behind are never read: whoever      *)
(* renames one has written it.                                             *)
Load ==
  /\ \/ Start /\ sound' = [sound EXCEPT !.memory = sound.files]
     \/ (StartUnreadable \/ Crash) /\ sound' = [sound EXCEPT !.memory = FALSE]
  /\ wrote' = FALSE /\ temp' = IF Exposed THEN temp ELSE NoTemp
  /\ UNCHANGED <<faces, script, siblings, covered, scripts>>

Process ==
  \/ \E f \in Face : Commit(f)
  \/ \E c \in Callers :
       Write(c) \/ Rename(c) \/ RenameFails(c) \/ Merge(c) \/ Serve(c)
  \/ Load

-----------------------------------------------------------------------------
Begins == script.stage = "idle" /\ scripts < MaxScripts /\ scripts' = scripts + 1

(* faiss_rebuild_from_db.py                                                *)
RebuildBegins ==
  /\ Begins /\ script' = [NoScript EXCEPT !.stage = "fetch"]
  /\ UNCHANGED <<indexVars, temp, wrote, faces, siblings, covered, sound>>

(* Mutant of NextOffset: the offset is taken to count from one.            *)
NextOffset_FromOne(offset) == offset + Page + 1

NextOffset(offset) == offset + Page

(* One statement of fetch_embeddings(), with a snapshot of its own.  An    *)
(* empty page ends the fetch; with nothing fetched the script gives up.    *)
FetchPage ==
  LET table == Table(faces)
      page  == SubSeq(table, script.offset + 1, Min({script.offset + Page, Len(table)}))
      rows  == script.rows \o page
  IN
  /\ script.stage = "fetch"
  /\ script' = IF page # <<>>
               THEN [script EXCEPT !.rows = rows, !.offset = NextOffset(@)]
               ELSE IF rows = <<>> THEN NoScript
               ELSE [script EXCEPT !.stage = "write_index", !.table = faces]
  /\ UNCHANGED <<indexVars, temp, wrote, faces, siblings, covered, sound, scripts>>

(* build_index() and the two temporary files.                              *)
WriteTemp(file, stage, next) ==
  /\ script.stage = stage /\ script' = [script EXCEPT !.stage = next]
  /\ temp' = [temp EXCEPT ![file] = script.rows]
  /\ UNCHANGED <<indexVars, wrote, faces, siblings, covered, sound, scripts>>

(* The two renames, the index first.                                       *)
RenameIndex ==
  /\ script.stage = "index" /\ script' = [script EXCEPT !.stage = "ids"]
  /\ temp.index # <<>> /\ temp' = [temp EXCEPT !.index = <<>>]
  /\ disk_index' = temp.index
  /\ sound' = [sound EXCEPT !.files = FALSE]
  /\ UNCHANGED <<up, lock, pc, memory, disk_ids, faults, tainted, wrote, faces,
                 siblings, covered, scripts>>

(* What the process holds is older than the files from now on: --reload    *)
(* asks it for a route that it does not have.                              *)
RenameIds ==
  /\ script.stage = "ids" /\ script' = NoScript
  /\ temp.ids # <<>> /\ temp' = [temp EXCEPT !.ids = <<>>]
  /\ disk_ids' = temp.ids
  /\ sound' = [files |-> script.clean, memory |-> FALSE]
  /\ covered' = script.table
  /\ UNCHANGED <<up, lock, pc, memory, disk_index, faults, tainted, wrote, faces,
                 siblings, scripts>>

Rebuild ==
  \/ RebuildBegins \/ FetchPage
  \/ WriteTemp("index", "write_index", "write_ids") \/ WriteTemp("ids", "write_ids", "index")
  \/ RenameIndex \/ RenameIds

(* Either script raises (a temporary file is gone, too few vectors to      *)
(* train on) or is killed; --dry-run ends before the temporary files.      *)
ScriptEnds ==
  /\ script.stage # "idle" /\ script' = NoScript
  /\ temp' = IF wrote THEN temp ELSE NoTemp
  /\ UNCHANGED <<indexVars, wrote, faces, siblings, covered, sound, scripts>>

-----------------------------------------------------------------------------
(* faiss_migrate_ivf.py: one statement, whose order is the database's.     *)
MigrateQuery ==
  /\ Begins /\ siblings = NoSibling
  /\ faces # {} /\ Cardinality(faces) >= MinTrain
  /\ \E rows \in SetToSeqs(faces) :
       script' = [NoScript EXCEPT !.stage = "ivf_index", !.rows = rows, !.table = faces]
  /\ UNCHANGED <<indexVars, temp, wrote, faces, siblings, covered, sound>>

MigrateIndex ==
  /\ script.stage = "ivf_index" /\ script' = [script EXCEPT !.stage = "ivf_ids"]
  /\ siblings' = [siblings EXCEPT !.index = script.rows]
  /\ UNCHANGED <<indexVars, temp, wrote, faces, covered, sound, scripts>>

MigrateIds ==
  /\ script.stage = "ivf_ids" /\ script' = NoScript
  /\ siblings' = [siblings EXCEPT !.ids = script.rows, !.table = script.table]
  /\ UNCHANGED <<indexVars, temp, wrote, faces, covered, sound, scripts>>

(* The operator, by the header of the script: with the process stopped and *)
(* both files written, moves them into place; or removes what is left.     *)
SwapIn ==
  /\ ~up /\ script = NoScript /\ siblings.index # <<>> /\ siblings.ids # <<>>
  /\ disk_index' = siblings.index /\ disk_ids' = siblings.ids
  /\ covered' = siblings.table /\ siblings' = NoSibling
  /\ sound' = [files |-> TRUE, memory |-> FALSE]
  /\ UNCHANGED <<up, lock, pc, memory, faults, tainted, temp, wrote, faces, script, scripts>>

RemoveSiblings ==
  /\ script = NoScript /\ siblings' = NoSibling
  /\ UNCHANGED <<indexVars, temp, wrote, faces, script, covered, sound, scripts>>

Migrate == MigrateQuery \/ MigrateIndex \/ MigrateIds \/ SwapIn \/ RemoveSiblings

RebuildStep == Process \/ Rebuild \/ ScriptEnds \/ Migrate

-----------------------------------------------------------------------------
(* A rebuild repairs: whatever was in the files before, after one that no  *)
(* late row, merge or lost file disturbed, and after a migration, a        *)
(* restart finds each vector's own face, no face twice, and every face the *)
(* table held; and a process that started on it keeps this through merges, *)
(* failed saves and deaths.                                                *)
RebuildRepairs ==
  /\ sound.files => /\ RestoredIds = disk_index /\ IsInjective(disk_index)
                    /\ covered \subseteq Range(disk_index)
  /\ sound.memory => /\ AlignedUpTo(live_ids, live_index) /\ IsInjective(live_ids)
                     /\ covered \subseteq Range(live_ids)
=============================================================================
