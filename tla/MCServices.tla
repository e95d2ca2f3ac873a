----------------------------- MODULE MCServices -----------------------------
(***************************************************************************)
(* The parts that work by themselves: the drive scan, the file watcher,    *)
(* the verification queue, the operations dashboard, the scripts that give *)
(* OneDrive its space back, the progress counters, the clustering of faces *)
(* and the scripts that rebuild the index.  They share no state, so a      *)
(* behaviour runs one of them, which it chooses at the start, and the      *)
(* others stand still.                                                     *)
(***************************************************************************)
EXTENDS Scanner, FileWatcher, VerificationQueue, HealthDashboard, OneDriveEviction,
        ProgressCounters, ChineseWhispers, FaissRebuild

CONSTANT MaxReports  \* bound on changes the watcher is told of

ASSUME ReportsAssumption == MaxReports \in Nat

VARIABLES
  part,    \* the part that runs
  reports

(* One drive has a folder, the other is flat; the excluded folder holds a  *)
(* file that would be wanted.                                              *)
Tree == [e \in Folder \union Entry |->
          CASE e \in {"album", "cache"} -> "C"
            [] e = "a.jpg" -> "album"
            [] e = "c.jpg" -> "cache"
            [] OTHER       -> "D"]

Parts == {"scan", "watch", "verify", "health", "evict", "count", "cluster", "rebuild"}

Init ==
  /\ part \in Parts
  /\ ScannerInit /\ (part = "scan" \/ here = Entry)
  /\ WatcherInit /\ reports = 0
  /\ VerificationInit
  /\ DashboardInit
  /\ EvictionInit /\ (part = "evict" \/ flagged = {})
  /\ ProgressInit
  /\ WhispersInit
  /\ RebuildInit /\ (part = "rebuild" \/ faces = {})

-----------------------------------------------------------------------------
(* The watcher's surroundings: the thread that starts it, at most          *)
(* MaxReports changes, and a callback that only looks.                     *)
Begin ==
  /\ observer = "none" /\ ~starting /\ starting' = TRUE
  /\ UNCHANGED <<observer, watched, events, timers, calling, owed, reports>>

Report(f, kind) ==
  /\ reports < MaxReports /\ reports' = reports + 1
  /\ Reported(f, kind)
  /\ UNCHANGED <<lifecycle, timers, calling, owed>>

Look ==
  /\ calling # Nobody /\ owed' = owed \ {calling}
  /\ Release
  /\ UNCHANGED reports

Timer(f) == (TimerFires(f) \/ Trigger(f)) /\ UNCHANGED reports

WatchStep ==
  \/ Begin \/ Look
  \/ \E f \in File : Timer(f) \/ \E kind \in Kinds : Report(f, kind)
  \/ /\ \/ StartWatcher \/ StopWatcher
        \/ AddWatchPath \/ RemoveWatchPath
        \/ \E f \in File : ScheduleDebounce(f) \/ OnDeleted(f)
     /\ UNCHANGED reports

-----------------------------------------------------------------------------
watching == <<watcher, reports>>
vars ==
  <<part, scanner, watching, verification, dashboard,
    onedrive, progress, whispers, rebuildVars>>

OnlyScans ==
  part = "scan" /\ UNCHANGED <<part, watching, verification, dashboard,
                               onedrive, progress, whispers, rebuildVars>>
OnlyWatches ==
  part = "watch" /\ UNCHANGED <<part, scanner, verification, dashboard,
                                onedrive, progress, whispers, rebuildVars>>
OnlyVerifies ==
  part = "verify" /\ UNCHANGED <<part, scanner, watching, dashboard,
                                 onedrive, progress, whispers, rebuildVars>>
OnlyBroadcasts ==
  part = "health" /\ UNCHANGED <<part, scanner, watching, verification,
                                 onedrive, progress, whispers, rebuildVars>>
OnlyEvicts ==
  part = "evict" /\ UNCHANGED <<part, scanner, watching, verification,
                                dashboard, progress, whispers, rebuildVars>>
OnlyCounts ==
  part = "count" /\ UNCHANGED <<part, scanner, watching, verification,
                                dashboard, onedrive, whispers, rebuildVars>>
OnlyClusters ==
  part = "cluster" /\ UNCHANGED <<part, scanner, watching, verification,
                                  dashboard, onedrive, progress, rebuildVars>>
OnlyRebuilds ==
  part = "rebuild" /\ UNCHANGED <<part, scanner, watching, verification,
                                  dashboard, onedrive, progress, whispers>>

Next ==
  \/ OnlyScans /\ ScannerStep
  \/ OnlyWatches /\ WatchStep
  \/ OnlyVerifies /\ VerificationStep
  \/ OnlyBroadcasts /\ DashboardStep
  \/ OnlyEvicts /\ EvictionStep
  \/ OnlyCounts /\ ProgressStep
  \/ OnlyClusters /\ WhispersStep
  \/ OnlyRebuilds /\ RebuildStep

(* Threads, coroutines and timers that can run do; the scripts are run     *)
(* again and again, and OneDrive frees what it may.  A walk may raise, a   *)
(* probe may fail, a handler may never return.                             *)
Fairness ==
  /\ \A d \in Drive : WF_vars(OnlyScans /\ Producer(d))
  /\ WF_vars(OnlyScans /\ (Drain \/ HandOver))
  /\ \A f \in File : WF_vars(OnlyWatches /\ Timer(f))
  /\ WF_vars(OnlyWatches /\ Look)
  /\ WF_vars(OnlyBroadcasts /\ Broadcast)
  /\ \A c \in Client : WF_vars(OnlyBroadcasts /\ (Connect(c) \/ Disconnect(c)))
  /\ WF_vars(OnlyEvicts /\ Evict) /\ WF_vars(OnlyEvicts /\ Audit)
  /\ \A r \in 1..Rows : WF_vars(OnlyEvicts /\ Free(r))

Spec == Init /\ [][Next]_vars /\ Fairness

-----------------------------------------------------------------------------
(* The types of every part.                                                *)
ServicesTypeOK ==
  /\ part \in Parts /\ reports \in 0..MaxReports
  /\ ScannerTypeOK /\ WatcherTypeOK /\ VerificationTypeOK
  /\ DashboardTypeOK /\ EvictionTypeOK /\ ProgressTypeOK
  /\ WhispersTypeOK /\ RebuildTypeOK

(* A change the watcher was told of is looked at by its callback in the    *)
(* end, whatever timers were cancelled or superseded, and although the     *)
(* watcher is stopped or its paths are changed in between.                 *)
ChangesSeen == \A f \in File : f \in owed ~> f \notin owed
=============================================================================
