----------------------------- MODULE Discovery ------------------------------
(***************************************************************************)
(* How a file on disk comes to be recorded: the file watcher and the       *)
(* indexing manager together, over files that are changed and removed.     *)
(* The watcher is quick but may drop an event; the scan is slow, may defer *)
(* a file, and comes back.                                                 *)
(***************************************************************************)
EXTENDS IndexingManager

VARIABLE stopper  \* stop(): what it has still to do about the watcher

processing == <<recorded, queue, scan, left, worker, callback>>
managed == <<manager, disk, life, surroundings>>
vars == <<watcher, managed, stopper>>

DiscoveryTypeOK ==
  /\ WatcherTypeOK /\ ManagerTypeOK
  /\ stopper \in {"idle", "watcher", "joining"}

Init == WatcherInit /\ ManagerInit /\ stopper = "idle"

-----------------------------------------------------------------------------
(* The owner of the files.                                                 *)
Edit(f) ==
  /\ f \in EditedFiles
  /\ Trouble
  /\ disk' = [disk EXCEPT ![f] = troubles + 2] /\ copies' = copies \ {f}
  /\ Reported(f, "changed")
  /\ UNCHANGED <<lifecycle, timers, calling, owed, processing, life, db, stopper>>

Remove(f) ==
  /\ f \in EditedFiles /\ OnDisk(f)
  /\ Trouble
  /\ disk' = [disk EXCEPT ![f] = Gone] /\ copies' = copies \ {f}
  /\ Reported(f, "deleted")
  /\ UNCHANGED <<lifecycle, timers, calling, owed, processing, life, db, stopper>>

-----------------------------------------------------------------------------
(* start() leaves the watcher to a thread of its own.                      *)
StartAll ==
  /\ Start /\ starting' = TRUE
  /\ UNCHANGED <<observer, watched, events, timers, calling, owed, stopper>>

(* stop(): the event, then the watcher if it is running by then.           *)
StopAll ==
  /\ Stop /\ stopper' = "watcher"
  /\ UNCHANGED watcher

StopTheWatcher ==
  /\ stopper = "watcher" /\ stopper' = "joining"
  /\ \/ StopWatcher
     \/ observer # "on" /\ UNCHANGED watcher
  /\ UNCHANGED managed

Watch ==
  /\ StartWatcher \/ \E f \in File : ScheduleDebounce(f) \/ OnDeleted(f) \/ TimerFires(f)
  /\ UNCHANGED <<managed, stopper>>

(* A timer takes the lock and calls _on_file_event, or finds nothing.      *)
Call(f) ==
  /\ Trigger(f)
  /\ callback' = IF f \in pending THEN "look" ELSE callback
  /\ UNCHANGED <<table, queue, scan, left, worker, disk, life, surroundings, stopper>>

Look ==
  /\ calling # Nobody /\ EventLook(calling)
  /\ owed' = owed \ {calling}
  /\ IF callback' = "idle" THEN Release ELSE UNCHANGED <<lifecycle, events, timers, calling>>
  /\ UNCHANGED stopper

Queue ==
  /\ calling # Nobody /\ EventPut(calling)
  /\ Release
  /\ UNCHANGED <<owed, stopper>>

Callback == Look \/ Queue \/ \E f \in File : Call(f)

Manage ==
  /\ \/ ScanThread \/ ScanRaises
     \/ \E w \in Workers : Worker(w) \/ ProcessFails(w)
     \/ DbLost \/ DbBack \/ PostgresTimeout
  /\ UNCHANGED <<watcher, stopper>>

Next ==
  \/ \E f \in File : Edit(f) \/ Remove(f)
  \/ StartAll \/ StopAll \/ StopTheWatcher
  \/ Watch \/ Callback \/ Manage

Alone(A) == A /\ UNCHANGED <<watcher, stopper>>

(* Threads are scheduled, and an outage ends while the process is meant to *)
(* run; nothing is asked of the database once it is stopping, and never of *)
(* the watcher or the operator.                                            *)
Fairness ==
  /\ WF_vars(Alone(ScanThread))
  /\ \A w \in Workers : WF_vars(Alone(Worker(w)))
  /\ WF_vars(~Stopping /\ Alone(DbBack))

Spec == Init /\ [][Next]_vars /\ Fairness

-----------------------------------------------------------------------------
(* Every file that is on disk is eventually recorded as it then is, or     *)
(* found to hold what the table knows already, or goes, through dropped    *)
(* events, deferred records, failures, outages and a watcher that was      *)
(* taken down, unless the process is stopped or other files hold the queue *)
(* against it for ever: those without a row that writes itself are offered *)
(* by every scan, and a full queue defers the rest.                        *)
EventuallyRecorded ==
  \A f \in File :
    (life = "running" /\ OnDisk(f) /\ ~Settled(f))
      ~> (Settled(f) \/ ~OnDisk(f) \/ Stopping \/ [](copies \ {f} # {}))

(* After a stop every thread of the manager comes to its end, a scan in    *)
(* progress, a full queue or a database that stays away notwithstanding.   *)
StopEndsAll ==
  Stopping ~> scan.at = "ended" /\ \A w \in Workers : worker[w].at = "ended"
=============================================================================
