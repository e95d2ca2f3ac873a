---------------------------- MODULE FileWatcher -----------------------------
(***************************************************************************)
(* src/src/discovery/watcher.py: the observer that reports changes to      *)
(* files, and the per-file timers that hold a change back until the file   *)
(* has been quiet for a while.                                             *)
(*                                                                         *)
(* One configured root holds every file.  A timer that has fired waits for *)
(* the handler's lock and can no longer be cancelled; the callback runs    *)
(* under that lock.  What the callback does is the caller's.               *)
(***************************************************************************)
EXTENDS Naturals

CONSTANT File

VARIABLES
  starting,  \* the start-up thread has not yet run start()
  observer,  \* none yet, on (_running) or off
  watched,   \* the root is in watched_paths
  events,    \* what the observer has not yet delivered: <<file, kind>>
  pending,   \* _pending_files
  armed,     \* live timers of each file that still count down
  fired,     \* timers of each file that wait for the lock
  entry,     \* the timer in _timers: none, armed or fired
  calling,   \* the file whose callback runs under the lock
  owed       \* history: files with a delivered change that no callback has
             \* looked at since

lifecycle == <<starting, observer, watched>>
timers    == <<pending, armed, fired, entry>>
watcher   == <<lifecycle, events, timers, calling, owed>>

Nobody == "nobody"
Kinds  == {"changed", "deleted"}

ASSUME WatcherAssumption == Nobody \notin File

WatcherTypeOK ==
  /\ starting \in BOOLEAN /\ watched \in BOOLEAN
  /\ observer \in {"none", "on", "off"}
  /\ events \subseteq File \X Kinds
  /\ pending \subseteq File /\ owed \subseteq File
  /\ armed \in [File -> Nat] /\ fired \in [File -> Nat]
  /\ entry \in [File -> {"none", "armed", "fired"}]
  /\ calling \in File \union {Nobody}

WatcherInit ==
  /\ starting = FALSE /\ observer = "none" /\ watched = FALSE
  /\ events = {} /\ pending = {} /\ owed = {}
  /\ armed = [f \in File |-> 0] /\ fired = [f \in File |-> 0]
  /\ entry = [f \in File |-> "none"]
  /\ calling = Nobody

-----------------------------------------------------------------------------
(* start(): a root that is not there, or cannot be watched, is skipped.    *)
Observe ==
  /\ observer' = "on"
  /\ watched' \in BOOLEAN

StartWatcher ==
  /\ starting /\ starting' = FALSE
  /\ Observe
  /\ UNCHANGED <<events, timers, calling, owed>>

(* stop() forgets the roots and what was not delivered; timers run on.     *)
StopWatcher ==
  /\ observer = "on" /\ observer' = "off"
  /\ watched' = FALSE
  /\ events' = {}
  /\ UNCHANGED <<starting, timers, calling, owed>>

(* On an observer that was stopped, schedule() succeeds to no effect.      *)
AddWatchPath ==
  /\ observer # "none" /\ ~watched
  /\ watched' = TRUE
  /\ UNCHANGED <<starting, observer, events, timers, calling, owed>>

(* stop() clears the list that remove() is called on next: on a running    *)
(* watcher ValueError leaves it stopped; on one that was stopped stop()    *)
(* returns early and start() watches every configured root again.          *)
RemoveWatchPath ==
  /\ watched
  /\ \/ StopWatcher
     \/ /\ observer = "off" /\ Observe
        /\ UNCHANGED <<starting, events, timers, calling, owed>>

-----------------------------------------------------------------------------
(* The operating system reports a change while the root is observed.       *)
Reported(f, kind) ==
  events' = IF observer = "on" /\ watched THEN events \union {<<f, kind>>} ELSE events

(* Mutant of Unlocked: the callback runs outside the lock.                 *)
Unlocked_Always == TRUE

Unlocked == calling = Nobody

(* on_created() and on_modified(): cancel the timer of this file if it can *)
(* be, and start another.                                                  *)
ScheduleDebounce(f) ==
  /\ <<f, "changed">> \in events /\ events' = events \ {<<f, "changed">>}
  /\ Unlocked
  /\ pending' = pending \union {f}
  /\ armed' = IF entry[f] = "armed" THEN armed ELSE [armed EXCEPT ![f] = @ + 1]
  /\ entry' = [entry EXCEPT ![f] = "armed"]
  /\ owed' = owed \union {f}
  /\ UNCHANGED <<lifecycle, fired, calling>>

(* on_deleted() calls back at once, without the lock; the callback only    *)
(* edits the JSON manifest.                                                *)
OnDeleted(f) ==
  /\ <<f, "deleted">> \in events /\ events' = events \ {<<f, "deleted">>}
  /\ UNCHANGED <<lifecycle, timers, calling, owed>>

(* A timer runs out: the one in _timers, or one that lost its entry.       *)
TimerFires(f) ==
  /\ armed[f] > 0
  /\ armed' = [armed EXCEPT ![f] = @ - 1] /\ fired' = [fired EXCEPT ![f] = @ + 1]
  /\ \/ entry[f] = "armed" /\ entry' = [entry EXCEPT ![f] = "fired"]
     \/ armed[f] > (IF entry[f] = "armed" THEN 1 ELSE 0) /\ UNCHANGED entry
  /\ UNCHANGED <<lifecycle, events, pending, calling, owed>>

(* _debounce_trigger() takes the lock.  Whichever timer it is, it serves a *)
(* pending mark and drops the entry, be it another timer's.                *)
Trigger(f) ==
  /\ fired[f] > 0 /\ Unlocked
  /\ fired' = [fired EXCEPT ![f] = @ - 1]
  /\ IF f \in pending THEN calling' = f /\ UNCHANGED entry
     ELSE UNCHANGED calling /\ entry' = [entry EXCEPT ![f] = "none"]
  /\ UNCHANGED <<lifecycle, events, pending, armed, owed>>

(* The callback has returned.                                              *)
Release ==
  /\ calling' = Nobody
  /\ pending' = pending \ {calling}
  /\ entry' = [entry EXCEPT ![calling] = "none"]
  /\ UNCHANGED <<lifecycle, events, armed, fired>>

(* A change that was delivered is still going to be looked at: its file is *)
(* marked and has a timer that was not cancelled, or is the one whose      *)
(* callback has yet to look.  Timers that lost their entry, that fired     *)
(* before they could be cancelled, or that outlive stop() included.        *)
NoEventLost ==
  \A f \in owed : \/ f \in pending /\ armed[f] + fired[f] > 0
                  \/ f = calling
=============================================================================
