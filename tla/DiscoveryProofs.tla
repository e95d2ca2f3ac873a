-------------------------- MODULE DiscoveryProofs ---------------------------
(***************************************************************************)
(* Proofs about Discovery, for any files, workers, size of the queue and   *)
(* number of troubles: every variable keeps its type, the queue its bound, *)
(* and no change the watcher was told of is forgotten before a callback    *)
(* has looked at it.                                                       *)
(***************************************************************************)
EXTENDS Discovery, TLAPS

(* The entry of a file in _timers stands for a timer; the lock is held     *)
(* while a callback is under way; and one that has looked owes nothing.    *)
TimersFit ==
  /\ \A f \in File : entry[f] = "armed" => armed[f] > 0
  /\ calling = Nobody <=> callback = "idle"
  /\ callback = "put" => calling \notin owed

(* What the scan thread offers, and what a worker has taken, is a file.    *)
FilesFit ==
  /\ scan.at = "offer" => scan.file \in File
  /\ \A w \in Workers :
       worker[w].at \in {"gate", "paused", "work"} => worker[w].file \in File

TInv == DiscoveryTypeOK /\ FilesFit

-----------------------------------------------------------------------------
(* Type correctness.                                                       *)

(* The process starts with every variable of its type.                     *)
LEMMA TypesInit == Init => TInv
  <1> SUFFICES ASSUME Init PROVE TInv
    OBVIOUS
  <1>1. WatcherTypeOK
    BY DEF Init, WatcherInit, WatcherTypeOK
  <1>2. ManagerTypeOK /\ FilesFit
    BY ManagerAssumption
       DEF Init, ManagerInit, ManagerTypeOK, Version, FilesFit
  <1> QED BY <1>1, <1>2 DEF Init, TInv, DiscoveryTypeOK

(* What a put() leaves in the queue, and a get().                          *)
LEMMA QueueTypes ==
  ASSUME ManagerTypeOK
  PROVE  /\ \A f \in File : Put(f) \/ PutGivesUp =>
              queue' \in Seq(File) /\ Len(queue') <= QueueSize
         /\ queue # <<>> => /\ Head(queue) \in File /\ Tail(queue) \in Seq(File)
                            /\ Len(Tail(queue)) <= QueueSize
  <1>1. queue \in Seq(File) /\ Len(queue) <= QueueSize /\ QueueSize \in Nat
    BY ManagerAssumption DEF ManagerTypeOK
  <1>2. ASSUME NEW f \in File, Put(f)
        PROVE  queue' \in Seq(File) /\ Len(queue') <= QueueSize
    BY <1>1, <1>2 DEF Put
  <1>3. PutGivesUp => queue' = queue
    BY DEF PutGivesUp
  <1>4. queue # <<>> => /\ Head(queue) \in File /\ Tail(queue) \in Seq(File)
                        /\ Len(Tail(queue)) = Len(queue) - 1 /\ Len(queue) \in Nat
    BY <1>1
  <1> QED BY <1>1, <1>2, <1>3, <1>4

(* The scan thread keeps its types.                                        *)
LEMMA ScanTypes ==
  ASSUME TInv, ScanThread \/ ScanRaises
  PROVE  ManagerTypeOK' /\ FilesFit'
  <1> USE DEF surroundings, table
  <1>1. ManagerTypeOK /\ FilesFit
    BY DEF TInv, DiscoveryTypeOK
  <1>2. ASSUME NEW at \in {"off", "gate", "paused", "walk", "offer", "rest", "ended"},
               NEW f \in File \union {NoFile}, ScanStep(at, f),
               at = "offer" => f \in File,
               left' \subseteq File, queue' \in Seq(File), Len(queue') <= QueueSize,
               troubles' \in 0..MaxTroubles,
               UNCHANGED <<disk, table, worker, callback, life, db>>
        PROVE  ManagerTypeOK' /\ FilesFit'
    BY <1>1, <1>2 DEF ScanStep, ManagerTypeOK, FilesFit
  <1>3. CASE ScanGate
    <2>1. /\ \E at \in {"gate", "paused", "walk", "ended"} : ScanStep(at, NoFile)
          /\ left' \subseteq File
      BY <1>1, <1>3 DEF ScanGate, WaitForDb, ManagerTypeOK
    <2> QED BY <1>1, <1>2, <1>3, <2>1 DEF ScanGate, ManagerTypeOK
  <1>4. CASE ScanOffer
    <2>1. queue' \in Seq(File) /\ Len(queue') <= QueueSize
      BY <1>1, <1>4, QueueTypes DEF ScanOffer, FilesFit
    <2> QED BY <1>1, <1>2, <1>4, <2>1 DEF ScanOffer, ManagerTypeOK
  <1>5. CASE ScanEnds \/ ScanRests
    BY <1>1, <1>2, <1>5 DEF ScanEnds, ScanRests, ManagerTypeOK
  <1>6. ASSUME NEW f \in File, ScanRecord(f)
        PROVE  ManagerTypeOK' /\ FilesFit'
    <2>1. left' \subseteq File
      BY <1>1, <1>6 DEF ScanRecord, ManagerTypeOK
    <2>2. CASE UNCHANGED scan
      BY <1>1, <1>6, <2>1, <2>2 DEF ScanRecord, ManagerTypeOK, FilesFit
    <2>3. CASE ScanStep("offer", f)
      BY <1>1, <1>2, <1>6, <2>1, <2>3 DEF ScanRecord, ManagerTypeOK
    <2> QED BY <1>6, <2>2, <2>3 DEF ScanRecord
  <1>7. CASE ScanRaises
    <2>1. troubles' \in 0..MaxTroubles
      BY <1>1, <1>7, ManagerAssumption DEF ScanRaises, Trouble, ManagerTypeOK
    <2> QED BY <1>1, <1>2, <1>7, <2>1 DEF ScanRaises, ManagerTypeOK
  <1> QED BY <1>3, <1>4, <1>5, <1>6, <1>7 DEF ScanThread

(* So do the workers.                                                      *)
LEMMA WorkerTypes ==
  ASSUME TInv, NEW w \in Workers, Worker(w)
  PROVE  ManagerTypeOK' /\ FilesFit'
  <1> USE DEF surroundings, table
  <1>1. ManagerTypeOK /\ FilesFit /\ worker[w].file \in File \union {NoFile}
    BY DEF TInv, DiscoveryTypeOK, ManagerTypeOK
  <1>2. ASSUME NEW at \in {"off", "idle", "gate", "paused", "work", "ended"},
               NEW f \in File \union {NoFile}, WorkerStep(w, at, f),
               queue' \in Seq(File), Len(queue') <= QueueSize,
               recorded' \in [File -> Version \union {Unknown}], copies' \subseteq File,
               at \in {"gate", "paused", "work"} => f \in File,
               troubles' \in 0..MaxTroubles,
               UNCHANGED <<disk, scan, left, callback, life, db>>
        PROVE  ManagerTypeOK' /\ FilesFit'
    <2>1. worker' \in [Workers -> [at : {"off", "idle", "gate", "paused", "work", "ended"},
                                   file : File \union {NoFile}]]
      BY <1>1, <1>2 DEF WorkerStep, ManagerTypeOK
    <2>2. FilesFit'
      BY <1>1, <1>2 DEF WorkerStep, ManagerTypeOK, FilesFit
    <2> QED BY <1>1, <1>2, <2>1, <2>2 DEF ManagerTypeOK
  <1>3. CASE Take(w)
    BY <1>1, <1>2, <1>3, QueueTypes DEF Take, ManagerTypeOK
  <1>4. CASE WorkerExits(w)
    BY <1>1, <1>2, <1>4 DEF WorkerExits, ManagerTypeOK
  <1>5. CASE WorkerGate(w)
    <2>1. \E at \in {"work", "paused", "ended"}, f \in File \union {NoFile} :
            WorkerStep(w, at, f) /\ (at # "ended" => f \in File)
      <3>1. PICK next \in WaitForDb(worker[w].at) :
              CASE next = "go"     -> WorkerStep(w, "work", worker[w].file)
                [] next = "paused" -> WorkerStep(w, "paused", worker[w].file)
                [] next = "ended"  -> WorkerStep(w, "ended", NoFile)
        BY <1>5 DEF WorkerGate
      <3>2. next \in {"go", "paused", "ended"}
        BY <1>5, <3>1 DEF WorkerGate, WaitForDb
      <3>3. worker[w].file \in File
        BY <1>1, <1>5 DEF WorkerGate, FilesFit
      <3> QED BY <1>1, <3>1, <3>2, <3>3
    <2> QED BY <1>1, <1>2, <1>5, <2>1 DEF WorkerGate, ManagerTypeOK
  <1>6. CASE Process(w)
    <2>1. recorded' \in [File -> Version \union {Unknown}]
      BY <1>1, <1>6 DEF Process, OnDisk, ManagerTypeOK
    <2> QED BY <1>1, <1>2, <1>6, <2>1 DEF Process, Finished, ManagerTypeOK
  <1>7. CASE ProcessFails(w)
    <2>1. troubles' \in 0..MaxTroubles
      BY <1>1, <1>7, ManagerAssumption DEF ProcessFails, Trouble, ManagerTypeOK
    <2> QED BY <1>1, <1>2, <1>7, <2>1 DEF ProcessFails, Finished, ManagerTypeOK
  <1>8. CASE FindsKnown(w)
    <2>1. copies' \subseteq File
      BY <1>1, <1>8 DEF FindsKnown, FilesFit, ManagerTypeOK
    <2> QED BY <1>1, <1>2, <1>8, <2>1 DEF FindsKnown, Finished, ManagerTypeOK
  <1> QED BY <1>3, <1>4, <1>5, <1>6, <1>7, <1>8 DEF Worker

(* And the callback of the watcher, which the timers call.                 *)
LEMMA CallbackTypes ==
  ASSUME TInv, Callback
  PROVE  TInv'
  <1> USE DEF surroundings, table, managed, timers, lifecycle
  <1>1. WatcherTypeOK /\ ManagerTypeOK /\ FilesFit
    BY DEF TInv, DiscoveryTypeOK
  <1>2. CASE Look
    <2>1. WatcherTypeOK'
      BY <1>1, <1>2 DEF Look, Release, WatcherTypeOK
    <2>2. ManagerTypeOK' /\ FilesFit'
      BY <1>1, <1>2 DEF Look, EventLook, ManagerTypeOK, FilesFit
    <2> QED BY <1>2, <2>1, <2>2 DEF Look, TInv, DiscoveryTypeOK
  <1>3. CASE Queue
    <2>1. WatcherTypeOK'
      BY <1>1, <1>3 DEF Queue, Release, WatcherTypeOK
    <2>2. queue' \in Seq(File) /\ Len(queue') <= QueueSize
      BY <1>1, <1>3, QueueTypes DEF Queue, EventPut, WatcherTypeOK
    <2>3. ManagerTypeOK' /\ FilesFit'
      BY <1>1, <1>3, <2>2 DEF Queue, EventPut, ManagerTypeOK, FilesFit
    <2> QED BY <1>3, <2>1, <2>3 DEF Queue, TInv, DiscoveryTypeOK
  <1>4. ASSUME NEW f \in File, Call(f)
        PROVE  TInv'
    <2>1. fired' \in [File -> Nat]
      BY <1>1, <1>4 DEF Call, Trigger, WatcherTypeOK
    <2>2. entry' \in [File -> {"none", "armed", "fired"}]
      BY <1>1, <1>4 DEF Call, Trigger, WatcherTypeOK
    <2>3. WatcherTypeOK'
      BY <1>1, <1>4, <2>1, <2>2 DEF Call, Trigger, WatcherTypeOK
    <2>4. ManagerTypeOK' /\ FilesFit'
      BY <1>1, <1>4 DEF Call, ManagerTypeOK, FilesFit
    <2> QED BY <1>4, <2>3, <2>4 DEF Call, TInv, DiscoveryTypeOK
  <1> QED BY <1>2, <1>3, <1>4 DEF Callback

(* One step keeps the types.                                               *)
LEMMA TypesStep == TInv /\ [Next]_vars => TInv'
  <1> SUFFICES ASSUME TInv, [Next]_vars PROVE TInv'
    OBVIOUS
  <1> USE DEF surroundings, table, manager, managed, processing, timers, lifecycle, watcher
  <1>1. WatcherTypeOK /\ ManagerTypeOK /\ FilesFit
    BY DEF TInv, DiscoveryTypeOK
  <1>2. ASSUME UNCHANGED watcher PROVE WatcherTypeOK'
    BY <1>1, <1>2 DEF WatcherTypeOK
  <1>3. ASSUME UNCHANGED managed PROVE ManagerTypeOK' /\ FilesFit'
    BY <1>1, <1>3 DEF ManagerTypeOK, FilesFit
  <1>4. ASSUME NEW f \in File, Edit(f) \/ Remove(f) PROVE TInv'
    <2>1. troubles' \in 0..MaxTroubles /\ troubles + 2 \in Version
      BY <1>1, <1>4, ManagerAssumption DEF Edit, Remove, Trouble, ManagerTypeOK, Version
    <2>2. disk' \in [File -> Version \union {Gone}]
      BY <1>1, <1>4, <2>1 DEF Edit, Remove, ManagerTypeOK
    <2>3. ManagerTypeOK' /\ FilesFit'
      BY <1>1, <1>4, <2>1, <2>2 DEF Edit, Remove, ManagerTypeOK, FilesFit
    <2>4. events' \subseteq File \X Kinds
      BY <1>1, <1>4 DEF Edit, Remove, Reported, WatcherTypeOK, Kinds
    <2>5. WatcherTypeOK'
      BY <1>1, <1>4, <2>4 DEF Edit, Remove, WatcherTypeOK
    <2> QED BY <1>1, <1>4, <2>3, <2>5 DEF Edit, Remove, TInv, DiscoveryTypeOK
  <1>5. CASE StartAll
    <2>1. WatcherTypeOK'
      BY <1>1, <1>5 DEF StartAll, WatcherTypeOK
    <2>2. scan' \in [at : {"off", "gate", "paused", "walk", "offer", "rest", "ended"},
                     file : File \union {NoFile}] /\ scan'.at = "gate"
      BY <1>1, <1>5 DEF StartAll, Start, ManagerTypeOK
    <2>3. ManagerTypeOK' /\ FilesFit'
      BY <1>1, <1>5, <2>2 DEF StartAll, Start, Idle, ManagerTypeOK, FilesFit
    <2> QED BY <1>5, <2>1, <2>3 DEF StartAll, TInv, DiscoveryTypeOK
  <1>6. CASE StopAll
    <2>1. ManagerTypeOK' /\ FilesFit'
      BY <1>1, <1>6 DEF StopAll, Stop, ManagerTypeOK, FilesFit
    <2> QED BY <1>2, <1>6, <2>1 DEF StopAll, TInv, DiscoveryTypeOK
  <1>7. CASE StopTheWatcher
    <2>1. WatcherTypeOK'
      BY <1>1, <1>2, <1>7 DEF StopTheWatcher, StopWatcher, WatcherTypeOK
    <2> QED BY <1>3, <1>7, <2>1 DEF StopTheWatcher, TInv, DiscoveryTypeOK
  <1>8. CASE Watch
    <2>1. ASSUME StartWatcher PROVE WatcherTypeOK'
      BY <1>1, <2>1 DEF StartWatcher, Observe, WatcherTypeOK
    <2>2. ASSUME NEW f \in File, ScheduleDebounce(f) PROVE WatcherTypeOK'
      <3>1. armed' \in [File -> Nat]
        BY <1>1, <2>2 DEF ScheduleDebounce, WatcherTypeOK
      <3>2. entry' \in [File -> {"none", "armed", "fired"}]
        BY <1>1, <2>2 DEF ScheduleDebounce, WatcherTypeOK
      <3> QED BY <1>1, <2>2, <3>1, <3>2 DEF ScheduleDebounce, WatcherTypeOK
    <2>3. ASSUME NEW f \in File, OnDeleted(f) PROVE WatcherTypeOK'
      BY <1>1, <2>3 DEF OnDeleted, WatcherTypeOK
    <2>4. ASSUME NEW f \in File, TimerFires(f) PROVE WatcherTypeOK'
      <3>1. armed' \in [File -> Nat] /\ fired' \in [File -> Nat]
        BY <1>1, <2>4 DEF TimerFires, WatcherTypeOK
      <3>2. entry' \in [File -> {"none", "armed", "fired"}]
        BY <1>1, <2>4 DEF TimerFires, WatcherTypeOK
      <3> QED BY <1>1, <2>4, <3>1, <3>2 DEF TimerFires, WatcherTypeOK
    <2>5. WatcherTypeOK'
      BY <1>8, <2>1, <2>2, <2>3, <2>4 DEF Watch
    <2> QED BY <1>1, <1>3, <1>8, <2>5 DEF Watch, TInv, DiscoveryTypeOK
  <1>9. CASE Callback
    BY <1>9, CallbackTypes
  <1>10. CASE Manage
    <2>1. ManagerTypeOK' /\ FilesFit'
      <3>1. CASE ScanThread \/ ScanRaises
        BY <3>1, ScanTypes
      <3>2. ASSUME NEW w \in Workers, Worker(w) \/ ProcessFails(w)
            PROVE  ManagerTypeOK' /\ FilesFit'
        BY <3>2, WorkerTypes DEF Worker
      <3>3. CASE DbLost \/ DbBack \/ PostgresTimeout
        <4>1. troubles' \in 0..MaxTroubles
          BY <1>1, <3>3, ManagerAssumption
             DEF DbLost, DbBack, PostgresTimeout, Trouble, ManagerTypeOK
        <4> QED BY <1>1, <3>3, <4>1
               DEF DbLost, DbBack, PostgresTimeout, ManagerTypeOK, FilesFit
      <3> QED BY <1>10, <3>1, <3>2, <3>3 DEF Manage
    <2> QED BY <1>1, <1>2, <1>10, <2>1 DEF Manage, TInv, DiscoveryTypeOK
  <1>11. CASE UNCHANGED vars
    BY <1>2, <1>3, <1>11 DEF vars, TInv, DiscoveryTypeOK
  <1> QED BY <1>4, <1>5, <1>6, <1>7, <1>8, <1>9, <1>10, <1>11 DEF Next

(* Every variable of the watcher and the manager keeps its type: the queue *)
(* never outgrows processing_queue's maxsize, and a file is only ever      *)
(* recorded in a version it has had.                                       *)
THEOREM DiscoveryTypeCorrect == Spec => []DiscoveryTypeOK
  <1>1. TInv => DiscoveryTypeOK
    BY DEF TInv
  <1> QED BY <1>1, TypesInit, TypesStep, PTL DEF Spec

-----------------------------------------------------------------------------
(* No event is lost.                                                       *)

EInv == TimersFit /\ NoEventLost

(* It starts with no change reported and none owed.                        *)
LEMMA EventsInit == Init => EInv
  BY DEF Init, WatcherInit, ManagerInit, EInv, TimersFit, NoEventLost

(* A change that is delivered gets a timer, be it the one already there; a *)
(* timer that runs out still waits for the lock.                           *)
LEMMA TimersStep ==
  ASSUME DiscoveryTypeOK, EInv, NEW g \in File,
         ScheduleDebounce(g) \/ TimerFires(g), callback' = callback
  PROVE  EInv'
  <1> USE DEF timers, lifecycle
  <1>1. /\ armed \in [File -> Nat] /\ fired \in [File -> Nat]
        /\ entry \in [File -> {"none", "armed", "fired"}] /\ owed \subseteq File
    BY DEF DiscoveryTypeOK, WatcherTypeOK
  <1>2. TimersFit /\ NoEventLost
    BY DEF EInv
  <1>3. CASE ScheduleDebounce(g)
    <2>1. /\ pending' = pending \union {g} /\ owed' = owed \union {g}
          /\ UNCHANGED <<fired, calling>> /\ calling = Nobody
          /\ entry' = [entry EXCEPT ![g] = "armed"]
          /\ armed' = IF entry[g] = "armed" THEN armed ELSE [armed EXCEPT ![g] = @ + 1]
      BY <1>3 DEF ScheduleDebounce, Unlocked
    <2>2. /\ armed' \in [File -> Nat] /\ armed'[g] > 0
          /\ \A f \in File : armed'[f] >= armed[f]
      BY <1>1, <1>2, <2>1 DEF TimersFit
    <2>3. TimersFit'
      <3>1. \A f \in File : entry'[f] = "armed" => armed'[f] > 0
        BY <1>1, <1>2, <2>1, <2>2 DEF TimersFit
      <3>2. callback' = "idle"
        BY <1>2, <2>1 DEF TimersFit
      <3> QED BY <1>2, <2>1, <3>1, <3>2 DEF TimersFit
    <2>4. ASSUME NEW f \in owed' PROVE f \in pending' /\ armed'[f] + fired'[f] > 0
      <3>1. CASE f = g
        BY <1>1, <2>1, <2>2, <3>1
      <3>2. CASE f # g
        <4>1. f \in owed /\ f \in File /\ f # calling
          BY <1>1, <2>1, <2>4, <3>2, WatcherAssumption
        <4>2. f \in pending /\ armed[f] + fired[f] > 0
          BY <1>2, <4>1 DEF NoEventLost
        <4> QED BY <1>1, <2>1, <2>2, <4>1, <4>2
      <3> QED BY <3>1, <3>2
    <2> QED BY <2>3, <2>4 DEF EInv, NoEventLost
  <1>4. CASE TimerFires(g)
    <2>1. /\ UNCHANGED <<pending, owed, calling>>
          /\ armed[g] > 0
          /\ armed' = [armed EXCEPT ![g] = armed[g] - 1]
          /\ fired' = [fired EXCEPT ![g] = fired[g] + 1]
          /\ \/ entry' = [entry EXCEPT ![g] = "fired"]
             \/ armed[g] > (IF entry[g] = "armed" THEN 1 ELSE 0) /\ entry' = entry
      BY <1>4 DEF TimerFires
    <2>2. \A f \in File : armed'[f] + fired'[f] = armed[f] + fired[f]
      BY <1>1, <2>1
    <2>3. \A f \in File : entry'[f] = "armed" => armed'[f] > 0
      BY <1>1, <1>2, <2>1 DEF TimersFit
    <2>4. TimersFit'
      BY <1>2, <2>1, <2>3 DEF TimersFit
    <2>5. NoEventLost'
      BY <1>1, <1>2, <2>1, <2>2 DEF NoEventLost
    <2> QED BY <2>4, <2>5 DEF EInv
  <1> QED BY <1>3, <1>4

(* Whichever timer gets the lock, the file it finds marked is the one that *)
(* the callback looks at; and it looks before the mark is taken away.      *)
LEMMA CallbackStep ==
  ASSUME DiscoveryTypeOK, EInv, Callback
  PROVE  EInv'
  <1> USE DEF timers, lifecycle
  <1>1. /\ armed \in [File -> Nat] /\ fired \in [File -> Nat]
        /\ entry \in [File -> {"none", "armed", "fired"}] /\ owed \subseteq File
        /\ callback \in {"idle", "look", "put"}
    BY DEF DiscoveryTypeOK, WatcherTypeOK, ManagerTypeOK
  <1>2. TimersFit /\ NoEventLost
    BY DEF EInv
  <1>3. ASSUME NEW g \in File, Call(g)
        PROVE  EInv'
    <2>1. /\ fired[g] > 0 /\ calling = Nobody /\ callback = "idle"
          /\ fired' = [fired EXCEPT ![g] = fired[g] - 1]
          /\ UNCHANGED <<pending, armed, owed>>
          /\ \/ g \in pending /\ calling' = g /\ entry' = entry /\ callback' = "look"
             \/ /\ g \notin pending /\ calling' = calling /\ callback' = callback
                /\ entry' = [entry EXCEPT ![g] = "none"]
      BY <1>2, <1>3 DEF Call, Trigger, Unlocked, TimersFit
    <2>2. TimersFit'
      <3>1. \A f \in File : entry'[f] = "armed" => armed'[f] > 0
        BY <1>1, <1>2, <2>1 DEF TimersFit
      <3>2. calling' = Nobody <=> callback' = "idle"
        BY <2>1, WatcherAssumption
      <3>3. callback' # "put"
        BY <2>1
      <3> QED BY <3>1, <3>2, <3>3 DEF TimersFit
    <2>3. ASSUME NEW f \in owed
          PROVE  (f \in pending /\ armed'[f] + fired'[f] > 0) \/ f = calling'
      <3>1. f \in File /\ f # calling /\ f \in pending /\ armed[f] + fired[f] > 0
        BY <1>1, <1>2, <2>1, <2>3, WatcherAssumption DEF NoEventLost
      <3>2. CASE f = g
        BY <2>1, <3>1, <3>2
      <3>3. CASE f # g
        BY <1>1, <2>1, <3>1, <3>3
      <3> QED BY <3>2, <3>3
    <2> QED BY <2>1, <2>2, <2>3 DEF EInv, NoEventLost
  <1>4. ASSUME Release, callback' = "idle", owed' \subseteq owed, calling \notin owed'
        PROVE  EInv'
    <2>1. /\ calling' = Nobody /\ pending' = pending \ {calling}
          /\ entry' = [entry EXCEPT ![calling] = "none"] /\ UNCHANGED <<armed, fired>>
      BY <1>4 DEF Release
    <2>2. TimersFit'
      <3>1. \A f \in File : entry'[f] = "armed" => armed'[f] > 0
        BY <1>1, <1>2, <2>1 DEF TimersFit
      <3> QED BY <1>4, <2>1, <3>1 DEF TimersFit
    <2>3. NoEventLost'
      BY <1>1, <1>2, <1>4, <2>1 DEF NoEventLost
    <2> QED BY <2>2, <2>3 DEF EInv
  <1>5. CASE Look
    <2>1. /\ calling # Nobody /\ owed' = owed \ {calling}
          /\ callback' \in {"put", "idle"}
      BY <1>5 DEF Look, EventLook
    <2>2. CASE callback' = "idle"
      BY <1>4, <1>5, <2>1, <2>2 DEF Look
    <2>3. CASE callback' = "put"
      <3>1. UNCHANGED <<armed, fired, entry, pending, calling>>
        BY <1>5, <2>3 DEF Look
      <3> QED BY <1>2, <2>1, <2>3, <3>1 DEF EInv, TimersFit, NoEventLost
    <2> QED BY <2>1, <2>2, <2>3
  <1>6. CASE Queue
    <2>1. /\ calling \notin owed /\ owed' = owed /\ callback' = "idle" /\ Release
      BY <1>2, <1>6 DEF Queue, EventPut, TimersFit
    <2> QED BY <1>4, <2>1
  <1> QED BY <1>3, <1>5, <1>6 DEF Callback

(* Nothing else touches the timers, the marks or the lock.                 *)
LEMMA EventsStep == TInv /\ EInv /\ [Next]_vars => EInv'
  <1> SUFFICES ASSUME TInv, EInv, [Next]_vars PROVE EInv'
    OBVIOUS
  <1> USE DEF timers, lifecycle, table, manager, managed, processing, watcher, surroundings
  <1>1. ASSUME UNCHANGED <<timers, calling, owed, callback>>
        PROVE  EInv'
    BY <1>1 DEF EInv, TimersFit, NoEventLost
  <1>2. ASSUME NEW f \in File, Edit(f) \/ Remove(f) PROVE EInv'
    BY <1>1, <1>2 DEF Edit, Remove
  <1>3. CASE StartAll \/ StopAll
    BY <1>1, <1>3 DEF StartAll, StopAll, Start, Stop
  <1>4. CASE StopTheWatcher
    BY <1>1, <1>4 DEF StopTheWatcher, StopWatcher
  <1>5. CASE Watch
    <2>1. ASSUME NEW g \in File, ScheduleDebounce(g) \/ TimerFires(g) PROVE EInv'
      BY <1>5, <2>1, TimersStep DEF Watch, TInv
    <2>2. ASSUME NEW g \in File, OnDeleted(g) PROVE EInv'
      BY <1>1, <1>5, <2>2 DEF Watch, OnDeleted
    <2>3. ASSUME StartWatcher PROVE EInv'
      BY <1>1, <1>5, <2>3 DEF Watch, StartWatcher
    <2> QED BY <1>5, <2>1, <2>2, <2>3 DEF Watch
  <1>6. CASE Callback
    BY <1>6, CallbackStep DEF TInv
  <1>7. CASE Manage
    <2>1. callback' = callback
      BY <1>7 DEF Manage, ScanThread, ScanGate, ScanOffer, ScanEnds, ScanRests, ScanRecord,
             ScanRaises, Worker, Take, WorkerExits, WorkerGate, Process, FindsKnown,
             ProcessFails,
             DbLost, DbBack, PostgresTimeout
    <2> QED BY <1>1, <1>7, <2>1 DEF Manage
  <1>8. CASE UNCHANGED vars
    BY <1>1, <1>8 DEF vars
  <1> QED BY <1>2, <1>3, <1>4, <1>5, <1>6, <1>7, <1>8 DEF Next

(* A change that the observer delivered is never forgotten before the      *)
(* callback has looked at its file: it stays marked with a live timer,     *)
(* though timers are cancelled too late, lose their entry, serve the mark  *)
(* of another, outlive stop() or wait for the lock in any order.           *)
THEOREM EventsSurvive == Spec => []NoEventLost
  <1>1. Spec => [](TInv /\ EInv)
    BY TypesInit, TypesStep, EventsInit, EventsStep, PTL DEF Spec
  <1> QED BY <1>1, PTL DEF EInv

=============================================================================
