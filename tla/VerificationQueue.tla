-------------------------- MODULE VerificationQueue -------------------------
(***************************************************************************)
(* src/src/identity/verification.py: tasks queued by priority, processed   *)
(* in batches by an asynchronous handler, put back when it fails, logged   *)
(* and undone.  Everything between two awaits of the handler is one step:  *)
(* the lock is never held across an await, so nobody ever waits for it.    *)
(***************************************************************************)
EXTENDS Naturals, Sequences, SequencesExt

CONSTANTS
  Runner,     \* callers of process_queue()
  Batch,      \* its batch_size
  UndoDepth,  \* max_undo_stack
  MaxTasks,   \* bound on add_task()
  MaxFailures \* bound on handlers that fail or are cancelled

VARIABLES
  tasks,      \* _queue: task number, priority, and whether it ever failed
  runner,     \* what each caller has in hand, and how many it has processed
  processing, \* _processing
  audit,      \* _audit_log
  undo,       \* _undo_stack: positions in audit
  added, failures,
  cancelled   \* history: tasks whose handler was cancelled

ASSUME VerificationAssumption ==
  IsFiniteSet(Runner) /\ {Batch, UndoDepth, MaxTasks, MaxFailures} \subseteq Nat

verification == <<tasks, runner, processing, audit, undo, added, failures, cancelled>>

Priority == 1..3
Low      == 1
NoTask   == [task |-> 0, priority |-> Low, failed |-> FALSE]
Resting  == [item |-> NoTask, count |-> 0]

VerificationInit ==
  /\ tasks = <<>> /\ runner = [r \in Runner |-> Resting] /\ processing = FALSE
  /\ audit = <<>> /\ undo = <<>>
  /\ added = 0 /\ failures = 0 /\ cancelled = {}

VerificationTypeOK ==
  LET Item == [task : 0..MaxTasks, priority : Priority, failed : BOOLEAN] IN
  /\ tasks \in Seq(Item)
  /\ runner \in [Runner -> [item : Item, count : 0..Batch]]
  /\ processing \in BOOLEAN
  /\ audit \in Seq([task : 1..MaxTasks, undone : BOOLEAN])
  /\ undo \in Seq(1..Len(audit)) /\ Len(undo) <= UndoDepth
  /\ added \in 0..MaxTasks /\ failures \in 0..MaxFailures
  /\ cancelled \subseteq 1..MaxTasks

-----------------------------------------------------------------------------
Outranks(p, q) == p > q

(* add_task(), and the four wrappers that differ in what the task says.    *)
AddTask(p) ==
  LET item  == [task |-> added + 1, priority |-> p, failed |-> FALSE]
      lower == {i \in DOMAIN tasks : Outranks(p, tasks[i].priority)}
  IN
  /\ added < MaxTasks /\ added' = added + 1
  /\ tasks' = IF lower = {} THEN Append(tasks, item)
              ELSE InsertAt(tasks, CHOOSE i \in lower : \A j \in lower : i <= j, item)
  /\ UNCHANGED <<runner, processing, audit, undo, failures, cancelled>>

(* The loop of process_queue(): the next task of queue q, or the return.   *)
Proceed(r, q, n) ==
  IF q # <<>> /\ n < Batch
  THEN /\ tasks' = Tail(q) /\ processing' = TRUE
       /\ runner' = [runner EXCEPT ![r] = [item |-> Head(q), count |-> n]]
  ELSE /\ tasks' = q /\ processing' = FALSE
       /\ runner' = [runner EXCEPT ![r] = Resting]

(* A call while the queue is being processed returns at once.              *)
ProcessQueue(r) ==
  /\ ~processing /\ runner[r] = Resting
  /\ Proceed(r, tasks, 0)
  /\ UNCHANGED <<audit, undo, added, failures, cancelled>>

Handling(r) == runner[r] # Resting

HandlerSucceeds(r) ==
  /\ Handling(r)
  /\ audit' = Append(audit, [task |-> runner[r].item.task, undone |-> FALSE])
  /\ LET u == Append(undo, Len(audit) + 1)
     IN undo' = IF Len(u) > UndoDepth THEN Tail(u) ELSE u
  /\ Proceed(r, tasks, runner[r].count + 1)
  /\ UNCHANGED <<added, failures, cancelled>>

(* Mutant of Requeued: a task whose handler failed is dropped.             *)
Requeued_Dropped(item, p) == tasks

(* A failed task goes to the tail, whatever its priority.                  *)
Requeued(item, p) == Append(tasks, [item EXCEPT !.priority = p, !.failed = TRUE])

(* The handler returns False, or raises: the latter costs the task all of  *)
(* its priority.                                                           *)
HandlerFails(r) ==
  LET item == runner[r].item IN
  /\ Handling(r) /\ failures < MaxFailures /\ failures' = failures + 1
  /\ \E p \in {Low, IF item.priority > Low THEN item.priority - 1 ELSE Low} :
       Proceed(r, Requeued(item, p), runner[r].count)
  /\ UNCHANGED <<audit, undo, added, cancelled>>

(* CancelledError is not an Exception: only the flag is reset.             *)
HandlerCancelled(r) ==
  /\ Handling(r) /\ failures < MaxFailures /\ failures' = failures + 1
  /\ cancelled' = cancelled \union {runner[r].item.task}
  /\ runner' = [runner EXCEPT ![r] = Resting] /\ processing' = FALSE
  /\ UNCHANGED <<tasks, audit, undo, added>>

UndoLastAction ==
  /\ undo # <<>> /\ undo' = Front(undo)
  /\ audit' = [audit EXCEPT ![Last(undo)].undone = TRUE]
  /\ UNCHANGED <<tasks, runner, processing, added, failures, cancelled>>

VerificationStep ==
  \/ \E p \in Priority : AddTask(p)
  \/ \E r \in Runner :
       ProcessQueue(r) \/ HandlerSucceeds(r) \/ HandlerFails(r) \/ HandlerCancelled(r)
  \/ UndoLastAction

-----------------------------------------------------------------------------
Queued(t) == {i \in DOMAIN tasks : tasks[i].task = t}
Held(t)   == {r \in Runner : runner[r].item.task = t}
Logged(t) == {i \in DOMAIN audit : audit[i].task = t}

(* Tasks that never failed are queued by priority, and in the order they   *)
(* came within one, although failed ones lie between them out of order.    *)
FreshInOrder ==
  \A i, j \in DOMAIN tasks :
    i < j /\ ~tasks[i].failed /\ ~tasks[j].failed =>
      \/ tasks[i].priority > tasks[j].priority
      \/ tasks[i].priority = tasks[j].priority /\ tasks[i].task < tasks[j].task

(* The positions in undo ascend, none is undone, and no later one that is  *)
(* not undone is missing.                                                  *)
UndoIsTheEnd ==
  /\ \A i, j \in DOMAIN undo : i < j => undo[i] < undo[j]
  /\ \A i \in DOMAIN undo : ~audit[undo[i]].undone
  /\ \A n \in DOMAIN audit :
       ~audit[n].undone => n \in Range(undo) \/ \A i \in DOMAIN undo : n < undo[i]

(* A task is in the queue, in one caller's hands, done or cancelled, and   *)
(* never two of these, through failures, batches and concurrent callers;   *)
(* what can be undone is the end of what was done and not undone, and the  *)
(* newest goes first; and the queue serves fresh tasks in order.           *)
TasksAccounted ==
  /\ \A t \in 1..added :
       Cardinality(Queued(t)) + Cardinality(Held(t)) + Cardinality(Logged(t))
         = IF t \in cancelled THEN 0 ELSE 1
  /\ UndoIsTheEnd
  /\ FreshInOrder
=============================================================================
