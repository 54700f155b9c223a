---------------------------- MODULE TaskManager ----------------------------
(***************************************************************************)
(* central_server/task_manager.c: a table of tasks under manager->mutex    *)
(* and a ring buffer of the tasks nobody has taken yet.                    *)
(*                                                                         *)
(* The ring buffer has a lock of its own: task_manager_create_task pushes  *)
(* the task while it holds manager->mutex but before the task is in the    *)
(* table, and task_manager_get_next_task pops without manager->mutex.  So  *)
(* creation is two steps, and takers may run between them.  The ring       *)
(* buffer itself is the queue that RingBuffer is shown to implement.       *)
(***************************************************************************)
EXTENDS Integers, Sequences, FiniteSets

CONSTANTS
  TaskCapacity,   \* manager->capacity
  QueueSize,      \* capacity of the ring buffer
  TaskTimeout,    \* TASK_TIMEOUT_SEC, in ticks
  Takers,         \* the threads that take tasks and hand them to workers
  MaxTaskIds      \* bound: how many ids are given out

ASSUME TaskAssumption ==
  /\ TaskCapacity \in Nat \ {0}
  /\ QueueSize \in Nat \ {0}
  /\ TaskTimeout \in Nat
  /\ MaxTaskIds \in Nat

VARIABLES
  tasks,          \* manager->tasks, as long as manager->count
  next_task_id,
  task_queue,     \* the ids of the tasks in the ring buffer, oldest first
  creating,       \* the task create_task has pushed but not yet entered, or 0
  hand            \* hand[t]: the task that t popped and has not yet marked

taskVars == <<tasks, next_task_id, task_queue, creating, hand>>

TaskStatuses == {"PENDING", "ASSIGNED", "COMPLETED", "FAILED", "TIMEOUT"}
Rows == 1 .. Len(tasks)

\* The row that the search for task_id stops at, as a set.
RowOf(id) ==
  {r \in Rows : tasks[r].task_id = id /\ \A q \in 1 .. r - 1 : tasks[q].task_id # id}

-----------------------------------------------------------------------------
\* task_manager_create
TaskInit ==
  /\ tasks = <<>>
  /\ next_task_id = 1
  /\ task_queue = <<>>
  /\ creating = 0
  /\ hand = [t \in Takers |-> 0]

\* task_manager_create_task up to ring_buffer_push, which does not wait.  With
\* the ring full the task is dropped and its id is lost; with the table full
\* nothing changes.
CreatePush ==
  /\ creating = 0
  /\ Len(tasks) < TaskCapacity
  /\ next_task_id <= MaxTaskIds
  /\ next_task_id' = next_task_id + 1
  /\ \/ /\ Len(task_queue) < QueueSize
        /\ task_queue' = Append(task_queue, next_task_id)
        /\ creating' = next_task_id
     \/ /\ Len(task_queue) = QueueSize
        /\ UNCHANGED <<task_queue, creating>>
  /\ UNCHANGED <<tasks, hand>>

\* ... and from there to the unlock.
CreateInsert ==
  /\ creating # 0
  /\ tasks' = Append(tasks, [task_id |-> creating, status |-> "PENDING", age |-> 0])
  /\ creating' = 0
  /\ UNCHANGED <<next_task_id, task_queue, hand>>

\* Mutant: the task is read but not taken out of the ring.
GetNextTaskPeek(t) ==
  /\ hand[t] = 0
  /\ task_queue # <<>>
  /\ hand' = [hand EXCEPT ![t] = Head(task_queue)]
  /\ UNCHANGED <<tasks, next_task_id, task_queue, creating>>

\* task_manager_get_next_task without waiting.
GetNextTask(t) ==
  /\ hand[t] = 0
  /\ task_queue # <<>>
  /\ hand' = [hand EXCEPT ![t] = Head(task_queue)]
  /\ task_queue' = Tail(task_queue)
  /\ UNCHANGED <<tasks, next_task_id, creating>>

\* task_manager_assign_task for the task in the hand of t.  It needs the
\* mutex, so it waits for a creation under way.
AssignTask(t) ==
  /\ creating = 0
  /\ \E r \in RowOf(hand[t]) :
       tasks' = [tasks EXCEPT ![r].status = "ASSIGNED", ![r].age = 0]
  /\ hand' = [hand EXCEPT ![t] = 0]
  /\ UNCHANGED <<next_task_id, task_queue, creating>>

\* task_manager_process_result: the result is taken whatever the status is.
ProcessResult(id, status) ==
  /\ creating = 0
  /\ \E r \in RowOf(id) :
       tasks' = [tasks EXCEPT ![r].status = status, ![r].age = 0]
  /\ UNCHANGED <<next_task_id, task_queue, creating, hand>>

\* Mutant: the wrong status is looked for.
CheckTaskTimeoutsPending ==
  /\ creating = 0
  /\ tasks' = [r \in Rows |->
                 IF tasks[r].status = "PENDING" /\ tasks[r].age > TaskTimeout
                   THEN [tasks[r] EXCEPT !.status = "TIMEOUT", !.age = 0]
                   ELSE tasks[r]]
  /\ UNCHANGED <<next_task_id, task_queue, creating, hand>>

\* task_manager_check_timeouts: one pass over the table under the lock.
CheckTaskTimeouts ==
  /\ creating = 0
  /\ tasks' = [r \in Rows |->
                 IF tasks[r].status = "ASSIGNED" /\ tasks[r].age > TaskTimeout
                   THEN [tasks[r] EXCEPT !.status = "TIMEOUT", !.age = 0]
                   ELSE tasks[r]]
  /\ UNCHANGED <<next_task_id, task_queue, creating, hand>>

\* time(NULL) advances for every assigned task.
TaskTick ==
  /\ tasks' = [r \in Rows |->
                 IF tasks[r].status = "ASSIGNED" /\ tasks[r].age <= TaskTimeout
                   THEN [tasks[r] EXCEPT !.age = @ + 1]
                   ELSE tasks[r]]
  /\ UNCHANGED <<next_task_id, task_queue, creating, hand>>

\* Results come for tasks that were handed to a worker, possibly late.
TaskNext ==
  \/ CreatePush
  \/ CreateInsert
  \/ CheckTaskTimeouts
  \/ TaskTick
  \/ \E t \in Takers : GetNextTask(t) \/ AssignTask(t)
  \/ \E r \in Rows, status \in {"COMPLETED", "FAILED"} :
       tasks[r].status # "PENDING" /\ ProcessResult(tasks[r].task_id, status)

TaskSpec == TaskInit /\ [][TaskNext]_taskVars

\* The thread that creates a task goes on, the timeout checker runs every five
\* seconds, and a taker goes on with the task it has.  Nothing makes a taker ask
\* again: a worker that was given a task stays BUSY for ever, since its result is
\* always dropped (central_server.c:167) before the reset at :184.
TaskFairness ==
  /\ WF_taskVars(CreateInsert) /\ WF_taskVars(TaskTick)
  /\ SF_taskVars(CheckTaskTimeouts)
  /\ \A t \in Takers : SF_taskVars(AssignTask(t))

TaskFairSpec == TaskSpec /\ TaskFairness

-----------------------------------------------------------------------------
\* The table, the queue and the takers' hands are well typed.
TaskTypeOK ==
  /\ tasks \in Seq([task_id : 1 .. MaxTaskIds, status : TaskStatuses,
                    age : 0 .. TaskTimeout + 1])
  /\ Len(tasks) <= TaskCapacity
  /\ next_task_id \in 1 .. MaxTaskIds + 1
  /\ task_queue \in Seq(1 .. MaxTaskIds) /\ Len(task_queue) <= QueueSize
  /\ creating \in 0 .. MaxTaskIds
  /\ hand \in [Takers -> 0 .. MaxTaskIds]

\* Ids that were lost to a full ring notwithstanding, the table is sorted by
\* strictly increasing id, so the search by id finds the right task.
TasksSorted ==
  /\ \A r, q \in Rows : r < q => tasks[r].task_id < tasks[q].task_id
  /\ \A r \in Rows : tasks[r].task_id < (IF creating # 0 THEN creating
                                                         ELSE next_task_id)
  /\ creating < next_task_id

Queued == {task_queue[k] : k \in 1 .. Len(task_queue)}
InHand == {hand[t] : t \in Takers} \ {0}
PendingIds == {tasks[r].task_id : r \in {q \in Rows : tasks[q].status = "PENDING"}}

\* Between creation and assignment a task is in exactly one place, the ring or
\* one taker's hand, and those tasks are the pending ones of the table and the
\* one not yet entered: nothing is lost, nothing is given to two takers, and
\* task_manager_assign_task, once it has the mutex, finds its task.
PendingInTransit ==
  /\ Queued \cap InHand = {}
  /\ \A j, k \in 1 .. Len(task_queue) : task_queue[j] = task_queue[k] => j = k
  /\ \A t, u \in Takers : hand[t] # 0 /\ hand[t] = hand[u] => t = u
  /\ Queued \cup InHand = PendingIds \cup ({creating} \ {0})

\* A task that was taken from the ring, perhaps before it was in the table, is
\* assigned and ends as completed, failed or timed out, whatever becomes of its
\* worker.
EveryTaskEnds ==
  \A id \in 1 .. MaxTaskIds :
    id \in InHand ~> \E r \in Rows : /\ tasks[r].task_id = id
                                     /\ tasks[r].status \notin {"PENDING", "ASSIGNED"}
=============================================================================
