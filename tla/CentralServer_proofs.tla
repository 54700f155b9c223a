----------------------- MODULE CentralServer_proofs -----------------------
(***************************************************************************)
(* The central server, for any number of handler threads, descriptors and  *)
(* registry entries: it uses the task table as TaskManager allows, its     *)
(* entries match its handlers, its stale pointers lead to memory that was  *)
(* written, a task is sent once, and to the right worker until the first   *)
(* removal.                                                                *)
(***************************************************************************)
EXTENDS CentralServer, FiniteSetTheorems, FunctionTheorems, SequenceTheorems,
        WellFoundedInduction, TLAPS

(***************************************************************************)
(* The task table and its ring, for any capacities, any set of takers and  *)
(* any number of tasks: the specification of TaskManager by itself.        *)
(***************************************************************************)
Task == [task_id : 1 .. MaxTaskIds, status : TaskStatuses, age : 0 .. TaskTimeout + 1]

\* A task under creation has a place in the table.
RoomForCreating == creating # 0 => Len(tasks) < TaskCapacity

\* The inductive invariant of the task manager.
TaskInductive == TaskTypeOK /\ RoomForCreating /\ TasksSorted /\ PendingInTransit

(***************************************************************************)
(* Lemmas about steps of the table.                                        *)
(***************************************************************************)
\* The table and its rows.
LEMMA TaskTableType ==
  ASSUME TaskTypeOK
  PROVE  /\ tasks \in Seq(Task) /\ Len(tasks) \in Nat
         /\ \A r \in Rows : /\ tasks[r] \in Task /\ tasks[r].task_id \in 1 .. MaxTaskIds
                            /\ tasks[r].task_id # 0
<1>1. tasks \in Seq(Task)
  BY DEF TaskTypeOK, Task
<1>2. Len(tasks) \in Nat
  BY <1>1, LenProperties
<1>3. \A r \in Rows : tasks[r] \in Task
  BY <1>1, ElementOfSeq DEF Rows
<1>4. ASSUME NEW r \in Rows
      PROVE  tasks[r].task_id \in 1 .. MaxTaskIds /\ tasks[r].task_id # 0
  BY <1>3, TaskAssumption DEF Task
<1> QED BY <1>1, <1>2, <1>3, <1>4

\* The search for an id of the table finds its row, and no other.
LEMMA RowOfUnique ==
  ASSUME TaskTypeOK, TasksSorted, NEW id, NEW r \in RowOf(id), NEW q \in Rows,
         tasks[q].task_id = id
  PROVE  r \in Rows /\ tasks[r].task_id = id /\ q = r
<1>1. r \in Rows /\ tasks[r].task_id = id
  BY DEF RowOf
<1>2. r < q \/ q < r \/ q = r
  BY <1>1, TaskTableType DEF Rows
<1>3. tasks[r].task_id \in Int /\ tasks[q].task_id \in Int
  BY <1>1, TaskTableType, TaskAssumption
<1> QED BY <1>1, <1>2, <1>3 DEF TasksSorted

\* An update of the rows that keeps their ids: status and age may change.
SameIds(new) ==
  /\ new \in Seq(Task) /\ Len(new) = Len(tasks)
  /\ \A r \in Rows : new[r].task_id = tasks[r].task_id

\* A pass over the table keeps the ids.
LEMMA PassKeepsIds ==
  ASSUME TaskTypeOK, NEW f \in [Rows -> Task],
         \A r \in Rows : f[r].task_id = tasks[r].task_id
  PROVE  SameIds(f)
<1>1. Len(tasks) \in Nat
  BY TaskTableType
<1>2. f \in Seq(Task)
  BY <1>1 DEF Rows
<1>3. DOMAIN f = 1 .. Len(f) /\ DOMAIN f = 1 .. Len(tasks) /\ Len(f) \in Nat
  BY <1>2, LenProperties DEF Rows
<1>4. Len(f) = Len(tasks)
  BY <1>1, <1>3
<1> QED BY <1>2, <1>4 DEF SameIds

\* The update of one row keeps the ids.
LEMMA RowKeepsIds ==
  ASSUME TaskTypeOK, NEW r \in Rows, NEW st \in TaskStatuses,
         tasks' = [tasks EXCEPT ![r].status = st, ![r].age = 0]
  PROVE  /\ SameIds(tasks') /\ tasks'[r].status = st
         /\ \A q \in Rows : q # r => tasks'[q] = tasks[q]
<1> DEFINE new == [tasks EXCEPT ![r].status = st, ![r].age = 0]
           row == [tasks[r] EXCEPT !.status = st, !.age = 0]
<1>1. tasks \in Seq(Task) /\ tasks[r] \in Task /\ tasks \in [Rows -> Task]
  BY TaskTableType, LenProperties DEF Rows
<1>2. row \in Task /\ row.task_id = tasks[r].task_id /\ row.status = st
  <2> DEFINE m == [tasks[r] EXCEPT !.status = st]
  <2>1. m \in Task /\ m.task_id = tasks[r].task_id /\ m.status = st
    BY <1>1 DEF Task
  <2>2. row = [m EXCEPT !.age = 0]
    OBVIOUS
  <2>3. 0 \in 0 .. TaskTimeout + 1
    BY TaskAssumption
  <2> HIDE DEF m, row
  <2> QED BY <2>1, <2>2, <2>3 DEF Task
<1>3. /\ new = [q \in Rows |-> new[q]] /\ new[r] = row
      /\ \A q \in Rows : q # r => new[q] = tasks[q]
  <2>1. DOMAIN new = Rows /\ \A q \in Rows : q # r => new[q] = tasks[q]
    BY <1>1
  <2>2. new[r] = row
    BY <1>1 DEF Task
  <2>3. new = [q \in DOMAIN new |-> new[q]]
    OBVIOUS
  <2> QED BY <2>1, <2>2, <2>3
<1> HIDE DEF new, row
<1>4. new \in [Rows -> Task] /\ new[r] = row /\ \A q \in Rows : q # r => new[q] = tasks[q]
  <2>1. \A q \in Rows : new[q] \in Task
    BY <1>1, <1>2, <1>3
  <2> QED BY <1>3, <2>1
<1>5. SameIds(new)
  BY <1>2, <1>4, PassKeepsIds
<1> QED BY <1>2, <1>4, <1>5 DEF new

\* What a step that keeps the ids keeps.
LEMMA SameIdsKeep ==
  ASSUME TaskInductive, SameIds(tasks'), UNCHANGED <<next_task_id, task_queue, creating>>,
         hand' \in [Takers -> 0 .. MaxTaskIds]
  PROVE  TaskTypeOK' /\ RoomForCreating' /\ TasksSorted'
<1>1. /\ TaskTypeOK /\ RoomForCreating /\ TasksSorted
      /\ tasks' \in Seq(Task) /\ Len(tasks') = Len(tasks) /\ Rows' = Rows
      /\ \A r \in Rows : tasks'[r].task_id = tasks[r].task_id
  BY DEF TaskInductive, SameIds, Rows
<1>2. TaskTypeOK'
  BY <1>1 DEF TaskTypeOK, Task
<1>3. RoomForCreating'
  BY <1>1 DEF RoomForCreating
<1>4. TasksSorted'
  BY <1>1 DEF TasksSorted
<1> QED BY <1>2, <1>3, <1>4

\* No task is in the ring twice.
QueueInjective ==
  \A j, k \in 1 .. Len(task_queue) : task_queue[j] = task_queue[k] => j = k

\* A push of an id that is not in the ring.
LEMMA PushQueue ==
  ASSUME TaskTypeOK, QueueInjective, NEW id \in 1 .. MaxTaskIds, id \notin Queued,
         task_queue' = Append(task_queue, id)
  PROVE  /\ QueueInjective' /\ Queued' = Queued \cup {id}
         /\ task_queue' \in Seq(1 .. MaxTaskIds) /\ Len(task_queue') = Len(task_queue) + 1
<1>1. task_queue \in Seq(1 .. MaxTaskIds) /\ Len(task_queue) \in Nat
  BY LenProperties DEF TaskTypeOK
<1>2. /\ task_queue' \in Seq(1 .. MaxTaskIds) /\ Len(task_queue') = Len(task_queue) + 1
      /\ \A i \in 1 .. Len(task_queue) : task_queue'[i] = task_queue[i]
      /\ task_queue'[Len(task_queue) + 1] = id
  BY <1>1, AppendProperties
<1>3. /\ \A i \in 1 .. Len(task_queue') : i \in 1 .. Len(task_queue) \/ i = Len(task_queue) + 1
      /\ \A i \in 1 .. Len(task_queue) : i \in 1 .. Len(task_queue')
      /\ Len(task_queue) + 1 \in 1 .. Len(task_queue')
  BY <1>1, <1>2
<1>4. Queued' = Queued \cup {id}
  BY <1>2, <1>3 DEF Queued
<1>5. QueueInjective'
  BY <1>2, <1>3 DEF QueueInjective, Queued
<1> QED BY <1>2, <1>4, <1>5

\* A pop takes the head out.
LEMMA PopQueue ==
  ASSUME TaskTypeOK, QueueInjective, task_queue # <<>>, task_queue' = Tail(task_queue)
  PROVE  /\ QueueInjective' /\ Queued' = Queued \ {Head(task_queue)}
         /\ Head(task_queue) \in Queued /\ Head(task_queue) \in 1 .. MaxTaskIds
         /\ task_queue' \in Seq(1 .. MaxTaskIds) /\ Len(task_queue') <= QueueSize
<1>1. task_queue \in Seq(1 .. MaxTaskIds) /\ Len(task_queue) \in Nat /\ Len(task_queue) >= 1
  BY LenProperties, EmptySeq DEF TaskTypeOK
<1>2. /\ task_queue' \in Seq(1 .. MaxTaskIds) /\ Len(task_queue') = Len(task_queue) - 1
      /\ \A i \in 1 .. Len(task_queue') : task_queue'[i] = task_queue[i + 1]
      /\ Head(task_queue) \in 1 .. MaxTaskIds /\ Head(task_queue) = task_queue[1]
  <2>1. Head(task_queue) = task_queue[1]
    BY <1>1
  <2> QED BY <1>1, <2>1, HeadTailProperties
<1>3. /\ \A i \in 1 .. Len(task_queue') : i + 1 \in 1 .. Len(task_queue) /\ i + 1 # 1
      /\ \A i \in 1 .. Len(task_queue) : i = 1 \/ (i - 1 \in 1 .. Len(task_queue') /\ (i - 1) + 1 = i)
      /\ 1 \in 1 .. Len(task_queue)
      /\ \A i, j \in 1 .. Len(task_queue') : i + 1 = j + 1 => i = j
  BY <1>1, <1>2
<1>4. Head(task_queue) \in Queued
  BY <1>2, <1>3 DEF Queued
<1>5. ASSUME NEW x
      PROVE  x \in Queued' <=> x \in Queued /\ x # task_queue[1]
  <2>1. ASSUME x \in Queued'
        PROVE  x \in Queued /\ x # task_queue[1]
    <3>1. PICK i \in 1 .. Len(task_queue') : x = task_queue'[i]
      BY <2>1 DEF Queued
    <3>2. x = task_queue[i + 1] /\ i + 1 \in 1 .. Len(task_queue) /\ i + 1 # 1
      BY <1>2, <1>3, <3>1
    <3> QED BY <1>3, <3>2 DEF Queued, QueueInjective
  <2>2. ASSUME x \in Queued, x # task_queue[1]
        PROVE  x \in Queued'
    <3>1. PICK i \in 1 .. Len(task_queue) : x = task_queue[i]
      BY <2>2 DEF Queued
    <3>2. i - 1 \in 1 .. Len(task_queue') /\ x = task_queue'[i - 1]
      BY <1>2, <1>3, <2>2, <3>1
    <3> QED BY <3>2 DEF Queued
  <2> QED BY <2>1, <2>2
<1>6. QueueInjective'
  BY <1>2, <1>3 DEF QueueInjective
<1>7. Len(task_queue') <= QueueSize
  BY <1>1, <1>2, TaskAssumption DEF TaskTypeOK
<1> QED BY <1>2, <1>4, <1>5, <1>6, <1>7

(***************************************************************************)
(* The inductive invariant.                                                *)
(***************************************************************************)
\* The initial state.
LEMMA TaskInitInductive == TaskInit => TaskInductive
<1> SUFFICES ASSUME TaskInit PROVE TaskInductive
  OBVIOUS
<1>1. /\ Len(tasks) = 0 /\ Len(task_queue) = 0 /\ Rows = {} /\ Queued = {}
      /\ tasks \in Seq(Task) /\ task_queue \in Seq(1 .. MaxTaskIds)
  BY EmptySeq DEF TaskInit, Rows, Queued
<1>2. TaskTypeOK
  BY <1>1, TaskAssumption DEF TaskInit, TaskTypeOK, Task
<1>3. RoomForCreating /\ TasksSorted
  BY <1>1 DEF TaskInit, RoomForCreating, TasksSorted
<1>4. PendingInTransit
  BY <1>1 DEF TaskInit, PendingInTransit, InHand, PendingIds
<1> QED BY <1>2, <1>3, <1>4 DEF TaskInductive

\* create_task up to the push: the new id is in the ring only.
LEMMA CreatePushKeeps ==
  ASSUME TaskInductive, CreatePush
  PROVE  TaskInductive'
<1>1. TaskTypeOK /\ TasksSorted /\ PendingInTransit /\ QueueInjective
  BY DEF TaskInductive, PendingInTransit, QueueInjective
<1>2. /\ creating = 0 /\ next_task_id \in 1 .. MaxTaskIds /\ next_task_id' = next_task_id + 1
      /\ next_task_id' \in 1 .. MaxTaskIds + 1
      /\ UNCHANGED <<tasks, hand>> /\ Len(tasks) < TaskCapacity
  BY <1>1, TaskAssumption DEF CreatePush, TaskTypeOK
<1>3. /\ Rows' = Rows /\ PendingIds' = PendingIds /\ InHand' = InHand
  BY <1>2 DEF Rows, PendingIds, InHand
<1>4. \A r \in Rows : tasks[r].task_id < next_task_id
  BY <1>1, <1>2 DEF TasksSorted
<1>5. next_task_id \notin PendingIds /\ next_task_id \notin Queued /\ next_task_id \notin InHand
  <2>1. next_task_id \notin PendingIds
    BY <1>2, <1>4 DEF PendingIds
  <2> QED BY <1>1, <1>2, <2>1 DEF PendingInTransit
<1>6. CASE Len(task_queue) < QueueSize /\ task_queue' = Append(task_queue, next_task_id)
           /\ creating' = next_task_id
  <2>1. /\ QueueInjective' /\ Queued' = Queued \cup {next_task_id}
        /\ task_queue' \in Seq(1 .. MaxTaskIds) /\ Len(task_queue') = Len(task_queue) + 1
    BY <1>1, <1>2, <1>5, <1>6, PushQueue
  <2>2. Len(task_queue') <= QueueSize
    <3>1. Len(task_queue) \in Nat
      BY <1>1, LenProperties DEF TaskTypeOK
    <3> QED BY <1>6, <2>1, <3>1, TaskAssumption
  <2>3. TaskTypeOK' /\ RoomForCreating'
    BY <1>1, <1>2, <1>6, <2>1, <2>2 DEF TaskTypeOK, RoomForCreating
  <2>4. TasksSorted'
    BY <1>1, <1>2, <1>3, <1>4, <1>6 DEF TasksSorted
  <2>5. PendingInTransit'
    <3>1. Queued' \cap InHand' = {}
      BY <1>1, <1>3, <1>5, <2>1 DEF PendingInTransit
    <3>2. \A t, u \in Takers : hand'[t] # 0 /\ hand'[t] = hand'[u] => t = u
      BY <1>1, <1>2 DEF PendingInTransit
    <3>3. Queued' \cup InHand' = PendingIds' \cup ({creating'} \ {0})
      BY <1>1, <1>2, <1>3, <1>6, <2>1 DEF PendingInTransit
    <3> QED BY <2>1, <3>1, <3>2, <3>3 DEF PendingInTransit, QueueInjective
  <2> QED BY <2>3, <2>4, <2>5 DEF TaskInductive
<1>7. CASE UNCHANGED <<task_queue, creating>>
  <2>1. Queued' = Queued
    BY <1>7 DEF Queued
  <2>2. TaskTypeOK' /\ RoomForCreating'
    BY <1>1, <1>2, <1>7 DEF TaskTypeOK, RoomForCreating
  <2>3. TasksSorted'
    <3>1. \A r \in Rows : tasks[r].task_id \in Int
      BY <1>1, TaskTableType, TaskAssumption
    <3> QED BY <1>1, <1>2, <1>3, <1>4, <1>7, <3>1 DEF TasksSorted
  <2>4. PendingInTransit'
    BY <1>1, <1>2, <1>3, <1>7, <2>1 DEF PendingInTransit
  <2> QED BY <2>2, <2>3, <2>4 DEF TaskInductive
<1> QED BY <1>6, <1>7 DEF CreatePush

\* ... and from there on: the task enters the table as a pending one.
LEMMA CreateInsertKeeps ==
  ASSUME TaskInductive, CreateInsert
  PROVE  TaskInductive'
<1> DEFINE row == [task_id |-> creating, status |-> "PENDING", age |-> 0]
<1>1. TaskTypeOK /\ RoomForCreating /\ TasksSorted /\ PendingInTransit
  BY DEF TaskInductive
<1>2. /\ creating # 0 /\ creating \in 1 .. MaxTaskIds /\ creating' = 0
      /\ tasks' = Append(tasks, row) /\ UNCHANGED <<next_task_id, task_queue, hand>>
  BY <1>1, TaskAssumption DEF CreateInsert, TaskTypeOK
<1>3. row \in Task /\ row.task_id = creating /\ row.status = "PENDING"
  BY <1>2, TaskAssumption DEF Task, TaskStatuses
<1> HIDE DEF row
<1>4. tasks \in Seq(Task) /\ Len(tasks) \in Nat /\ \A r \in Rows : tasks[r].task_id \in Int
  BY <1>1, TaskTableType, TaskAssumption
<1>5. /\ tasks' \in Seq(Task) /\ Len(tasks') = Len(tasks) + 1
      /\ \A i \in Rows : tasks'[i] = tasks[i]
      /\ tasks'[Len(tasks) + 1] = row
  BY <1>2, <1>3, <1>4, AppendProperties DEF Rows
<1> DEFINE n == Len(tasks) + 1
<1>6. /\ Rows' = Rows \cup {n} /\ \A i \in Rows : i < n
      /\ \A i \in Rows' : ~(n < i)
  BY <1>4, <1>5 DEF Rows
<1>7. tasks'[n] = row
  BY <1>5
<1> HIDE DEF n
<1>8. TaskTypeOK' /\ RoomForCreating'
  <2>1. Len(tasks') <= TaskCapacity
    BY <1>1, <1>2, <1>4, <1>5, TaskAssumption DEF RoomForCreating
  <2> QED BY <1>1, <1>2, <1>5, <2>1, TaskAssumption DEF TaskTypeOK, RoomForCreating, Task
<1>9. TasksSorted'
  <2>1. creating < next_task_id /\ \A r \in Rows : tasks[r].task_id < creating
    BY <1>1, <1>2 DEF TasksSorted
  <2>2. next_task_id \in Nat /\ creating \in Nat
    BY <1>1, <1>2, TaskAssumption DEF TaskTypeOK
  <2>3. \A r \in Rows : tasks[r].task_id < next_task_id
    BY <1>4, <2>1, <2>2
  <2>4. ASSUME NEW r \in Rows', NEW q \in Rows', r < q
        PROVE  tasks'[r].task_id < tasks'[q].task_id
    <3>1. r \in Rows
      BY <1>6, <2>4 DEF Rows
    <3>2. CASE q \in Rows
      BY <1>1, <1>5, <2>4, <3>1, <3>2 DEF TasksSorted
    <3>3. CASE q = n
      BY <1>3, <1>5, <1>7, <2>1, <3>1, <3>3
    <3> QED BY <1>6, <3>2, <3>3
  <2>5. \A r \in Rows' : tasks'[r].task_id < next_task_id
    BY <1>3, <1>5, <1>6, <1>7, <2>1, <2>3
  <2>6. creating' < next_task_id'
    BY <1>1, <1>2, TaskAssumption DEF TaskTypeOK
  <2> QED BY <1>2, <2>4, <2>5, <2>6 DEF TasksSorted
<1>10. PendingInTransit'
  <2>1. Queued' = Queued /\ InHand' = InHand
    BY <1>2 DEF Queued, InHand
  <2>2. PendingIds' = PendingIds \cup {creating}
    BY <1>3, <1>5, <1>6, <1>7 DEF PendingIds
  <2>3. PendingIds' \cup ({creating'} \ {0}) = PendingIds \cup ({creating} \ {0})
    BY <1>2, <2>2
  <2> QED BY <1>1, <1>2, <2>1, <2>3 DEF PendingInTransit
<1> QED BY <1>8, <1>9, <1>10 DEF TaskInductive

\* A pop moves the head of the ring into one hand.
LEMMA GetNextTaskKeeps ==
  ASSUME TaskInductive, NEW t \in Takers, GetNextTask(t)
  PROVE  TaskInductive'
<1> DEFINE h == Head(task_queue)
<1>1. TaskTypeOK /\ RoomForCreating /\ TasksSorted /\ PendingInTransit /\ QueueInjective
  BY DEF TaskInductive, PendingInTransit, QueueInjective
<1>2. /\ hand[t] = 0 /\ hand \in [Takers -> 0 .. MaxTaskIds]
      /\ hand' = [hand EXCEPT ![t] = h] /\ UNCHANGED <<tasks, next_task_id, creating>>
  BY <1>1 DEF GetNextTask, TaskTypeOK
<1>3. /\ QueueInjective' /\ Queued' = Queued \ {h} /\ h \in Queued /\ h \in 1 .. MaxTaskIds
      /\ task_queue' \in Seq(1 .. MaxTaskIds) /\ Len(task_queue') <= QueueSize
  BY <1>1, PopQueue DEF GetNextTask
<1> HIDE DEF h
<1>4. h # 0 /\ h \in 0 .. MaxTaskIds /\ h \notin InHand
  BY <1>1, <1>3, TaskAssumption DEF PendingInTransit
<1>5. hand' \in [Takers -> 0 .. MaxTaskIds] /\ hand'[t] = h
      /\ \A u \in Takers : u # t => hand'[u] = hand[u]
  BY <1>2, <1>4
<1>6. InHand' = InHand \cup {h}
  BY <1>2, <1>4, <1>5 DEF InHand
<1>7. Rows' = Rows /\ PendingIds' = PendingIds
  BY <1>2 DEF Rows, PendingIds
<1>8. TaskTypeOK' /\ RoomForCreating' /\ TasksSorted'
  BY <1>1, <1>2, <1>3, <1>5, <1>7 DEF TaskTypeOK, RoomForCreating, TasksSorted
<1>9. PendingInTransit'
  <2>1. Queued' \cap InHand' = {}
    BY <1>1, <1>3, <1>6 DEF PendingInTransit
  <2>2. Queued' \cup InHand' = Queued \cup InHand
    BY <1>3, <1>6
  <2>3. ASSUME NEW u \in Takers, NEW v \in Takers, hand'[u] # 0, hand'[u] = hand'[v]
        PROVE  u = v
    BY <1>1, <1>4, <1>5, <2>3 DEF PendingInTransit, InHand
  <2> QED BY <1>1, <1>2, <1>3, <1>7, <2>1, <2>2, <2>3 DEF PendingInTransit, QueueInjective
<1> QED BY <1>8, <1>9 DEF TaskInductive

\* assign_task finds its task, which is pending no more and in no hand.
LEMMA AssignTaskKeeps ==
  ASSUME TaskInductive, NEW t \in Takers, AssignTask(t)
  PROVE  TaskInductive'
<1>1. TaskTypeOK /\ TasksSorted /\ PendingInTransit
  BY DEF TaskInductive
<1>2. PICK r \in RowOf(hand[t]) :
        tasks' = [tasks EXCEPT ![r].status = "ASSIGNED", ![r].age = 0]
  BY DEF AssignTask
<1>3. r \in Rows /\ tasks[r].task_id = hand[t]
  BY DEF RowOf
<1>4. /\ SameIds(tasks') /\ tasks'[r].status = "ASSIGNED"
      /\ \A q \in Rows : q # r => tasks'[q] = tasks[q]
  BY <1>1, <1>2, <1>3, RowKeepsIds DEF TaskStatuses
<1>5. /\ hand \in [Takers -> 0 .. MaxTaskIds] /\ hand' = [hand EXCEPT ![t] = 0]
      /\ creating = 0 /\ UNCHANGED <<next_task_id, task_queue, creating>>
  BY <1>1 DEF AssignTask, TaskTypeOK
<1>6. /\ hand' \in [Takers -> 0 .. MaxTaskIds] /\ hand'[t] = 0
      /\ \A u \in Takers : u # t => hand'[u] = hand[u]
  <2>1. 0 \in 0 .. MaxTaskIds
    BY TaskAssumption
  <2> QED BY <1>5, <2>1
<1>7. hand[t] # 0
  BY <1>1, <1>3, TaskTableType
<1>8. TaskTypeOK' /\ RoomForCreating' /\ TasksSorted'
  BY <1>4, <1>5, <1>6, SameIdsKeep
<1>9. Rows' = Rows
  BY <1>4 DEF SameIds, Rows
<1>10. PendingIds' = PendingIds \ {hand[t]}
  <2>1. ASSUME NEW q \in Rows, tasks[q].task_id = hand[t]
        PROVE  q = r
    BY <1>1, <2>1, RowOfUnique
  <2>2. \A q \in Rows : tasks'[q].status = "PENDING" <=> q # r /\ tasks[q].status = "PENDING"
    BY <1>4
  <2>3. \A q \in Rows : tasks'[q].task_id = tasks[q].task_id
    BY <1>4 DEF SameIds
  <2> QED BY <1>3, <1>9, <2>1, <2>2, <2>3 DEF PendingIds
<1>11. InHand' = InHand \ {hand[t]}
  <2>1. \A u \in Takers : hand[u] = hand[t] => u = t
    BY <1>1, <1>7 DEF PendingInTransit
  <2> QED BY <1>6, <1>7, <2>1 DEF InHand
<1>12. Queued' = Queued /\ hand[t] \notin Queued
  BY <1>1, <1>5, <1>7 DEF Queued, InHand, PendingInTransit
<1>13. PendingInTransit'
  <2>1. Queued' \cap InHand' = {}
    BY <1>1, <1>11, <1>12 DEF PendingInTransit
  <2>2. Queued' \cup InHand' = PendingIds' \cup ({creating'} \ {0})
    BY <1>1, <1>5, <1>10, <1>11, <1>12 DEF PendingInTransit
  <2>3. \A u, v \in Takers : hand'[u] # 0 /\ hand'[u] = hand'[v] => u = v
    BY <1>1, <1>6 DEF PendingInTransit
  <2> QED BY <1>1, <1>5, <2>1, <2>2, <2>3 DEF PendingInTransit
<1> QED BY <1>8, <1>13 DEF TaskInductive

\* A step that changes no id, no hand and no pending task.
LEMMA NothingMoves ==
  ASSUME TaskInductive, SameIds(tasks'),
         UNCHANGED <<next_task_id, task_queue, creating, hand>>,
         \A r \in Rows : tasks'[r].status = "PENDING" <=> tasks[r].status = "PENDING"
  PROVE  TaskInductive'
<1>1. TaskTypeOK /\ PendingInTransit
  BY DEF TaskInductive
<1>2. hand' \in [Takers -> 0 .. MaxTaskIds]
  BY <1>1 DEF TaskTypeOK
<1>3. TaskTypeOK' /\ RoomForCreating' /\ TasksSorted'
  BY <1>2, SameIdsKeep
<1>4. Rows' = Rows /\ \A r \in Rows : tasks'[r].task_id = tasks[r].task_id
  BY DEF SameIds, Rows
<1>5. PendingIds' = PendingIds /\ Queued' = Queued /\ InHand' = InHand
  BY <1>4 DEF PendingIds, Queued, InHand
<1>6. PendingInTransit'
  BY <1>1, <1>5 DEF PendingInTransit
<1> QED BY <1>3, <1>6 DEF TaskInductive

\* A result for a task that was assigned.
LEMMA ProcessResultKeeps ==
  ASSUME TaskInductive, NEW q \in Rows, NEW st \in {"COMPLETED", "FAILED"},
         tasks[q].status # "PENDING", ProcessResult(tasks[q].task_id, st)
  PROVE  TaskInductive'
<1>1. TaskTypeOK /\ TasksSorted
  BY DEF TaskInductive
<1>2. PICK r \in RowOf(tasks[q].task_id) :
        tasks' = [tasks EXCEPT ![r].status = st, ![r].age = 0]
  BY DEF ProcessResult
<1>3. r \in Rows /\ q = r
  BY <1>1, RowOfUnique
<1>4. /\ SameIds(tasks') /\ tasks'[r].status = st
      /\ \A p \in Rows : p # r => tasks'[p] = tasks[p]
  BY <1>1, <1>2, <1>3, RowKeepsIds DEF TaskStatuses
<1> QED BY <1>3, <1>4, NothingMoves DEF ProcessResult

\* A pass of the timeout checker and a tick of the clock.
LEMMA PassKeeps ==
  ASSUME TaskInductive, CheckTaskTimeouts \/ TaskTick
  PROVE  TaskInductive'
<1>1. TaskTypeOK /\ Len(tasks) \in Nat /\ \A r \in Rows : tasks[r] \in Task
  BY TaskTableType DEF TaskInductive
<1>2. CASE CheckTaskTimeouts
  <2> DEFINE f(r) == IF tasks[r].status = "ASSIGNED" /\ tasks[r].age > TaskTimeout
                       THEN [tasks[r] EXCEPT !.status = "TIMEOUT", !.age = 0]
                       ELSE tasks[r]
  <2>1. ASSUME NEW r \in Rows
        PROVE  /\ f(r) \in Task /\ f(r).task_id = tasks[r].task_id
               /\ f(r).status = "PENDING" <=> tasks[r].status = "PENDING"
    <3> DEFINE m == [tasks[r] EXCEPT !.status = "TIMEOUT"]
               n == [m EXCEPT !.age = 0]
    <3>1. m \in Task /\ m.task_id = tasks[r].task_id /\ m.status = "TIMEOUT"
      BY <1>1 DEF Task, TaskStatuses
    <3> HIDE DEF m
    <3>2. 0 \in 0 .. TaskTimeout + 1
      BY TaskAssumption
    <3>3. n \in Task /\ n.task_id = tasks[r].task_id /\ n.status = "TIMEOUT"
      BY <3>1, <3>2 DEF Task
    <3>4. [tasks[r] EXCEPT !.status = "TIMEOUT", !.age = 0] = n
      BY DEF m
    <3> HIDE DEF n
    <3> QED BY <1>1, <3>3, <3>4
  <2>2. tasks' = [r \in Rows |-> f(r)]
    BY <1>2 DEF CheckTaskTimeouts
  <2> HIDE DEF f
  <2>3. SameIds(tasks') /\ \A r \in Rows : tasks'[r] = f(r)
    BY <1>1, <2>1, <2>2, PassKeepsIds
  <2> QED BY <1>2, <2>1, <2>3, NothingMoves DEF CheckTaskTimeouts
<1>3. CASE TaskTick
  <2> DEFINE f(r) == IF tasks[r].status = "ASSIGNED" /\ tasks[r].age <= TaskTimeout
                       THEN [tasks[r] EXCEPT !.age = @ + 1]
                       ELSE tasks[r]
  <2>1. ASSUME NEW r \in Rows
        PROVE  /\ f(r) \in Task /\ f(r).task_id = tasks[r].task_id
               /\ f(r).status = "PENDING" <=> tasks[r].status = "PENDING"
    <3>1. /\ tasks[r].age \in 0 .. TaskTimeout + 1
          /\ tasks[r].age <= TaskTimeout => tasks[r].age + 1 \in 0 .. TaskTimeout + 1
      BY <1>1, TaskAssumption DEF Task
    <3> QED BY <1>1, <3>1 DEF Task
  <2>2. tasks' = [r \in Rows |-> f(r)]
    BY <1>3 DEF TaskTick
  <2> HIDE DEF f
  <2>3. SameIds(tasks') /\ \A r \in Rows : tasks'[r] = f(r)
    BY <1>1, <2>1, <2>2, PassKeepsIds
  <2> QED BY <1>3, <2>1, <2>3, NothingMoves DEF TaskTick
<1> QED BY <1>2, <1>3

\* Every step keeps the inductive invariant.
LEMMA TaskStep == TaskInductive /\ [TaskNext]_taskVars => TaskInductive'
<1> SUFFICES ASSUME TaskInductive, [TaskNext]_taskVars PROVE TaskInductive'
  OBVIOUS
<1>1. CASE CreatePush
  BY <1>1, CreatePushKeeps
<1>2. CASE CreateInsert
  BY <1>2, CreateInsertKeeps
<1>3. CASE CheckTaskTimeouts \/ TaskTick
  BY <1>3, PassKeeps
<1>4. CASE \E t \in Takers : GetNextTask(t) \/ AssignTask(t)
  BY <1>4, GetNextTaskKeeps, AssignTaskKeeps
<1>5. CASE \E r \in Rows, status \in {"COMPLETED", "FAILED"} :
             tasks[r].status # "PENDING" /\ ProcessResult(tasks[r].task_id, status)
  BY <1>5, ProcessResultKeeps
<1>6. CASE UNCHANGED taskVars
  <2>1. UNCHANGED <<tasks, next_task_id, task_queue, creating, hand>>
    BY <1>6 DEF taskVars
  <2>2. TaskTypeOK /\ RoomForCreating /\ TasksSorted /\ PendingInTransit
    BY DEF TaskInductive
  <2>3. TaskTypeOK' /\ RoomForCreating' /\ TasksSorted'
    BY <2>1, <2>2 DEF TaskTypeOK, RoomForCreating, TasksSorted, Rows
  <2>4. PendingInTransit'
    <3>1. Queued' = Queued /\ InHand' = InHand /\ PendingIds' = PendingIds
      BY <2>1 DEF Rows, Queued, InHand, PendingIds
    <3> QED BY <2>1, <2>2, <3>1 DEF PendingInTransit
  <2> QED BY <2>3, <2>4 DEF TaskInductive
<1> QED BY <1>1, <1>2, <1>3, <1>4, <1>5, <1>6 DEF TaskNext

(***************************************************************************)
(* The theorems.                                                           *)
(***************************************************************************)
\* The inductive invariant holds in every behaviour.
THEOREM TaskInvariant == TaskSpec => []TaskInductive
BY TaskInitInductive, TaskStep, PTL DEF TaskSpec

\* The table is sorted by strictly increasing id, whatever ids were lost to a
\* full ring.
THEOREM TableSorted == TaskSpec => []TasksSorted
<1>1. TaskInductive => TasksSorted
  BY DEF TaskInductive
<1> QED BY <1>1, TaskInvariant, PTL

\* Between creation and assignment a task is in the ring or in one taker's hand,
\* and nowhere else.
THEOREM PendingTasksInTransit == TaskSpec => []PendingInTransit
<1>1. TaskInductive => PendingInTransit
  BY DEF TaskInductive
<1> QED BY <1>1, TaskInvariant, PTL

(***************************************************************************)
(* The task table.                                                         *)
(***************************************************************************)
\* Every step of the central server is a step of the task manager or leaves its
\* variables alone.
LEMMA StepUsesTaskManager == [Next]_vars => [TaskNext]_taskVars
<1> SUFFICES ASSUME [Next]_vars PROVE [TaskNext]_taskVars
  OBVIOUS
<1>1. CASE CreateSampleTask
  BY <1>1 DEF CreateSampleTask, TaskNext
<1>2. CASE CheckTasks \/ Clock
  BY <1>2 DEF CheckTasks, Clock, TaskNext
<1>3. ASSUME NEW t \in Takers, PopTask(t) \/ MarkAssigned(t)
      PROVE  [TaskNext]_taskVars
  BY <1>3 DEF PopTask, MarkAssigned, TaskNext
<1>4. CASE Accept \/ RejectConnection \/ CheckWorkers \/ UNCHANGED vars
  BY <1>4 DEF Accept, RejectConnection, CheckWorkers, vars
<1>5. ASSUME NEW t \in Takers, StartHandler(t) \/ ClientEnds(t)
      PROVE  [TaskNext]_taskVars
  BY <1>5 DEF StartHandler, ClientEnds
<1>6. ASSUME NEW t \in Takers,
             \/ RegisterWorker(t) \/ ReplyRegistered(t) \/ UndoRegistration(t)
             \/ CloseConnection(t) \/ RecvHeartbeat(t) \/ RecvResult(t) \/ RecvFails(t)
             \/ RemoveWorker(t) \/ GetWorker(t) \/ TestIdle(t) \/ MarkBusy(t)
             \/ SendTask(t) \/ MarkIdle(t)
      PROVE  [TaskNext]_taskVars
  BY <1>6 DEF RegisterWorker, ReplyRegistered, UndoRegistration, CloseConnection,
     RecvHeartbeat, RecvResult, RecvFails, RemoveWorker, GetWorker, TestIdle, MarkBusy,
     SendTask, MarkIdle
<1> QED BY <1>1, <1>2, <1>3, <1>4, <1>5, <1>6 DEF Next, WorkerHandler

\* The central server implements the task manager: what is shown of TaskSpec
\* holds in it.
THEOREM UsesTaskManager == Spec => TaskSpec
<1>1. Init => TaskInit
  BY DEF Init
<1> QED BY <1>1, StepUsesTaskManager, PTL DEF Spec, TaskSpec

(***************************************************************************)
(* What the operations of the registry do to the array.                    *)
(***************************************************************************)
Entry == [worker_id : 0 .. RegistryCapacity, sockfd : Fds \cup {NoFd},
          status : RegistryStatuses, silent : 0 .. WorkerTimeout + 1]

\* Status and age may change, ids and descriptors do not.
SameWorkers ==
  /\ RegistryTypeOK' /\ count' = count
  /\ \A i \in Entries : /\ workers'[i].worker_id = workers[i].worker_id
                         /\ workers'[i].sockfd = workers[i].sockfd

\* The entry behind the last one is filled.
Added(id, fd) ==
  /\ RegistryTypeOK' /\ count < RegistryCapacity /\ count' = count + 1 /\ id = count + 1
  /\ workers'[id].worker_id = id /\ workers'[id].sockfd = fd
  /\ \A i \in Entries : i # id => workers'[i] = workers[i]

\* Entry e is taken out and those behind it move down.
Shifted(e) ==
  /\ RegistryTypeOK' /\ e \in 1 .. count /\ count' = count - 1
  /\ \A i \in Entries : workers'[i] = IF e <= i /\ i < count THEN workers[i + 1]
                                                              ELSE workers[i]

\* The array in the terms of this module.
LEMMA RegistryType ==
  ASSUME RegistryTypeOK
  PROVE  /\ workers \in [Entries -> Entry] /\ count \in Nat /\ RegistryCapacity \in Nat
         /\ \A i \in Entries : /\ workers[i] \in Entry /\ i \in Nat
                                /\ workers[i].worker_id \in 0 .. RegistryCapacity
         /\ count <= RegistryCapacity
         /\ \A i \in 1 .. count : i \in Entries
<1>1. RegistryCapacity \in Nat /\ count \in Nat /\ count <= RegistryCapacity
  BY RegistryAssumption DEF RegistryTypeOK
<1>2. workers \in [Entries -> Entry]
  BY DEF RegistryTypeOK, Entry
<1>3. \A i \in Entries : workers[i] \in Entry /\ workers[i].worker_id \in 0 .. RegistryCapacity
  BY <1>2 DEF Entry
<1> QED BY <1>1, <1>2, <1>3 DEF Entries

\* Entries for the type invariant of the next state.
LEMMA RegistryTypeNext ==
  ASSUME workers' \in [Entries -> Entry], count' \in 0 .. RegistryCapacity
  PROVE  RegistryTypeOK'
BY DEF RegistryTypeOK, Entry, Entries

\* worker_registry_add
LEMMA AddFacts ==
  ASSUME RegistryTypeOK, NEW fd \in Fds, RegistryAdd(fd)
  PROVE  Added(count + 1, fd)
<1> DEFINE new == [worker_id |-> count + 1, sockfd |-> fd, status |-> "IDLE", silent |-> 0]
<1>1. /\ workers \in [Entries -> Entry] /\ count \in Nat /\ RegistryCapacity \in Nat
      /\ WorkerTimeout \in Nat
  BY RegistryType, RegistryAssumption
<1>2. /\ count < RegistryCapacity /\ count' = count + 1
      /\ workers' = [workers EXCEPT ![count + 1] = new]
  BY DEF RegistryAdd
<1>3. count + 1 \in Entries /\ count + 1 \in 0 .. RegistryCapacity
  BY <1>1, <1>2 DEF Entries
<1>4. new \in Entry /\ new.worker_id = count + 1 /\ new.sockfd = fd
  BY <1>1, <1>3 DEF Entry, RegistryStatuses
<1> HIDE DEF new
<1>5. /\ workers' \in [Entries -> Entry] /\ workers'[count + 1] = new
      /\ \A i \in Entries : i # count + 1 => workers'[i] = workers[i]
  BY <1>1, <1>2, <1>3, <1>4
<1>6. RegistryTypeOK'
  BY <1>2, <1>3, <1>5, RegistryTypeNext
<1> QED BY <1>2, <1>4, <1>5, <1>6 DEF Added

\* worker_registry_remove
LEMMA RemoveFacts ==
  ASSUME RegistryTypeOK, NEW id, RegistryRemove(id)
  PROVE  \E e \in 1 .. count : /\ e \in EntryOf(id) /\ workers[e].worker_id = id
                               /\ Shifted(e)
<1>1. PICK e \in EntryOf(id) :
        workers' = [j \in Entries |-> IF e <= j /\ j < count THEN workers[j + 1]
                                                             ELSE workers[j]]
  BY DEF RegistryRemove
<1>2. e \in 1 .. count /\ workers[e].worker_id = id
  BY DEF EntryOf
<1>3. count' = count - 1
  BY DEF RegistryRemove
<1>4. /\ workers \in [Entries -> Entry] /\ count \in Nat /\ RegistryCapacity \in Nat
      /\ count <= RegistryCapacity
  BY RegistryType
<1>5. \A j \in Entries : e <= j /\ j < count => j + 1 \in Entries
  BY <1>4 DEF Entries
<1>6. workers' \in [Entries -> Entry]
  BY <1>1, <1>4, <1>5
<1>7. count' \in 0 .. RegistryCapacity
  BY <1>2, <1>3, <1>4
<1>8. RegistryTypeOK'
  BY <1>6, <1>7, RegistryTypeNext
<1>9. Shifted(e)
  BY <1>1, <1>2, <1>3, <1>8 DEF Shifted
<1> QED BY <1>2, <1>9

\* worker_registry_update_status and worker_registry_update_heartbeat
LEMMA UpdateFacts ==
  ASSUME RegistryTypeOK, NEW id,
         SetHeartbeat(id) \/ \E st \in RegistryStatuses : SetStatus(id, st)
  PROVE  SameWorkers
<1>1. /\ workers \in [Entries -> Entry] /\ count \in 0 .. RegistryCapacity
      /\ \A i \in Entries : workers[i] \in Entry
      /\ \A i \in 1 .. count : i \in Entries
  BY RegistryType DEF RegistryTypeOK
<1>2. ASSUME NEW i \in EntryOf(id), NEW new \in Entry,
             workers' = [workers EXCEPT ![i] = new], count' = count,
             new.worker_id = workers[i].worker_id, new.sockfd = workers[i].sockfd
      PROVE  SameWorkers
  <2>1. i \in Entries
    BY <1>1 DEF EntryOf
  <2>2. workers' \in [Entries -> Entry] /\ workers'[i] = new
        /\ \A j \in Entries : j # i => workers'[j] = workers[j]
    BY <1>1, <1>2, <2>1
  <2>3. RegistryTypeOK'
    BY <1>1, <1>2, <2>2, RegistryTypeNext
  <2> QED BY <1>2, <2>2, <2>3 DEF SameWorkers
<1>3. ASSUME NEW st \in RegistryStatuses, SetStatus(id, st)
      PROVE  SameWorkers
  <2>1. PICK i \in EntryOf(id) : workers' = [workers EXCEPT ![i].status = st]
    BY <1>3 DEF SetStatus
  <2>2. i \in Entries /\ workers[i] \in Entry
    BY <1>1 DEF EntryOf
  <2> DEFINE new == [workers[i] EXCEPT !.status = st]
  <2>3. /\ new \in Entry /\ new.worker_id = workers[i].worker_id
        /\ new.sockfd = workers[i].sockfd
    BY <2>2 DEF Entry
  <2>4. workers' = [workers EXCEPT ![i] = new] /\ count' = count
    BY <1>3, <2>1 DEF SetStatus
  <2> HIDE DEF new
  <2> QED BY <1>2, <2>3, <2>4
<1>4. ASSUME SetHeartbeat(id)
      PROVE  SameWorkers
  <2>1. PICK i \in EntryOf(id) : workers' = [workers EXCEPT ![i].silent = 0]
    BY <1>4 DEF SetHeartbeat
  <2>2. i \in Entries /\ workers[i] \in Entry /\ 0 \in 0 .. WorkerTimeout + 1
    BY <1>1, RegistryAssumption DEF EntryOf
  <2> DEFINE new == [workers[i] EXCEPT !.silent = 0]
  <2>3. /\ new \in Entry /\ new.worker_id = workers[i].worker_id
        /\ new.sockfd = workers[i].sockfd
    BY <2>2 DEF Entry
  <2>4. workers' = [workers EXCEPT ![i] = new] /\ count' = count
    BY <1>4, <2>1 DEF SetHeartbeat
  <2> HIDE DEF new
  <2> QED BY <1>2, <2>3, <2>4
<1> QED BY <1>3, <1>4

\* worker_registry_check_timeouts and the clock
LEMMA WorkersPassFacts ==
  ASSUME RegistryTypeOK, CheckWorkerTimeouts \/ RegistryTick
  PROVE  SameWorkers
<1>1. /\ count \in 0 .. RegistryCapacity /\ \A i \in Entries : workers[i] \in Entry
  BY RegistryType DEF RegistryTypeOK
<1>2. ASSUME NEW f, workers' = f, f \in [Entries -> Entry], count' = count,
             \A i \in Entries : /\ f[i].worker_id = workers[i].worker_id
                                /\ f[i].sockfd = workers[i].sockfd
      PROVE  SameWorkers
  BY <1>1, <1>2, RegistryTypeNext DEF SameWorkers
<1>3. CASE CheckWorkerTimeouts
  <2> DEFINE f(i) == IF i <= count /\ workers[i].silent > WorkerTimeout
                       THEN [workers[i] EXCEPT !.status = "DISCONNECTED"]
                       ELSE workers[i]
  <2>1. \A i \in Entries : /\ f(i) \in Entry /\ f(i).worker_id = workers[i].worker_id
                           /\ f(i).sockfd = workers[i].sockfd
    BY <1>1 DEF Entry, RegistryStatuses
  <2>2. workers' = [i \in Entries |-> f(i)] /\ count' = count
    BY <1>3 DEF CheckWorkerTimeouts
  <2> HIDE DEF f
  <2> QED BY <1>2, <2>1, <2>2
<1>4. CASE RegistryTick
  <2> DEFINE f(i) == IF i <= count /\ workers[i].silent <= WorkerTimeout
                       THEN [workers[i] EXCEPT !.silent = @ + 1]
                       ELSE workers[i]
  <2>1. ASSUME NEW i \in Entries
        PROVE  /\ f(i) \in Entry /\ f(i).worker_id = workers[i].worker_id
               /\ f(i).sockfd = workers[i].sockfd
    <3>1. workers[i].silent <= WorkerTimeout => workers[i].silent + 1 \in 0 .. WorkerTimeout + 1
      BY <1>1, RegistryAssumption DEF Entry
    <3> QED BY <1>1, <3>1 DEF Entry
  <2>2. workers' = [i \in Entries |-> f(i)] /\ count' = count
    BY <1>4 DEF RegistryTick
  <2> HIDE DEF f
  <2> QED BY <1>2, <2>1, <2>2
<1> QED BY <1>3, <1>4

(***************************************************************************)
(* The handler threads.                                                    *)
(***************************************************************************)
\* The places between registration and removal, and those between the look-up
\* of the worker and the last use of the pointer.
WithId == {"reply", "undo", "recv", "get", "test", "pop", "assign", "busy", "send",
           "idle", "remove"}
WithPointer == {"test", "pop", "assign", "busy", "send"}

\* The part of the type invariant about connections and threads.
ThreadsTypeOK ==
  /\ open \subseteq Fds /\ main \in Fds \cup {NoFd}
  /\ pc \in [Takers -> Pcs]
  /\ sock \in [Takers -> Fds \cup {NoFd}]
  /\ wid \in [Takers -> 0 .. RegistryCapacity]
  /\ ptr \in [Takers -> 0 .. RegistryCapacity]
  /\ task \in [Takers -> 0 .. MaxTaskIds]
  /\ sent \subseteq [task : 1 .. MaxTaskIds, by : Fds, on : Fds]
  /\ removed \in BOOLEAN

\* What a thread has at its place: a connection, an id, a pointer, a task it has
\* popped or one it has marked.
ThreadPlaces ==
  \A t \in Takers :
    /\ pc[t] # "none" => sock[t] \in Fds
    /\ wid[t] # 0 <=> pc[t] \in WithId
    /\ ptr[t] # 0 <=> pc[t] \in WithPointer
    /\ hand[t] # 0 <=> pc[t] = "assign"
    /\ task[t] # 0 <=> pc[t] \in {"busy", "send"}

\* The parts of the type invariant.
LEMMA CentralTypeParts == CentralTypeOK <=> TaskTypeOK /\ RegistryTypeOK /\ ThreadsTypeOK
BY Zenon DEF CentralTypeOK, ThreadsTypeOK

\* The threads of the next state are as their type and their places say.
ThreadsGood == ThreadsTypeOK /\ ThreadPlaces

\* The steps of main and of a thread that is not a worker's.
LEMMA ConnectionSteps ==
  ASSUME CentralTypeOK, ThreadPlaces,
         \/ Accept \/ RejectConnection \/ CheckWorkers \/ CheckTasks \/ Clock
         \/ CreateSampleTask \/ UNCHANGED vars
         \/ \E t \in Takers : StartHandler(t) \/ ClientEnds(t) \/ CloseConnection(t)
  PROVE  ThreadsGood'
<1> USE DEF threadVars, historyVars, taskVars, registryVars, ThreadsGood, ThreadsTypeOK,
            ThreadPlaces
<1>1. ThreadsTypeOK /\ RegistryCapacity \in Nat /\ MaxTaskIds \in Nat
  BY CentralTypeParts, RegistryAssumption, TaskAssumption
<1>2. CASE Accept \/ RejectConnection
  BY <1>1, <1>2 DEF Accept, RejectConnection
<1>3. CASE CheckWorkers \/ CheckTasks \/ Clock \/ CreateSampleTask \/ UNCHANGED vars
  <2>1. UNCHANGED <<open, main, pc, sock, wid, ptr, task, sent, removed, hand>>
    BY <1>3 DEF CheckWorkers, CheckTasks, CheckTaskTimeouts, Clock, TaskTick,
                CreateSampleTask, CreatePush, CreateInsert, vars
  <2> QED BY <1>1, <2>1
<1>4. ASSUME NEW t \in Takers, StartHandler(t)
      PROVE  ThreadsGood'
  <2>1. /\ pc[t] = "none" /\ pc' \in {[pc EXCEPT ![t] = "register"], [pc EXCEPT ![t] = "client"]}
        /\ main \in Fds /\ sock' = [sock EXCEPT ![t] = main] /\ main' = NoFd
        /\ UNCHANGED <<open, wid, ptr, task, sent, removed, hand>>
    BY <1>1, <1>4 DEF StartHandler, Goto
  <2> QED BY <1>1, <2>1 DEF Pcs, WithId, WithPointer
<1>5. ASSUME NEW t \in Takers, ClientEnds(t) \/ CloseConnection(t)
      PROVE  ThreadsGood'
  <2>1. /\ pc[t] \in {"client", "close"} /\ pc' = [pc EXCEPT ![t] = "none"]
        /\ sock' = [sock EXCEPT ![t] = NoFd] /\ wid' = [wid EXCEPT ![t] = 0]
        /\ ptr' = [ptr EXCEPT ![t] = 0] /\ open' = open \ {sock[t]}
        /\ UNCHANGED <<main, task, sent, removed, hand>>
    BY <1>5 DEF ClientEnds, CloseConnection, Exit, Goto
  <2> QED BY <1>1, <2>1 DEF Pcs, WithId, WithPointer
<1> QED BY <1>2, <1>3, <1>4, <1>5

\* The steps of a worker's handler around the exchange of messages.
LEMMA HandlerSteps ==
  ASSUME CentralTypeOK, ThreadPlaces, NEW t \in Takers,
         \/ RegisterWorker(t) \/ ReplyRegistered(t) \/ UndoRegistration(t)
         \/ RecvHeartbeat(t) \/ RecvResult(t) \/ RecvFails(t) \/ RemoveWorker(t)
  PROVE  ThreadsGood'
<1> USE DEF threadVars, historyVars, taskVars, registryVars, ThreadsGood, ThreadsTypeOK,
            ThreadPlaces
<1>1. /\ ThreadsTypeOK /\ RegistryCapacity \in Nat /\ MaxTaskIds \in Nat /\ RegistryTypeOK
      /\ count \in Nat
  BY CentralTypeParts, RegistryAssumption, TaskAssumption, RegistryType
<1>2. CASE RegisterWorker(t)
  <2>1. /\ pc[t] = "register" /\ pc' \in {[pc EXCEPT ![t] = "close"], [pc EXCEPT ![t] = "reply"]}
        /\ UNCHANGED <<open, main, task, sock, ptr, sent, removed, hand>>
    BY <1>2 DEF RegisterWorker, Goto
  <2>2. CASE pc' = [pc EXCEPT ![t] = "close"] /\ wid' = wid
    BY <1>1, <2>1, <2>2 DEF Pcs, WithId, WithPointer
  <2>3. CASE pc' = [pc EXCEPT ![t] = "reply"] /\ RegistryAdd(sock[t])
             /\ wid' = [wid EXCEPT ![t] = count + 1]
    <3>1. count + 1 \in 0 .. RegistryCapacity /\ count + 1 # 0
      BY <1>1, <2>3 DEF RegistryAdd
    <3> QED BY <1>1, <2>1, <2>3, <3>1 DEF Pcs, WithId, WithPointer
  <2> QED BY <1>2, <2>2, <2>3 DEF RegisterWorker, Goto
<1>3. CASE ReplyRegistered(t) \/ RecvHeartbeat(t) \/ RecvResult(t) \/ RecvFails(t)
  <2>1. /\ pc[t] \in {"reply", "recv"}
        /\ \E to \in {"recv", "undo", "get", "remove"} : pc' = [pc EXCEPT ![t] = to]
        /\ UNCHANGED <<open, main, task, sock, wid, ptr, sent, removed, hand>>
    BY <1>3 DEF ReplyRegistered, RecvHeartbeat, RecvResult, RecvFails, Goto
  <2> QED BY <1>1, <2>1 DEF Pcs, WithId, WithPointer
<1>4. CASE UndoRegistration(t)
  <2>1. /\ pc[t] = "undo" /\ pc' = [pc EXCEPT ![t] = "close"] /\ open' \subseteq open
        /\ wid' = [wid EXCEPT ![t] = 0] /\ removed' = TRUE
        /\ UNCHANGED <<main, task, sock, ptr, sent, hand>>
    BY <1>4 DEF UndoRegistration, Goto
  <2> QED BY <1>1, <2>1 DEF Pcs, WithId, WithPointer
<1>5. CASE RemoveWorker(t)
  <2>1. /\ pc[t] = "remove" /\ pc' = [pc EXCEPT ![t] = "none"] /\ open' \subseteq open
        /\ sock' = [sock EXCEPT ![t] = NoFd] /\ wid' = [wid EXCEPT ![t] = 0]
        /\ ptr' = [ptr EXCEPT ![t] = 0] /\ removed' = TRUE
        /\ UNCHANGED <<main, task, sent, hand>>
    BY <1>5 DEF RemoveWorker, Exit, Goto
  <2> QED BY <1>1, <2>1 DEF Pcs, WithId, WithPointer
<1> QED BY <1>2, <1>3, <1>4, <1>5

\* The steps of assign_task_to_worker.
LEMMA AssignSteps ==
  ASSUME CentralTypeOK, ThreadPlaces, NEW t \in Takers,
         \/ GetWorker(t) \/ TestIdle(t) \/ PopTask(t) \/ MarkAssigned(t) \/ MarkBusy(t)
         \/ SendTask(t) \/ MarkIdle(t)
  PROVE  ThreadsGood'
<1> USE DEF threadVars, historyVars, taskVars, registryVars, ThreadsGood, ThreadsTypeOK,
            ThreadPlaces
<1>1. /\ ThreadsTypeOK /\ RegistryCapacity \in Nat /\ MaxTaskIds \in Nat
      /\ count \in Nat /\ count <= RegistryCapacity
      /\ hand \in [Takers -> 0 .. MaxTaskIds] /\ TaskTypeOK
  BY CentralTypeParts, RegistryAssumption, TaskAssumption, RegistryType DEF TaskTypeOK
<1>2. CASE GetWorker(t)
  <2>1. PICK i \in 1 .. count : ptr' = [ptr EXCEPT ![t] = i]
    BY <1>2 DEF GetWorker, EntryOf
  <2>2. /\ pc[t] = "get" /\ pc' = [pc EXCEPT ![t] = "test"]
        /\ UNCHANGED <<open, main, task, sock, wid, sent, removed, hand>>
    BY <1>2 DEF GetWorker, Goto
  <2>3. i \in 0 .. RegistryCapacity /\ i # 0
    BY <1>1
  <2> QED BY <1>1, <2>1, <2>2, <2>3 DEF Pcs, WithId, WithPointer
<1>3. CASE TestIdle(t)
  <2>1. /\ pc[t] = "test" /\ UNCHANGED <<open, main, task, sock, wid, sent, removed, hand>>
        /\ \/ pc' = [pc EXCEPT ![t] = "pop"] /\ ptr' = ptr
           \/ pc' = [pc EXCEPT ![t] = "recv"] /\ ptr' = [ptr EXCEPT ![t] = 0]
    BY <1>3 DEF TestIdle, Goto
  <2> QED BY <1>1, <2>1 DEF Pcs, WithId, WithPointer
<1>4. CASE PopTask(t)
  <2>1. pc[t] = "pop" /\ UNCHANGED <<open, main, task, sock, wid, sent, removed>>
    BY <1>4 DEF PopTask, Goto
  <2>2. CASE GetNextTask(t) /\ pc' = [pc EXCEPT ![t] = "assign"] /\ ptr' = ptr
    <3>1. task_queue # <<>> /\ hand' = [hand EXCEPT ![t] = Head(task_queue)]
      BY <2>2 DEF GetNextTask
    <3>2. Head(task_queue) \in 1 .. MaxTaskIds
      BY <1>1, <3>1, HeadTailProperties DEF TaskTypeOK
    <3>3. Head(task_queue) # 0
      BY <1>1, <3>2
    <3> QED BY <1>1, <2>1, <2>2, <3>1, <3>3 DEF Pcs, WithId, WithPointer
  <2>3. CASE pc' = [pc EXCEPT ![t] = "recv"] /\ ptr' = [ptr EXCEPT ![t] = 0] /\ hand' = hand
    BY <1>1, <2>1, <2>3 DEF Pcs, WithId, WithPointer
  <2> QED BY <1>4, <2>2, <2>3 DEF PopTask, Goto
<1>5. CASE MarkAssigned(t)
  <2>1. /\ pc[t] = "assign" /\ pc' = [pc EXCEPT ![t] = "busy"]
        /\ task' = [task EXCEPT ![t] = hand[t]] /\ hand' = [hand EXCEPT ![t] = 0]
        /\ UNCHANGED <<open, main, sock, wid, ptr, sent, removed>>
    BY <1>5 DEF MarkAssigned, AssignTask, Goto
  <2> QED BY <1>1, <2>1 DEF Pcs, WithId, WithPointer
<1>6. CASE MarkBusy(t) \/ MarkIdle(t)
  <2>1. /\ \/ pc[t] = "busy" /\ pc' = [pc EXCEPT ![t] = "send"]
           \/ pc[t] = "idle" /\ pc' = [pc EXCEPT ![t] = "recv"]
        /\ UNCHANGED <<open, main, task, sock, wid, ptr, sent, removed, hand>>
    BY <1>6 DEF MarkBusy, MarkIdle, Goto
  <2> QED BY <1>1, <2>1 DEF Pcs, WithId, WithPointer
<1>7. CASE SendTask(t)
  <2>1. /\ pc[t] = "send" /\ pc' \in {[pc EXCEPT ![t] = "recv"], [pc EXCEPT ![t] = "idle"]}
        /\ task' = [task EXCEPT ![t] = 0] /\ ptr' = [ptr EXCEPT ![t] = 0]
        /\ UNCHANGED <<open, main, sock, wid, removed, hand>>
        /\ \/ sent' = sent
           \/ /\ workers[ptr[t]].sockfd \in open
              /\ sent' = sent \cup {[task |-> task[t], by |-> sock[t],
                                    on |-> workers[ptr[t]].sockfd]}
    BY <1>7 DEF SendTask, Goto
  <2>2. task[t] \in 1 .. MaxTaskIds /\ sock[t] \in Fds
    BY <1>1, <2>1
  <2>3. sent' \subseteq [task : 1 .. MaxTaskIds, by : Fds, on : Fds]
    BY <1>1, <2>1, <2>2
  <2> QED BY <1>1, <2>1, <2>3 DEF Pcs, WithId, WithPointer
<1> QED BY <1>2, <1>3, <1>4, <1>5, <1>6, <1>7

\* The three together: threads stay at their places.
LEMMA ThreadsKept ==
  ASSUME CentralTypeOK, ThreadPlaces, [Next]_vars
  PROVE  ThreadsGood'
BY ConnectionSteps, HandlerSteps, AssignSteps DEF Next, WorkerHandler

(***************************************************************************)
(* Which steps change the registry, the pointers and the history.          *)
(***************************************************************************)
\* A handler enters its worker.
Enters(t) ==
  /\ wid[t] = 0 /\ wid' = [wid EXCEPT ![t] = count + 1] /\ Added(count + 1, sock[t])
  /\ sock[t] \in Fds /\ UNCHANGED <<removed, sock, ptr, sent>>

\* A handler removes the first entry with its id.
Removes(t, e) ==
  /\ wid[t] # 0 /\ wid' = [wid EXCEPT ![t] = 0] /\ workers[e].worker_id = wid[t]
  /\ Shifted(e) /\ removed' = TRUE

\* Entries come and go with the ids of handlers.
LEMMA RegistrySteps ==
  ASSUME CentralTypeOK, ThreadPlaces, [Next]_vars
  PROVE  \/ SameWorkers /\ wid' = wid /\ removed' = removed
         \/ \E t \in Takers : Enters(t)
         \/ \E t \in Takers, e \in 1 .. count : Removes(t, e)
<1> USE DEF threadVars, historyVars, registryVars
<1>1. RegistryTypeOK /\ ThreadsTypeOK
  BY CentralTypeParts
<1>2. ASSUME UNCHANGED <<workers, count>>
      PROVE  SameWorkers
  BY <1>1, <1>2 DEF SameWorkers, RegistryTypeOK
<1>3. CASE CheckWorkers \/ Clock
  BY <1>1, <1>3, WorkersPassFacts DEF CheckWorkers, Clock
<1>4. CASE Accept \/ RejectConnection \/ CheckTasks \/ CreateSampleTask \/ UNCHANGED vars
  BY <1>2, <1>4 DEF Accept, RejectConnection, CheckTasks, CreateSampleTask, vars
<1>5. ASSUME NEW t \in Takers,
             \/ StartHandler(t) \/ ReplyRegistered(t) \/ RecvResult(t) \/ RecvFails(t)
             \/ GetWorker(t) \/ TestIdle(t) \/ PopTask(t) \/ MarkAssigned(t) \/ SendTask(t)
      PROVE  SameWorkers /\ wid' = wid /\ removed' = removed
  BY <1>2, <1>5 DEF StartHandler, ReplyRegistered, RecvResult, RecvFails, GetWorker,
     TestIdle, PopTask, MarkAssigned, SendTask
<1>6. ASSUME NEW t \in Takers, ClientEnds(t) \/ CloseConnection(t)
      PROVE  SameWorkers /\ wid' = wid /\ removed' = removed
  <2>1. /\ pc[t] \in {"client", "close"} /\ wid' = [wid EXCEPT ![t] = 0]
        /\ UNCHANGED <<workers, count, removed>>
    BY <1>6 DEF ClientEnds, CloseConnection, Exit, Goto
  <2>2. wid[t] = 0 /\ wid \in [Takers -> 0 .. RegistryCapacity]
    BY <1>1, <2>1 DEF ThreadPlaces, ThreadsTypeOK, WithId
  <2> QED BY <1>2, <2>1, <2>2
<1>7. ASSUME NEW t \in Takers, RecvHeartbeat(t) \/ MarkBusy(t) \/ MarkIdle(t)
      PROVE  SameWorkers /\ wid' = wid /\ removed' = removed
  BY <1>1, <1>7, UpdateFacts DEF RecvHeartbeat, MarkBusy, MarkIdle, RegistryStatuses
<1>8. ASSUME NEW t \in Takers, RegisterWorker(t)
      PROVE  (SameWorkers /\ wid' = wid /\ removed' = removed) \/ Enters(t)
  <2>1. pc[t] = "register" /\ UNCHANGED <<removed, sock, ptr, sent>>
    BY <1>8 DEF RegisterWorker, Goto
  <2>2. sock[t] \in Fds /\ wid[t] = 0
    BY <2>1 DEF ThreadPlaces, WithId
  <2>3. CASE RegistryAdd(sock[t]) /\ wid' = [wid EXCEPT ![t] = count + 1]
    BY <1>1, <2>1, <2>2, <2>3, AddFacts DEF Enters
  <2>4. CASE UNCHANGED <<workers, count, wid>>
    BY <1>2, <2>1, <2>4
  <2> QED BY <1>8, <2>3, <2>4 DEF RegisterWorker
<1>9. ASSUME NEW t \in Takers, UndoRegistration(t) \/ RemoveWorker(t)
      PROVE  \E e \in 1 .. count : Removes(t, e)
  <2>1. /\ pc[t] \in {"undo", "remove"} /\ wid' = [wid EXCEPT ![t] = 0] /\ removed' = TRUE
        /\ RegistryRemove(wid[t])
    BY <1>9 DEF UndoRegistration, RemoveWorker, Exit, Goto
  <2>2. wid[t] # 0
    BY <2>1 DEF ThreadPlaces, WithId
  <2>3. PICK e \in 1 .. count : workers[e].worker_id = wid[t] /\ Shifted(e)
    BY <1>1, <2>1, RemoveFacts
  <2> QED BY <2>1, <2>2, <2>3 DEF Removes
<1> QED BY <1>3, <1>4, <1>5, <1>6, <1>7, <1>8, <1>9 DEF Next, WorkerHandler

\* A pointer is dropped, kept, or fetched from the array as it is.
LEMMA PointerSteps ==
  ASSUME CentralTypeOK, [Next]_vars, NEW u \in Takers
  PROVE  \/ ptr'[u] = 0 \/ ptr'[u] = ptr[u]
         \/ ptr'[u] \in EntryOf(wid[u]) /\ UNCHANGED <<workers, count, wid, sock, removed>>
<1> USE DEF threadVars, historyVars, registryVars
<1>1. ptr \in [Takers -> 0 .. RegistryCapacity]
  BY CentralTypeParts DEF ThreadsTypeOK
<1>2. CASE \/ Accept \/ RejectConnection \/ CheckTasks \/ CreateSampleTask \/ CheckWorkers
           \/ Clock \/ UNCHANGED vars
  BY <1>2 DEF Accept, RejectConnection, CheckTasks, CreateSampleTask, CheckWorkers, Clock, vars
<1>3. ASSUME NEW t \in Takers,
             \/ StartHandler(t) \/ ReplyRegistered(t) \/ RecvResult(t) \/ RecvFails(t)
             \/ MarkAssigned(t) \/ RecvHeartbeat(t) \/ MarkBusy(t) \/ MarkIdle(t)
             \/ RegisterWorker(t) \/ UndoRegistration(t)
      PROVE  ptr' = ptr
  BY <1>3 DEF StartHandler, ReplyRegistered, RecvResult, RecvFails, MarkAssigned,
     RecvHeartbeat, MarkBusy, MarkIdle, RegisterWorker, UndoRegistration
<1>4. ASSUME NEW t \in Takers,
             \/ TestIdle(t) \/ PopTask(t) \/ SendTask(t) \/ ClientEnds(t)
             \/ CloseConnection(t) \/ RemoveWorker(t)
      PROVE  ptr' = ptr \/ ptr' = [ptr EXCEPT ![t] = 0]
  BY <1>4 DEF TestIdle, PopTask, SendTask, ClientEnds, CloseConnection, RemoveWorker, Exit
<1>5. ASSUME NEW t \in Takers, GetWorker(t)
      PROVE  /\ \E i \in EntryOf(wid[t]) : ptr' = [ptr EXCEPT ![t] = i]
             /\ UNCHANGED <<workers, count, wid, sock, removed>>
  BY <1>5 DEF GetWorker
<1>6. ASSUME NEW t \in Takers, ptr' = ptr \/ ptr' = [ptr EXCEPT ![t] = 0]
      PROVE  ptr'[u] = 0 \/ ptr'[u] = ptr[u]
  BY <1>1, <1>6
<1>7. ASSUME NEW t \in Takers, NEW i \in EntryOf(wid[t]), ptr' = [ptr EXCEPT ![t] = i]
      PROVE  ptr'[u] = ptr[u] \/ ptr'[u] \in EntryOf(wid[u])
  BY <1>1, <1>7
<1> QED BY <1>2, <1>3, <1>4, <1>5, <1>6, <1>7 DEF Next, WorkerHandler

\* The descriptor of a thread changes only without an id.
LEMMA SockSteps ==
  ASSUME CentralTypeOK, ThreadPlaces, [Next]_vars, NEW u \in Takers
  PROVE  sock'[u] = sock[u] \/ wid'[u] = 0
<1> USE DEF threadVars, historyVars, registryVars
<1>1. /\ sock \in [Takers -> Fds \cup {NoFd}] /\ wid \in [Takers -> 0 .. RegistryCapacity]
  BY CentralTypeParts DEF ThreadsTypeOK
<1>2. CASE \/ Accept \/ RejectConnection \/ CheckTasks \/ CreateSampleTask \/ CheckWorkers
           \/ Clock \/ UNCHANGED vars
  BY <1>2 DEF Accept, RejectConnection, CheckTasks, CreateSampleTask, CheckWorkers, Clock, vars
<1>3. ASSUME NEW t \in Takers,
             \/ ReplyRegistered(t) \/ RecvResult(t) \/ RecvFails(t) \/ MarkAssigned(t)
             \/ RecvHeartbeat(t) \/ MarkBusy(t) \/ MarkIdle(t) \/ RegisterWorker(t)
             \/ UndoRegistration(t) \/ TestIdle(t) \/ PopTask(t) \/ SendTask(t)
             \/ GetWorker(t)
      PROVE  sock' = sock
  BY <1>3 DEF ReplyRegistered, RecvResult, RecvFails, MarkAssigned, RecvHeartbeat,
     MarkBusy, MarkIdle, RegisterWorker, UndoRegistration, TestIdle, PopTask, SendTask,
     GetWorker
<1>4. ASSUME NEW t \in Takers, StartHandler(t)
      PROVE  sock'[u] = sock[u] \/ wid'[u] = 0
  <2>1. pc[t] = "none" /\ sock' = [sock EXCEPT ![t] = main] /\ wid' = wid
    BY <1>4 DEF StartHandler, Goto
  <2>2. wid[t] = 0
    BY <2>1 DEF ThreadPlaces, WithId
  <2> QED BY <1>1, <2>1, <2>2
<1>5. ASSUME NEW t \in Takers, ClientEnds(t) \/ CloseConnection(t) \/ RemoveWorker(t)
      PROVE  sock'[u] = sock[u] \/ wid'[u] = 0
  <2>1. sock' = [sock EXCEPT ![t] = NoFd] /\ wid' = [wid EXCEPT ![t] = 0]
    BY <1>5 DEF ClientEnds, CloseConnection, RemoveWorker, Exit
  <2> QED BY <1>1, <2>1
<1> QED BY <1>2, <1>3, <1>4, <1>5 DEF Next, WorkerHandler

\* The steps of a worker's handler that do not end it stay within the handler.
LEMMA HandlerGoes ==
  ASSUME NEW t \in Takers,
         \/ RegisterWorker(t) \/ ReplyRegistered(t) \/ UndoRegistration(t)
         \/ RecvHeartbeat(t) \/ RecvResult(t) \/ RecvFails(t) \/ GetWorker(t)
         \/ TestIdle(t) \/ PopTask(t) \/ MarkAssigned(t) \/ MarkBusy(t) \/ SendTask(t)
         \/ MarkIdle(t)
  PROVE  /\ pc[t] # "none" /\ UNCHANGED <<main, sock, creating, next_task_id>>
         /\ \E to \in Pcs \ {"none"} : pc' = [pc EXCEPT ![t] = to]
<1> USE DEF taskVars, Goto, Pcs
<1>1. CASE RegisterWorker(t) \/ ReplyRegistered(t) \/ UndoRegistration(t)
  BY <1>1 DEF RegisterWorker, ReplyRegistered, UndoRegistration
<1>2. CASE RecvHeartbeat(t) \/ RecvResult(t) \/ RecvFails(t)
  BY <1>2 DEF RecvHeartbeat, RecvResult, RecvFails
<1>3. CASE GetWorker(t) \/ TestIdle(t) \/ PopTask(t)
  BY <1>3 DEF GetWorker, TestIdle, PopTask, GetNextTask
<1>4. CASE MarkAssigned(t) \/ MarkBusy(t) \/ SendTask(t) \/ MarkIdle(t)
  BY <1>4 DEF MarkAssigned, AssignTask, MarkBusy, SendTask, MarkIdle
<1> QED BY <1>1, <1>2, <1>3, <1>4

\* A thread sends its task, or gives up on it.
Sends(t) ==
  /\ pc[t] = "send" /\ task' = [task EXCEPT ![t] = 0] /\ UNCHANGED <<taskVars, workers, removed>>
  /\ \/ sent' = sent
     \/ sent' = sent \cup {[task |-> task[t], by |-> sock[t], on |-> workers[ptr[t]].sockfd]}

\* The tasks that are marked or sent change in two steps.
LEMMA TaskSteps ==
  ASSUME [Next]_vars
  PROVE  \/ UNCHANGED <<task, sent>>
         \/ \E t \in Takers : /\ pc[t] = "assign" /\ AssignTask(t) /\ sent' = sent
                               /\ task' = [task EXCEPT ![t] = hand[t]]
         \/ \E t \in Takers : Sends(t)
<1> USE DEF threadVars, historyVars, registryVars
<1>2. CASE \/ Accept \/ RejectConnection \/ CheckTasks \/ CreateSampleTask \/ CheckWorkers
           \/ Clock \/ UNCHANGED vars
  BY <1>2 DEF Accept, RejectConnection, CheckTasks, CreateSampleTask, CheckWorkers, Clock, vars
<1>3. ASSUME NEW t \in Takers,
             \/ ReplyRegistered(t) \/ RecvResult(t) \/ RecvFails(t)
             \/ RecvHeartbeat(t) \/ MarkBusy(t) \/ MarkIdle(t) \/ RegisterWorker(t)
             \/ UndoRegistration(t) \/ TestIdle(t) \/ PopTask(t) \/ GetWorker(t)
             \/ StartHandler(t) \/ ClientEnds(t) \/ CloseConnection(t) \/ RemoveWorker(t)
      PROVE  UNCHANGED <<task, sent>>
  BY <1>3 DEF ReplyRegistered, RecvResult, RecvFails, RecvHeartbeat, MarkBusy, MarkIdle,
     RegisterWorker, UndoRegistration, TestIdle, PopTask, GetWorker, StartHandler,
     ClientEnds, CloseConnection, RemoveWorker, Exit
<1>4. ASSUME NEW t \in Takers, MarkAssigned(t)
      PROVE  /\ pc[t] = "assign" /\ AssignTask(t) /\ sent' = sent
             /\ task' = [task EXCEPT ![t] = hand[t]]
  BY <1>4 DEF MarkAssigned, Goto
<1>5. ASSUME NEW t \in Takers, SendTask(t)
      PROVE  Sends(t)
  BY <1>5 DEF SendTask, Goto, Sends
<1> QED BY <1>2, <1>3, <1>4, <1>5 DEF Next, WorkerHandler

(***************************************************************************)
(* Pointers lead to entries that were written.                             *)
(***************************************************************************)
EntriesWritten ==
  /\ \A i \in 1 .. count : workers[i].sockfd \in Fds
  /\ \A t \in Takers : ptr[t] # 0 => workers[ptr[t]].sockfd \in Fds

\* An entry that was written stays written, and the first count entries are.
LEMMA WrittenStays ==
  ASSUME CentralTypeOK, ThreadPlaces, EntriesWritten, [Next]_vars
  PROVE  /\ \A i \in Entries : workers[i].sockfd \in Fds => workers'[i].sockfd \in Fds
         /\ \A i \in 1 .. count' : workers'[i].sockfd \in Fds
<1>1. /\ count \in Nat /\ RegistryCapacity \in Nat /\ count <= RegistryCapacity
      /\ \A i \in 1 .. count : i \in Entries
  BY RegistryType, CentralTypeParts
<1>2. CASE SameWorkers
  BY <1>1, <1>2 DEF SameWorkers, EntriesWritten
<1>3. ASSUME NEW t \in Takers, Enters(t)
      PROVE  /\ \A i \in Entries : workers[i].sockfd \in Fds => workers'[i].sockfd \in Fds
             /\ \A i \in 1 .. count' : workers'[i].sockfd \in Fds
  <2>1. /\ count' = count + 1 /\ workers'[count + 1].sockfd \in Fds
        /\ \A i \in Entries : i # count + 1 => workers'[i] = workers[i]
    BY <1>3 DEF Enters, Added
  <2>2. \A i \in 1 .. count' : i # count + 1 => i \in 1 .. count
    BY <1>1, <2>1
  <2> QED BY <1>1, <2>1, <2>2 DEF EntriesWritten
<1>4. ASSUME NEW t \in Takers, NEW e \in 1 .. count, Removes(t, e)
      PROVE  /\ \A i \in Entries : workers[i].sockfd \in Fds => workers'[i].sockfd \in Fds
             /\ \A i \in 1 .. count' : workers'[i].sockfd \in Fds
  <2>1. /\ count' = count - 1
        /\ \A i \in Entries : workers'[i] = IF e <= i /\ i < count THEN workers[i + 1]
                                                                    ELSE workers[i]
    BY <1>4 DEF Removes, Shifted
  <2>2. \A i \in Entries : e <= i /\ i < count => i + 1 \in 1 .. count
    BY <1>1 DEF Entries
  <2>3. \A i \in 1 .. count' : i \in 1 .. count /\ i \in Entries
    BY <1>1, <2>1
  <2> QED BY <2>1, <2>2, <2>3 DEF EntriesWritten
<1> QED BY <1>2, <1>3, <1>4, RegistrySteps

\* The pointers stay readable.
LEMMA EntriesWrittenKept ==
  ASSUME CentralTypeOK, ThreadPlaces, EntriesWritten, [Next]_vars
  PROVE  EntriesWritten'
<1>1. /\ \A i \in Entries : workers[i].sockfd \in Fds => workers'[i].sockfd \in Fds
      /\ \A i \in 1 .. count' : workers'[i].sockfd \in Fds
  BY WrittenStays
<1>2. /\ RegistryCapacity \in Nat /\ ptr \in [Takers -> 0 .. RegistryCapacity]
  BY CentralTypeParts, RegistryAssumption DEF ThreadsTypeOK
<1>3. ASSUME NEW u \in Takers, ptr'[u] # 0
      PROVE  workers'[ptr'[u]].sockfd \in Fds
  <2>1. CASE ptr'[u] = ptr[u]
    <3>1. ptr[u] \in Entries
      BY <1>2, <1>3, <2>1 DEF Entries
    <3> QED BY <1>1, <1>3, <2>1, <3>1 DEF EntriesWritten
  <2>2. CASE ptr'[u] \in EntryOf(wid[u]) /\ UNCHANGED <<workers, count>>
    BY <2>2 DEF EntriesWritten, EntryOf
  <2> QED BY <1>3, <2>1, <2>2, PointerSteps
<1> QED BY <1>1, <1>3 DEF EntriesWritten

(***************************************************************************)
(* As many entries with an id as handlers that hold it.                    *)
(***************************************************************************)
EntriesWith(id) == {i \in 1 .. count : workers[i].worker_id = id}
Holders(id) == {t \in Takers : wid[t] = id}

\* The sets are finite because they grow by one at a time.
Matched ==
  \A id \in 1 .. RegistryCapacity :
    /\ IsFiniteSet(Holders(id))
    /\ Cardinality(EntriesWith(id)) = Cardinality(Holders(id))

\* The shift is a bijection of the entries that stay.
LEMMA ShiftCount ==
  ASSUME RegistryTypeOK, NEW e, Shifted(e), NEW id
  PROVE  Cardinality(EntriesWith(id)') = Cardinality(EntriesWith(id) \ {e})
<1> DEFINE S == EntriesWith(id) \ {e}
           T == EntriesWith(id)'
           f == [k \in S |-> IF k < e THEN k ELSE k - 1]
<1>1. /\ count \in Nat /\ e \in 1 .. count /\ count' = count - 1
      /\ RegistryCapacity \in Nat /\ count <= RegistryCapacity
      /\ \A i \in Entries : workers'[i] = IF e <= i /\ i < count THEN workers[i + 1]
                                                                  ELSE workers[i]
  BY RegistryType DEF Shifted
<1>2. \A k \in S : k \in 1 .. count /\ k # e /\ workers[k].worker_id = id
  BY DEF EntriesWith
<1>3. ASSUME NEW k \in S
      PROVE  f[k] \in T
  <2>1. k \in 1 .. count /\ k # e /\ workers[k].worker_id = id
    BY <1>2
  <2>2. CASE k < e
    <3>1. k \in 1 .. count' /\ k \in Entries /\ ~(e <= k /\ k < count)
      BY <1>1, <2>1, <2>2 DEF Entries
    <3>2. workers'[k] = workers[k]
      BY <1>1, <3>1
    <3>3. f[k] = k
      BY <2>2
    <3> QED BY <2>1, <3>1, <3>2, <3>3 DEF EntriesWith
  <2>3. CASE ~(k < e)
    <3>1. /\ k - 1 \in 1 .. count' /\ k - 1 \in Entries /\ e <= k - 1 /\ k - 1 < count
          /\ (k - 1) + 1 = k
      BY <1>1, <2>1, <2>3 DEF Entries
    <3>2. workers'[k - 1] = workers[k]
      BY <1>1, <3>1
    <3>3. f[k] = k - 1
      BY <2>3
    <3> QED BY <2>1, <3>1, <3>2, <3>3 DEF EntriesWith
  <2> QED BY <2>2, <2>3
<1>4. ASSUME NEW k \in S, NEW l \in S, f[k] = f[l]
      PROVE  k = l
  <2>1. k \in 1 .. count /\ k # e /\ l \in 1 .. count /\ l # e
    BY <1>2
  <2>2. (IF k < e THEN k ELSE k - 1) = (IF l < e THEN l ELSE l - 1)
    BY <1>4
  <2> QED BY <1>1, <2>1, <2>2
<1>5. ASSUME NEW j \in T
      PROVE  \E k \in S : f[k] = j
  <2>1. j \in 1 .. count' /\ workers'[j].worker_id = id
    BY DEF EntriesWith
  <2>2. j \in Entries /\ j < count
    BY <1>1, <2>1 DEF Entries
  <2>3. CASE j < e
    <3>1. workers[j].worker_id = id /\ j \in 1 .. count /\ j # e
      BY <1>1, <2>1, <2>2, <2>3
    <3>2. j \in S
      BY <3>1 DEF EntriesWith
    <3> QED BY <2>3, <3>2
  <2>4. CASE ~(j < e)
    <3>1. e <= j /\ j + 1 \in 1 .. count /\ j + 1 # e /\ ~(j + 1 < e) /\ (j + 1) - 1 = j
      BY <1>1, <2>1, <2>4
    <3>2. workers[j + 1].worker_id = id
      BY <1>1, <2>1, <2>2, <3>1
    <3>3. j + 1 \in S
      BY <3>1, <3>2 DEF EntriesWith
    <3> QED BY <3>1, <3>3
  <2> QED BY <2>3, <2>4
<1>6. IsFiniteSet(S)
  <2>1. IsFiniteSet(1 .. count) /\ S \subseteq 1 .. count
    BY <1>1, <1>2, FS_Interval
  <2> QED BY <2>1, FS_Subset
<1>7. f \in [S -> T]
  BY <1>3
<1> HIDE DEF S, T, f
<1>8. f \in Bijection(S, T)
  BY <1>4, <1>5, <1>7, Fun_IsBij
<1>9. ExistsBijection(S, T)
  BY <1>8, Fun_ExistsBij
<1> QED BY <1>6, <1>9, FS_Bijection DEF S, T

\* Registration adds one of each, removal takes one of each.
LEMMA MatchedKept ==
  ASSUME CentralTypeOK, ThreadPlaces, Matched, [Next]_vars
  PROVE  Matched'
<1>1. /\ RegistryTypeOK /\ count \in Nat /\ RegistryCapacity \in Nat
      /\ count <= RegistryCapacity /\ wid \in [Takers -> 0 .. RegistryCapacity]
      /\ \A i \in 1 .. count : i \in Entries
  BY RegistryType, CentralTypeParts DEF ThreadsTypeOK
<1>2. \A id : IsFiniteSet(EntriesWith(id))
  <2>1. IsFiniteSet(1 .. count) /\ \A id : EntriesWith(id) \subseteq 1 .. count
    BY <1>1, FS_Interval DEF EntriesWith
  <2> QED BY <2>1, FS_Subset
<1>3. CASE SameWorkers /\ wid' = wid
  <2>1. \A id : EntriesWith(id)' = EntriesWith(id) /\ Holders(id)' = Holders(id)
    BY <1>1, <1>3 DEF SameWorkers, EntriesWith, Holders
  <2> QED BY <2>1 DEF Matched
<1>4. ASSUME NEW t \in Takers, Enters(t)
      PROVE  Matched'
  <2>1. /\ count' = count + 1 /\ workers'[count + 1].worker_id = count + 1
        /\ \A i \in Entries : i # count + 1 => workers'[i] = workers[i]
        /\ wid[t] = 0 /\ wid' = [wid EXCEPT ![t] = count + 1]
    BY <1>4 DEF Enters, Added
  <2>2. /\ 1 .. count' = (1 .. count) \cup {count + 1} /\ count + 1 \notin 1 .. count
    BY <1>1, <2>1
  <2>3. ASSUME NEW id \in 1 .. RegistryCapacity, id # count + 1
        PROVE  EntriesWith(id)' = EntriesWith(id) /\ Holders(id)' = Holders(id)
    <3>1. EntriesWith(id)' = EntriesWith(id)
      BY <1>1, <2>1, <2>2, <2>3 DEF EntriesWith
    <3>2. id # 0
      BY <1>1
    <3>3. Holders(id)' = Holders(id)
      BY <1>1, <2>1, <2>3, <3>2 DEF Holders
    <3> QED BY <3>1, <3>3
  <2>4. ASSUME NEW id \in 1 .. RegistryCapacity, id = count + 1
        PROVE  /\ EntriesWith(id)' = EntriesWith(id) \cup {count + 1}
               /\ count + 1 \notin EntriesWith(id)
               /\ Holders(id)' = Holders(id) \cup {t} /\ t \notin Holders(id)
    <3>1. EntriesWith(id)' = EntriesWith(id) \cup {count + 1} /\ count + 1 \notin EntriesWith(id)
      BY <1>1, <2>1, <2>2, <2>4 DEF EntriesWith
    <3>2. id # 0
      BY <1>1
    <3>3. Holders(id)' = Holders(id) \cup {t} /\ t \notin Holders(id)
      BY <1>1, <2>1, <2>4, <3>2 DEF Holders
    <3> QED BY <3>1, <3>3
  <2>5. ASSUME NEW id \in 1 .. RegistryCapacity
        PROVE  /\ IsFiniteSet(Holders(id)')
               /\ Cardinality(EntriesWith(id)') = Cardinality(Holders(id)')
    <3>1. CASE id # count + 1
      BY <2>3, <3>1 DEF Matched
    <3>2. CASE id = count + 1
      <4>1. Cardinality(EntriesWith(id)') = Cardinality(EntriesWith(id)) + 1
        BY <1>2, <2>4, <3>2, FS_AddElement
      <4>2. IsFiniteSet(Holders(id)') /\ Cardinality(Holders(id)') = Cardinality(Holders(id)) + 1
        BY <2>4, <3>2, FS_AddElement DEF Matched
      <4> QED BY <4>1, <4>2 DEF Matched
    <3> QED BY <3>1, <3>2
  <2> QED BY <2>5 DEF Matched
<1>5. ASSUME NEW t \in Takers, NEW e \in 1 .. count, Removes(t, e)
      PROVE  Matched'
  <2>1. /\ wid[t] # 0 /\ wid' = [wid EXCEPT ![t] = 0] /\ workers[e].worker_id = wid[t]
        /\ Shifted(e)
    BY <1>5 DEF Removes
  <2>2. ASSUME NEW id \in 1 .. RegistryCapacity
        PROVE  /\ IsFiniteSet(Holders(id)')
               /\ Cardinality(EntriesWith(id)') = Cardinality(Holders(id)')
    <3>1. Cardinality(EntriesWith(id)') = Cardinality(EntriesWith(id) \ {e})
      BY <1>1, <2>1, ShiftCount
    <3>2. id # 0
      BY <1>1
    <3>3. Holders(id)' = Holders(id) \ {t}
      BY <1>1, <2>1, <3>2 DEF Holders
    <3>4. t \in Holders(id) <=> e \in EntriesWith(id)
      BY <2>1 DEF Holders, EntriesWith
    <3>5. /\ IsFiniteSet(Holders(id)')
          /\ Cardinality(Holders(id)') = IF t \in Holders(id) THEN Cardinality(Holders(id)) - 1
                                                              ELSE Cardinality(Holders(id))
      BY <3>3, FS_RemoveElement DEF Matched
    <3>6. Cardinality(EntriesWith(id) \ {e})
            = IF e \in EntriesWith(id) THEN Cardinality(EntriesWith(id)) - 1
                                       ELSE Cardinality(EntriesWith(id))
      BY <1>2, FS_RemoveElement
    <3> QED BY <3>1, <3>4, <3>5, <3>6 DEF Matched
  <2> QED BY <2>2 DEF Matched
<1> QED BY <1>3, <1>4, <1>5, RegistrySteps

(***************************************************************************)
(* Until the first removal an entry is where its id says.                  *)
(***************************************************************************)
OwnEntries ==
  ~removed =>
    /\ \A i \in 1 .. count : workers[i].worker_id = i
    /\ \A t \in Takers : wid[t] # 0 => wid[t] \in 1 .. count /\ workers[wid[t]].sockfd = sock[t]
    /\ \A t \in Takers : ptr[t] # 0 => ptr[t] = wid[t]
    /\ \A s \in sent : s.on = s.by

\* The part about entries and ids.
LEMMA OwnEntriesKept ==
  ASSUME CentralTypeOK, ThreadPlaces, OwnEntries, [Next]_vars
  PROVE  OwnEntries'
<1>1. /\ RegistryTypeOK /\ count \in Nat /\ RegistryCapacity \in Nat
      /\ count <= RegistryCapacity /\ wid \in [Takers -> 0 .. RegistryCapacity]
      /\ \A i \in 1 .. count : i \in Entries
  BY RegistryType, CentralTypeParts DEF ThreadsTypeOK
<1>2. ASSUME NEW t \in Takers, NEW e \in 1 .. count, Removes(t, e)
      PROVE  OwnEntries'
  BY <1>2 DEF Removes, OwnEntries
<1>3. SUFFICES ASSUME ~removed, ~removed',
                      \/ SameWorkers /\ wid' = wid
                      \/ \E t \in Takers : Enters(t)
               PROVE  OwnEntries'
  <2>1. CASE removed
    <3>1. removed'
      BY <2>1, RegistrySteps DEF Removes, Enters
    <3> QED BY <3>1 DEF OwnEntries
  <2>2. CASE ~removed
    BY <1>2, <1>3, <2>2, RegistrySteps DEF OwnEntries
  <2> QED BY <2>1, <2>2
<1>4. /\ \A i \in 1 .. count : workers[i].worker_id = i
      /\ \A t \in Takers : wid[t] # 0 => wid[t] \in 1 .. count /\ workers[wid[t]].sockfd = sock[t]
      /\ \A t \in Takers : ptr[t] # 0 => ptr[t] = wid[t]
      /\ \A s \in sent : s.on = s.by
  BY <1>3 DEF OwnEntries
<1>5. /\ \A i \in 1 .. count' : workers'[i].worker_id = i
      /\ \A t \in Takers : wid'[t] # 0 => wid'[t] \in 1 .. count' /\ workers'[wid'[t]].sockfd = sock'[t]
      /\ \A t \in Takers : wid[t] # 0 => wid'[t] = wid[t]
  <2>1. CASE SameWorkers /\ wid' = wid
    <3>1. \A t \in Takers : wid[t] # 0 => sock'[t] = sock[t]
      BY <2>1, SockSteps
    <3> QED BY <1>1, <1>4, <2>1, <3>1 DEF SameWorkers
  <2>2. ASSUME NEW t \in Takers, Enters(t)
        PROVE  /\ \A i \in 1 .. count' : workers'[i].worker_id = i
               /\ \A u \in Takers : wid'[u] # 0 => wid'[u] \in 1 .. count' /\ workers'[wid'[u]].sockfd = sock'[u]
               /\ \A u \in Takers : wid[u] # 0 => wid'[u] = wid[u]
    <3>1. /\ count' = count + 1 /\ workers'[count + 1].worker_id = count + 1
          /\ workers'[count + 1].sockfd = sock[t] /\ sock' = sock
          /\ \A i \in Entries : i # count + 1 => workers'[i] = workers[i]
          /\ wid[t] = 0 /\ wid' = [wid EXCEPT ![t] = count + 1]
      BY <2>2 DEF Enters, Added
    <3>2. /\ \A i \in 1 .. count' : i = count + 1 \/ i \in 1 .. count
          /\ \A i \in 1 .. count : i \in 1 .. count' /\ i # count + 1
          /\ count + 1 \in 1 .. count'
      BY <1>1, <3>1
    <3>3. wid'[t] = count + 1 /\ \A u \in Takers : u # t => wid'[u] = wid[u]
      BY <1>1, <3>1
    <3>4. \A i \in 1 .. count' : workers'[i].worker_id = i
      BY <1>1, <1>4, <3>1, <3>2
    <3>5. ASSUME NEW u \in Takers, wid'[u] # 0
          PROVE  wid'[u] \in 1 .. count' /\ workers'[wid'[u]].sockfd = sock'[u]
      <4>1. CASE u = t
        BY <3>1, <3>2, <3>3, <4>1
      <4>2. CASE u # t
        BY <1>1, <1>4, <3>1, <3>2, <3>3, <3>5, <4>2
      <4> QED BY <4>1, <4>2
    <3> QED BY <3>1, <3>3, <3>4, <3>5
  <2> QED BY <1>3, <2>1, <2>2
<1>6. ASSUME NEW u \in Takers, ptr'[u] # 0
      PROVE  ptr'[u] = wid'[u]
  <2>1. CASE ptr'[u] = ptr[u]
    <3>1. wid[u] # 0
      BY <1>6, <2>1 DEF ThreadPlaces, WithId, WithPointer
    <3> QED BY <1>4, <1>5, <1>6, <2>1, <3>1
  <2>2. CASE ptr'[u] \in EntryOf(wid[u]) /\ wid' = wid
    BY <1>4, <2>2 DEF EntryOf
  <2> QED BY <1>6, <2>1, <2>2, PointerSteps
<1>7. \A s \in sent' : s.on = s.by
  <2>1. ASSUME NEW t \in Takers, Sends(t)
        PROVE  \A s \in sent' : s.on = s.by
    <3>1. ptr[t] # 0 /\ wid[t] # 0
      BY <2>1 DEF Sends, ThreadPlaces, WithPointer, WithId
    <3>2. workers[ptr[t]].sockfd = sock[t]
      BY <1>4, <3>1
    <3> QED BY <1>4, <2>1, <3>2 DEF Sends
  <2> QED BY <1>4, <2>1, TaskSteps
<1> QED BY <1>5, <1>6, <1>7 DEF OwnEntries

(***************************************************************************)
(* A task that was marked stays marked, so it is marked once.              *)
(***************************************************************************)
Marked(id) == \E r \in Rows : tasks[r].task_id = id /\ tasks[r].status # "PENDING"

\* No step of the task manager makes a task pending again.
LEMMA MarkedStays ==
  ASSUME TaskInductive, [TaskNext]_taskVars, NEW id, Marked(id)
  PROVE  Marked(id)'
<1>1. PICK r \in Rows : tasks[r].task_id = id /\ tasks[r].status # "PENDING"
  BY DEF Marked
<1>2. /\ TaskTypeOK /\ tasks \in Seq(Task) /\ Len(tasks) \in Nat
  BY TaskTableType DEF TaskInductive
<1>3. ASSUME NEW q \in Rows, NEW st \in TaskStatuses \ {"PENDING"},
             tasks' = [tasks EXCEPT ![q].status = st, ![q].age = 0]
      PROVE  Marked(id)'
  <2>1. /\ SameIds(tasks') /\ tasks'[q].status = st
        /\ \A p \in Rows : p # q => tasks'[p] = tasks[p]
    BY <1>2, <1>3, RowKeepsIds
  <2>2. Rows' = Rows /\ tasks'[r].task_id = id
    BY <1>1, <2>1 DEF SameIds, Rows
  <2>3. tasks'[r].status # "PENDING"
    BY <1>1, <1>3, <2>1
  <2> QED BY <2>2, <2>3 DEF Marked
<1>4. CASE tasks' = tasks
  BY <1>1, <1>4 DEF Marked, Rows
<1>5. CASE CreateInsert
  <2> DEFINE row == [task_id |-> creating, status |-> "PENDING", age |-> 0]
  <2>1. tasks' = Append(tasks, row) /\ creating \in 1 .. MaxTaskIds
    BY <1>2, <1>5, TaskAssumption DEF CreateInsert, TaskTypeOK
  <2>2. row \in Task
    BY <2>1, TaskAssumption DEF Task, TaskStatuses
  <2> HIDE DEF row
  <2>3. Len(tasks') = Len(tasks) + 1 /\ \A i \in 1 .. Len(tasks) : tasks'[i] = tasks[i]
    BY <1>2, <2>1, <2>2, AppendProperties
  <2>4. r \in 1 .. Len(tasks') /\ tasks'[r] = tasks[r]
    BY <1>1, <1>2, <2>3 DEF Rows
  <2> QED BY <1>1, <2>4 DEF Marked, Rows
<1>6. ASSUME CheckTaskTimeouts \/ TaskTick
      PROVE  Marked(id)'
  <2>1. /\ DOMAIN tasks' = 1 .. Len(tasks)
        /\ tasks'[r].task_id = id /\ tasks'[r].status # "PENDING"
    <3>1. tasks[r] \in Task
      BY <1>2, TaskTableType
    <3>2. CASE CheckTaskTimeouts
      BY <1>1, <3>1, <3>2 DEF CheckTaskTimeouts, Rows, Task
    <3>3. CASE TaskTick
      BY <1>1, <3>1, <3>3 DEF TaskTick, Rows, Task
    <3> QED BY <1>6, <3>2, <3>3
  <2>2. Rows' = Rows
    <3>1. TaskTypeOK'
      BY <1>6, PassKeeps DEF TaskInductive
    <3>2. Len(tasks') \in Nat /\ DOMAIN tasks' = 1 .. Len(tasks')
      <4>1. tasks' \in Seq(Task)
        BY <3>1 DEF TaskTypeOK, Task
      <4> QED BY <4>1, LenProperties
    <3> QED BY <1>2, <2>1, <3>2 DEF Rows
  <2> QED BY <2>1, <2>2 DEF Marked
<1>7. ASSUME NEW t \in Takers, AssignTask(t)
      PROVE  Marked(id)'
  <2>1. PICK q \in RowOf(hand[t]) :
          tasks' = [tasks EXCEPT ![q].status = "ASSIGNED", ![q].age = 0]
    BY <1>7 DEF AssignTask
  <2>2. q \in Rows /\ "ASSIGNED" \in TaskStatuses \ {"PENDING"}
    BY DEF RowOf, TaskStatuses
  <2> QED BY <1>3, <2>1, <2>2
<1>8. ASSUME NEW x, NEW st \in {"COMPLETED", "FAILED"}, ProcessResult(x, st)
      PROVE  Marked(id)'
  <2>1. PICK q \in RowOf(x) : tasks' = [tasks EXCEPT ![q].status = st, ![q].age = 0]
    BY <1>8 DEF ProcessResult
  <2>2. q \in Rows /\ st \in TaskStatuses \ {"PENDING"}
    BY DEF RowOf, TaskStatuses
  <2> QED BY <1>3, <2>1, <2>2
<1>9. ASSUME CreatePush \/ (\E t \in Takers : GetNextTask(t)) \/ UNCHANGED taskVars
      PROVE  tasks' = tasks
  BY <1>9 DEF CreatePush, GetNextTask, taskVars
<1> QED BY <1>4, <1>5, <1>6, <1>7, <1>8, <1>9 DEF TaskNext

\* No two of the tasks sent are the same.
SendsDiffer == \A r, s \in sent : r.task = s.task => r = s

\* What was marked or sent is in the table as such, and nobody has it twice.
SentFromTable ==
  /\ \A t \in Takers : task[t] # 0 => Marked(task[t])
  /\ \A s \in sent : Marked(s.task)
  /\ \A t, u \in Takers : task[t] # 0 /\ task[t] = task[u] => t = u
  /\ \A t \in Takers : task[t] # 0 => \A s \in sent : s.task # task[t]

\* The task in a hand is pending, so it is neither marked nor sent; after the
\* mark it is the thread's own until it is sent.
LEMMA SentKept ==
  ASSUME CentralTypeOK, TaskInductive, ThreadPlaces, SentFromTable, SendsDiffer,
         [Next]_vars
  PROVE  SentFromTable' /\ SendsDiffer'
<1>1. task \in [Takers -> 0 .. MaxTaskIds] /\ TaskTypeOK /\ TasksSorted /\ PendingInTransit
  BY CentralTypeParts DEF ThreadsTypeOK, TaskInductive
<1>2. \A id : Marked(id) => Marked(id)'
  BY MarkedStays, StepUsesTaskManager
<1>3. CASE UNCHANGED <<task, sent>>
  BY <1>2, <1>3 DEF SentFromTable, SendsDiffer
<1>4. ASSUME NEW t \in Takers, pc[t] = "assign", AssignTask(t), sent' = sent,
             task' = [task EXCEPT ![t] = hand[t]]
      PROVE  SentFromTable' /\ SendsDiffer'
  <2>1. hand[t] # 0 /\ task[t] = 0
    BY <1>4 DEF ThreadPlaces
  <2>2. PICK r \in RowOf(hand[t]) :
          tasks' = [tasks EXCEPT ![r].status = "ASSIGNED", ![r].age = 0]
    BY <1>4 DEF AssignTask
  <2>3. r \in Rows /\ tasks[r].task_id = hand[t] /\ creating = 0
    BY <1>4 DEF RowOf, AssignTask
  <2>4. /\ SameIds(tasks') /\ tasks'[r].status = "ASSIGNED"
    BY <1>1, <2>2, <2>3, RowKeepsIds DEF TaskStatuses
  <2>5. \A x : x = hand[t] => Marked(x)'
    <3>1. Rows' = Rows /\ tasks'[r].task_id = hand[t]
      BY <2>3, <2>4 DEF SameIds, Rows
    <3> QED BY <2>3, <2>4, <3>1 DEF Marked
  <2>6. ~Marked(hand[t])
    <3>1. hand[t] \in PendingIds
      BY <1>1, <2>1, <2>3 DEF PendingInTransit, InHand
    <3>2. PICK q \in Rows : tasks[q].task_id = hand[t] /\ tasks[q].status = "PENDING"
      BY <3>1 DEF PendingIds
    <3>3. q = r
      BY <1>1, <2>2, <3>2, RowOfUnique
    <3>4. \A p \in Rows : tasks[p].task_id = hand[t] => p = r
      BY <1>1, <2>2, RowOfUnique
    <3> QED BY <3>2, <3>3, <3>4 DEF Marked
  <2>7. task'[t] = hand[t] /\ \A u \in Takers : u # t => task'[u] = task[u]
    BY <1>1, <1>4
  <2>8. ASSUME NEW u \in Takers, NEW x, task'[u] = x, x # 0
        PROVE  Marked(x)' /\ \A s \in sent : s.task # x
    BY <1>2, <2>5, <2>6, <2>7, <2>8 DEF SentFromTable
  <2>9. ASSUME NEW u \in Takers, NEW v \in Takers, task'[u] # 0, task'[u] = task'[v]
        PROVE  u = v
    BY <2>6, <2>7, <2>9 DEF SentFromTable
  <2>10. (\A u \in Takers : task[u] # 0 => Marked(task[u]))'
    BY <2>8
  <2>11. (\A s \in sent : Marked(s.task))'
    BY <1>2, <1>4 DEF SentFromTable
  <2> QED BY <1>4, <2>8, <2>9, <2>10, <2>11 DEF SentFromTable, SendsDiffer
<1>5. ASSUME NEW t \in Takers, Sends(t)
      PROVE  SentFromTable' /\ SendsDiffer'
  <2>1. pc[t] = "send" /\ task' = [task EXCEPT ![t] = 0]
    BY <1>5 DEF Sends
  <2>2. task[t] # 0
    BY <2>1 DEF ThreadPlaces
  <2>3. task'[t] = 0 /\ \A u \in Takers : u # t => task'[u] = task[u]
    <3>1. 0 \in 0 .. MaxTaskIds
      BY TaskAssumption
    <3> QED BY <1>1, <2>1, <3>1
  <2>4. CASE sent' = sent
    BY <1>2, <2>3, <2>4 DEF SentFromTable, SendsDiffer
  <2>5. CASE sent' = sent \cup {[task |-> task[t], by |-> sock[t],
                                 on |-> workers[ptr[t]].sockfd]}
    <3> DEFINE x == [task |-> task[t], by |-> sock[t], on |-> workers[ptr[t]].sockfd]
    <3>1. x.task = task[t] /\ sent' = sent \cup {x}
      BY <2>5
    <3> HIDE DEF x
    <3>2. SendsDiffer'
      BY <2>2, <3>1 DEF SendsDiffer, SentFromTable
    <3>3. SentFromTable'
      BY <1>2, <2>2, <2>3, <3>1 DEF SentFromTable
    <3> QED BY <3>2, <3>3
  <2> QED BY <1>5, <2>4, <2>5 DEF Sends
<1> QED BY <1>3, <1>4, <1>5, TaskSteps

(***************************************************************************)
(* The connections.                                                        *)
(***************************************************************************)
\* A thread that has ended has no descriptor, and main serves connections only
\* after it has created the sample task.
Served ==
  /\ \A t \in Takers : pc[t] = "none" => sock[t] = NoFd
  /\ main # NoFd => creating = 0 /\ next_task_id > 1
  /\ \A t \in Takers : pc[t] # "none" => creating = 0 /\ next_task_id > 1

\* Tasks are not created any more once there are connections.
LEMMA ServedKept ==
  ASSUME CentralTypeOK, ThreadPlaces, Served, [Next]_vars
  PROVE  Served'
<1> USE DEF threadVars, historyVars, registryVars, taskVars, Served
<1>1. /\ pc \in [Takers -> Pcs] /\ sock \in [Takers -> Fds \cup {NoFd}]
      /\ next_task_id \in Nat
  BY CentralTypeParts, TaskAssumption DEF ThreadsTypeOK, TaskTypeOK
<1>2. CASE CreateSampleTask
  <2>1. main = NoFd /\ \A t \in Takers : pc[t] = "none"
    BY <1>2 DEF CreateSampleTask, CreateInsert
  <2> QED BY <1>2, <2>1 DEF CreateSampleTask
<1>3. CASE Accept \/ RejectConnection
  BY <1>3 DEF Accept, RejectConnection
<1>4. CASE CheckWorkers \/ CheckTasks \/ Clock \/ UNCHANGED vars
  <2>1. UNCHANGED <<main, pc, sock, creating, next_task_id>>
    BY <1>4 DEF CheckWorkers, CheckTasks, CheckTaskTimeouts, Clock, TaskTick, vars
  <2> QED BY <2>1
<1>5. ASSUME NEW t \in Takers, StartHandler(t)
      PROVE  Served'
  <2>1. /\ main # NoFd /\ main' = NoFd /\ sock' = [sock EXCEPT ![t] = main]
        /\ \/ pc' = [pc EXCEPT ![t] = "register"]
           \/ pc' = [pc EXCEPT ![t] = "client"]
        /\ UNCHANGED <<creating, next_task_id>>
    BY <1>5 DEF StartHandler, Goto
  <2> QED BY <1>1, <2>1
<1>6. ASSUME NEW t \in Takers, ClientEnds(t) \/ CloseConnection(t) \/ RemoveWorker(t)
      PROVE  Served'
  <2>1. /\ sock' = [sock EXCEPT ![t] = NoFd] /\ pc' = [pc EXCEPT ![t] = "none"]
        /\ UNCHANGED <<main, creating, next_task_id>>
    BY <1>6 DEF ClientEnds, CloseConnection, RemoveWorker, Exit, Goto
  <2> QED BY <1>1, <2>1
<1>7. ASSUME NEW t \in Takers,
             \/ RegisterWorker(t) \/ ReplyRegistered(t) \/ UndoRegistration(t)
             \/ RecvHeartbeat(t) \/ RecvResult(t) \/ RecvFails(t) \/ GetWorker(t)
             \/ TestIdle(t) \/ PopTask(t) \/ MarkAssigned(t) \/ MarkBusy(t) \/ SendTask(t)
             \/ MarkIdle(t)
      PROVE  Served'
  <2>1. /\ pc[t] # "none" /\ UNCHANGED <<main, sock, creating, next_task_id>>
        /\ \E to \in Pcs \ {"none"} : pc' = [pc EXCEPT ![t] = to]
    BY <1>7, HandlerGoes
  <2> QED BY <1>1, <2>1
<1> QED BY <1>2, <1>3, <1>4, <1>5, <1>6, <1>7 DEF Next, WorkerHandler

\* Main and the handlers close their own descriptors, unless they remove a
\* worker.
LEMMA OwnConnectionKept ==
  ASSUME CentralTypeOK, ThreadPlaces, Served, OwnConnectionUntilRemoval, [Next]_vars
  PROVE  OwnConnectionUntilRemoval'
<1> USE DEF threadVars, historyVars, registryVars, taskVars
<1>1. /\ pc \in [Takers -> Pcs] /\ sock \in [Takers -> Fds \cup {NoFd}]
      /\ main \in Fds \cup {NoFd} /\ NoFd \notin Fds /\ open \subseteq Fds
  BY CentralTypeParts, RegistryAssumption DEF ThreadsTypeOK
<1>2. ASSUME NEW t \in Takers, UndoRegistration(t) \/ RemoveWorker(t)
      PROVE  OwnConnectionUntilRemoval'
  BY <1>2 DEF UndoRegistration, RemoveWorker, OwnConnectionUntilRemoval
<1>3. CASE removed
  <2>1. removed'
    BY <1>3, RegistrySteps DEF Removes, Enters
  <2> QED BY <2>1 DEF OwnConnectionUntilRemoval
<1>4. SUFFICES ASSUME ~removed PROVE OwnConnectionUntilRemoval'
  BY <1>3
<1>5. /\ main # NoFd => main \in open
      /\ \A t \in Takers : pc[t] # "none" => sock[t] \in open /\ sock[t] # main
      /\ \A t, u \in Takers : pc[t] # "none" /\ sock[t] = sock[u] => t = u
      /\ \A t \in Takers : pc[t] = "none" => sock[t] = NoFd
  BY <1>4 DEF OwnConnectionUntilRemoval, Served
<1> USE DEF OwnConnectionUntilRemoval
<1>6. CASE Accept
  <2>1. PICK x \in Fds \ open : main' = x /\ open' = open \cup {x}
    BY <1>6 DEF Accept
  <2>2. UNCHANGED <<pc, sock>>
    BY <1>6 DEF Accept
  <2> QED BY <1>1, <1>5, <2>1, <2>2
<1>7. CASE RejectConnection
  <2>1. main # NoFd /\ open' = open \ {main} /\ main' = NoFd /\ UNCHANGED <<pc, sock>>
    BY <1>7 DEF RejectConnection
  <2> QED BY <1>1, <1>5, <2>1
<1>8. CASE CreateSampleTask \/ CheckWorkers \/ CheckTasks \/ Clock \/ UNCHANGED vars
  <2>1. UNCHANGED <<main, pc, sock, open>>
    BY <1>8 DEF CreateSampleTask, CheckWorkers, CheckTasks, Clock, vars
  <2> QED BY <1>5, <2>1
<1>9. ASSUME NEW t \in Takers, StartHandler(t)
      PROVE  OwnConnectionUntilRemoval'
  <2>1. /\ main # NoFd /\ main' = NoFd /\ sock' = [sock EXCEPT ![t] = main]
        /\ pc[t] = "none" /\ \E to \in Pcs : pc' = [pc EXCEPT ![t] = to]
        /\ open' = open
    BY <1>9 DEF StartHandler, Goto, Pcs
  <2>2. /\ sock'[t] = main /\ main \in open
        /\ \A u \in Takers : u # t => sock'[u] = sock[u] /\ pc'[u] = pc[u]
    BY <1>1, <1>5, <2>1
  <2>3. \A u \in Takers : u # t => sock'[u] # main
    BY <1>5, <2>1, <2>2
  <2>4. \A u \in Takers : pc'[u] # "none" => sock'[u] \in open
    BY <1>5, <2>2
  <2>5. ASSUME NEW u \in Takers, NEW v \in Takers, pc'[u] # "none", sock'[u] = sock'[v]
        PROVE  u = v
    BY <1>5, <2>2, <2>3, <2>5
  <2> QED BY <1>1, <2>1, <2>4, <2>5
<1>10. ASSUME NEW t \in Takers, ClientEnds(t) \/ CloseConnection(t)
       PROVE  OwnConnectionUntilRemoval'
  <2>1. /\ pc[t] # "none" /\ pc' = [pc EXCEPT ![t] = "none"]
        /\ sock' = [sock EXCEPT ![t] = NoFd] /\ open' = open \ {sock[t]} /\ main' = main
    BY <1>10 DEF ClientEnds, CloseConnection, Exit, Goto
  <2>2. /\ pc'[t] = "none" /\ sock'[t] = NoFd
        /\ \A u \in Takers : u # t => sock'[u] = sock[u] /\ pc'[u] = pc[u]
    BY <1>1, <2>1 DEF Pcs
  <2>3. \A u \in Takers : u # t => sock[u] # sock[t]
    BY <1>5, <2>1
  <2>4. \A u \in Takers : pc'[u] # "none" => sock'[u] \in open' /\ sock'[u] # main'
    BY <1>5, <2>1, <2>2, <2>3
  <2>5. ASSUME NEW u \in Takers, NEW v \in Takers, pc'[u] # "none", sock'[u] = sock'[v]
        PROVE  u = v
    <3>1. u # t /\ sock[u] \in Fds
      BY <1>1, <1>5, <2>2, <2>5
    <3> QED BY <1>1, <1>5, <2>2, <2>5, <3>1
  <2>6. main' # NoFd => main' \in open'
    BY <1>5, <2>1
  <2> QED BY <2>4, <2>5, <2>6
<1>11. ASSUME NEW t \in Takers,
             \/ RegisterWorker(t) \/ ReplyRegistered(t)
             \/ RecvHeartbeat(t) \/ RecvResult(t) \/ RecvFails(t) \/ GetWorker(t)
             \/ TestIdle(t) \/ PopTask(t) \/ MarkAssigned(t) \/ MarkBusy(t) \/ SendTask(t)
             \/ MarkIdle(t)
      PROVE  OwnConnectionUntilRemoval'
  <2>1. /\ pc[t] # "none" /\ UNCHANGED <<main, sock>>
        /\ \E to \in Pcs \ {"none"} : pc' = [pc EXCEPT ![t] = to]
    BY <1>11, HandlerGoes
  <2>2. open' = open
    BY <1>11 DEF RegisterWorker, ReplyRegistered, RecvHeartbeat, RecvResult, RecvFails,
       GetWorker, TestIdle, PopTask, MarkAssigned, MarkBusy, SendTask, MarkIdle
  <2>3. \A u \in Takers : pc'[u] # "none" => pc[u] # "none"
    BY <1>1, <2>1
  <2> QED BY <1>5, <2>1, <2>2, <2>3
<1> QED BY <1>2, <1>6, <1>7, <1>8, <1>9, <1>10, <1>11 DEF Next, WorkerHandler

\* An entry that is not the removed one is still in the array after the shift.
LEMMA ShiftKeepsOthers ==
  ASSUME RegistryTypeOK, NEW e \in 1 .. count, Shifted(e), NEW i \in 1 .. count, i # e
  PROVE  \E j \in 1 .. count' : workers'[j] = workers[i]
<1>1. /\ count \in Nat /\ RegistryCapacity \in Nat /\ count <= RegistryCapacity
      /\ count' = count - 1
  BY RegistryType DEF Shifted
<1>2. CASE i < e
  <2>1. i \in 1 .. count' /\ i \in Entries
    BY <1>1, <1>2 DEF Entries
  <2>2. workers'[i] = workers[i]
    BY <1>1, <1>2, <2>1 DEF Shifted
  <2> QED BY <2>1, <2>2
<1>3. CASE e < i
  <2>1. i - 1 \in 1 .. count' /\ i - 1 \in Entries /\ e <= i - 1 /\ i - 1 < count
    BY <1>1, <1>3 DEF Entries
  <2>2. workers'[i - 1] = workers[(i - 1) + 1] /\ (i - 1) + 1 = i
    BY <1>1, <2>1 DEF Shifted
  <2> QED BY <2>1, <2>2
<1> QED BY <1>1, <1>2, <1>3

\* Every open descriptor stays with somebody who closes it.
LEMMA ConnectionsKept ==
  ASSUME CentralTypeOK, ThreadPlaces, ConnectionsAccountedFor, [Next]_vars
  PROVE  ConnectionsAccountedFor'
<1> USE DEF threadVars, historyVars, registryVars, taskVars
<1> DEFINE Closers == {"client", "register", "close"}
           Serves(fd) == \E t \in Takers : pc[t] \in Closers /\ sock[t] = fd
           Entered(fd) == \E i \in 1 .. count : workers[i].sockfd = fd
<1>1. /\ pc \in [Takers -> Pcs] /\ sock \in [Takers -> Fds \cup {NoFd}]
      /\ main \in Fds \cup {NoFd} /\ NoFd \notin Fds /\ open \subseteq Fds
      /\ RegistryTypeOK
  BY CentralTypeParts, RegistryAssumption DEF ThreadsTypeOK
<1>2. \A fd \in open : fd = main \/ Serves(fd) \/ Entered(fd)
  BY DEF ConnectionsAccountedFor
<1>3. SUFFICES ASSUME NEW fd \in open'
               PROVE  fd = main' \/ Serves(fd)' \/ Entered(fd)'
  BY DEF ConnectionsAccountedFor
<1>4. ASSUME UNCHANGED <<pc, sock>>, Serves(fd)
      PROVE  Serves(fd)'
  BY <1>4
<1>5. ASSUME SameWorkers, Entered(fd)
      PROVE  Entered(fd)'
  BY <1>1, <1>5, RegistryType DEF SameWorkers
<1>6. ASSUME UNCHANGED <<workers, count>>, Entered(fd)
      PROVE  Entered(fd)'
  BY <1>6
<1> HIDE DEF Serves, Entered
<1>7. CASE Accept \/ RejectConnection
  <2>1. UNCHANGED <<workers, count, pc, sock>>
    BY <1>7 DEF Accept, RejectConnection
  <2>2. fd = main' \/ (fd \in open /\ fd # main)
    BY <1>1, <1>3, <1>7 DEF Accept, RejectConnection
  <2> QED BY <1>2, <1>4, <1>6, <2>1, <2>2
<1>8. CASE CreateSampleTask \/ CheckTasks \/ CheckWorkers \/ Clock \/ UNCHANGED vars
  <2>1. UNCHANGED <<main, pc, sock, open, wid, removed>>
    BY <1>8 DEF CreateSampleTask, CheckWorkers, CheckTasks, Clock, vars
  <2>2. SameWorkers
    BY <1>1, <1>8, WorkersPassFacts
       DEF CreateSampleTask, CheckTasks, CheckWorkers, Clock, vars, SameWorkers, RegistryTypeOK
  <2> QED BY <1>2, <1>3, <1>4, <1>5, <2>1, <2>2
<1>9. ASSUME NEW t \in Takers, StartHandler(t)
      PROVE  fd = main' \/ Serves(fd)' \/ Entered(fd)'
  <2>1. /\ pc[t] = "none" /\ sock' = [sock EXCEPT ![t] = main]
        /\ \E to \in Closers : pc' = [pc EXCEPT ![t] = to]
        /\ open' = open /\ UNCHANGED <<workers, count>>
    BY <1>9 DEF StartHandler, Goto
  <2>2. pc'[t] \in Closers /\ sock'[t] = main
    BY <1>1, <2>1
  <2>3. \A u \in Takers : pc[u] \in Closers => pc'[u] \in Closers /\ sock'[u] = sock[u]
    BY <1>1, <2>1
  <2>4. fd = main => Serves(fd)'
    BY <2>2 DEF Serves
  <2>5. Serves(fd) => Serves(fd)'
    BY <2>3 DEF Serves
  <2> QED BY <1>2, <1>3, <1>6, <2>1, <2>4, <2>5
<1>10. ASSUME NEW t \in Takers, ClientEnds(t) \/ CloseConnection(t)
       PROVE  fd = main' \/ Serves(fd)' \/ Entered(fd)'
  <2>1. /\ pc' = [pc EXCEPT ![t] = "none"] /\ sock' = [sock EXCEPT ![t] = NoFd]
        /\ open' = open \ {sock[t]} /\ main' = main /\ UNCHANGED <<workers, count>>
    BY <1>10 DEF ClientEnds, CloseConnection, Exit, Goto
  <2>2. \A u \in Takers : u # t => pc'[u] = pc[u] /\ sock'[u] = sock[u]
    BY <1>1, <2>1
  <2>3. Serves(fd) => Serves(fd)'
    BY <1>3, <2>1, <2>2 DEF Serves
  <2> QED BY <1>2, <1>3, <1>6, <2>1, <2>3
<1>11. ASSUME NEW t \in Takers, RegisterWorker(t)
       PROVE  fd = main' \/ Serves(fd)' \/ Entered(fd)'
  <2>1. pc[t] = "register" /\ UNCHANGED <<open, main, sock>>
    BY <1>11 DEF RegisterWorker, Goto
  <2>2. sock[t] \in Fds
    BY <2>1 DEF ThreadPlaces
  <2>3. CASE RegistryAdd(sock[t]) /\ pc' = [pc EXCEPT ![t] = "reply"]
    <3>1. Added(count + 1, sock[t]) /\ count \in Nat
      BY <1>1, <2>2, <2>3, AddFacts, RegistryType
    <3>2. count + 1 \in 1 .. count' /\ workers'[count + 1].sockfd = sock[t]
      BY <3>1 DEF Added
    <3>3. fd = sock[t] => Entered(fd)'
      BY <3>2 DEF Entered
    <3>4. \A i \in 1 .. count : i \in 1 .. count' /\ workers'[i] = workers[i]
      BY <1>1, <3>1, RegistryType DEF Added
    <3>5. Entered(fd) => Entered(fd)'
      BY <3>4 DEF Entered
    <3>6. \A u \in Takers : u # t => pc'[u] = pc[u] /\ sock'[u] = sock[u]
      BY <1>1, <2>1, <2>3
    <3>7. Serves(fd) => fd = sock[t] \/ Serves(fd)'
      BY <3>6 DEF Serves
    <3> QED BY <1>2, <1>3, <2>1, <3>3, <3>5, <3>7
  <2>4. CASE pc' = [pc EXCEPT ![t] = "close"] /\ UNCHANGED <<workers, count>>
    <3>1. \A u \in Takers : pc[u] \in Closers => pc'[u] \in Closers /\ sock'[u] = sock[u]
      BY <1>1, <2>1, <2>4
    <3>2. Serves(fd) => Serves(fd)'
      BY <3>1 DEF Serves
    <3> QED BY <1>2, <1>3, <1>6, <2>1, <2>4, <3>2
  <2> QED BY <1>11, <2>3, <2>4 DEF RegisterWorker, Goto
<1>12. ASSUME NEW t \in Takers, UndoRegistration(t) \/ RemoveWorker(t)
       PROVE  fd = main' \/ Serves(fd)' \/ Entered(fd)'
  <2>1. /\ pc[t] \in {"undo", "remove"} /\ RegistryRemove(wid[t])
        /\ open' = open \ ClosedBy(wid[t]) /\ main' = main
        /\ sock' = sock \/ sock' = [sock EXCEPT ![t] = NoFd]
        /\ \E to \in Pcs : pc' = [pc EXCEPT ![t] = to]
    BY <1>12 DEF UndoRegistration, RemoveWorker, Exit, Goto, Pcs
  <2>2. PICK e \in 1 .. count : e \in EntryOf(wid[t]) /\ Shifted(e)
    BY <1>1, <2>1, RemoveFacts
  <2>3. fd \in open /\ fd # workers[e].sockfd
    BY <1>3, <2>1, <2>2 DEF ClosedBy
  <2>4. Entered(fd) => Entered(fd)'
    BY <1>1, <2>2, <2>3, ShiftKeepsOthers DEF Entered
  <2>5. \A u \in Takers : pc[u] \in Closers => pc'[u] = pc[u] /\ sock'[u] = sock[u]
    BY <1>1, <2>1
  <2>6. Serves(fd) => Serves(fd)'
    BY <2>5 DEF Serves
  <2> QED BY <1>2, <2>1, <2>3, <2>4, <2>6
<1>13. ASSUME NEW t \in Takers,
              \/ ReplyRegistered(t) \/ RecvHeartbeat(t) \/ RecvResult(t) \/ RecvFails(t)
              \/ GetWorker(t) \/ TestIdle(t) \/ PopTask(t) \/ MarkAssigned(t)
              \/ MarkBusy(t) \/ SendTask(t) \/ MarkIdle(t)
       PROVE  fd = main' \/ Serves(fd)' \/ Entered(fd)'
  <2>1. UNCHANGED <<main, sock>> /\ \E to \in Pcs : pc' = [pc EXCEPT ![t] = to]
    BY <1>13, HandlerGoes
  <2>2. open' = open
    BY <1>13 DEF ReplyRegistered, RecvHeartbeat, RecvResult, RecvFails,
       GetWorker, TestIdle, PopTask, MarkAssigned, MarkBusy, SendTask, MarkIdle
  <2>3. pc[t] \notin Closers
    BY <1>13 DEF Goto, ReplyRegistered, RecvHeartbeat, RecvResult, RecvFails,
       GetWorker, TestIdle, PopTask, MarkAssigned, MarkBusy, SendTask, MarkIdle
  <2>4. SameWorkers
    <3>1. CASE RecvHeartbeat(t) \/ MarkBusy(t) \/ MarkIdle(t)
      BY <1>1, <3>1, UpdateFacts DEF RecvHeartbeat, MarkBusy, MarkIdle, RegistryStatuses
    <3>2. CASE \/ ReplyRegistered(t) \/ RecvResult(t) \/ RecvFails(t) \/ GetWorker(t)
               \/ TestIdle(t) \/ PopTask(t) \/ MarkAssigned(t) \/ SendTask(t)
      <4>1. UNCHANGED <<workers, count>>
        BY <3>2 DEF ReplyRegistered, RecvResult, RecvFails, GetWorker, TestIdle, PopTask,
           MarkAssigned, SendTask
      <4> QED BY <1>1, <4>1 DEF SameWorkers, RegistryTypeOK
    <3> QED BY <1>13, <3>1, <3>2
  <2>5. \A u \in Takers : pc[u] \in Closers => pc'[u] = pc[u] /\ sock'[u] = sock[u]
    BY <1>1, <2>1, <2>3
  <2>6. Serves(fd) => Serves(fd)'
    BY <2>5 DEF Serves
  <2> QED BY <1>2, <1>3, <1>5, <2>1, <2>2, <2>4, <2>6
<1> QED BY <1>7, <1>8, <1>9, <1>10, <1>11, <1>12, <1>13 DEF Next, WorkerHandler

(***************************************************************************)
(* What the searches find.                                                 *)
(***************************************************************************)
\* A set of numbers that is not empty has a least element.
LEMMA LeastOf ==
  ASSUME NEW S \in SUBSET Nat, S # {}
  PROVE  \E j \in S : \A i \in S : j <= i
<1> DEFINE R == OpToRel(<, Nat)
<1>1. R = {ss \in Nat \X Nat : ss[1] < ss[2]}
  BY DEF OpToRel
<1>2. IsWellFoundedOn(R, Nat)
  BY NatLessThanWellFounded
<1> HIDE DEF R
<1>3. PICK j \in S : \A i \in S : ~(<<i, j>> \in R)
  BY <1>2, WFMin
<1>4. \A i \in S : <<i, j>> \in Nat \X Nat /\ <<i, j>>[1] = i /\ <<i, j>>[2] = j
  OBVIOUS
<1>5. \A i \in S : ~(i < j)
  BY <1>1, <1>3, <1>4
<1> QED BY <1>5

\* Where there are as many entries as holders, a holder's id is in the array,
\* and the search stops at the first entry that has it.
LEMMA HolderFindsEntry ==
  ASSUME CentralTypeOK, Matched, NEW t \in Takers, wid[t] # 0
  PROVE  EntryOf(wid[t]) # {}
<1> DEFINE id == wid[t]
<1>1. /\ RegistryCapacity \in Nat /\ id \in 1 .. RegistryCapacity /\ count \in Nat
  BY CentralTypeParts, RegistryType DEF ThreadsTypeOK
<1> HIDE DEF id
<1>2. t \in Holders(id) /\ IsFiniteSet(Holders(id))
  BY <1>1 DEF Holders, Matched, id
<1>3. Cardinality(Holders(id)) # 0
  BY <1>2, FS_EmptySet
<1>4. EntriesWith(id) # {}
  <2>1. Cardinality(EntriesWith(id)) = Cardinality(Holders(id))
    BY <1>1 DEF Matched
  <2> QED BY <1>3, <2>1, FS_EmptySet
<1>5. EntriesWith(id) \in SUBSET Nat
  BY <1>1 DEF EntriesWith
<1>6. PICK i \in EntriesWith(id) : \A k \in EntriesWith(id) : i <= k
  BY <1>4, <1>5, LeastOf
<1>7. i \in 1 .. count /\ workers[i].worker_id = id
  BY DEF EntriesWith
<1>8. ASSUME NEW j \in 1 .. i - 1, workers[j].worker_id = id
      PROVE  FALSE
  <2>1. j \in 1 .. count /\ ~(i <= j)
    BY <1>1, <1>7
  <2> QED BY <1>6, <1>8, <2>1 DEF EntriesWith
<1> QED BY <1>7, <1>8 DEF EntryOf, id

\* The task in a hand is pending in the table once its creation is over.
LEMMA HandFindsRow ==
  ASSUME TaskInductive, NEW t \in Takers, hand[t] # 0, creating = 0
  PROVE  RowOf(hand[t]) # {}
<1>1. TaskTypeOK /\ TasksSorted /\ PendingInTransit
  BY DEF TaskInductive
<1>2. hand[t] \in PendingIds
  BY <1>1 DEF PendingInTransit, InHand
<1>3. PICK r \in Rows : tasks[r].task_id = hand[t]
  BY <1>2 DEF PendingIds
<1>4. ASSUME NEW q \in 1 .. r - 1
      PROVE  tasks[q].task_id # hand[t]
  <2>1. q \in Rows /\ q < r
    BY <1>1, TaskTableType DEF Rows
  <2>2. tasks[q].task_id < tasks[r].task_id
    BY <1>1, <2>1 DEF TasksSorted
  <2>3. tasks[q].task_id \in Int /\ tasks[r].task_id \in Int
    BY <1>1, <2>1, TaskTableType, TaskAssumption
  <2> QED BY <1>3, <2>2, <2>3
<1> QED BY <1>3, <1>4 DEF RowOf

(***************************************************************************)
(* The theorems.                                                           *)
(***************************************************************************)
\* The inductive invariant of the central server.
CentralInductive ==
  /\ CentralTypeOK /\ TaskInductive /\ ThreadPlaces /\ EntriesWritten /\ Matched
  /\ OwnEntries /\ SentFromTable /\ SendsDiffer /\ Served /\ OwnConnectionUntilRemoval
  /\ ConnectionsAccountedFor

\* The initial state.
LEMMA CentralInit == Init => CentralInductive
<1> SUFFICES ASSUME Init PROVE CentralInductive
  OBVIOUS
<1>1. TaskInductive /\ TaskTypeOK /\ hand = [t \in Takers |-> 0]
  BY TaskInitInductive DEF Init, TaskInit, TaskInductive
<1>2. RegistryTypeOK /\ count = 0
  <2>1. Unset \in Entry
    BY RegistryAssumption DEF Unset, Entry, RegistryStatuses
  <2>2. workers = [i \in Entries |-> Unset] /\ count = 0
    BY DEF Init, RegistryInit
  <2>3. workers \in [Entries -> Entry] /\ 0 \in 0 .. RegistryCapacity
    BY <2>1, <2>2, RegistryAssumption
  <2> QED BY <2>2, <2>3 DEF RegistryTypeOK, Entry
<1>3. ThreadsTypeOK
  <2>1. open \subseteq Fds /\ main \in Fds \cup {NoFd} /\ removed \in BOOLEAN
    BY DEF Init
  <2>2. pc \in [Takers -> Pcs] /\ sock \in [Takers -> Fds \cup {NoFd}]
    BY DEF Init, Pcs
  <2>3. 0 \in 0 .. RegistryCapacity /\ 0 \in 0 .. MaxTaskIds
    BY RegistryAssumption, TaskAssumption
  <2>4. /\ wid \in [Takers -> 0 .. RegistryCapacity]
        /\ ptr \in [Takers -> 0 .. RegistryCapacity]
        /\ task \in [Takers -> 0 .. MaxTaskIds]
    BY <2>3 DEF Init
  <2>5. sent \subseteq [task : 1 .. MaxTaskIds, by : Fds, on : Fds]
    BY DEF Init
  <2> QED BY <2>1, <2>2, <2>4, <2>5 DEF ThreadsTypeOK
<1>4. ThreadPlaces
  BY <1>1 DEF Init, ThreadPlaces, WithId, WithPointer
<1>5. EntriesWritten /\ OwnEntries
  BY <1>2 DEF Init, EntriesWritten, OwnEntries
<1>6. Matched
  <2>1. ASSUME NEW id \in 1 .. RegistryCapacity
        PROVE  Holders(id) = {} /\ EntriesWith(id) = {}
    <3>1. id # 0
      BY RegistryAssumption
    <3>2. \A t \in Takers : wid[t] = 0
      BY DEF Init
    <3> QED BY <1>2, <3>1, <3>2 DEF Holders, EntriesWith
  <2> QED BY <2>1, FS_EmptySet DEF Matched
<1>7. SentFromTable /\ SendsDiffer
  BY DEF Init, SentFromTable, SendsDiffer
<1>8. Served /\ OwnConnectionUntilRemoval /\ ConnectionsAccountedFor
  BY DEF Init, Served, OwnConnectionUntilRemoval, ConnectionsAccountedFor
<1> QED BY <1>1, <1>2, <1>3, <1>4, <1>5, <1>6, <1>7, <1>8, CentralTypeParts
        DEF CentralInductive

\* The inductive invariant holds in every behaviour of the central server.
THEOREM CentralInvariant == Spec => []CentralInductive
<1>1. CentralInductive /\ [Next]_vars => CentralInductive'
  <2> SUFFICES ASSUME CentralInductive, [Next]_vars PROVE CentralInductive'
    OBVIOUS
  <2>1. /\ CentralTypeOK /\ TaskInductive /\ ThreadPlaces /\ EntriesWritten /\ Matched
        /\ OwnEntries /\ SentFromTable /\ SendsDiffer /\ Served
        /\ OwnConnectionUntilRemoval /\ ConnectionsAccountedFor
    BY DEF CentralInductive
  <2>2. TaskInductive' /\ TaskTypeOK'
    BY <2>1, TaskStep, StepUsesTaskManager DEF TaskInductive
  <2>3. ThreadsTypeOK' /\ ThreadPlaces'
    BY <2>1, ThreadsKept DEF ThreadsGood
  <2>4. RegistryTypeOK'
    BY <2>1, RegistrySteps DEF SameWorkers, Enters, Added, Removes, Shifted
  <2>5. CentralTypeOK'
    BY <2>2, <2>3, <2>4, CentralTypeParts, PTL
  <2>6. EntriesWritten' /\ Matched' /\ OwnEntries' /\ SentFromTable' /\ SendsDiffer'
    BY <2>1, EntriesWrittenKept, MatchedKept, OwnEntriesKept, SentKept
  <2>7. Served' /\ OwnConnectionUntilRemoval' /\ ConnectionsAccountedFor'
    BY <2>1, ServedKept, OwnConnectionKept, ConnectionsKept
  <2> QED BY <2>2, <2>3, <2>5, <2>6, <2>7 DEF CentralInductive
<1> QED BY <1>1, CentralInit, PTL DEF Spec

\* There are as many registry entries with an id as handlers that hold it, although
\* ids repeat and a handler may remove the entry of another.
THEOREM EntriesAndHandlers == Spec => []EntriesMatchHandlers
<1>1. CentralInductive => EntriesMatchHandlers
  BY DEF CentralInductive, Matched, EntriesMatchHandlers, EntriesWith, Holders
<1> QED BY <1>1, CentralInvariant, PTL

\* No search of a handler fails: worker_registry_get, _update_status,
\* _update_heartbeat and _remove find an entry with the handler's id, and
\* task_manager_assign_task finds the task, so the code after a failed search is
\* dead.
THEOREM SearchesNeverFail == Spec => []SearchesFind
<1>1. CentralInductive => SearchesFind
  <2> SUFFICES ASSUME CentralInductive, NEW t \in Takers
               PROVE  /\ wid[t] # 0 => EntryOf(wid[t]) # {}
                      /\ pc[t] = "assign" => creating = 0 /\ RowOf(hand[t]) # {}
    BY DEF SearchesFind
  <2>1. CentralTypeOK /\ TaskInductive /\ ThreadPlaces /\ Matched /\ Served
    BY DEF CentralInductive
  <2>2. pc[t] = "assign" => creating = 0 /\ hand[t] # 0
    BY <2>1 DEF Served, ThreadPlaces
  <2> QED BY <2>1, <2>2, HolderFindsEntry, HandFindsRow
<1> QED BY <1>1, CentralInvariant, PTL

\* Type correctness, and no handler reads memory that was never written through
\* the pointer of worker_registry_get.
THEOREM PointersReadable == Spec => []StalePointerReadable
<1>1. CentralInductive => StalePointerReadable
  BY DEF CentralInductive, EntriesWritten, StalePointerReadable
<1> QED BY <1>1, CentralInvariant, PTL

\* No connection leaks: whatever handlers remove, an open descriptor has a thread
\* that will close it or an entry whose removal will.
THEOREM NoConnectionLeaks == Spec => []ConnectionsAccountedFor
<1>1. CentralInductive => ConnectionsAccountedFor
  BY DEF CentralInductive
<1> QED BY <1>1, CentralInvariant, PTL

\* A task is sent at most once.
THEOREM SentOnce == Spec => []TaskSentOnce
<1>1. CentralInductive => TaskSentOnce
  <2> SUFFICES ASSUME CentralInductive PROVE TaskSentOnce
    OBVIOUS
  <2>1. SendsDiffer /\ SentFromTable /\ ThreadsTypeOK
    BY CentralTypeParts DEF CentralInductive
  <2>2. \A s \in sent : s.task \in 1 .. MaxTaskIds
    BY <2>1 DEF ThreadsTypeOK
  <2>3. \A s \in sent : s.task # 0
    BY <2>2, TaskAssumption
  <2> QED BY <2>1, <2>3 DEF SendsDiffer, SentFromTable, TaskSentOnce
<1> QED BY <1>1, CentralInvariant, PTL

\* Until a worker is removed ids are unique, pointers lead to the handler's own
\* worker, tasks go out on the connection of the handler that took them, and no
\* connection is closed under its thread or shared by two.
THEOREM RightWorkerUntilRemoval == Spec => []OwnWorkerUntilRemoval
<1>1. CentralInductive => OwnConnectionUntilRemoval
  BY DEF CentralInductive
<1>2. CentralInductive => OwnWorkerUntilRemoval
  <2> SUFFICES ASSUME CentralInductive, ~removed
               PROVE  /\ \A i, j \in 1 .. count : workers[i].worker_id = workers[j].worker_id => i = j
                      /\ \A t \in Takers : ptr[t] # 0 => workers[ptr[t]].sockfd = sock[t]
                      /\ \A s \in sent : s.on = s.by
    BY <1>1 DEF OwnWorkerUntilRemoval
  <2>1. OwnEntries /\ ThreadPlaces
    BY DEF CentralInductive
  <2>2. \A t \in Takers : ptr[t] # 0 => wid[t] # 0
    BY <2>1 DEF ThreadPlaces, WithId, WithPointer
  <2> QED BY <2>1, <2>2 DEF OwnEntries
<1> QED BY <1>2, CentralInvariant, PTL
=============================================================================
