--------------------------- MODULE WorkerManager ---------------------------
(***************************************************************************)
(* server/worker_manager.c: the table of registered workers of the job     *)
(* server and its statistics.  Each operation is one critical section      *)
(* under g_worker_mutex.  The time since the last heartbeat is counted in  *)
(* ticks up to the first value past the limit.  current_job_id and the     *)
(* per-worker totals are written and never read, so they are left out.     *)
(***************************************************************************)
EXTENDS Integers, FiniteSets

CONSTANTS
  MaxWorkers,        \* g_max_workers
  InactiveTimeout,   \* the 60 seconds of server_main.c, in ticks
  Sockets,           \* descriptors of worker connections
  NoSocket,          \* the socket field of a cleared slot
  MaxWorkerIds       \* bound: how many registrations are explored

ASSUME WorkerAssumption ==
  /\ MaxWorkers \in Nat \ {0}
  /\ InactiveTimeout \in Nat
  /\ MaxWorkerIds \in Nat
  /\ NoSocket \notin Sockets

VARIABLES
  g_workers,         \* the worker array
  g_next_worker_id,
  g_total_workers, g_idle_workers, g_busy_workers

workerGauges == <<g_total_workers, g_idle_workers, g_busy_workers>>
workerVars == <<g_workers, g_next_worker_id, workerGauges>>

WorkerSlots == 1 .. MaxWorkers
WorkerStatuses == {"IDLE", "BUSY", "OFFLINE"}

\* calloc and memset: worker_id 0 marks a free slot, whose status reads IDLE.
FreeWorker ==
  [worker_id |-> 0, socket |-> NoSocket, status |-> "IDLE", silent |-> 0]

Worker == [worker_id : Nat, socket : Sockets \cup {NoSocket},
           status : WorkerStatuses, silent : 0 .. InactiveTimeout + 1]

FreeWorkerSlots == {s \in WorkerSlots : g_workers[s].worker_id = 0}
Occupied == WorkerSlots \ FreeWorkerSlots
WithStatus(st) == {s \in Occupied : g_workers[s].status = st}

\* find_worker_by_id, as the set of slots it could return.
WorkerAt(id) == {s \in WorkerSlots :
                   /\ id > 0 /\ id < g_next_worker_id
                   /\ g_workers[s].worker_id = id}

FirstSlot(S) == CHOOSE s \in S : \A r \in S : s <= r

\* worker_manager_find_by_socket: the first occupied slot with this socket.
FindBySocket(sock) ==
  LET found == {s \in Occupied : g_workers[s].socket = sock}
  IN  IF found = {} THEN -1 ELSE g_workers[FirstSlot(found)].worker_id

One(condition) == IF condition THEN 1 ELSE 0

-----------------------------------------------------------------------------
\* worker_manager_init
WorkerInit ==
  /\ g_workers = [s \in WorkerSlots |-> FreeWorker]
  /\ g_next_worker_id = 1
  /\ g_total_workers = 0 /\ g_idle_workers = 0 /\ g_busy_workers = 0

\* worker_manager_register with a free slot left; otherwise it returns -1.
Register(sock) ==
  /\ g_next_worker_id <= MaxWorkerIds
  /\ FreeWorkerSlots # {}
  /\ g_workers' = [g_workers EXCEPT ![FirstSlot(FreeWorkerSlots)] =
                     [FreeWorker EXCEPT !.worker_id = g_next_worker_id,
                                        !.socket = sock]]
  /\ g_next_worker_id' = g_next_worker_id + 1
  /\ g_total_workers' = g_total_workers + 1
  /\ g_idle_workers' = g_idle_workers + 1
  /\ UNCHANGED g_busy_workers

\* worker_manager_unregister
Unregister(id) ==
  \E s \in WorkerAt(id) :
    /\ g_workers' = [g_workers EXCEPT ![s] = FreeWorker]
    /\ g_total_workers' = g_total_workers - 1
    /\ g_idle_workers' = g_idle_workers - One(g_workers[s].status = "IDLE")
    /\ g_busy_workers' = g_busy_workers - One(g_workers[s].status = "BUSY")
    /\ UNCHANGED g_next_worker_id

\* Mutant: the old status is not taken out of the statistics.
UpdateStatusTwice(id, status) ==
  \E s \in WorkerAt(id) :
    /\ g_workers' = [g_workers EXCEPT ![s].status = status]
    /\ g_idle_workers' = g_idle_workers + One(status = "IDLE")
    /\ g_busy_workers' = g_busy_workers + One(status = "BUSY")
    /\ UNCHANGED <<g_next_worker_id, g_total_workers>>

\* worker_manager_update_status: the statistics follow the status.
UpdateStatus(id, status) ==
  \E s \in WorkerAt(id) :
    LET old == g_workers[s].status
    IN  /\ g_workers' = [g_workers EXCEPT ![s].status = status]
        /\ g_idle_workers' = g_idle_workers - One(old = "IDLE")
                                            + One(status = "IDLE")
        /\ g_busy_workers' = g_busy_workers - One(old = "BUSY")
                                            + One(status = "BUSY")
        /\ UNCHANGED <<g_next_worker_id, g_total_workers>>

\* worker_manager_update_heartbeat: an OFFLINE worker stays OFFLINE.
UpdateHeartbeat(id) ==
  \E s \in WorkerAt(id) :
    /\ g_workers' = [g_workers EXCEPT ![s].silent = 0]
    /\ UNCHANGED <<g_next_worker_id, workerGauges>>

\* worker_manager_assign_job: the statistics assume that the worker was idle.
AssignJob(id) ==
  \E s \in WorkerAt(id) :
    /\ g_workers' = [g_workers EXCEPT ![s].status = "BUSY"]
    /\ g_idle_workers' = g_idle_workers - 1
    /\ g_busy_workers' = g_busy_workers + 1
    /\ UNCHANGED <<g_next_worker_id, g_total_workers>>

\* worker_manager_complete_job and worker_manager_fail_job differ only in the
\* per-worker totals; both assume that the worker was busy.
ReleaseJob(id) ==
  \E s \in WorkerAt(id) :
    /\ g_workers' = [g_workers EXCEPT ![s].status = "IDLE"]
    /\ g_busy_workers' = g_busy_workers - 1
    /\ g_idle_workers' = g_idle_workers + 1
    /\ UNCHANGED <<g_next_worker_id, g_total_workers>>

\* The workers that worker_manager_check_inactive marks as offline.
Silent == {s \in Occupied : g_workers[s].silent > InactiveTimeout}

\* worker_manager_check_inactive: one pass over the table under the lock.
CheckInactive ==
  /\ g_workers' = [s \in WorkerSlots |->
                     IF s \in Silent
                       THEN [g_workers[s] EXCEPT !.status = "OFFLINE"]
                       ELSE g_workers[s]]
  /\ g_idle_workers' = g_idle_workers - Cardinality(Silent \cap WithStatus("IDLE"))
  /\ g_busy_workers' = g_busy_workers - Cardinality(Silent \cap WithStatus("BUSY"))
  /\ UNCHANGED <<g_next_worker_id, g_total_workers>>

\* Time passes for every registered worker.
GrowSilent(w) == [w EXCEPT !.silent = IF @ <= InactiveTimeout THEN @ + 1 ELSE @]

WorkerTick ==
  /\ g_workers' = [s \in WorkerSlots |-> IF s \in Occupied
                                           THEN GrowSilent(g_workers[s])
                                           ELSE g_workers[s]]
  /\ UNCHANGED <<g_next_worker_id, workerGauges>>

-----------------------------------------------------------------------------
\* The worker array and the counters are well typed.
WorkerTypeOK ==
  /\ g_workers \in [WorkerSlots -> Worker]
  /\ g_next_worker_id \in 1 .. MaxWorkerIds + 1
  /\ g_total_workers \in 0 .. MaxWorkers
  /\ g_idle_workers \in Int /\ g_busy_workers \in Int

\* Ids are handed out once: no two registered workers share one, and none is
\* an id still to be given, so a message can never name a later worker.
WorkerIdsUnique ==
  \A s \in Occupied :
    /\ g_workers[s].worker_id < g_next_worker_id
    /\ \A r \in Occupied :
         g_workers[s].worker_id = g_workers[r].worker_id => s = r

\* Whatever messages arrive for workers that went offline in between, idle
\* and busy together never exceed the workers that are idle or busy, so the
\* server never reports capacity it does not have.
LiveGaugeNeverHigh ==
  g_idle_workers + g_busy_workers
    <= Cardinality(WithStatus("IDLE")) + Cardinality(WithStatus("BUSY"))
=============================================================================
