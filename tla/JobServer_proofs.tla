-------------------------- MODULE JobServer_proofs --------------------------
(***************************************************************************)
(* Proofs about the job server: the worker table and its statistics, the   *)
(* use its handler threads make of the job handler, and where orphaned     *)
(* table entries come from, for every number of connections, workers and   *)
(* jobs.                                                                   *)
(***************************************************************************)
EXTENDS JobServer, JobHandler_proofs, WellFoundedInduction

-----------------------------------------------------------------------------
(***************************************************************************)
(* The worker manager.                                                     *)
(***************************************************************************)
\* The calls the server makes under g_worker_mutex, and the clock.
WorkerStep ==
  \/ \E sock \in Sockets : Register(sock)
  \/ \E id : Unregister(id)
  \/ \E id : UpdateStatus(id, "IDLE") \/ UpdateHeartbeat(id)
  \/ \E id : AssignJob(id) \/ ReleaseJob(id)
  \/ CheckInactive \/ WorkerTick \/ UNCHANGED workerVars

\* The entries whose worker is idle or busy.
Live == {s \in Occupied : g_workers[s].status # "OFFLINE"}

\* A registered worker has a connection's descriptor, and the number of
\* workers is the number of entries.
TableInv ==
  /\ WorkerTypeOK /\ WorkerIdsUnique
  /\ \A s \in Occupied : g_workers[s].socket \in Sockets
  /\ g_total_workers = Cardinality(Occupied)

\* The table of workers is a table of records.
LEMMA WorkerFields ==
  ASSUME NEW w
  PROVE  w \in Worker =>
           /\ w.worker_id \in Nat /\ w.socket \in Sockets \cup {NoSocket}
           /\ w.status \in WorkerStatuses /\ w.silent \in 0 .. InactiveTimeout + 1
BY DEF Worker

\* Every set of worker slots is finite.
LEMMA WorkerSlotsFinite ==
  ASSUME NEW T \in SUBSET WorkerSlots
  PROVE  IsFiniteSet(T) /\ Cardinality(T) \in 0 .. MaxWorkers
<1>1. IsFiniteSet(WorkerSlots) /\ Cardinality(WorkerSlots) = MaxWorkers
  BY WorkerAssumption, FS_Interval DEF WorkerSlots
<1>2. IsFiniteSet(T) /\ Cardinality(T) \in Nat /\ Cardinality(T) <= MaxWorkers
  BY <1>1, FS_Subset, FS_CardinalityType
<1> QED BY <1>2, WorkerAssumption

\* A scan of the table that meets an entry meets a first one.
LEMMA FirstSlotIn ==
  ASSUME NEW S \in SUBSET WorkerSlots, S # {}
  PROVE  FirstSlot(S) \in S
<1>1. IsWellFoundedOn(OpToRel(<, Nat), Nat)
  BY NatLessThanWellFounded, Zenon
<1>2. S \subseteq Nat
  BY DEF WorkerSlots
<1>3. PICK s \in S : \A r \in S : ~ (<<r, s>> \in OpToRel(<, Nat))
  BY <1>1, <1>2, WFMin, Zenon
<1>4. \A r \in S : ~(r < s)
  BY <1>2, <1>3 DEF OpToRel
<1>5. \A r \in S : s <= r
  BY <1>2, <1>4
<1> QED BY <1>5 DEF FirstSlot

\* Disjoint sets are counted apart.
LEMMA DisjointCount ==
  ASSUME NEW S, NEW T, IsFiniteSet(S), IsFiniteSet(T), S \cap T = {}
  PROVE  Cardinality(S \cup T) = Cardinality(S) + Cardinality(T)
<1>1. Cardinality(S \cup T) = Cardinality(S) + Cardinality(T) - Cardinality(S \cap T)
  BY FS_Union
<1>2. Cardinality(S \cap T) = 0 /\ Cardinality(S) \in Nat /\ Cardinality(T) \in Nat
  BY FS_EmptySet, FS_CardinalityType
<1> QED BY <1>1, <1>2

\* The live workers can be counted, before and after a step.
LEMMA LiveFinite ==
  /\ IsFiniteSet(Live) /\ Cardinality(Live) \in Nat
  /\ IsFiniteSet(Live') /\ Cardinality(Live') \in Nat
<1>1. Live \in SUBSET WorkerSlots /\ Live' \in SUBSET WorkerSlots
  BY DEF Live, Occupied
<1> QED BY <1>1, WorkerSlotsFinite, WorkerAssumption

\* An id that is found names a registered worker.
LEMMA AtOccupied ==
  ASSUME NEW id, NEW s \in WorkerAt(id)
  PROVE  s \in Occupied /\ g_workers[s].worker_id = id
<1>1. s \in WorkerSlots /\ id > 0 /\ g_workers[s].worker_id = id
  BY DEF WorkerAt
<1> QED BY <1>1 DEF Occupied, FreeWorkerSlots

\* Idle and busy workers are the live ones.
LEMMA LiveCount ==
  WorkerTypeOK => Cardinality(WithStatus("IDLE")) + Cardinality(WithStatus("BUSY"))
                    = Cardinality(Live)
<1> SUFFICES ASSUME WorkerTypeOK
             PROVE  Cardinality(WithStatus("IDLE")) + Cardinality(WithStatus("BUSY"))
                      = Cardinality(Live)
  OBVIOUS
<1>1. Live = WithStatus("IDLE") \cup WithStatus("BUSY")
  <2>1. \A s \in Occupied : g_workers[s].status \in WorkerStatuses
    BY WorkerFields DEF WorkerTypeOK, Occupied
  <2> QED BY <2>1 DEF Live, WithStatus, WorkerStatuses
<1>2. WithStatus("IDLE") \cap WithStatus("BUSY") = {}
  BY DEF WithStatus
<1>3. /\ IsFiniteSet(WithStatus("IDLE")) /\ IsFiniteSet(WithStatus("BUSY"))
      /\ Cardinality(WithStatus("IDLE")) \in Nat /\ Cardinality(WithStatus("BUSY")) \in Nat
  <2>1. WithStatus("IDLE") \in SUBSET WorkerSlots /\ WithStatus("BUSY") \in SUBSET WorkerSlots
    BY DEF WithStatus, Occupied
  <2> QED BY <2>1, WorkerSlotsFinite, WorkerAssumption
<1> QED BY <1>1, <1>2, <1>3, FS_Union, FS_EmptySet

\* What happens to the table in the steps that touch one entry.
Touches(s) ==
  /\ s \in WorkerSlots /\ g_workers' \in [WorkerSlots -> Worker]
  /\ \A r \in WorkerSlots : r # s => g_workers'[r] = g_workers[r]

\* A worker enters the table in a free entry ...
EntersAt(s, sock) ==
  /\ Touches(s) /\ g_workers[s].worker_id = 0
  /\ g_workers'[s].worker_id = g_next_worker_id
  /\ g_workers'[s].socket = sock /\ g_workers'[s].status = "IDLE"
  /\ g_next_worker_id' = g_next_worker_id + 1 /\ g_next_worker_id <= MaxWorkerIds
  /\ g_total_workers' = g_total_workers + 1
  /\ g_idle_workers' = g_idle_workers + 1 /\ g_busy_workers' = g_busy_workers

\* ... leaves it ...
LeavesAt(s) ==
  /\ Touches(s) /\ g_workers[s].worker_id # 0 /\ g_workers'[s].worker_id = 0
  /\ g_next_worker_id' = g_next_worker_id
  /\ g_total_workers' = g_total_workers - 1
  /\ g_idle_workers' = g_idle_workers - One(g_workers[s].status = "IDLE")
  /\ g_busy_workers' = g_busy_workers - One(g_workers[s].status = "BUSY")

\* ... or all stay, under the same ids and on the same connections.
Stay ==
  /\ g_workers' \in [WorkerSlots -> Worker]
  /\ \A s \in WorkerSlots : /\ g_workers'[s].worker_id = g_workers[s].worker_id
                            /\ g_workers'[s].socket = g_workers[s].socket
  /\ g_next_worker_id' = g_next_worker_id
  /\ g_total_workers' = g_total_workers
  /\ g_idle_workers' \in Int /\ g_busy_workers' \in Int

\* A new status or a reset clock leaves a worker record and its identity.
LEMMA Restated ==
  ASSUME NEW w \in Worker, NEW st \in WorkerStatuses
  PROVE  /\ [w EXCEPT !.status = st] \in Worker
         /\ [w EXCEPT !.status = st].worker_id = w.worker_id
         /\ [w EXCEPT !.status = st].socket = w.socket
         /\ [w EXCEPT !.status = st].status = st
         /\ [w EXCEPT !.silent = 0] \in Worker
         /\ [w EXCEPT !.silent = 0].worker_id = w.worker_id
         /\ [w EXCEPT !.silent = 0].socket = w.socket
         /\ [w EXCEPT !.silent = 0].status = w.status
BY WorkerAssumption DEF Worker

\* The clock does too.
LEMMA GrownSilent ==
  ASSUME NEW w \in Worker
  PROVE  /\ GrowSilent(w) \in Worker
         /\ GrowSilent(w).worker_id = w.worker_id
         /\ GrowSilent(w).socket = w.socket
         /\ GrowSilent(w).status = w.status
<1> DEFINE n == IF w.silent <= InactiveTimeout THEN w.silent + 1 ELSE w.silent
<1>1. n \in 0 .. InactiveTimeout + 1
  BY WorkerAssumption, WorkerFields
<1>2. GrowSilent(w) = [w EXCEPT !.silent = n]
  BY DEF GrowSilent
<1> HIDE DEF n
<1> QED BY <1>1, <1>2 DEF Worker

\* An entry of the table that gets a new record.
LEMMA EntryUpdate ==
  ASSUME g_workers \in [WorkerSlots -> Worker], NEW s \in WorkerSlots, NEW w \in Worker,
         g_workers' = [g_workers EXCEPT ![s] = w]
  PROVE  Touches(s) /\ g_workers'[s] = w
BY DEF Touches

\* worker_manager_register.
LEMMA RegisterEnters ==
  ASSUME TableInv, NEW sock \in Sockets, Register(sock)
  PROVE  EntersAt(FirstSlot(FreeWorkerSlots), sock)
<1> DEFINE s == FirstSlot(FreeWorkerSlots)
           m == [FreeWorker EXCEPT !.worker_id = g_next_worker_id]
           w == [m EXCEPT !.socket = sock]
<1>1. s \in WorkerSlots /\ g_workers[s].worker_id = 0
  <2>1. FreeWorkerSlots \in SUBSET WorkerSlots /\ FreeWorkerSlots # {}
    BY DEF Register, FreeWorkerSlots
  <2>2. s \in FreeWorkerSlots
    BY <2>1, FirstSlotIn
  <2> QED BY <2>2 DEF FreeWorkerSlots
<1>2. /\ m \in Worker /\ m.worker_id = g_next_worker_id /\ m.status = "IDLE"
  <2>1. FreeWorker \in Worker /\ FreeWorker.status = "IDLE"
    BY WorkerAssumption DEF FreeWorker, Worker, WorkerStatuses
  <2>2. g_next_worker_id \in Nat
    BY WorkerAssumption DEF TableInv, WorkerTypeOK
  <2> HIDE DEF FreeWorker
  <2> QED BY <2>1, <2>2 DEF Worker
<1>3. /\ w \in Worker /\ w.worker_id = g_next_worker_id /\ w.socket = sock
      /\ w.status = "IDLE"
  <2> HIDE DEF m
  <2> QED BY <1>2 DEF Worker
<1>4. g_workers' = [g_workers EXCEPT ![s] = w]
  BY DEF Register
<1> HIDE DEF s, w
<1>5. Touches(s) /\ g_workers'[s] = w
  BY <1>1, <1>3, <1>4, EntryUpdate DEF TableInv, WorkerTypeOK
<1>6. EntersAt(s, sock)
  BY <1>1, <1>3, <1>5 DEF EntersAt, Register
<1> QED BY <1>6 DEF s

\* worker_manager_unregister.
LEMMA UnregisterLeaves ==
  ASSUME TableInv, NEW id, Unregister(id)
  PROVE  \E s \in WorkerAt(id) : LeavesAt(s)
<1>1. PICK s \in WorkerAt(id) :
        /\ g_workers' = [g_workers EXCEPT ![s] = FreeWorker]
        /\ g_total_workers' = g_total_workers - 1
        /\ g_idle_workers' = g_idle_workers - One(g_workers[s].status = "IDLE")
        /\ g_busy_workers' = g_busy_workers - One(g_workers[s].status = "BUSY")
        /\ g_next_worker_id' = g_next_worker_id
  BY DEF Unregister
<1>2. s \in WorkerSlots /\ g_workers[s].worker_id # 0
  BY AtOccupied DEF Occupied, FreeWorkerSlots
<1>3. FreeWorker \in Worker /\ FreeWorker.worker_id = 0
  BY WorkerAssumption DEF FreeWorker, Worker, WorkerStatuses
<1>4. Touches(s) /\ g_workers'[s] = FreeWorker
  BY <1>1, <1>2, <1>3, EntryUpdate DEF TableInv, WorkerTypeOK
<1>5. LeavesAt(s)
  BY <1>1, <1>2, <1>3, <1>4 DEF LeavesAt
<1> QED BY <1>5

\* How the live workers and the two statistics move together when no worker
\* comes or goes.
Follows ==
  g_idle_workers' + g_busy_workers' - (g_idle_workers + g_busy_workers)
    <= Cardinality(Live') - Cardinality(Live)

\* A status written to one entry.
LEMMA StatusWritten ==
  ASSUME TableInv, NEW s \in Occupied,
         NEW st \in WorkerStatuses \ {"OFFLINE"},
         g_workers' = [g_workers EXCEPT ![s].status = st]
  PROVE  /\ g_workers' \in [WorkerSlots -> Worker]
         /\ \A r \in WorkerSlots : /\ g_workers'[r].worker_id = g_workers[r].worker_id
                                   /\ g_workers'[r].socket = g_workers[r].socket
         /\ Cardinality(Live') = Cardinality(Live) + One(g_workers[s].status = "OFFLINE")
         /\ g_workers[s].status \in WorkerStatuses
<1> DEFINE w == [g_workers[s] EXCEPT !.status = st]
<1>1. s \in WorkerSlots /\ g_workers \in [WorkerSlots -> Worker] /\ g_workers[s] \in Worker
  BY DEF Occupied, TableInv, WorkerTypeOK
<1>2. /\ w \in Worker /\ w.worker_id = g_workers[s].worker_id
      /\ w.socket = g_workers[s].socket /\ w.status = st
  BY <1>1, Restated
<1>3. g_workers' = [g_workers EXCEPT ![s] = w]
  OBVIOUS
<1> HIDE DEF w
<1>4. Touches(s) /\ g_workers'[s] = w
  BY <1>1, <1>2, <1>3, EntryUpdate
<1>5. \A r \in WorkerSlots : /\ g_workers'[r].worker_id = g_workers[r].worker_id
                             /\ g_workers'[r].socket = g_workers[r].socket
                             /\ r # s => g_workers'[r].status = g_workers[r].status
  BY <1>2, <1>4 DEF Touches
<1>6. Cardinality(Live') = Cardinality(Live) + One(g_workers[s].status = "OFFLINE")
  <2>1. Live' = Live \cup {s}
    BY <1>1, <1>2, <1>4, <1>5 DEF Live, Occupied, FreeWorkerSlots
  <2>2. IsFiniteSet(Live) /\ Cardinality(Live) \in Nat
    BY LiveFinite
  <2>3. s \in Live <=> g_workers[s].status # "OFFLINE"
    BY DEF Live
  <2>4. Cardinality(Live') = IF s \in Live THEN Cardinality(Live) ELSE Cardinality(Live) + 1
    BY <2>1, <2>2, FS_AddElement
  <2> QED BY <2>2, <2>3, <2>4 DEF One
<1> QED BY <1>1, <1>4, <1>5, <1>6, WorkerFields DEF Touches

\* worker_manager_update_status, worker_manager_assign_job and the release of
\* a worker write a status and move the two statistics in the same way.
LEMMA StatusStays ==
  ASSUME TableInv, NEW id,
         UpdateStatus(id, "IDLE") \/ AssignJob(id) \/ ReleaseJob(id)
  PROVE  Stay /\ Follows
<1>1. /\ g_idle_workers \in Int /\ g_busy_workers \in Int
      /\ Cardinality(Live) \in Nat /\ Cardinality(Live') \in Nat
  BY LiveFinite DEF TableInv, WorkerTypeOK
<1>2. CASE UpdateStatus(id, "IDLE")
  <2>1. PICK s \in WorkerAt(id) :
          /\ g_workers' = [g_workers EXCEPT ![s].status = "IDLE"]
          /\ g_idle_workers' = g_idle_workers - One(g_workers[s].status = "IDLE")
                                              + One("IDLE" = "IDLE")
          /\ g_busy_workers' = g_busy_workers - One(g_workers[s].status = "BUSY")
                                              + One("IDLE" = "BUSY")
          /\ g_next_worker_id' = g_next_worker_id /\ g_total_workers' = g_total_workers
    BY <1>2 DEF UpdateStatus
  <2>2. /\ g_workers' \in [WorkerSlots -> Worker]
        /\ \A r \in WorkerSlots : /\ g_workers'[r].worker_id = g_workers[r].worker_id
                                  /\ g_workers'[r].socket = g_workers[r].socket
        /\ Cardinality(Live') = Cardinality(Live) + One(g_workers[s].status = "OFFLINE")
        /\ g_workers[s].status \in WorkerStatuses
    BY <2>1, AtOccupied, StatusWritten DEF WorkerStatuses
  <2>3. /\ g_idle_workers' \in Int /\ g_busy_workers' \in Int
        /\ g_idle_workers' + g_busy_workers'
             = g_idle_workers + g_busy_workers + One(g_workers[s].status = "OFFLINE")
    BY <1>1, <2>1, <2>2 DEF WorkerStatuses, One
  <2>4. One(g_workers[s].status = "OFFLINE") \in Nat
    BY DEF One
  <2>5. Follows
    BY <1>1, <2>2, <2>3, <2>4 DEF Follows
  <2> QED BY <2>1, <2>2, <2>3, <2>5 DEF Stay
<1>3. CASE AssignJob(id) \/ ReleaseJob(id)
  <2>1. PICK s \in WorkerAt(id), st \in {"IDLE", "BUSY"} :
          /\ g_workers' = [g_workers EXCEPT ![s].status = st]
          /\ \/ /\ g_idle_workers' = g_idle_workers - 1
                /\ g_busy_workers' = g_busy_workers + 1
             \/ /\ g_idle_workers' = g_idle_workers + 1
                /\ g_busy_workers' = g_busy_workers - 1
          /\ g_next_worker_id' = g_next_worker_id /\ g_total_workers' = g_total_workers
    BY <1>3 DEF AssignJob, ReleaseJob
  <2>2. /\ g_workers' \in [WorkerSlots -> Worker]
        /\ \A r \in WorkerSlots : /\ g_workers'[r].worker_id = g_workers[r].worker_id
                                  /\ g_workers'[r].socket = g_workers[r].socket
        /\ Cardinality(Live') = Cardinality(Live) + One(g_workers[s].status = "OFFLINE")
    BY <2>1, AtOccupied, StatusWritten DEF WorkerStatuses
  <2>3. /\ g_idle_workers' \in Int /\ g_busy_workers' \in Int
        /\ g_idle_workers' + g_busy_workers' = g_idle_workers + g_busy_workers
    BY <1>1, <2>1
  <2>4. One(g_workers[s].status = "OFFLINE") \in Nat
    BY DEF One
  <2>5. Follows
    BY <1>1, <2>2, <2>3, <2>4 DEF Follows
  <2> QED BY <2>1, <2>2, <2>3, <2>5 DEF Stay
<1> QED BY <1>2, <1>3

\* A heartbeat and the clock change nobody's status.
LEMMA ClockStays ==
  ASSUME TableInv,
         (\E id : UpdateHeartbeat(id)) \/ WorkerTick \/ UNCHANGED workerVars
  PROVE  Stay /\ Follows
<1>1. /\ g_idle_workers \in Int /\ g_busy_workers \in Int
      /\ Cardinality(Live) \in Nat /\ g_workers \in [WorkerSlots -> Worker]
  BY LiveFinite DEF TableInv, WorkerTypeOK
<1>2. /\ g_next_worker_id' = g_next_worker_id /\ g_total_workers' = g_total_workers
      /\ g_idle_workers' = g_idle_workers /\ g_busy_workers' = g_busy_workers
  BY DEF UpdateHeartbeat, WorkerTick, workerVars, workerGauges
<1>3. /\ g_workers' \in [WorkerSlots -> Worker]
      /\ \A r \in WorkerSlots : /\ g_workers'[r].worker_id = g_workers[r].worker_id
                                /\ g_workers'[r].socket = g_workers[r].socket
                                /\ g_workers'[r].status = g_workers[r].status
  <2>1. ASSUME NEW id, UpdateHeartbeat(id)
        PROVE  <1>3!1 /\ <1>3!2
    <3>1. PICK s \in WorkerAt(id) : g_workers' = [g_workers EXCEPT ![s].silent = 0]
      BY <2>1 DEF UpdateHeartbeat
    <3>2. s \in WorkerSlots /\ g_workers[s] \in Worker
      BY <1>1 DEF WorkerAt
    <3> DEFINE w == [g_workers[s] EXCEPT !.silent = 0]
    <3>3. /\ w \in Worker /\ w.worker_id = g_workers[s].worker_id
          /\ w.socket = g_workers[s].socket /\ w.status = g_workers[s].status
      BY <3>2, Restated DEF WorkerStatuses
    <3>4. g_workers' = [g_workers EXCEPT ![s] = w]
      BY <3>1
    <3> HIDE DEF w
    <3> QED BY <1>1, <3>2, <3>3, <3>4
  <2>2. ASSUME WorkerTick
        PROVE  <1>3!1 /\ <1>3!2
    BY <1>1, <2>2, GrownSilent DEF WorkerTick
  <2>3. ASSUME UNCHANGED workerVars
        PROVE  <1>3!1 /\ <1>3!2
    BY <1>1, <2>3 DEF workerVars
  <2> QED BY <2>1, <2>2, <2>3
<1>4. Live' = Live
  BY <1>3 DEF Live, Occupied, FreeWorkerSlots
<1>5. Follows
  BY <1>1, <1>2, <1>4 DEF Follows
<1> QED BY <1>1, <1>2, <1>3, <1>5 DEF Stay

\* worker_manager_check_inactive takes the silent workers out of both.
LEMMA InactiveStays ==
  ASSUME TableInv, CheckInactive
  PROVE  Stay /\ Follows
<1>1. /\ g_idle_workers \in Int /\ g_busy_workers \in Int
      /\ g_workers \in [WorkerSlots -> Worker]
  BY DEF TableInv, WorkerTypeOK
<1>2. /\ g_workers' \in [WorkerSlots -> Worker]
      /\ \A s \in WorkerSlots :
           /\ g_workers'[s].worker_id = g_workers[s].worker_id
           /\ g_workers'[s].socket = g_workers[s].socket
           /\ g_workers'[s].status = IF s \in Silent THEN "OFFLINE" ELSE g_workers[s].status
  <2>1. \A s \in WorkerSlots :
          g_workers'[s] = IF s \in Silent THEN [g_workers[s] EXCEPT !.status = "OFFLINE"]
                                          ELSE g_workers[s]
    BY DEF CheckInactive
  <2>2. ASSUME NEW s \in WorkerSlots
        PROVE  /\ g_workers'[s] \in Worker
               /\ g_workers'[s].worker_id = g_workers[s].worker_id
               /\ g_workers'[s].socket = g_workers[s].socket
               /\ g_workers'[s].status = IF s \in Silent THEN "OFFLINE"
                                                         ELSE g_workers[s].status
    <3>1. g_workers[s] \in Worker /\ "OFFLINE" \in WorkerStatuses
      BY <1>1 DEF WorkerStatuses
    <3> DEFINE w == [g_workers[s] EXCEPT !.status = "OFFLINE"]
    <3>2. /\ w \in Worker /\ w.worker_id = g_workers[s].worker_id
          /\ w.socket = g_workers[s].socket /\ w.status = "OFFLINE"
      BY <3>1, Restated
    <3>3. g_workers'[s] = IF s \in Silent THEN w ELSE g_workers[s]
      BY <2>1
    <3> HIDE DEF w
    <3> QED BY <3>1, <3>2, <3>3
  <2>3. DOMAIN g_workers' = WorkerSlots /\ g_workers' = [s \in WorkerSlots |-> g_workers'[s]]
    BY DEF CheckInactive
  <2> QED BY <2>2, <2>3
<1> DEFINE I == Silent \cap WithStatus("IDLE")
           B == Silent \cap WithStatus("BUSY")
<1>3. /\ IsFiniteSet(I) /\ IsFiniteSet(B) /\ IsFiniteSet(I \cup B)
      /\ Cardinality(I) \in Nat /\ Cardinality(B) \in Nat
  <2>1. I \in SUBSET WorkerSlots /\ B \in SUBSET WorkerSlots /\ I \cup B \in SUBSET WorkerSlots
    BY DEF WithStatus, Occupied
  <2> QED BY <2>1, WorkerSlotsFinite, WorkerAssumption
<1>4. I \cap B = {}
  BY DEF WithStatus
<1>5. Cardinality(I \cup B) = Cardinality(I) + Cardinality(B)
  BY <1>3, <1>4, DisjointCount
<1>6. Live' = Live \ (I \cup B) /\ I \cup B \in SUBSET Live
  <2>1. \A s \in Occupied : g_workers[s].status \in WorkerStatuses
    BY <1>1, WorkerFields DEF Occupied
  <2>2. I \cup B = Silent \cap Live
    BY <2>1 DEF WithStatus, Live, WorkerStatuses, Silent
  <2>3. Live' = Live \ Silent
    BY <1>2 DEF Live, Occupied, FreeWorkerSlots
  <2> QED BY <2>2, <2>3
<1>7. Cardinality(Live) = Cardinality(Live') + Cardinality(I \cup B)
  <2>1. Live = Live' \cup (I \cup B) /\ Live' \cap (I \cup B) = {}
    BY <1>6
  <2>2. Cardinality(Live' \cup (I \cup B)) = Cardinality(Live') + Cardinality(I \cup B)
    BY <1>3, <2>1, LiveFinite, DisjointCount
  <2> QED BY <2>1, <2>2
<1>8. /\ g_idle_workers' = g_idle_workers - Cardinality(I)
      /\ g_busy_workers' = g_busy_workers - Cardinality(B)
      /\ g_next_worker_id' = g_next_worker_id /\ g_total_workers' = g_total_workers
  BY DEF CheckInactive
<1> HIDE DEF I, B
<1>9. Follows
  BY <1>1, <1>3, <1>5, <1>7, <1>8, LiveFinite DEF Follows
<1> QED BY <1>1, <1>2, <1>3, <1>8, <1>9 DEF Stay

\* Every step of the worker manager lets a worker in, lets one out or keeps all.
LEMMA WorkerKinds ==
  ASSUME TableInv, WorkerStep
  PROVE  \/ \E s \in WorkerSlots, sock \in Sockets : EntersAt(s, sock)
         \/ \E s \in WorkerSlots : LeavesAt(s)
         \/ Stay /\ Follows
<1>1. ASSUME NEW sock \in Sockets, Register(sock)
      PROVE  \E s \in WorkerSlots : EntersAt(s, sock)
  BY <1>1, RegisterEnters DEF EntersAt, Touches
<1>2. ASSUME NEW id, Unregister(id)
      PROVE  \E s \in WorkerSlots : LeavesAt(s)
  BY <1>2, UnregisterLeaves DEF LeavesAt, Touches
<1> QED BY <1>1, <1>2, StatusStays, ClockStays, InactiveStays DEF WorkerStep

\* The table stays well formed.
LEMMA TableKept ==
  ASSUME TableInv, WorkerStep
  PROVE  TableInv'
<1>1. /\ g_workers \in [WorkerSlots -> Worker]
      /\ g_next_worker_id \in 1 .. MaxWorkerIds + 1
      /\ g_idle_workers \in Int /\ g_busy_workers \in Int
      /\ g_total_workers = Cardinality(Occupied)
      /\ MaxWorkerIds \in Nat
  BY WorkerAssumption DEF TableInv, WorkerTypeOK
<1>2. /\ IsFiniteSet(Occupied) /\ Cardinality(Occupied) \in Nat
      /\ Cardinality(Occupied') \in 0 .. MaxWorkers
  <2>1. Occupied \in SUBSET WorkerSlots /\ Occupied' \in SUBSET WorkerSlots
    BY DEF Occupied
  <2> QED BY <2>1, WorkerSlotsFinite, WorkerAssumption
<1>3. \A s \in WorkerSlots : s \in Occupied <=> g_workers[s].worker_id # 0
  BY DEF Occupied, FreeWorkerSlots
<1>4. \A s \in WorkerSlots : s \in Occupied' <=> g_workers'[s].worker_id # 0
  BY DEF Occupied, FreeWorkerSlots
<1>5. Occupied \subseteq WorkerSlots /\ Occupied' \subseteq WorkerSlots
  BY DEF Occupied
<1>6. ASSUME NEW x \in WorkerSlots, NEW sock \in Sockets, EntersAt(x, sock)
      PROVE  TableInv'
  <2>1. /\ x \notin Occupied /\ Occupied' = Occupied \cup {x}
    BY <1>1, <1>3, <1>4, <1>5, <1>6 DEF EntersAt, Touches
  <2>2. g_total_workers' = Cardinality(Occupied')
    BY <1>1, <1>2, <1>6, <2>1, FS_AddElement DEF EntersAt
  <2>3. g_next_worker_id' \in 1 .. MaxWorkerIds + 1
    BY <1>1, <1>6 DEF EntersAt
  <2>4. WorkerTypeOK'
    BY <1>1, <1>2, <1>6, <2>2, <2>3 DEF WorkerTypeOK, EntersAt, Touches
  <2>5. \A s \in Occupied' : g_workers'[s].socket \in Sockets
    BY <1>5, <1>6, <2>1 DEF TableInv, EntersAt, Touches
  <2>6. \A s \in Occupied : /\ g_workers'[s].worker_id = g_workers[s].worker_id
                            /\ g_workers[s].worker_id < g_next_worker_id
                            /\ g_workers[s].worker_id \in Nat
    BY <1>1, <1>5, <1>6, <2>1, WorkerFields DEF TableInv, WorkerIdsUnique, EntersAt, Touches
  <2>7. WorkerIdsUnique'
    <3>1. /\ g_workers'[x].worker_id = g_next_worker_id
          /\ g_next_worker_id' = g_next_worker_id + 1
      BY <1>6 DEF EntersAt
    <3>2. \A s, r \in Occupied : g_workers[s].worker_id = g_workers[r].worker_id => s = r
      BY DEF TableInv, WorkerIdsUnique
    <3> QED BY <1>1, <2>1, <2>6, <3>1, <3>2 DEF WorkerIdsUnique
  <2> QED BY <2>2, <2>4, <2>5, <2>7 DEF TableInv
<1>7. ASSUME NEW x \in WorkerSlots, LeavesAt(x)
      PROVE  TableInv'
  <2>1. /\ x \in Occupied /\ Occupied' = Occupied \ {x}
    BY <1>1, <1>3, <1>4, <1>5, <1>7 DEF LeavesAt, Touches
  <2>2. g_total_workers' = Cardinality(Occupied')
    BY <1>1, <1>2, <1>7, <2>1, FS_RemoveElement DEF LeavesAt
  <2>3. g_idle_workers' \in Int /\ g_busy_workers' \in Int
    <3>1. \A c : One(c) \in Int
      BY DEF One
    <3> QED BY <1>1, <1>7, <3>1 DEF LeavesAt
  <2>4. WorkerTypeOK'
    BY <1>1, <1>2, <1>7, <2>2, <2>3 DEF WorkerTypeOK, LeavesAt, Touches
  <2>5. \A s \in Occupied' : g_workers'[s] = g_workers[s] /\ s \in Occupied
    BY <1>5, <1>7, <2>1 DEF LeavesAt, Touches
  <2>6. g_next_worker_id' = g_next_worker_id
    BY <1>7 DEF LeavesAt
  <2> QED BY <2>2, <2>4, <2>5, <2>6 DEF TableInv, WorkerIdsUnique
<1>8. ASSUME Stay
      PROVE  TableInv'
  <2>1. Occupied' = Occupied
    BY <1>3, <1>4, <1>5, <1>8 DEF Stay
  <2>2. g_total_workers' = Cardinality(Occupied')
    BY <1>1, <1>8, <2>1 DEF Stay
  <2>3. WorkerTypeOK'
    BY <1>1, <1>2, <1>8, <2>2 DEF WorkerTypeOK, Stay
  <2> QED BY <1>5, <1>8, <2>1, <2>2, <2>3 DEF TableInv, WorkerIdsUnique, Stay
<1> QED BY <1>6, <1>7, <1>8, WorkerKinds

\* The two statistics stay below the number of live workers.
LEMMA GaugeKept ==
  ASSUME TableInv, LiveGaugeNeverHigh, WorkerStep
  PROVE  LiveGaugeNeverHigh'
<1>1. /\ g_idle_workers \in Int /\ g_busy_workers \in Int
      /\ g_idle_workers + g_busy_workers <= Cardinality(Live)
      /\ Live \subseteq WorkerSlots /\ Live' \subseteq WorkerSlots
  BY LiveCount DEF TableInv, WorkerTypeOK, LiveGaugeNeverHigh, Live, Occupied
<1>2. \A s \in WorkerSlots :
        s \in Live <=> g_workers[s].worker_id # 0 /\ g_workers[s].status # "OFFLINE"
  BY DEF Live, Occupied, FreeWorkerSlots
<1>3. \A s \in WorkerSlots :
        s \in Live' <=> g_workers'[s].worker_id # 0 /\ g_workers'[s].status # "OFFLINE"
  BY DEF Live, Occupied, FreeWorkerSlots
<1>4. g_idle_workers' + g_busy_workers' <= Cardinality(Live')
  <2>1. ASSUME NEW x \in WorkerSlots, NEW sock \in Sockets, EntersAt(x, sock)
        PROVE  <1>4
    <3>1. g_next_worker_id # 0
      BY WorkerAssumption DEF TableInv, WorkerTypeOK
    <3>2. x \notin Live /\ Live' = Live \cup {x}
      BY <1>1, <1>2, <1>3, <2>1, <3>1 DEF EntersAt, Touches
    <3>3. Cardinality(Live') = Cardinality(Live) + 1
      BY <3>2, LiveFinite, FS_AddElement
    <3> QED BY <1>1, <2>1, <3>3, LiveFinite DEF EntersAt
  <2>2. ASSUME NEW x \in WorkerSlots, LeavesAt(x)
        PROVE  <1>4
    <3>1. Live' = Live \ {x} /\ (x \in Live <=> g_workers[x].status # "OFFLINE")
      BY <1>1, <1>2, <1>3, <2>2 DEF LeavesAt, Touches
    <3>2. Cardinality(Live') = IF x \in Live THEN Cardinality(Live) - 1 ELSE Cardinality(Live)
      BY <3>1, LiveFinite, FS_RemoveElement
    <3>3. g_workers[x].status \in WorkerStatuses
      BY WorkerFields DEF TableInv, WorkerTypeOK
    <3>4. One(g_workers[x].status = "IDLE") + One(g_workers[x].status = "BUSY")
            = IF x \in Live THEN 1 ELSE 0
      BY <3>1, <3>3 DEF One, WorkerStatuses
    <3>5. \A c : One(c) \in Int
      BY DEF One
    <3> QED BY <1>1, <2>2, <3>2, <3>4, <3>5, LiveFinite DEF LeavesAt
  <2>3. ASSUME Stay, Follows
        PROVE  <1>4
    BY <1>1, <2>3, LiveFinite DEF Stay, Follows
  <2> QED BY <2>1, <2>2, <2>3, WorkerKinds
<1>5. WorkerTypeOK'
  BY TableKept DEF TableInv
<1>6. (Cardinality(WithStatus("IDLE")) + Cardinality(WithStatus("BUSY")) = Cardinality(Live))'
  BY <1>5, LiveCount, PTL
<1> QED BY <1>4, <1>6 DEF LiveGaugeNeverHigh

-----------------------------------------------------------------------------
(***************************************************************************)
(* The handler threads.                                                    *)
(***************************************************************************)
\* The connections and the ids of their peers; a descriptor without a
\* connection belongs to nobody.
Ids ==
  /\ conn \in [Handlers -> Conns] /\ wid \in [Handlers -> 0 .. MaxWorkerIds]
  /\ \A h \in Handlers : conn[h] = "none" => wid[h] = 0

\* The handler threads; one looks for a job only for a peer without one.
Places ==
  /\ pc \in [Handlers -> Pcs]
  /\ \A h \in Handlers : pc[h] = "assign" => working[h] = 0

\* The inductive invariant of the job server.
ServerInductive == JobInv /\ TableInv /\ LiveGaugeNeverHigh /\ Ids /\ Places

\* The steps of the server are calls of the worker manager ...
LEMMA StepUsesWorkers ==
  ASSUME [Next]_allVars
  PROVE  WorkerStep
<1>1. ASSUME NEW h \in Handlers, RecvRegister(h)
      PROVE  WorkerStep
  BY <1>1, SocketAssumption DEF RecvRegister, WorkerStep
<1>2. ASSUME NEW h \in Handlers, RecvHeartbeat(h) \/ RecvRequest(h) \/ BookJob(h)
                                   \/ ReleaseWorker(h)
      PROVE  WorkerStep
  BY <1>2 DEF RecvHeartbeat, RecvRequest, BookJob, ReleaseWorker, WorkerStep
<1>3. ASSUME NEW h \in Handlers, RecvDisconnect(h) \/ RecvEof(h)
      PROVE  WorkerStep
  BY <1>3 DEF RecvDisconnect, RecvEof, WorkerStep
<1>4. ASSUME NEW h \in Handlers,
             TakeJob(h) \/ SendToWorker(h) \/ RecvReport(h) \/ RecvError(h) \/ Close(h)
               \/ Accept(h) \/ Leave(h) \/ \E k \in Handlers : Reconnect(h, k)
      PROVE  UNCHANGED workerVars
  BY <1>4 DEF TakeJob, SendToWorker, RecvReport, RecvError, Close, Accept, Leave, Reconnect
<1>5. ASSUME ClientSubmit \/ MainTimeouts \/ UNCHANGED allVars
      PROVE  UNCHANGED workerVars
  BY <1>5 DEF ClientSubmit, MainTimeouts, allVars
<1>6. ASSUME MainInactive \/ Clock
      PROVE  WorkerStep
  BY <1>6 DEF MainInactive, Clock, WorkerStep
<1>7. UNCHANGED workerVars => WorkerStep
  BY DEF WorkerStep
<1> QED BY <1>1, <1>2, <1>3, <1>4, <1>5, <1>6, <1>7 DEF Next, HandlerThread

\* ... and steps of the job handler.
LEMMA StepUsesJobs ==
  ASSUME Places, [Next]_allVars
  PROVE  [JobNext]_jobVars
<1>1. ASSUME NEW h \in Handlers, TakeJob(h)
      PROVE  [JobNext]_jobVars
  <2>1. pc[h] = "assign" /\ (Assign(h) \/ UNCHANGED jobVars)
    BY <1>1 DEF TakeJob, Goto, Reply
  <2>2. Assign(h) => Request(h)
    BY <2>1 DEF Places, Request
  <2> QED BY <2>1, <2>2 DEF JobNext, HandlerStep
<1>2. ASSUME NEW h \in Handlers, SendToWorker(h)
      PROVE  [JobNext]_jobVars
  BY <1>2 DEF SendToWorker, JobNext, HandlerStep
<1>3. ASSUME NEW h \in Handlers, RecvReport(h)
      PROVE  [JobNext]_jobVars
  BY <1>3 DEF RecvReport, JobNext, HandlerStep
<1>4. ASSUME NEW h \in Handlers, RecvEof(h) \/ RecvError(h) \/ Close(h) \/ Leave(h)
      PROVE  [JobNext]_jobVars
  <2>1. Abandon(h) \/ UNCHANGED jobVars
    BY <1>4 DEF RecvEof, RecvError, Close, Leave, Hangup
  <2> QED BY <2>1 DEF JobNext, HandlerStep
<1>5. ASSUME NEW h \in Handlers, NEW k \in Handlers, Reconnect(h, k)
      PROVE  [JobNext]_jobVars
  <2>1. Migrate(h, k)
    BY <1>5 DEF Reconnect
  <2> QED BY <2>1 DEF JobNext, HandlerStep
<1>6. ASSUME NEW h \in Handlers,
             RecvRegister(h) \/ RecvHeartbeat(h) \/ RecvRequest(h) \/ BookJob(h)
               \/ ReleaseWorker(h) \/ RecvDisconnect(h) \/ Accept(h)
      PROVE  UNCHANGED jobVars
  BY <1>6 DEF RecvRegister, RecvHeartbeat, RecvRequest, BookJob, ReleaseWorker,
              RecvDisconnect, Accept
<1>7. ASSUME ClientSubmit \/ MainTimeouts \/ Clock
      PROVE  JobNext
  BY <1>7 DEF ClientSubmit, MainTimeouts, Clock, JobNext
<1>8. ASSUME MainInactive \/ UNCHANGED allVars
      PROVE  UNCHANGED jobVars
  BY <1>8 DEF MainInactive, allVars
<1> QED BY <1>1, <1>2, <1>3, <1>4, <1>5, <1>6, <1>7, <1>8 DEF Next, HandlerThread

\* How a step may change the ids of the peers: a worker comes back on a free
\* descriptor, registers, or its connection is closed.
KeepsIds ==
  /\ wid' = wid /\ g_next_worker_id' = g_next_worker_id
  /\ \/ conn' = conn
     \/ \E h \in Handlers : \E c \in (Conns \ {"none"}) \cup {conn[h]} :
          conn' = [conn EXCEPT ![h] = c]
Reconnects(h, k) ==
  /\ g_next_worker_id' = g_next_worker_id
  /\ conn[k] = "none"
  /\ \E end \in {"eof", "reset"} : conn' = [conn EXCEPT ![h] = end, ![k] = "fresh"]
  /\ wid' = [wid EXCEPT ![k] = wid[h]]
Registers(h) ==
  /\ Register(h) /\ conn[h] = "fresh"
  /\ wid' = [wid EXCEPT ![h] = g_next_worker_id]
  /\ \E c \in {"up", "reset"} : conn' = [conn EXCEPT ![h] = c]
HangsUp(h) ==
  /\ g_next_worker_id' = g_next_worker_id
  /\ conn' = [conn EXCEPT ![h] = "none"]
  /\ wid' = [wid EXCEPT ![h] = 0]
  /\ \/ conn[h] = "reset" \/ pc[h] = "close"
     \/ Unregister(FindBySocket(h)) \/ FindBySocket(h) = -1

\* Every step is one of them.
LEMMA IdSteps ==
  ASSUME [Next]_allVars
  PROVE  \/ KeepsIds
         \/ \E h \in Handlers : Registers(h) \/ HangsUp(h)
         \/ \E h \in Handlers, k \in Handlers : Reconnects(h, k)
<1>1. ASSUME NEW h \in Handlers, RecvRegister(h)
      PROVE  KeepsIds \/ Registers(h)
  <2>1. CASE Register(h) /\ wid' = [wid EXCEPT ![h] = g_next_worker_id] /\ Reply(h, "recv", "up")
    BY <1>1, <2>1 DEF RecvRegister, Reply, Registers
  <2>2. CASE UNCHANGED <<workerVars, wid>> /\ Reply(h, "recv", conn[h])
    BY <1>1, <2>2 DEF RecvRegister, Reply, KeepsIds, Conns, workerVars
  <2> QED BY <1>1, <2>1, <2>2 DEF RecvRegister
<1>2. ASSUME NEW h \in Handlers,
             RecvHeartbeat(h) \/ RecvRequest(h) \/ BookJob(h) \/ ReleaseWorker(h)
               \/ RecvDisconnect(h)
      PROVE  KeepsIds
  <2>1. /\ wid' = wid
        /\ \/ conn' = conn
           \/ \E c \in {conn[h], "reset"} : conn' = [conn EXCEPT ![h] = c]
    BY <1>2 DEF RecvHeartbeat, RecvRequest, BookJob, ReleaseWorker, RecvDisconnect, Reply
  <2>2. g_next_worker_id' = g_next_worker_id
    BY <1>2 DEF RecvHeartbeat, RecvRequest, BookJob, ReleaseWorker, RecvDisconnect,
                UpdateHeartbeat, UpdateStatus, AssignJob, ReleaseJob, Unregister, workerVars
  <2> QED BY <2>1, <2>2 DEF KeepsIds, Conns
<1>3. ASSUME NEW h \in Handlers, TakeJob(h) \/ SendToWorker(h) \/ RecvReport(h)
      PROVE  KeepsIds
  <2>1. UNCHANGED <<workerVars, wid>>
    BY <1>3 DEF TakeJob, SendToWorker, RecvReport
  <2>2. \/ conn' = conn
        \/ \E c \in {conn[h], "reset"} : conn' = [conn EXCEPT ![h] = c]
    BY <1>3 DEF TakeJob, SendToWorker, RecvReport, Reply
  <2> QED BY <2>1, <2>2 DEF KeepsIds, Conns, workerVars
<1>4. ASSUME NEW h \in Handlers, RecvEof(h) \/ RecvError(h) \/ Close(h)
      PROVE  HangsUp(h)
  <2>1. g_next_worker_id' = g_next_worker_id
    BY <1>4 DEF RecvEof, RecvError, Close, Unregister, workerVars
  <2> QED BY <1>4, <2>1 DEF RecvEof, RecvError, Close, Hangup, HangsUp
<1>5. ASSUME NEW h \in Handlers, Accept(h) \/ Leave(h)
      PROVE  KeepsIds
  BY <1>5 DEF Accept, Leave, KeepsIds, Conns, workerVars
<1>6. ASSUME NEW h \in Handlers, NEW k \in Handlers, Reconnect(h, k)
      PROVE  Reconnects(h, k)
  BY <1>6 DEF Reconnect, Reconnects, workerVars
<1>7. ASSUME ClientSubmit \/ MainTimeouts \/ MainInactive \/ Clock \/ UNCHANGED allVars
      PROVE  KeepsIds
  BY <1>7 DEF ClientSubmit, MainTimeouts, MainInactive, Clock, CheckInactive, WorkerTick,
              allVars, serverVars, workerVars, KeepsIds
<1> QED BY <1>1, <1>2, <1>3, <1>4, <1>5, <1>6, <1>7 DEF Next, HandlerThread

\* The connections and the ids keep their types, and a free descriptor has no id.
LEMMA IdsKept ==
  ASSUME TableInv, Ids, [Next]_allVars
  PROVE  Ids'
<1>1. /\ conn \in [Handlers -> Conns] /\ wid \in [Handlers -> 0 .. MaxWorkerIds]
      /\ \A h \in Handlers : conn[h] = "none" => wid[h] = 0
  BY DEF Ids
<1>2. ASSUME KeepsIds
      PROVE  Ids'
  BY <1>1, <1>2 DEF KeepsIds, Ids
<1>3. ASSUME NEW h \in Handlers, Registers(h)
      PROVE  Ids'
  <2>1. g_next_worker_id \in 0 .. MaxWorkerIds
    BY <1>3, WorkerAssumption DEF Registers, Register, TableInv, WorkerTypeOK
  <2>2. /\ wid' = [wid EXCEPT ![h] = g_next_worker_id]
        /\ \E c \in {"up", "reset"} : conn' = [conn EXCEPT ![h] = c]
    BY <1>3 DEF Registers
  <2> QED BY <1>1, <2>1, <2>2 DEF Conns, Ids
<1>4. ASSUME NEW h \in Handlers, HangsUp(h)
      PROVE  Ids'
  <2>1. 0 \in 0 .. MaxWorkerIds
    BY WorkerAssumption
  <2> QED BY <1>1, <1>4, <2>1 DEF HangsUp, Conns, Ids
<1>5. ASSUME NEW h \in Handlers, NEW k \in Handlers, Reconnects(h, k)
      PROVE  Ids'
  <2>1. PICK end \in {"eof", "reset"} : conn' = [conn EXCEPT ![h] = end, ![k] = "fresh"]
    BY <1>5 DEF Reconnects
  <2>2. wid' = [wid EXCEPT ![k] = wid[h]]
    BY <1>5 DEF Reconnects
  <2>3. /\ conn' \in [Handlers -> Conns] /\ wid' \in [Handlers -> 0 .. MaxWorkerIds]
    BY <1>1, <2>1, <2>2 DEF Conns
  <2>4. ASSUME NEW x \in Handlers, conn'[x] = "none"
        PROVE  wid'[x] = 0
    <3>1. x # k /\ x # h
      BY <1>1, <2>1, <2>4
    <3> QED BY <1>1, <2>1, <2>2, <2>4, <3>1
  <2> QED BY <2>3, <2>4 DEF Ids
<1> QED BY <1>2, <1>3, <1>4, <1>5, IdSteps

\* The handlers stay at their places; one that looks for a job has a peer
\* without one.
LEMMA PlacesKept ==
  ASSUME JobInv, Places, [Next]_allVars
  PROVE  Places'
<1>1. /\ pc \in [Handlers -> Pcs] /\ working \in [Handlers -> 0 .. MaxJobs]
      /\ \A h \in Handlers : pc[h] = "assign" => working[h] = 0
  BY DEF Places, JobInv, JobTypeOK
<1> DEFINE Moves(h, to) == pc' = [pc EXCEPT ![h] = to]
<1>2. ASSUME NEW h \in Handlers, NEW to \in Pcs \ {"assign"}, Moves(h, to),
             \/ working' = working \/ working' = [working EXCEPT ![h] = 0]
             \/ \E n \in 0 .. MaxJobs : working' = [working EXCEPT ![h] = n]
      PROVE  Places'
  BY <1>1, <1>2 DEF Places
<1>3. ASSUME NEW h \in Handlers, RecvRequest(h)
      PROVE  Places'
  <2>1. working' = working /\ working[h] = 0 /\ \E to \in Pcs : Moves(h, to)
    BY <1>3 DEF RecvRequest, Reply, jobVars, Goto, Pcs
  <2> QED BY <1>1, <2>1 DEF Pcs, Places
<1>4. ASSUME NEW h \in Handlers,
             RecvRegister(h) \/ RecvHeartbeat(h) \/ BookJob(h) \/ ReleaseWorker(h)
               \/ RecvDisconnect(h) \/ Accept(h)
      PROVE  Places'
  <2>1. working' = working /\ \E to \in Pcs \ {"assign"} : Moves(h, to)
    BY <1>4 DEF RecvRegister, RecvHeartbeat, BookJob, ReleaseWorker, RecvDisconnect,
                Accept, jobVars, Goto, Reply, Pcs
  <2> QED BY <1>2, <2>1
<1>5. ASSUME NEW h \in Handlers, TakeJob(h)
      PROVE  Places'
  <2>1. working' = working /\ \E to \in Pcs \ {"assign"} : Moves(h, to)
    BY <1>5 DEF TakeJob, Assign, jobVars, Goto, Reply, Pcs
  <2> QED BY <1>2, <2>1
<1>6. ASSUME NEW h \in Handlers, SendToWorker(h)
      PROVE  Places'
  <2>1. CASE SendJob(h)
    <3>1. working' = [working EXCEPT ![h] = sending[h]]
      BY <2>1 DEF SendJob
    <3>2. sending[h] \in 0 .. MaxJobs
      BY DEF JobInv, JobTypeOK
    <3>3. \E to \in Pcs \ {"assign"} : Moves(h, to)
      BY <1>6 DEF SendToWorker, Goto, Reply, Pcs
    <3> QED BY <1>2, <3>1, <3>2, <3>3
  <2>2. CASE SendFailed(h)
    <3>1. working' = working
      BY <2>2 DEF SendFailed
    <3>2. \E to \in Pcs \ {"assign"} : Moves(h, to)
      BY <1>6 DEF SendToWorker, Goto, Reply, Pcs
    <3> QED BY <1>2, <3>1, <3>2
  <2> QED BY <1>6, <2>1, <2>2 DEF SendToWorker
<1>7. ASSUME NEW h \in Handlers, RecvReport(h)
      PROVE  Places'
  <2>1. working' = [working EXCEPT ![h] = 0]
    BY <1>7 DEF RecvReport, ReportDone, ReportFailed
  <2>2. \E to \in Pcs \ {"assign"} : Moves(h, to)
    BY <1>7 DEF RecvReport, Reply, Goto, Pcs
  <2> QED BY <1>2, <2>1, <2>2
<1>8. ASSUME NEW h \in Handlers, RecvEof(h) \/ RecvError(h) \/ Close(h)
      PROVE  Places'
  <2>1. Hangup(h)
    BY <1>8 DEF RecvEof, RecvError, Close
  <2>2. /\ Moves(h, "closed") /\ "closed" \in Pcs \ {"assign"}
        /\ working' = working \/ working' = [working EXCEPT ![h] = 0]
    BY <2>1 DEF Hangup, Abandon, jobVars, Pcs
  <2> QED BY <1>2, <2>2
<1>9. ASSUME NEW h \in Handlers, Leave(h)
      PROVE  Places'
  <2>1. pc' = pc /\ (working' = working \/ working' = [working EXCEPT ![h] = 0])
    BY <1>9 DEF Leave, Abandon, jobVars
  <2> QED BY <1>1, <2>1 DEF Places
<1>10. ASSUME NEW h \in Handlers, NEW k \in Handlers, Reconnect(h, k)
       PROVE  Places'
  <2>1. /\ Moves(k, "recv") /\ "recv" \in Pcs
        /\ working' = [working EXCEPT ![k] = working[h], ![h] = 0]
    BY <1>10 DEF Reconnect, Goto, Migrate, Pcs
  <2> QED BY <1>1, <2>1 DEF Places
<1>11. ASSUME ClientSubmit \/ MainTimeouts \/ MainInactive \/ Clock \/ UNCHANGED allVars
       PROVE  Places'
  <2>1. pc' = pc /\ working' = working
    BY <1>11 DEF ClientSubmit, MainTimeouts, MainInactive, Clock, Submit, CheckTimeouts,
                 Tick, allVars, serverVars, jobVars
  <2> QED BY <1>1, <2>1 DEF Places
<1> QED BY <1>3, <1>4, <1>5, <1>6, <1>7, <1>8, <1>9, <1>10, <1>11 DEF Next, HandlerThread

-----------------------------------------------------------------------------
(***************************************************************************)
(* The theorems.                                                           *)
(***************************************************************************)
\* The initial state.
LEMMA ServerInitially == Init => ServerInductive
<1> SUFFICES ASSUME Init PROVE ServerInductive
  OBVIOUS
<1>1. JobInv /\ working = [h \in Handlers |-> 0]
  BY JobInitially DEF Init, JobInit
<1>2. Occupied = {} /\ Live = {}
  <2>1. \A s \in WorkerSlots : g_workers[s].worker_id = 0
    BY DEF Init, WorkerInit, FreeWorker
  <2> QED BY <2>1 DEF Occupied, FreeWorkerSlots, Live
<1>3. WorkerTypeOK /\ g_total_workers = 0 /\ g_idle_workers = 0 /\ g_busy_workers = 0
  <2>1. FreeWorker \in Worker
    BY WorkerAssumption DEF FreeWorker, Worker, WorkerStatuses
  <2>2. g_workers \in [WorkerSlots -> Worker]
    BY <2>1 DEF Init, WorkerInit
  <2> QED BY <2>2, WorkerAssumption DEF Init, WorkerInit, WorkerTypeOK
<1>4. TableInv
  BY <1>2, <1>3, FS_EmptySet DEF TableInv, WorkerIdsUnique
<1>5. LiveGaugeNeverHigh
  BY <1>2, <1>3, LiveCount, FS_EmptySet DEF LiveGaugeNeverHigh
<1>6. Ids
  <2>1. 0 \in 0 .. MaxWorkerIds
    BY WorkerAssumption
  <2> QED BY <2>1 DEF Init, Ids, Conns
<1>7. Places
  BY <1>1 DEF Init, Places, Pcs
<1> QED BY <1>1, <1>4, <1>5, <1>6, <1>7 DEF ServerInductive

\* The inductive invariant holds in every behaviour of the job server.
THEOREM ServerInvariant == Spec => []ServerInductive
<1>1. ServerInductive /\ [Next]_allVars => ServerInductive'
  <2> SUFFICES ASSUME ServerInductive, [Next]_allVars PROVE ServerInductive'
    OBVIOUS
  <2>1. JobInv /\ TableInv /\ LiveGaugeNeverHigh /\ Ids /\ Places
    BY DEF ServerInductive
  <2>2. JobInv'
    BY <2>1, StepUsesJobs, JobInvStep
  <2>3. TableInv' /\ LiveGaugeNeverHigh'
    BY <2>1, StepUsesWorkers, TableKept, GaugeKept
  <2>4. Ids' /\ Places'
    BY <2>1, IdsKept, PlacesKept
  <2> QED BY <2>2, <2>3, <2>4 DEF ServerInductive
<1> QED BY <1>1, ServerInitially, PTL DEF Spec

\* The tables of the job server are well typed and an id names one registered
\* worker, whatever workers reconnect under their old id.
THEOREM ServerTablesSafe == Spec => []ServerInv
<1>1. ServerInductive => ServerInv
  BY DEF ServerInductive, JobInv, TableInv, Ids, Places, ServerInv, ServerTypeOK
<1> QED BY <1>1, ServerInvariant, PTL

\* The statistics of the worker manager never show capacity that is not there.
THEOREM GaugeNeverHigh == Spec => []LiveGaugeNeverHigh
<1>1. ServerInductive => LiveGaugeNeverHigh
  BY DEF ServerInductive
<1> QED BY <1>1, ServerInvariant, PTL

\* The job server implements the specification of the job handler.
THEOREM ServerUsesJobHandler == Spec => UsesJobHandler
<1>1. Init => JobInit
  BY DEF Init
<1>2. ServerInductive /\ [Next]_allVars => [JobNext]_jobVars
  BY StepUsesJobs DEF ServerInductive
<1> QED BY <1>1, <1>2, ServerInvariant, PTL DEF Spec, UsesJobHandler, JobSpec

\* So what the statistics of jobs and the verdicts promise holds in the server,
\* with its connections that drop and workers that come back.
THEOREM ServerStatistics ==
  Spec => []GaugesConserved /\ []GaugeDrift /\ []AttemptsBounded /\ []VerdictMatchesStatus
<1>1. Spec => JobSpec
  BY ServerUsesJobHandler DEF UsesJobHandler
<1> QED BY <1>1, StatisticsConserved, StatisticsDrift, AttemptsAreBounded, VerdictsFinal, PTL

\* A step after which an entry lacks its worker's connection, found at an
\* entry that had it: the handler left after an error, the worker registers
\* anew, or the lookup by descriptor met a leftover first.
LEMMA OrphanStep ==
  ASSUME ServerInductive, [Next]_allVars, NEW s \in WorkerSlots, ~Orphan(s), Orphan(s)'
  PROVE  \/ conn[g_workers[s].socket] \in {"reset", "fresh"}
         \/ pc[g_workers[s].socket] = "close"
         \/ \E r \in WorkerSlots : Orphan(r) /\ g_workers[r].socket = g_workers[s].socket
<1>1. /\ TableInv /\ WorkerStep /\ wid \in [Handlers -> 0 .. MaxWorkerIds]
      /\ \A h \in Handlers : conn[h] = "none" => wid[h] = 0
      /\ \A r \in WorkerSlots : r \in Occupied <=> g_workers[r].worker_id # 0
  BY StepUsesWorkers DEF ServerInductive, Ids, Occupied, FreeWorkerSlots
<1>2. /\ g_workers'[s].worker_id # 0
      /\ wid'[g_workers'[s].socket] # g_workers'[s].worker_id
  BY DEF Orphan
<1> DEFINE h == g_workers[s].socket
<1>3. ASSUME NEW k \in Handlers, Registers(k)
      PROVE  conn[h] \in {"reset", "fresh"}
  <2>1. EntersAt(FirstSlot(FreeWorkerSlots), k)
    BY <1>1, <1>3, RegisterEnters, SocketAssumption DEF Registers
  <2>2. wid' = [wid EXCEPT ![k] = g_next_worker_id] /\ conn[k] = "fresh"
    BY <1>3 DEF Registers
  <2>3. s # FirstSlot(FreeWorkerSlots)
    BY <1>1, <1>2, <2>1, <2>2 DEF EntersAt
  <2>4. g_workers'[s] = g_workers[s]
    BY <2>1, <2>3 DEF EntersAt, Touches
  <2>5. wid[h] = g_workers[s].worker_id /\ h \in Handlers
    BY <1>1, <1>2, <2>4, SocketAssumption DEF Orphan, TableInv
  <2>6. h = k
    BY <1>1, <1>2, <2>2, <2>4, <2>5
  <2> QED BY <2>2, <2>6
<1>4. ASSUME Stay \/ \E r \in WorkerSlots : LeavesAt(r)
      PROVE  /\ g_workers[s].worker_id # 0
             /\ g_workers'[s].worker_id = g_workers[s].worker_id
             /\ g_workers'[s].socket = h /\ h \in Handlers
             /\ wid[h] = g_workers[s].worker_id /\ wid'[h] # wid[h]
  <2>1. /\ g_workers'[s].worker_id = g_workers[s].worker_id
        /\ g_workers'[s].socket = h
    BY <1>2, <1>4 DEF Stay, LeavesAt, Touches
  <2>2. h \in Handlers
    BY <1>1, <1>2, <2>1, SocketAssumption DEF TableInv
  <2> QED BY <1>2, <2>1, <2>2 DEF Orphan
<1>5. ASSUME g_next_worker_id' = g_next_worker_id
      PROVE  Stay \/ \E r \in WorkerSlots : LeavesAt(r)
  <2>1. g_next_worker_id' # g_next_worker_id + 1
    BY <1>1, <1>5 DEF TableInv, WorkerTypeOK
  <2> QED BY <1>1, <2>1, WorkerKinds DEF EntersAt
<1>6. ASSUME KeepsIds
      PROVE  FALSE
  BY <1>4, <1>5, <1>6 DEF KeepsIds
<1>7. ASSUME NEW g \in Handlers, NEW k \in Handlers, Reconnects(g, k)
      PROVE  FALSE
  <2>1. /\ conn[k] = "none" /\ wid' = [wid EXCEPT ![k] = wid[g]]
        /\ g_next_worker_id' = g_next_worker_id
    BY <1>7 DEF Reconnects
  <2>2. h = k
    BY <1>1, <1>4, <1>5, <2>1
  <2> QED BY <1>1, <1>4, <1>5, <2>1, <2>2
<1>8. ASSUME NEW k \in Handlers, HangsUp(k), conn[h] # "reset", pc[h] # "close"
      PROVE  \E r \in WorkerSlots : Orphan(r) /\ g_workers[r].socket = h
  <2>1. /\ wid' = [wid EXCEPT ![k] = 0] /\ g_next_worker_id' = g_next_worker_id
    BY <1>8 DEF HangsUp
  <2>2. h = k
    BY <1>1, <1>4, <1>5, <2>1
  <2> DEFINE found == {r \in Occupied : g_workers[r].socket = h}
             f == FirstSlot(found)
  <2>3. s \in found
    BY <1>1, <1>4, <1>5, <2>1
  <2>4. f \in found
    <3>1. found \in SUBSET WorkerSlots /\ found # {}
      BY <2>3 DEF Occupied
    <3> QED BY <3>1, FirstSlotIn
  <2>5. FindBySocket(h) = g_workers[f].worker_id
    BY <2>3 DEF FindBySocket
  <2>6. f \in WorkerSlots /\ f \in Occupied /\ g_workers[f].socket = h
    BY <2>4 DEF Occupied
  <2> HIDE DEF f, found
  <2>7. FindBySocket(h) # -1
    <3>1. g_workers[f].worker_id \in Nat
      BY <1>1, <2>6, WorkerFields DEF TableInv, WorkerTypeOK
    <3> QED BY <2>5, <3>1
  <2>8. Unregister(FindBySocket(h))
    BY <1>8, <2>2, <2>7 DEF HangsUp
  <2>9. PICK r \in WorkerAt(FindBySocket(h)) : LeavesAt(r)
    BY <1>1, <2>8, UnregisterLeaves
  <2>10. r \in Occupied /\ g_workers[r].worker_id = g_workers[f].worker_id
    BY <2>5, <2>9, AtOccupied
  <2>11. r # s
    BY <1>2, <2>9 DEF LeavesAt
  <2>12. f # s
    BY <1>1, <2>6, <2>10, <2>11 DEF TableInv, WorkerIdsUnique
  <2>13. g_workers[f].worker_id # g_workers[s].worker_id /\ g_workers[f].worker_id # 0
    BY <1>1, <1>4, <1>5, <2>1, <2>6, <2>12 DEF TableInv, WorkerIdsUnique
  <2>14. Orphan(f)
    BY <1>4, <1>5, <2>1, <2>6, <2>13 DEF Orphan
  <2> QED BY <2>6, <2>14
<1> QED BY <1>3, <1>6, <1>7, <1>8, IdSteps

\* A worker's entry loses its connection only after an error, when it registers
\* anew or behind an older leftover on the same descriptor.
THEOREM OrphansFromErrors == Spec => OrphansComeFromErrors
<1> DEFINE Cause == \A s \in WorkerSlots :
             Orphan(s)' /\ ~Orphan(s) =>
               LET h == g_workers[s].socket
               IN  \/ conn[h] \in {"reset", "fresh"} \/ pc[h] = "close"
                   \/ \E r \in WorkerSlots : Orphan(r) /\ g_workers[r].socket = h
<1>1. ServerInductive /\ [Next]_allVars => [Cause]_allVars
  BY OrphanStep
<1> QED BY <1>1, ServerInvariant, PTL DEF Spec, OrphansComeFromErrors
=============================================================================
