--------------------------- MODULE WorkerRegistry ---------------------------
(***************************************************************************)
(* central_server/worker_registry.c: an array of worker_info_t whose first *)
(* count entries are in use, under registry->mutex.                        *)
(*                                                                         *)
(* Removal shifts the entries behind the removed one down and leaves the   *)
(* last one where it was: worker_registry_get hands out pointers into the  *)
(* array, through which callers read what is in the array by then, so the  *)
(* entries past count are part of the state.                               *)
(***************************************************************************)
EXTENDS Naturals

CONSTANTS
  RegistryCapacity,   \* registry->capacity
  Fds,                \* descriptors of accepted connections
  NoFd,               \* no descriptor
  WorkerTimeout       \* WORKER_TIMEOUT_SEC, in ticks

ASSUME RegistryAssumption ==
  /\ RegistryCapacity \in Nat \ {0}
  /\ WorkerTimeout \in Nat
  /\ NoFd \notin Fds

VARIABLES
  workers,            \* registry->workers
  count               \* registry->count

registryVars == <<workers, count>>

RegistryStatuses == {"IDLE", "BUSY", "DISCONNECTED"}
Entries == 1 .. RegistryCapacity

\* What malloc left in an entry that was never used.
Unset == [worker_id |-> 0, sockfd |-> NoFd, status |-> "IDLE", silent |-> 0]

\* Where the search for worker_id stops, as a set.
EntryOf(id) ==
  {i \in 1 .. count : /\ workers[i].worker_id = id
                      /\ \A j \in 1 .. i - 1 : workers[j].worker_id # id}

-----------------------------------------------------------------------------
\* worker_registry_create
RegistryInit ==
  /\ workers = [i \in Entries |-> Unset]
  /\ count = 0

\* Mutant: the id is count, the index of the entry.
RegistryAddIndex(fd) ==
  /\ count < RegistryCapacity
  /\ workers' = [workers EXCEPT ![count + 1] =
                   [worker_id |-> count, sockfd |-> fd,
                    status |-> "IDLE", silent |-> 0]]
  /\ count' = count + 1

\* worker_registry_add with room left: the new worker gets id count + 1.
RegistryAdd(fd) ==
  /\ count < RegistryCapacity
  /\ workers' = [workers EXCEPT ![count + 1] =
                   [worker_id |-> count + 1, sockfd |-> fd,
                    status |-> "IDLE", silent |-> 0]]
  /\ count' = count + 1

\* Mutant: the entries are shifted to one place behind the removed one.
RegistryRemoveNext(id) ==
  /\ \E i \in EntryOf(id) :
       workers' = [j \in Entries |-> IF i < j /\ j < count THEN workers[j + 1]
                                                           ELSE workers[j]]
  /\ count' = count - 1

\* Mutant: the vacated entry is wiped.
RegistryRemoveWipe(id) ==
  /\ \E i \in EntryOf(id) :
       workers' = [j \in Entries |-> IF j = count THEN Unset
                                     ELSE IF i <= j /\ j < count THEN workers[j + 1]
                                     ELSE workers[j]]
  /\ count' = count - 1

\* worker_registry_remove; the caller learns the descriptor it closes from
\* ClosedBy.
RegistryRemove(id) ==
  /\ \E i \in EntryOf(id) :
       workers' = [j \in Entries |-> IF i <= j /\ j < count THEN workers[j + 1]
                                                            ELSE workers[j]]
  /\ count' = count - 1

\* Mutant: the descriptor is read after the entries were shifted.
ClosedByShifted(id) ==
  {workers[IF i < count THEN i + 1 ELSE i].sockfd : i \in EntryOf(id)}

\* The descriptor worker_registry_remove closes before it shifts the entries.
ClosedBy(id) == {workers[i].sockfd : i \in EntryOf(id)}

\* worker_registry_update_status
SetStatus(id, status) ==
  /\ \E i \in EntryOf(id) : workers' = [workers EXCEPT ![i].status = status]
  /\ UNCHANGED count

\* worker_registry_update_heartbeat: it does not bring a worker back.
SetHeartbeat(id) ==
  /\ \E i \in EntryOf(id) : workers' = [workers EXCEPT ![i].silent = 0]
  /\ UNCHANGED count

\* worker_registry_check_timeouts: one pass over the array under the lock.
CheckWorkerTimeouts ==
  /\ workers' = [i \in Entries |->
                   IF i <= count /\ workers[i].silent > WorkerTimeout
                     THEN [workers[i] EXCEPT !.status = "DISCONNECTED"]
                     ELSE workers[i]]
  /\ UNCHANGED count

\* time(NULL) advances for every worker in the registry.
RegistryTick ==
  /\ workers' = [i \in Entries |->
                   IF i <= count /\ workers[i].silent <= WorkerTimeout
                     THEN [workers[i] EXCEPT !.silent = @ + 1]
                     ELSE workers[i]]
  /\ UNCHANGED count

-----------------------------------------------------------------------------
\* The array and the counter are well typed.
RegistryTypeOK ==
  /\ workers \in [Entries -> [worker_id : 0 .. RegistryCapacity,
                              sockfd : Fds \cup {NoFd},
                              status : RegistryStatuses,
                              silent : 0 .. WorkerTimeout + 1]]
  /\ count \in 0 .. RegistryCapacity
=============================================================================
