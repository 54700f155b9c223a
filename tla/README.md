# Verification of c.simples

The repository holds several small C programs. Most of the concurrent code is in
`distributed_worker_system`: servers that hand jobs to workers over TCP. Two more
servers are at the top level and in `c-client-server-app`. This directory models
them in TLA+, checks the models with TLC and proves the central results with
TLAPS.

## 1. The system

### Components, state and operations

| Component | State | Operations | Shared with |
|---|---|---|---|
| ring buffer (`lib/src/ring_buffer.c`) | array, `size`, `head`, `tail`, one mutex, two condition variables | create, push, pop (no wait, timed wait, unlimited wait), destroy | all threads of the central server |
| job handler (`server/job_handler.c`) | table of jobs, next id, four statistics, one mutex | submit, assign (two critical sections around a send), complete, fail, check timeouts, queries, cleanup | every connection thread and the main loop |
| worker manager (`server/worker_manager.c`) | table of workers, next id, three statistics, one mutex | register, unregister, status, heartbeat, assign, complete, fail, check inactive, queries | the same threads |
| job server (`server/server.c`, `server_main.c`) | descriptors, accept thread, one handler thread per connection | accept, one handler per message type, main loop with both checks, stop | calls the two tables, never holding both locks |
| job worker (`worker/`) | one socket, worker id, current job, one mutex | connect, register, heartbeat thread, job thread, disconnect, stop | talks to the job server |
| client (`client/`) | one socket | connect, submit, query, wait, cleanup | job server |
| central server (`central_server/`) | registry of workers, task table and a ring buffer of tasks | register, heartbeat, task result, assignment, timeouts | worker server, clients |
| worker server (`worker_server/`) | one socket and its mutex, two threads | connect and register with retries, heartbeat, receive tasks, signals | central server |
| library (`lib/`) | framing, logger with its mutex, id generator | send and receive, log, close | everybody |
| heartbeat server (`heartbeat_server.c`) | bounded list of heartbeats, its length, one mutex | two acceptors, form and JSON input, add, query over HTTP | heartbeat client |
| statistics server (`c-client-server-app/src/server.c`) | per-address statistics, their file, one mutex | accept, count, save, clean up, signals | TCP client |
| `sysinfo`, heartbeat client, TCP client, IP lists, `NetTrafficAnalyzer`, `bin2arr` | none shared | sequential tools | |

### What is hard about it

* Blocking operations leave a critical section in the middle of an operation:
  the waits of push and pop, and the send inside `job_handler_assign`. Others
  keep a lock while they block: `check_timeouts` sends to clients with
  `g_job_mutex` held, `worker_disconnect_from_server` and the main thread of the
  worker server wait for a message with theirs.
* One message is handled in several critical sections of two locks; the main
  loop runs its checks between them.
* Several threads write requests to one socket and each takes the next message
  for its answer, in the worker; the server announces finished jobs on the socket
  on which a client waits for an answer.
* Workers crash, reset, time out, reconnect under their old id and report jobs
  that have been given to somebody else.
* Descriptors are reused after `close`, and threads and tables keep copies.
* The central server hands out pointers into its registry, which other threads
  shift, and pushes a task into its ring before the task is in its table.
* Shutdown: closing a socket somebody waits on, freeing tables under running
  handlers, cancelling a thread that may be inside the logger.

What makes each component correct: the ring buffer is a FIFO queue in which no
caller sleeps while there is work for it; a job ends exactly once and its client
hears what the table says; the statistics describe the tables; a worker id and a
descriptor name the right worker; requests and answers stay in step; nobody waits
for ever on somebody who waits too; the heartbeat history is the latest
heartbeats. `PROJECT.json` lists the hazards line by line.

### The state of the sources

`server/` and `worker/` include `common/logger.h`, `common/net_utils.h` and
`common/protocol.h`; the first two are missing and the last one is empty, and
the Makefile does not build these directories. `client/` includes the headers of
`lib/include` (`client.c:19-22`) and is built as `client_exec`. For the job
server and its workers the constants (`MAX_JOB_RETRIES`, message types) and the
message functions are therefore modelled from their use: a message arrives whole
or not at all, `receive_message` returns 0 at the end of the stream and a
negative value on an error. The handler functions are declared with an `int`
parameter but receive a pointer and free an address on their stack
(`server.c:148`, `server.c:205`); taken literally that ends the program at its
first connection. The models take the accepted descriptor, which is what the
code means.

## 2. Modules

* **`BoundedQueue`**: the abstract queue that `ring_buffer.h` promises: a
  sequence and the latest return value.
* **`RingBuffer`**: `ring_buffer.c`. A step is one critical section. `pc` tells
  whether a thread is outside, blocked, signalled, or past its deadline; the last
  two still need the mutex, so others may run first. Signals wake an arbitrary
  waiter, and waits may also end spuriously.
* **`JobHandler`**: `job_handler.c` and its callers as far as it can tell them
  apart: `Submit`, `Assign`, `SendJob`/`SendFailed` (the second critical section
  of assign), `Complete`, `Fail`, `CheckTimeouts`. `told` records what was
  announced to the client of a job. `Request`, `ReportDone`, `ReportFailed`,
  `Abandon` and `Migrate` are what connections and workers can do.
* **`WorkerManager`**: `worker_manager.c`, one action per function. It has no
  behaviour of its own: its functions are used by
* **`JobServer`**: `server.c` and the main loop as workers see them, composing
  the two. `pc` is the next critical section of a handler thread, so every
  interleaving of two handlers and the main loop is explored. `wid` is the id the
  peer uses, which after a reconnect is its old one until it has registered again.
  Every response may fail (`Reply`), after which the handler leaves as it does
  after a receive error.
* **`JobWorker`**: `worker.c`. `op` and `stage` are the exchange of each of the
  three threads and the place in it; `fd` is the connection behind the descriptor
  number, `on` and `at` are the connections a thread has sent on and reads from.
  The server is reduced to its answers: it answers each request in order on
  `link`, forgets a worker that disconnects, and may close at any time.
  `overtaken` is set when a thread reads on another connection than it sent on.
* **`JobClients`**: the other half of `server.c` with `client.c`: accept thread,
  client handlers, announcements, main loop, `server_stop` and exit, against
  clients that call the library and strangers that do not speak the protocol.
  `up` and `down` are the two directions of a connection, bounded by `Buffer`;
  `behind` counts announcements a client took for answers. What workers do is
  reduced to the changes of a job's status.
* **`TaskManager`**: `task_manager.c`, for any number of callers. The table's
  mutex and the ring's lock are different, so creating a task is two steps.
* **`WorkerRegistry`**: `worker_registry.c`, one action per function. The array
  keeps what a removal leaves past `count`, because stale pointers lead there.
* **`CentralServer`**: `central_server.c`, composing the two. `open` is the set
  of open descriptors; `main` the connection whose first header the acceptor
  waits for; `pc`, `sock`, `wid`, `ptr` and `task` are the handler threads'
  positions and locals; `sent` and `removed` are history. Registering, the three
  message outcomes, the seven steps of `assign_task_to_worker` and the removal
  are actions of their own, because each is a critical section, a system call or
  an unprotected read.
* **`WorkerServer`**: `worker_server.c` with `logger.c`. `main` and `heartbeat`
  are the places of its two threads, `socket_mutex` and `log_mutex` the owners of
  the mutexes, `inbox` the stream of headers and payloads. Every message, loss of
  the connection and start, failure and end of the heartbeat thread is logged at a
  place of its own (`MainLogs`, `HeartbeatLogs`). Cancellation takes effect at the
  cancellation points, holding whatever is held; a signal may come anywhere in the
  main thread and logs. The server's side is the handler of `central_server.c`.
  Nothing there sends `SHUTDOWN`, which the worker handles (`ServerSends`).
* **`Registration`**: `net_utils.c` between both kinds of peers and the central
  server: numbers with their byte order, whole messages against bare headers.
* **`HeartbeatServer`**: `heartbeat_server.c`: one thread per connection, with
  the two parsers as operators on lists of pairs, the list under
  `history_mutex`, and queries. `log` and `since` are history.
* **`StatsServer`**: `c-client-server-app/src/server.c`: its one thread, the
  mutex, the list and its file.
* **`*_proofs`**: theorems. **`MC*`**: symmetry sets for two composed models.

### Abstractions

General:

* Payloads, results, names, logging (except its mutex) and per-worker totals are
  left out: nothing reads them to decide anything.
* None of the programs ignores `SIGPIPE`. `WorkerServer` lets it kill the
  process. In the other models a send to a peer that has gone fails, because
  after the end of the process nothing happens any more.
* Names starting with `Max` bound a counter and are guards.

Job server, its workers and clients:

* Time is a tick count since a job was started or a worker was last heard of,
  saturating just past the timeout. `check_timeouts` reads the clock before it
  takes the lock; a tick is longer than the wait for the lock.
* Slots of the job table are filled in order and never released, so slot order
  is submission order, given that `gettimeofday` does not step back. The choice
  of the oldest pending job is then the lowest pending slot.
* A failing `malloc` in submit or complete returns -1 with nothing changed, so
  `JobHandler` and `JobServer` have no step for it. What it makes the server
  answer to a submission or to a query of a result is a branch of `HandleSubmit`
  and of `Result` in `JobClients`.
* In `JobHandler` a client is told at the critical section that decides the
  verdict; in `JobClients` the announcement is a step of its own after the
  unlock. The job that is read after the unlock (`job_handler.c:311`) is only
  logged.
* In `JobServer` the lookup and the removal after an end of stream are one step:
  ids are never reused, so nothing between them changes what the removal does. A
  peer that closes has had its earlier messages handled. After
  `WORKER_DISCONNECT` the peer may still send, because the threads of `worker.c`
  share the socket.
* In `JobWorker` and `JobClients` a new connection gets the number of the one
  just closed. A thread that has copied the number goes on with the new
  connection; one that is already blocked in a read stays with the old.
* `JobClients` has one status for pending and assigned jobs and one for failed
  and timed-out ones, as `client.c` treats them alike; `get_job_status` and the
  polls of `wait_for_job` are the same exchange. `client.c` greets with
  `REGISTER`, which `server.c` refuses; clients that get further send
  `CLIENT_CONNECT`. The type of the uninitialised message the accept thread looks
  at after an end of stream is a choice. One worker handler at a time announces
  (`Workers`).
* `server_stop` clears its flag and closes the listening socket in one step. An
  `accept` that already waits is not woken by that on Linux.

Central server and worker server:

* The ring of the task manager is the abstract queue; `RingImplementsQueue` is
  what justifies it.
* `CentralServer` and `WorkerServer` have peers that send eight-byte headers in
  the byte order of the host, which is what `recv_header` reads. `send_message`
  writes a whole `Message` in network order, so the two programs do not get past
  registration with each other; that is what `Registration` is about.
* `ring_buffer_size` after a heartbeat is read in the step that records the
  heartbeat; the pop that follows looks again.
* `WorkerServer` is built with `-std=c99`, where `signal` is one-shot: a second
  signal kills. `process_task` and `send_task_result` are never reached, because
  `recv_payload` returns 0 and the caller waits for the size of a task.

Heartbeat and statistics server:

* A heartbeat is a list of pairs, each with a key and whether its value is
  valid. A read that returns part of a request reads another request. `time(NULL)`
  does not step back.
* `pthread_create` reports failure with a positive number, which `< 0` does not
  see: such a connection stays open without a thread (`abandoned`).
* The byte and message counters of an address are one counter. `RealMutex =
  FALSE` stands for a C library whose mutexes are stubs in a program that is not
  linked with libpthread; the run has real ones.

## 3. Runs

| Run | Instance | Distinct states | Shows |
|---|---|---|---|
| `RingBuffer` | 3 threads, 2 elements, capacity 2 | 155 k | no lost wake-up, refinement of the queue; timed calls return, sleeping consumers are served |
| `JobHandler` | 2 jobs, 2 handlers, 2 attempts, 2 failed sends | 21 k | table, statistics, attempts and verdicts; every job ends |
| `JobServer_safety` | 2 connections, 2 slots, 2 worker ids, 1 job | 1.15 M | statistics of workers, where entries without a connection come from; the server is a correct user of the job handler (refinement of `JobSpec`) |
| `JobWorker` | 3 threads, 2 connections, 2 assignments | 852 k | answers arrive although threads read each other's; beats carry the right id; only accepted jobs are counted; the threads never stop each other; `worker_stop` returns |
| `JobClients` | 2 clients (one a stranger), 2 descriptors, 1 job, 2 calls, 1 revived job, 1 message per buffer | 1.36 M | answers stay in step, announcements reach the submitter, nobody waits on everybody, shutdown |
| `TaskManager` | 2 takers, table of 3, ring of 2, 5 ids | 2 k | no task lost, doubled or unfindable; every task that was taken ends |
| `CentralServer_safety` | 2 handler threads, 2 descriptors, registry of 2, the sample task | 646 k | registry entries match handlers, stale pointers are readable, a task is sent once, no connection leaks, handlers have their own worker and connection until the first removal |
| `WorkerServer` | 2 connection attempts, 2 heartbeats, 2 unasked messages | 265 k | what registration can lose, one user of the socket, headers and payloads in step, only the server is waited for, shutdown gets as far as `logger_close` |
| `HeartbeatServer` | 3 connections, history of 2, answers of 1 entry, 2 fields, 3 pairs | 30 k | the list is the latest heartbeats, queries are fresh, order of timestamps, the form parser; every request read is answered |
| `JobHandler_CompletedIsFinal` | 1 job, 2 handlers | | violation: see below |
| `Registration_WorkerRegisters` | 1 worker server, 1 client | | violation |
| `StatsServer_EveryMessageAnswered` | 2 connections, 1 address | | violation |

### Bounds

Three threads and a ring that can be full, empty and in between cover
the signal races: a signal goes to one of two waiters while the third thread
steals. Two handlers are enough for a job to be in two hands at once, two jobs
for one pass of `CheckTimeouts` to retry one and end the other, two failed sends
for a job to be brought back twice. The safety properties of these two runs are
also proved for all bounds. In `JobServer_safety` one
job suffices because the job table has a run of its own; two worker ids allow a
reconnect with a stale id while the old entry is still registered.

`JobWorker` needs two connections for a thread to be overtaken by a new one, and
two assignments for an answer to be read one job late. In `JobClients` two
clients on two descriptors, each reused, are enough for an announcement to meet a
descriptor of somebody else, two calls for an answer to be taken by the next
call, a buffer of one message for sends to block. With as many descriptors as
clients nobody queues for one; the theorem covers that case (`Queueing`).

The task manager's ring is smaller than its table so that pushes fail while there
is room in the table. Two handler threads and two descriptors, each reused, are
enough in the central server for a repeated id (one worker leaves and comes back
behind the other), for a shifted entry under a stale pointer, and for a second
`close` that hits a new connection. A full registry, which these bounds do not
reach, has the effect of a failed registration: the handler closes the
connection. The central server creates a single task.

In `WorkerServer` two unasked messages allow a task in answer to a heartbeat and
one behind it. In `HeartbeatServer` three connections overfill a history of two
or query it between two additions; its safety properties are proved for all
bounds, and three pairs for two fields give every way to repeat or miss a field.

### Fairness

* `RingBuffer`: a runnable thread gets the mutex (weak fairness of `Resume`) and
  a deadline that has passed ends the wait (strong fairness of `Expire`: the
  deadline is absolute and computed once, so every later wait of the same call
  ends at once).
* `JobHandler`: the main loop runs both checks every second, a send ends one way
  or the other, some idle worker asks again (`job_thread_func` polls), and a
  worker that has a job reports or is lost.
* `TaskManager`: the creating thread goes on, the timeout checker runs every five
  seconds and gets the mutex in the end, and a taker goes on with the task it has.
  Nothing makes a taker ask: a worker that was given a task stays `BUSY`, because
  its result is dropped (`central_server.c:167`). `EveryTaskEnds` is therefore
  about tasks that were taken; one that stays in the ring does not end.
* `JobWorker`: each thread takes its next step when it can, a job ends
  (`Process`) and a join returns. Nothing makes a user stop the worker or the
  server close.
* `WorkerServer`: both threads run on, and the central server closes the
  connection of a worker that has fallen silent: the receive of its handler has a
  timeout (`SO_RCVTIMEO`, `central_server.c:261`).
* `HeartbeatServer`: a thread that has read its request runs on; a peer may stay
  silent for ever.
* `StatsServer`: the only thread runs on. `Registration`: something happens as
  long as something can.
* `JobClients` has no fairness: the questions of liveness that matter here are
  who waits for whom, and a state of rest answers them.

### States of rest

`NobodyStuck` (`JobClients`), `NeverStandsStill` (`JobWorker`) and
`OnlyServerAwaited` (`WorkerServer`) are invariants about states in which no
program can go on by itself: nobody has stopped everybody. They need no fairness.
Each module spells out in `CanStep` what a thread waits for at each place (a free
mutex, something to read, room in a buffer, the end of another thread), because
the prover cannot reason about `ENABLED`.

### What the violations show

* `CompletedIsFinal`: a job can time out, be reassigned and even be completed
  while the thread that first took it is still in its send. When that send then
  fails the code takes the job back without looking: the running statistic is one
  too low for ever, and a completed job is run again (`job_handler.c:218-232`).
  `GaugeDrift` is what remains true.
* `WorkerRegisters`: `send_message` writes a whole message with its type in
  network order; `recv_header` reads eight bytes and converts nothing
  (`net_utils.c:8-27`, `:49-62`). On a little-endian host the central server
  refuses every first message. On a big-endian one it takes the rest of the
  registration for the next header.
* `EveryMessageAnswered`: the first message makes `update_ip_stats` call
  `save_ip_stats`, which locks the mutex its caller holds (`server.c:111`,
  `:126`): the server waits for itself.

### What the qualified properties show

Some properties carry a condition, and each condition names something the code
does.

* `LiveGaugeNeverHigh` is an inequality: a worker marked offline between the two
  critical sections of its request is taken off the idle statistic twice
  (`worker_manager.c:266`).
* `OrphansComeFromErrors`: after a receive error the worker stays registered
  under a closed descriptor, and the next connection on that descriptor is taken
  for it at its end (`server.c:250-253`, `worker_manager.c:183`). Nothing else
  leaves such an entry.
* `OwnWorkerUntilRemoval`: worker ids of the central server are the number of
  workers plus one, so they repeat after a removal (`worker_registry.c:84`); a
  handler then finds the other worker, or follows a pointer to an entry that has
  been refilled, and sends its task there (`central_server.c:209`, `:240`).
  `EntriesMatchHandlers`, `ConnectionsAccountedFor`, `SearchesFind` and
  `StalePointerReadable` hold even then: neither entries nor connections leak,
  searches do not fail, and the stale entry is never unwritten memory.
* The same property covers the connections (`OwnConnectionUntilRemoval`): a
  removal closes the descriptor of the entry it finds, which may be another
  handler's, and after a failed registration response the handler closes its own
  a second time (`central_server.c:281`). Without a removal every thread keeps
  its connection.
* `AnswersArrive`, `StopReturns` (`JobWorker`) except when `overtaken`: a thread
  that copied the descriptor before a reconnect reads on a connection on which
  nobody owes it an answer (`worker.c:366`), and may wait there for ever.
  `NeverStandsStill` has the same exception.
* `AnswersInStep` counts what is `behind`: a client that took an announcement for
  an answer reads every later answer one call late (`server.c:494`).
* `InternalErrorExplained`: a query that does not run out of memory finds a
  completed job without its result only after a revived job or during shutdown.
* `NobodyStuck` except for a silent peer, which keeps the accept thread from
  accepting others (`server.c:75`; `Silenced`), for `check_timeouts` waiting with
  `g_job_mutex` for room in the buffer of a client that is between two calls and
  reads nothing (`job_handler.c:501`; `HeldUp`), and for an accept thread that is
  left in `accept` (`server.c:426`).
* `OnlyThirdResponseLost`: the loop of three rounds is good for two
  (`worker_server.c:105`).
* `WorkerServerInv` and `StreamInStep` except when a task answered a heartbeat,
  whose handler unlocks the mutex twice (`worker_server.c:147`). Even then
  `OnlyServerAwaited` holds: the threads do not lock each other out. Its other
  exceptions are the logger's mutex, which a cancelled thread or an interrupted
  call keeps for ever, and `logger_close`.
* `ShutdownReachesClose` ends at `logger_close`: it holds the logger's mutex when
  it logs its last message (`logger.c:102`, `:167`) and, at the level `INFO` with
  which both servers start the logger, waits for itself.
* `StampsInOrder` is about connections that do not overlap: a node is stamped
  before the mutex is taken (`heartbeat_server.c:154`), so overlapping ones can be
  listed against their timestamps.
* `QueryIsFresh` allows an answer that is cut at `BUFFER_SIZE` while its
  `Content-Length` is that of the whole history (`heartbeat_server.c:270`).
* `FormParser`: the parser counts pairs, so a complete form with a repeated field
  is refused and an incomplete one may be taken (`heartbeat_server.c:362`).

The central server also reads each result and drops it, because `recv_payload`
returns 0 and the caller expects a length (`central_server.c:167`); `RecvResult`
in the model does the same.

## 4. Proofs

All theorems hold for every value of the constants that satisfies the named
assumptions (`RingAssumption`, `JobAssumption`, `WorkerAssumption`,
`SocketAssumption`, `TaskAssumption`, `RegistryAssumption`,
`WorkerServerAssumption`, `HeartbeatAssumption`, `ClientsAssumption`). Each
inductive invariant named below was checked by TLC on the reachable states of
the run's instance before it was proved.

* `RingSafe`, `NoWakeupLost` (`RingBuffer_proofs`). The inductive invariant of
  the first is `TypeOK /\ RingInv`. `NoLostWakeup` is inductive on top of it:
  a push raises `size` by one and, if there is a sleeper, the number of woken
  threads by one; a woken thread that finds nothing proves the ring empty.
  Cardinalities of the sets of woken threads come from `FiniteSetTheorems`,
  which is why the set of threads must be finite.
* `RingImplementsQueue` (`RingBuffer_proofs`). The refinement mapping reads
  the queue from `head`. Enqueue appends and dequeue removes the first element
  by modular arithmetic under `RingInv`; all other steps leave the contents.
* `JobTableSafe` (`JobHandler_proofs`). `SlotOrder` is inductive together with
  the types (`JobTypeOK`) and `Fresh`: unused slots are as `calloc` left them,
  and ids in the hands of handlers and workers have been given out.
* `StatisticsConserved`, `StatisticsDrift`, `AttemptsAreBounded`,
  `VerdictsFinal` (`JobHandler_proofs`). The drift needs how the cardinality
  of the slots in a status changes when one slot, or in `CheckTimeouts` a set of
  slots, changes status. The attempts need a strengthening: a job that can be
  tried again has an attempt left in its budget.
* `ServerTablesSafe`, `GaugeNeverHigh`, `ServerUsesJobHandler`,
  `ServerStatistics`, `OrphansFromErrors` (`JobServer_proofs`).
  `ServerInductive` says that ids of entries are unique, that every handler is
  at a place of its loop that fits what it has in hand (`Places`), and that the
  gauges do not count more than the live entries. Each step is classified by
  what it does to the set of live entries (one enters, one leaves, nothing
  changes), so that the gauge is argued about once per class and not once per
  message. `Places` gives the refinement: a handler calls the job handler only
  with a worker and a job that `JobHandler` allows, so every step of the server
  is a step of `JobSpec` or leaves its variables alone, and the theorems about
  statistics, attempts and verdicts hold in the server. The action property
  follows from the same invariant: the descriptor in an entry changes only where
  the worker registers.
* `TableSorted`, `PendingTasksInTransit` (`CentralServer_proofs`). The two support
  each other: that assignment finds its task needs that what is in transit is in
  the table, and that the table has room for the task being created needs how
  many rows are taken (`RoomForCreating`).
* `UsesTaskManager`, `EntriesAndHandlers`, `SearchesNeverFail`,
  `PointersReadable`, `SentOnce`, `NoConnectionLeaks`, `RightWorkerUntilRemoval`
  (`CentralServer_proofs`). The central server
  implements `TaskSpec`, which carries the two theorems above over to it.
  `CentralInductive` adds where each thread is, that every entry below `count`
  has been written and that entries and handlers with the same id are equally
  many. Removal shifts the array; the shift is a bijection between the remaining
  entries before and after it, from which the cardinalities follow. It also
  keeps the descriptors of all entries but the one it closes
  (`ShiftKeepsOthers`), so no connection leaks: each open one is main's, a
  closing thread's or in an entry. A task is sent once because a task that was
  marked as assigned is never pending again. Searches succeed because an id held
  by a handler is held by at least one entry, the first of which the loop finds,
  and because a task in a handler's hand is in transit, hence in the table; that
  is why the handlers of the model have no branch for an id or a task that is
  not found. Connections are the threads' own by an invariant that lasts until
  the first removal: only `Accept` opens a descriptor, and only its owner closes
  it.
* `OneSocketUser`, `ThirdResponseLost`, `PayloadsReadInStep`,
  `StandstillExplained` (`WorkerServer_proofs`). `Inductive` names the owner of
  the mutex at every place of the two threads, as long as none of them has taken
  it from the other (`stolen`), the shapes the stream can have (a payload only
  after its header) and which counters are possible at which place of the
  registration loop. The last theorem adds `Locks`: each mutex is free or held
  by a thread at a place from which it gives it back, stolen or not, unless the
  thread was ended there. So the holder of a mutex somebody waits for can go on,
  or reads from the server.
* `WorkerTyped`, `EveryWaitAnswered`, `BeatsUnderOwnId`, `CountedAccepted`,
  `WorkerKeepsGoing` (`JobWorker_proofs`). First, what each thread knows of the
  connection at each place (`Good`): only one thread at a time can replace it,
  since main leaves it to the heartbeat thread from `RUN` to `JOIN`, and whoever
  replaced it registers or gives up before the next beat. Second, the answers
  (`WorkerInductive`): on the connection in use there are no more answers than
  threads that will still read one (`Bounded`), so when the job thread has read
  a wrong answer at most one is left. An acknowledgment it did not get is
  therefore the *next* answer on that connection, and somebody reads it before
  the job thread can have another job (`Acks`). That is why an answer without a
  job number cannot be taken for the acknowledgment of a later job.
  `AnswersArrive` counts: each send adds one answer and one waiter, each read
  takes one of both. `WorkerKeepsGoing` looks at a state of rest: every reader
  has something to read, so the holder of the lock, which is at most at a read,
  could go on; hence the lock is free, no thread is inside an operation and the
  heartbeat thread has ended, which it does not do while main runs (`Running`):
  main is past its joins, and the job thread has ended too.
* `ClientsTyped`, `RequestsInStep`, `AnnouncementsReachSubmitters`,
  `InternalErrorsExplained`, `NobodyWaitsOnEverybody` (`JobClients_proofs`).
  `ClientsInductive` says that a descriptor belongs to one client (`Wired`),
  what each end knows while the connection is set up (`Greeted`; a peer that is
  still in front of the accept thread has been written nothing but
  announcements), that a handler has an answer exactly while it is to send it
  (`Replies`), and that the descriptor in a job or in a note leads to the
  submitter until that connection is closed (`Owners`, `Reaches`). The rest
  counts (`Owes`, `Tagged`): the answers a client is still owed, on the wire or
  in its handler's hands, are those of its open call and of the calls it is
  behind. At most one answer is being prepared for a client because descriptors
  are injective, and a client that is idle and not behind is owed nothing, so
  the next answer it gets carries the number of its call. Each step is
  classified by what it does to threads and connections (`Kind`) and to the job
  table (`TableKind`), and each part of the invariant is argued once per class.
  `NobodyWaitsOnEverybody` looks at a state of rest: a client that waits has
  read all there is, so no send to it blocks; `check_timeouts` sends to the
  least of the jobs that are due, hence is done unless an idle client holds it
  up (`HeldUp`), and `g_job_mutex` is free; then every handler waits for its
  client, and by `Owes` no client that waits is owed anything; one that is not
  accepted is `Queueing`. It needs that each open connection has a handler or is
  in front of the accept thread (`Manned`) and that a greeting the accept thread
  has not taken yet is there for it to read (`Spoken`).
* `HeartbeatSafe`, `QueriesFresh`, `TimestampsOrdered`, `FormsParsed`
  (`HeartbeatServer_proofs`). `HistoryIsLatest` is inductive with the types,
  which say that `history_mutex` is held exactly while its owner is inside one
  of the two functions that lock it: an addition trims the list exactly when it
  was full, and every entry moves one place further from the end of the log.
  `QueryIsFresh` needs `AcceptedBefore`: the log has not become shorter since a
  connection was accepted, and a connection that is not yet accepted has no
  answer. The order of timestamps needs two facts about the threads on top of
  it: what is logged was stamped in the past by a thread that is done
  (`LoggedBefore`), and a node on its way to the mutex is no older than what its
  thread found at the accept (`StampedAfter`).

  `FormsParsed` holds for forms of any length: the fields a form gives are the
  image of its valid pairs, so there are at most as many of them as pairs counted,
  and exactly as many when no field is repeated (`GivenByPairs`,
  `FormOfAnyLength`).

Only proved: what these theorems say of the types (`TypeOK`, `WorkerTypeOK`,
`ClientsTypeOK` and `ServerInv`) and of `RingInv`, `TasksSorted`,
`GaugesConserved`, `SearchesFind` and the refinement of `TaskSpec` by the central
server. TLC has checked them on the instances of section 3; as theorems for all
constants they need no run of their own.

Only model-checked: liveness (`TimedCallReturns`, `SleepersServed`,
`EveryJobEnds`, `EveryTaskEnds`, `StopReturns`, `ShutdownReachesClose`,
`RequestsAnswered`), which needs fairness and is out of the prover's reach.
`NobodyStuck`, `NeverStandsStill` and `OnlyServerAwaited` are the parts of these
questions that are safety, and are proved.

## 5. Not modelled, and what could follow

* Shutdown of the central server by signal, freeing the worker table of the job
  server at exit, and the `destroy` functions of ring buffer, task manager and
  registry: they run after the threads have been told to stop, or never.
  `JobClients` has the same question for the job table.
* `JobServer`, `JobWorker` and `JobClients` are not composed into one model: each
  has the other side reduced to what it can observe. Together they are out of
  TLC's reach.
* `create_server_socket` of `net_utils.c`, levels and formats of the logger;
  socket timeouts appear only as a receive that fails.
* `generate_unique_id`, which nobody calls; the IP lists, which `server.c` of
  `c-client-server-app` does not call; `clear_heartbeat_history`, which only
  tests call.
* Left out for good: `tests/Unity` (vendored), `bin2arr` and the traffic analyzer
  (sequential I/O), `sysinfo.c` (reads `/proc`), the heartbeat client and the TCP
  client (one request each), the duplicates `*.bak`,
  `heartbeat_server_original.c` and `*_test_impl.c`, and command-line parsing.
