--------------------------- MODULE CentralServer ---------------------------
(***************************************************************************)
(* central_server/central_server.c: the acceptor, a handler thread per     *)
(* connection and the timeout checker, on top of the task table and the    *)
(* worker registry.                                                        *)
(*                                                                         *)
(* A step of a handler is one critical section, one system call on a       *)
(* socket, or one read through the pointer worker_registry_get returned,   *)
(* which happens after the lock was released.  What a handler receives is  *)
(* arbitrary: another thread may have closed its descriptor, and the       *)
(* kernel may have given it to another connection.  The peers are those    *)
(* that send headers the way recv_header reads them.                       *)
(***************************************************************************)
EXTENDS TaskManager, WorkerRegistry

VARIABLES
  open,       \* the descriptors that are open
  main,       \* the connection whose first header main is waiting for
  pc,         \* pc[t]: what handler thread t does next
  sock,       \* sock[t]: its sockfd
  wid,        \* wid[t]: its worker_id
  ptr,        \* ptr[t]: the entry its worker_info_t pointer points to, or 0
  task,       \* task[t]: the task it has marked as assigned and will send, or 0
  sent,       \* history: the tasks sent, by whom, on which descriptor
  removed     \* history: a worker has been removed from the registry

threadVars == <<pc, sock, wid, ptr, task>>
historyVars == <<sent, removed>>
vars == <<taskVars, registryVars, open, main, threadVars, historyVars>>

Pcs == {"none", "client", "register", "reply", "undo", "close", "recv", "get",
        "test", "pop", "assign", "busy", "send", "idle", "remove"}

Init ==
  /\ TaskInit /\ RegistryInit
  /\ open = {}
  /\ main = NoFd
  /\ pc = [t \in Takers |-> "none"]
  /\ sock = [t \in Takers |-> NoFd]
  /\ wid = [t \in Takers |-> 0]
  /\ ptr = [t \in Takers |-> 0]
  /\ task = [t \in Takers |-> 0]
  /\ sent = {}
  /\ removed = FALSE

Goto(t, from, to) == pc[t] = from /\ pc' = [pc EXCEPT ![t] = to]

\* The thread ends; nothing else refers to it.
Exit(t, from) ==
  /\ Goto(t, from, "none")
  /\ sock' = [sock EXCEPT ![t] = NoFd]
  /\ wid' = [wid EXCEPT ![t] = 0]
  /\ ptr' = [ptr EXCEPT ![t] = 0]
  /\ UNCHANGED task

-----------------------------------------------------------------------------
\* main creates one task, before it accepts the first connection.
CreateSampleTask ==
  /\ \/ next_task_id = 1 /\ CreatePush
     \/ CreateInsert
  /\ UNCHANGED <<registryVars, open, main, threadVars, historyVars>>

\* main accepts a connection ...
Accept ==
  /\ next_task_id > 1 /\ creating = 0
  /\ main = NoFd
  /\ \E fd \in Fds \ open : main' = fd /\ open' = open \cup {fd}
  /\ UNCHANGED <<taskVars, registryVars, threadVars, historyVars>>

\* ... and reads its first header, waiting for it as long as it takes.  A
\* registration starts a handler, the client_id in it tells which one.
StartHandler(t) ==
  /\ main # NoFd
  /\ \/ Goto(t, "none", "register")
     \/ Goto(t, "none", "client")
  /\ sock' = [sock EXCEPT ![t] = main]
  /\ main' = NoFd
  /\ UNCHANGED <<taskVars, registryVars, open, task, wid, ptr, historyVars>>

\* Anything else, or an error, ends the connection.
RejectConnection ==
  /\ main # NoFd
  /\ open' = open \ {main}
  /\ main' = NoFd
  /\ UNCHANGED <<taskVars, registryVars, threadVars, historyVars>>

\* client_handler_thread answers the registration and reads messages, none of
\* which changes anything (a submitted job is only logged), then closes.
ClientEnds(t) ==
  /\ Exit(t, "client")
  /\ open' = open \ {sock[t]}
  /\ UNCHANGED <<taskVars, registryVars, main, historyVars>>

\* worker_handler_thread waits for a second registration header and enters
\* the worker; if either fails it closes the connection.
RegisterWorker(t) ==
  /\ \/ /\ RegistryAdd(sock[t])
        /\ wid' = [wid EXCEPT ![t] = count + 1]
        /\ Goto(t, "register", "reply")
     \/ /\ Goto(t, "register", "close")
        /\ UNCHANGED <<registryVars, wid>>
  /\ UNCHANGED <<taskVars, open, main, task, sock, ptr, historyVars>>

\* The registration response is sent, or it is not.
ReplyRegistered(t) ==
  /\ \/ sock[t] \in open /\ Goto(t, "reply", "recv")
     \/ Goto(t, "reply", "undo")
  /\ UNCHANGED <<taskVars, registryVars, open, main, task, sock, wid, ptr, historyVars>>

\* worker_registry_remove after a failed response: it closes the descriptor
\* of the entry it finds.
UndoRegistration(t) ==
  /\ Goto(t, "undo", "close")
  /\ RegistryRemove(wid[t])
  /\ open' = open \ ClosedBy(wid[t])
  /\ wid' = [wid EXCEPT ![t] = 0]
  /\ removed' = TRUE
  /\ UNCHANGED <<taskVars, main, task, sock, ptr, sent>>

\* close(sockfd), also after UndoRegistration has closed it.
CloseConnection(t) ==
  /\ Exit(t, "close")
  /\ open' = open \ {sock[t]}
  /\ UNCHANGED <<taskVars, registryVars, main, historyVars>>

\* MSG_TYPE_HEARTBEAT; the handler goes on whether the response is sent or
\* not, and looks for work if the ring is not empty.
RecvHeartbeat(t) ==
  /\ SetHeartbeat(wid[t])
  /\ Goto(t, "recv", IF task_queue = <<>> THEN "recv" ELSE "get")
  /\ UNCHANGED <<taskVars, open, main, task, sock, wid, ptr, historyVars>>

\* MSG_TYPE_TASK_RESULT: recv_payload returns 0 when it succeeds, which is
\* not sizeof(result), so handle_task_result always gives up after reading.
RecvResult(t) ==
  /\ Goto(t, "recv", IF task_queue = <<>> THEN "recv" ELSE "get")
  /\ UNCHANGED <<taskVars, registryVars, open, main, task, sock, wid, ptr, historyVars>>

\* recv_header failed: the peer is gone or silent for WORKER_TIMEOUT_SEC.
RecvFails(t) ==
  /\ Goto(t, "recv", "remove")
  /\ UNCHANGED <<taskVars, registryVars, open, main, task, sock, wid, ptr, historyVars>>

\* The thread removes the worker, which closes the descriptor in the entry.
RemoveWorker(t) ==
  /\ RegistryRemove(wid[t])
  /\ open' = open \ ClosedBy(wid[t])
  /\ Exit(t, "remove")
  /\ removed' = TRUE
  /\ UNCHANGED <<taskVars, main, sent>>

\* assign_task_to_worker: get the pointer ...
GetWorker(t) ==
  /\ Goto(t, "get", "test")
  /\ \E i \in EntryOf(wid[t]) : ptr' = [ptr EXCEPT ![t] = i]
  /\ UNCHANGED <<taskVars, registryVars, open, main, task, sock, wid, historyVars>>

\* ... look at the status it points to, by now unprotected ...
TestIdle(t) ==
  /\ \/ /\ Goto(t, "test", "pop")
        /\ workers[ptr[t]].status = "IDLE"
        /\ UNCHANGED ptr
     \/ /\ Goto(t, "test", "recv")
        /\ workers[ptr[t]].status # "IDLE"
        /\ ptr' = [ptr EXCEPT ![t] = 0]
  /\ UNCHANGED <<taskVars, registryVars, open, main, task, sock, wid, historyVars>>

\* ... take a task ...
PopTask(t) ==
  /\ \/ GetNextTask(t) /\ Goto(t, "pop", "assign") /\ UNCHANGED ptr
     \/ /\ task_queue = <<>>
        /\ Goto(t, "pop", "recv")
        /\ ptr' = [ptr EXCEPT ![t] = 0]
        /\ UNCHANGED taskVars
  /\ UNCHANGED <<registryVars, open, main, task, sock, wid, historyVars>>

\* ... mark it as assigned ...
MarkAssigned(t) ==
  /\ Goto(t, "assign", "busy")
  /\ task' = [task EXCEPT ![t] = hand[t]]
  /\ AssignTask(t)
  /\ UNCHANGED <<registryVars, open, main, sock, wid, ptr, historyVars>>

\* ... and its worker as busy ...
MarkBusy(t) ==
  /\ Goto(t, "busy", "send")
  /\ SetStatus(wid[t], "BUSY")
  /\ UNCHANGED <<taskVars, open, main, sock, wid, ptr, task, historyVars>>

\* ... and send it on the descriptor the pointer leads to by now.
SendTask(t) ==
  /\ \/ /\ Goto(t, "send", "recv")
        /\ workers[ptr[t]].sockfd \in open
        /\ sent' = sent \cup {[task |-> task[t], by |-> sock[t],
                              on |-> workers[ptr[t]].sockfd]}
     \/ Goto(t, "send", "idle") /\ UNCHANGED sent
  /\ task' = [task EXCEPT ![t] = 0]
  /\ ptr' = [ptr EXCEPT ![t] = 0]
  /\ UNCHANGED <<taskVars, registryVars, open, main, sock, wid, removed>>

\* After a failed send the worker is idle again; the task stays assigned.
MarkIdle(t) ==
  /\ Goto(t, "idle", "recv")
  /\ SetStatus(wid[t], "IDLE")
  /\ UNCHANGED <<taskVars, open, main, sock, wid, ptr, task, historyVars>>

\* timeout_checker_thread checks the workers and then the tasks, each under
\* its own lock.
CheckWorkers ==
  /\ CheckWorkerTimeouts
  /\ UNCHANGED <<taskVars, open, main, threadVars, historyVars>>

CheckTasks ==
  /\ CheckTaskTimeouts
  /\ UNCHANGED <<registryVars, open, main, threadVars, historyVars>>

Clock ==
  /\ TaskTick /\ RegistryTick
  /\ UNCHANGED <<open, main, threadVars, historyVars>>

WorkerHandler(t) ==
  \/ RegisterWorker(t) \/ ReplyRegistered(t) \/ UndoRegistration(t)
  \/ CloseConnection(t) \/ RecvHeartbeat(t) \/ RecvResult(t) \/ RecvFails(t)
  \/ RemoveWorker(t) \/ GetWorker(t) \/ TestIdle(t) \/ PopTask(t)
  \/ MarkAssigned(t) \/ MarkBusy(t) \/ SendTask(t) \/ MarkIdle(t)

Next ==
  \/ CreateSampleTask
  \/ Accept
  \/ RejectConnection
  \/ CheckWorkers
  \/ CheckTasks
  \/ Clock
  \/ \E t \in Takers : StartHandler(t) \/ ClientEnds(t) \/ WorkerHandler(t)

Spec == Init /\ [][Next]_vars

-----------------------------------------------------------------------------
\* The descriptors and the handler threads are well typed.
CentralTypeOK ==
  /\ TaskTypeOK /\ RegistryTypeOK
  /\ open \subseteq Fds /\ main \in Fds \cup {NoFd}
  /\ pc \in [Takers -> Pcs]
  /\ sock \in [Takers -> Fds \cup {NoFd}]
  /\ wid \in [Takers -> 0 .. RegistryCapacity]
  /\ ptr \in [Takers -> 0 .. RegistryCapacity]
  /\ task \in [Takers -> 0 .. MaxTaskIds]
  /\ sent \subseteq [task : 1 .. MaxTaskIds, by : Fds, on : Fds]
  /\ removed \in BOOLEAN

\* Although ids repeat and a handler may remove the entry of another, there
\* are as many entries with an id as handlers that hold it: entries neither
\* leak nor vanish under a handler, whose searches never fail.
EntriesMatchHandlers ==
  \A id \in 1 .. RegistryCapacity :
    Cardinality({i \in 1 .. count : workers[i].worker_id = id})
      = Cardinality({t \in Takers : wid[t] = id})

\* No search fails, whatever other handlers have removed meanwhile: a handler
\* with an id finds an entry for it, not always its own, and a handler with a
\* task finds the row of the task.  So no handler gets NULL or -1 from
\* worker_registry_get, worker_registry_update_status, worker_registry_remove
\* or task_manager_assign_task, and what the code does then
\* (central_server.c:210, 223) is never reached.
SearchesFind ==
  \A t \in Takers :
    /\ wid[t] # 0 => EntryOf(wid[t]) # {}
    /\ pc[t] = "assign" => creating = 0 /\ RowOf(hand[t]) # {}

\* The state is well typed, and what a handler reads through its pointer after
\* the lock was released may belong to another worker, but is never memory
\* that was not written.
StalePointerReadable ==
  /\ CentralTypeOK
  /\ \A t \in Takers : ptr[t] # 0 => workers[ptr[t]].sockfd \in Fds

\* A task is sent at most once, ever, whatever handlers race for it: no two
\* of the tasks sent are the same, and nobody is about to send one again.
TaskSentOnce ==
  /\ \A r, s \in sent : r.task = s.task => r = s
  /\ \A t \in Takers, s \in sent : task[t] # s.task

\* No connection leaks, although a handler may remove the entry of another and
\* leave its own behind: an open descriptor is the one main reads from, belongs
\* to a thread that will close it itself, or is in an entry, whose removal
\* closes it.
ConnectionsAccountedFor ==
  \A fd \in open :
    \/ fd = main
    \/ \E t \in Takers : pc[t] \in {"client", "register", "close"} /\ sock[t] = fd
    \/ \E i \in 1 .. count : workers[i].sockfd = fd

\* As long as no worker has been removed, no descriptor is closed under the
\* thread that uses it or shared by two threads: main and the handlers close
\* only what is theirs.  It is worker_registry_remove that breaks this, which
\* closes the descriptor of the entry it finds and, after a failed
\* registration, one that the handler closes again (central_server.c:281).
OwnConnectionUntilRemoval ==
  ~removed =>
    /\ main # NoFd => main \in open
    /\ \A t \in Takers : pc[t] # "none" => sock[t] \in open /\ sock[t] # main
    /\ \A t, u \in Takers : pc[t] # "none" /\ sock[t] = sock[u] => t = u

\* As long as no worker has been removed, an id names one worker, the pointer
\* a handler holds leads to its own worker, and a task goes out on the
\* connection of the handler that took it.  Removals are what breaks this: ids
\* are count + 1 (worker_registry.c:84) and entries move under the pointers
\* (central_server.c:209).
OwnWorkerUntilRemoval ==
  /\ OwnConnectionUntilRemoval
  /\ ~removed =>
       /\ \A i, j \in 1 .. count : workers[i].worker_id = workers[j].worker_id => i = j
       /\ \A t \in Takers : ptr[t] # 0 => workers[ptr[t]].sockfd = sock[t]
       /\ \A s \in sent : s.on = s.by
=============================================================================
