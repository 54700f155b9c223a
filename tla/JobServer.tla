----------------------------- MODULE JobServer -----------------------------
(***************************************************************************)
(* server/server.c with server_main.c: the handler threads of the worker   *)
(* connections drive the job handler and the worker manager, whose locks   *)
(* they take one after the other, while the main loop checks timeouts.     *)
(*                                                                         *)
(* A message is handled in the order the handler reads it; which message   *)
(* comes next is the worker's choice among those worker.c sends in its     *)
(* current situation.  Descriptors are reused after close.                 *)
(***************************************************************************)
EXTENDS JobHandler, WorkerManager

\* A connection is known by its descriptor to both components.
ASSUME SocketAssumption == Sockets = Handlers

VARIABLES
  conn,     \* conn[h]: the connection on descriptor h
  pc,       \* pc[h]: the next critical section of the handler thread of h
  wid       \* wid[h]: the worker_id the peer of h puts in its messages, or 0

serverVars == <<conn, pc, wid>>
allVars == <<jobVars, workerVars, serverVars>>

\* "fresh": accepted, not registered; "up": registered on this connection;
\* "eof" and "reset": receive_message will return 0 or a negative value; the
\* latter also stands for a handler that breaks because its response failed.
Conns == {"none", "fresh", "up", "eof", "reset"}
Pcs == {"closed", "recv", "assign", "send", "book", "release", "close"}

Alive(h) == conn[h] \in {"fresh", "up"}

Init ==
  /\ JobInit /\ WorkerInit
  /\ conn = [h \in Handlers |-> "none"]
  /\ pc = [h \in Handlers |-> "closed"]
  /\ wid = [h \in Handlers |-> 0]

Goto(h, from, to) == pc[h] = from /\ pc' = [pc EXCEPT ![h] = to]

\* send_message at the end of a message, then the next turn of the loop.  The
\* response goes to the peer, whose connection is then c; or the peer has gone,
\* the send fails and the handler breaks, to the same end as after an error of
\* receive_message.
Reply(h, from, c) ==
  /\ Goto(h, from, "recv")
  /\ \E end \in {c, "reset"} : conn' = [conn EXCEPT ![h] = end]

-----------------------------------------------------------------------------
\* accept_thread takes a connection on a free descriptor and starts its
\* handler thread.
Accept(h) ==
  /\ conn[h] = "none"
  /\ Goto(h, "closed", "recv")
  /\ conn' = [conn EXCEPT ![h] = "fresh"]
  /\ UNCHANGED <<jobVars, workerVars, wid>>

\* The worker loses patience with connection h, whose end the server will see
\* as an orderly close or as an error, and reconnects on k, still using its
\* old id until it has registered again.
Reconnect(h, k) ==
  /\ Alive(h) /\ conn[k] = "none"
  /\ Goto(k, "closed", "recv")
  /\ \E end \in {"eof", "reset"} :
       conn' = [conn EXCEPT ![h] = end, ![k] = "fresh"]
  /\ wid' = [wid EXCEPT ![k] = wid[h]]
  /\ Migrate(h, k)
  /\ UNCHANGED workerVars

\* The worker goes away for good.
Leave(h) ==
  /\ Alive(h)
  /\ \E end \in {"eof", "reset"} : conn' = [conn EXCEPT ![h] = end]
  /\ \/ working[h] # 0 /\ Abandon(h)
     \/ working[h] = 0 /\ UNCHANGED jobVars
  /\ UNCHANGED <<workerVars, pc, wid>>

\* MSG_TYPE_WORKER_REGISTER
RecvRegister(h) ==
  /\ conn[h] = "fresh"
  /\ UNCHANGED jobVars
  /\ \/ /\ Register(h)
        /\ wid' = [wid EXCEPT ![h] = g_next_worker_id]
        /\ Reply(h, "recv", "up")
     \/ /\ FreeWorkerSlots = {}
        /\ UNCHANGED <<workerVars, wid>> /\ Reply(h, "recv", conn[h])

\* MSG_TYPE_WORKER_HEARTBEAT
RecvHeartbeat(h) ==
  /\ Alive(h) /\ wid[h] # 0
  /\ \/ UpdateHeartbeat(wid[h])
     \/ WorkerAt(wid[h]) = {} /\ UNCHANGED workerVars
  /\ Reply(h, "recv", conn[h])
  /\ UNCHANGED <<jobVars, wid>>

\* MSG_TYPE_REQUEST_JOB: mark the worker idle ...
RecvRequest(h) ==
  /\ Alive(h) /\ wid[h] # 0 /\ working[h] = 0
  /\ \/ UpdateStatus(wid[h], "IDLE") /\ Goto(h, "recv", "assign") /\ UNCHANGED conn
     \/ WorkerAt(wid[h]) = {} /\ UNCHANGED workerVars /\ Reply(h, "recv", conn[h])
  /\ UNCHANGED <<jobVars, wid>>

\* ... take the oldest pending job, or answer that there is none ...
TakeJob(h) ==
  /\ \/ Assign(h) /\ Goto(h, "assign", "send") /\ UNCHANGED conn
     \/ /\ InState({"PENDING"}) = {}
        /\ UNCHANGED jobVars /\ Reply(h, "assign", conn[h])
  /\ UNCHANGED <<workerVars, wid>>

\* Mutant: a failed send does not take the job back.
SendToWorkerAndForget(h) ==
  /\ \/ SendJob(h) /\ Goto(h, "send", "book") /\ UNCHANGED conn
     \/ /\ ~Alive(h) /\ Reply(h, "send", conn[h])
        /\ sending' = [sending EXCEPT ![h] = 0]
        /\ UNCHANGED <<g_jobs, g_next_job_id, gauges, told, working, send_failures>>
  /\ UNCHANGED <<workerVars, wid>>

\* ... send it; a failed send takes the job back and answers "no job" ...
SendToWorker(h) ==
  /\ \/ SendJob(h) /\ Goto(h, "send", "book") /\ UNCHANGED conn
     \/ ~Alive(h) /\ SendFailed(h) /\ Reply(h, "send", conn[h])
  /\ UNCHANGED <<workerVars, wid>>

\* ... and mark the worker busy; if it is gone the handler gives up.
BookJob(h) ==
  /\ \/ AssignJob(wid[h]) /\ Goto(h, "book", "recv")
     \/ WorkerAt(wid[h]) = {} /\ UNCHANGED workerVars /\ Goto(h, "book", "close")
  /\ UNCHANGED <<jobVars, conn, wid>>

\* MSG_TYPE_JOB_COMPLETED and MSG_TYPE_JOB_FAILED: the job first.  If the job
\* handler refuses the report the worker is not touched.
RecvReport(h) ==
  /\ Alive(h) /\ wid[h] # 0
  /\ ReportDone(h) \/ ReportFailed(h)
  /\ \/ Reportable(working[h]) # {} /\ Goto(h, "recv", "release") /\ UNCHANGED conn
     \/ Reportable(working[h]) = {} /\ Reply(h, "recv", conn[h])
  /\ UNCHANGED <<workerVars, wid>>

\* ... then the worker.
ReleaseWorker(h) ==
  /\ \/ ReleaseJob(wid[h]) /\ Reply(h, "release", conn[h])
     \/ /\ WorkerAt(wid[h]) = {}
        /\ UNCHANGED <<workerVars, conn>> /\ Goto(h, "release", "close")
  /\ UNCHANGED <<jobVars, wid>>

\* MSG_TYPE_WORKER_DISCONNECT
RecvDisconnect(h) ==
  /\ Alive(h) /\ wid[h] # 0
  /\ \/ Unregister(wid[h])
     \/ WorkerAt(wid[h]) = {} /\ UNCHANGED workerVars
  /\ Reply(h, "recv", conn[h])
  /\ UNCHANGED <<jobVars, wid>>

\* close(socket) and the end of the handler thread: the descriptor can be used
\* again; a worker still attached loses its connection and the job it had.
Hangup(h) ==
  /\ pc' = [pc EXCEPT ![h] = "closed"]
  /\ conn' = [conn EXCEPT ![h] = "none"]
  /\ wid' = [wid EXCEPT ![h] = 0]
  /\ \/ working[h] # 0 /\ Abandon(h)
     \/ working[h] = 0 /\ UNCHANGED jobVars

\* Mutant: a worker that disconnects stays registered.
RecvEofKeeping(h) ==
  /\ conn[h] = "eof" /\ pc[h] = "recv"
  /\ Hangup(h)
  /\ UNCHANGED workerVars

\* receive_message returned 0: look the worker up by its socket, unregister
\* it and leave.  The lookup and the removal are two critical sections, but
\* ids are never reused, so nothing can change what the removal does.
RecvEof(h) ==
  /\ conn[h] = "eof" /\ pc[h] = "recv"
  /\ \/ Unregister(FindBySocket(h))
     \/ FindBySocket(h) = -1 /\ UNCHANGED workerVars
  /\ Hangup(h)

\* receive_message failed: the handler leaves without unregistering.
RecvError(h) ==
  /\ conn[h] = "reset" /\ pc[h] = "recv"
  /\ Hangup(h)
  /\ UNCHANGED workerVars

\* A handler that gave up on its peer closes the connection.
Close(h) == pc[h] = "close" /\ Hangup(h) /\ UNCHANGED workerVars

HandlerThread(h) ==
  \/ RecvRegister(h) \/ RecvHeartbeat(h) \/ RecvRequest(h)
  \/ TakeJob(h) \/ SendToWorker(h) \/ BookJob(h)
  \/ RecvReport(h) \/ ReleaseWorker(h) \/ RecvDisconnect(h)
  \/ RecvEof(h) \/ RecvError(h) \/ Close(h)

-----------------------------------------------------------------------------
\* A client handler submits a job.
ClientSubmit == Submit /\ UNCHANGED <<workerVars, serverVars>>

\* The main loop of server_main.c.
MainTimeouts == CheckTimeouts /\ UNCHANGED <<workerVars, serverVars>>
MainInactive == CheckInactive /\ UNCHANGED <<jobVars, serverVars>>

\* The clock of gettimeofday.
Clock == Tick /\ WorkerTick /\ UNCHANGED serverVars

Next ==
  \/ ClientSubmit
  \/ MainTimeouts
  \/ MainInactive
  \/ Clock
  \/ \E h \in Handlers :
       \/ Accept(h)
       \/ Leave(h)
       \/ HandlerThread(h)
       \/ \E k \in Handlers : Reconnect(h, k)

Spec == Init /\ [][Next]_allVars

-----------------------------------------------------------------------------
\* The connections and the handler threads are well typed.
ServerTypeOK ==
  /\ JobTypeOK /\ WorkerTypeOK
  /\ conn \in [Handlers -> Conns]
  /\ pc \in [Handlers -> Pcs]
  /\ wid \in [Handlers -> 0 .. MaxWorkerIds]

\* The tables are well typed, and an id names one entry of the worker table,
\* whatever workers reconnect under their old id while the old entry is there.
ServerInv == ServerTypeOK /\ WorkerIdsUnique

\* The handler threads, with their connections, drop-outs and re-registrations,
\* use the job handler only in ways JobHandler allows: what is shown of
\* JobSpec holds in the server.
UsesJobHandler == JobSpec

\* A registered worker whose connection is not there any more.
Orphan(s) ==
  /\ g_workers[s].worker_id # 0
  /\ wid[g_workers[s].socket] # g_workers[s].worker_id

\* Connections that end in order leave no worker behind in the table, although
\* the handler finds its worker by a descriptor that is reused: an entry loses
\* its connection only when a handler leaves after an error (server.c:250),
\* when an older leftover with the same descriptor is found in its place, or
\* when it is such a leftover itself and its worker came back on that descriptor
\* and registers anew.
OrphansComeFromErrors ==
  [][\A s \in WorkerSlots :
       Orphan(s)' /\ ~Orphan(s) =>
         LET h == g_workers[s].socket
         IN  \/ conn[h] \in {"reset", "fresh"} \/ pc[h] = "close"
             \/ \E r \in WorkerSlots : Orphan(r) /\ g_workers[r].socket = h]_allVars
=============================================================================
