---------------------------- MODULE WorkerServer ----------------------------
(***************************************************************************)
(* worker_server/worker_server.c with lib/src/logger.c: the main thread    *)
(* connects, registers and then waits for messages with socket_mutex held; *)
(* the heartbeat thread takes the same mutex for an exchange of its own.   *)
(*                                                                         *)
(* What arrives is a stream of headers; the one of a task is followed by   *)
(* its payload.  The server is worker_handler_thread of central_server.c,  *)
(* were its headers in the order recv_header reads them (Registration has  *)
(* the difference).  It answers requests and may send a task after the     *)
(* answer to a heartbeat.  Its receive has a timeout, SO_RCVTIMEO, after   *)
(* which the handler removes the worker and closes the connection.         *)
(***************************************************************************)
(* Left out: a task that another handler sends here through a stale        *)
(* pointer into the registry (see CentralServer).                          *)
(***************************************************************************)
EXTENDS Integers, Sequences

CONSTANTS
  MAX_RECONNECT_ATTEMPTS,
  MaxBeats,    \* bound: heartbeats tried
  MaxExtra     \* bound: messages nobody asked for

ASSUME WorkerServerAssumption ==
  MAX_RECONNECT_ATTEMPTS \in Nat \ {0} /\ MaxBeats \in Nat /\ MaxExtra \in Nat

VARIABLES
  worker_running,
  worker_id,       \* 0, or 1 once it is assigned
  socket_mutex,    \* its owner, or "free"
  log_mutex,       \* logger.mutex: its owner, or "free"
  main, heartbeat, \* the places of the two threads
  attempts,        \* attempts to connect that failed
  retries,         \* of register_with_server
  got_response,    \* register_with_server has read REGISTER_RESPONSE
  cancelled,       \* pthread_cancel was called
  signalled,       \* the signal has been delivered; the next one kills
  inbox,           \* what the server has sent and nobody has read
  asked,           \* requests the server has not answered
  eof,             \* the server has closed the connection
  beats, extra,
  stolen           \* a heartbeat was answered with a task

flags == <<worker_running, worker_id, cancelled, signalled, got_response>>
peer == <<inbox, asked, eof, extra>>
counters == <<attempts, retries, beats>>
vars == <<flags, socket_mutex, log_mutex, main, heartbeat, counters, peer, stolen>>

Headers == {"REGISTER_RESPONSE", "HEARTBEAT_RESPONSE", "TASK", "SHUTDOWN", "OTHER"}

Init ==
  /\ worker_running = TRUE /\ worker_id = 0
  /\ socket_mutex = "free" /\ log_mutex = "free"
  /\ main = "connect" /\ heartbeat = "none"
  /\ attempts = 0 /\ retries = 3 /\ got_response = FALSE
  /\ cancelled = FALSE /\ signalled = FALSE
  /\ inbox = <<>> /\ asked = <<>> /\ eof = FALSE
  /\ beats = 0 /\ extra = 0 /\ stolen = FALSE

-----------------------------------------------------------------------------
\* The server.  A registration that fails ends the connection; a heartbeat of a
\* worker that was taken out of the registry gets no answer.
Answers(r) ==
  IF r = "REGISTER" THEN {<<"REGISTER_RESPONSE">>}
  ELSE {<<>>, <<"HEARTBEAT_RESPONSE">>, <<"HEARTBEAT_RESPONSE", "TASK", "PAYLOAD">>}

ServerAnswers ==
  /\ asked # <<>> /\ ~eof
  /\ \E a \in Answers(Head(asked)) : inbox' = inbox \o a
  /\ asked' = Tail(asked)
  /\ UNCHANGED <<flags, socket_mutex, log_mutex, main, heartbeat, counters,
                 eof, extra, stolen>>

\* Messages that worker_server.c handles although central_server.c sends none.
ServerSends ==
  /\ main # "connect" /\ ~eof /\ extra < MaxExtra
  /\ \E h \in {"SHUTDOWN", "OTHER"} : inbox' = Append(inbox, h)
  /\ extra' = extra + 1
  /\ UNCHANGED <<flags, socket_mutex, log_mutex, main, heartbeat, counters,
                 asked, eof, stolen>>

\* worker_registry_remove: the receive timed out or failed, or the server stops.
ServerCloses ==
  /\ main # "connect" /\ ~eof
  /\ eof' = TRUE /\ asked' = <<>>
  /\ UNCHANGED <<flags, socket_mutex, log_mutex, main, heartbeat, counters,
                 inbox, extra, stolen>>

\* recv_header reads the next header.  From a payload somebody left behind it
\* reads eight bytes that mean nothing, with more of them behind it.
RecvHeader(h) ==
  /\ inbox # <<>>
  /\ IF Head(inbox) = "PAYLOAD"
     THEN h = "OTHER" /\ inbox' = <<"OTHER">> \o Tail(inbox)
     ELSE h = Head(inbox) /\ inbox' = Tail(inbox)
  /\ UNCHANGED <<asked, eof, extra>>

RecvFails == inbox = <<>> /\ eof

-----------------------------------------------------------------------------

\* connect_to_server: a signal ends the attempts.
ConnectFails ==
  /\ main = "connect"
  /\ attempts' = attempts + 1
  /\ main' = IF attempts' < MAX_RECONNECT_ATTEMPTS /\ worker_running
             THEN "connect" ELSE "bye"
  /\ UNCHANGED <<flags, socket_mutex, log_mutex, heartbeat, retries, beats, peer,
                 stolen>>

\* The connection is made and the registration sent.
Connect ==
  /\ main = "connect"
  /\ main' = "register"
  /\ asked' = <<"REGISTER">>
  /\ UNCHANGED <<flags, socket_mutex, log_mutex, heartbeat, counters, inbox,
                 eof, extra, stolen>>

\* Mutant: the test behind the loop in register_with_server is "retries <= 1".
RegisterRoundStrict(response) ==
  /\ retries' = retries - 1
  /\ got_response' = response
  /\ worker_id' = IF response /\ retries' > 1 THEN 1 ELSE worker_id
  /\ main' = IF response /\ retries' > 1 THEN "log"
             ELSE IF response \/ retries' = 0 THEN "bye" ELSE "register"
  /\ heartbeat' = IF main' = "log" THEN "log" ELSE "none"

\* One round of the loop in register_with_server.  The loop counts down before
\* it reads, so the last round leaves 0, which the test behind the loop takes
\* for a failure even when that round has read the response.  A registered
\* worker starts the heartbeat thread; both threads log that they run.
RegisterRound(response) ==
  /\ retries' = retries - 1
  /\ got_response' = response
  /\ worker_id' = IF response /\ retries' > 0 THEN 1 ELSE worker_id
  /\ main' = IF retries' = 0 THEN "bye"
             ELSE IF response THEN "log" ELSE "register"
  /\ heartbeat' = IF main' = "log" THEN "log" ELSE "none"

Register ==
  /\ main = "register"
  /\ \/ \E h \in Headers : RecvHeader(h) /\ RegisterRound(h = "REGISTER_RESPONSE")
     \/ RecvFails /\ RegisterRound(FALSE) /\ UNCHANGED peer
  /\ UNCHANGED <<worker_running, cancelled, signalled, socket_mutex, log_mutex,
                 attempts, beats, stolen>>

-----------------------------------------------------------------------------
\* Every message main deals with is logged before the next turn of the loop, and
\* the loss of the connection before the end.  A shutdown request takes effect
\* after the logging.
MainLogs == {"log", "shutdown", "lost"}
MainLog ==
  /\ main \in MainLogs
  /\ \/ log_mutex = "free" /\ log_mutex' = "main" /\ UNCHANGED <<main, worker_running>>
     \/ /\ log_mutex = "main" /\ log_mutex' = "free"
        /\ main' = IF main = "lost" THEN "cancel" ELSE "loop"
        /\ worker_running' = (worker_running /\ main # "shutdown")
  /\ UNCHANGED <<worker_id, cancelled, signalled, got_response, socket_mutex,
                 heartbeat, counters, peer, stolen>>

MainLoop ==
  /\ main = "loop"
  /\ main' = IF worker_running THEN "lock" ELSE "cancel"
  /\ UNCHANGED <<flags, socket_mutex, log_mutex, heartbeat, counters, peer, stolen>>

\* Mutant: main does not take the mutex while it waits.
MainNoLock ==
  /\ main = "lock"
  /\ main' = "recv"
  /\ UNCHANGED <<flags, socket_mutex, log_mutex, heartbeat, counters, peer, stolen>>

MainLock ==
  /\ main = "lock" /\ socket_mutex = "free"
  /\ socket_mutex' = "main" /\ main' = "recv"
  /\ UNCHANGED <<flags, log_mutex, heartbeat, counters, peer, stolen>>

AfterHeader(h) == CASE h = "TASK" -> "payload"
                    [] h = "SHUTDOWN" -> "shutdown"
                    [] OTHER -> "log"

\* Mutant: the mutex is released before the payload is read.
MainRecvSplit ==
  /\ main = "recv"
  /\ \E h \in Headers : RecvHeader(h) /\ main' = AfterHeader(h)
  /\ socket_mutex' = "free"
  /\ UNCHANGED <<flags, log_mutex, heartbeat, counters, stolen>>

\* Mutant: the mutex is not released after a message of an unknown type.
MainRecvKeeps ==
  /\ main = "recv"
  /\ \E h \in Headers :
       /\ RecvHeader(h)
       /\ main' = AfterHeader(h)
       /\ socket_mutex' = IF h \in {"TASK", "OTHER"} THEN socket_mutex ELSE "free"
  /\ UNCHANGED <<flags, log_mutex, heartbeat, counters, stolen>>

\* One message.  The header and the payload of a task are read in one critical
\* section.
MainRecv ==
  /\ main = "recv"
  /\ \E h \in Headers :
       /\ RecvHeader(h)
       /\ main' = AfterHeader(h)
       /\ socket_mutex' = IF h = "TASK" THEN socket_mutex ELSE "free"
  /\ UNCHANGED <<flags, log_mutex, heartbeat, counters, stolen>>

\* recv_payload returns 0 when it has read everything, which is not
\* sizeof(task): every task is dropped.  Out of step it swallows headers.
MainPayload ==
  /\ main = "payload"
  /\ \/ /\ inbox # <<>>
        /\ inbox' = Tail(inbox)
        /\ IF Head(inbox) = "PAYLOAD"
           THEN main' = "log" /\ socket_mutex' = "free"
           ELSE UNCHANGED <<main, socket_mutex>>
     \/ RecvFails /\ main' = "log" /\ socket_mutex' = "free" /\ UNCHANGED inbox
  /\ UNCHANGED <<flags, log_mutex, heartbeat, counters, asked, eof, extra, stolen>>

\* The connection has ended: no attempt to connect again.
MainRecvFails ==
  /\ main = "recv" /\ RecvFails
  /\ socket_mutex' = "free" /\ main' = "lost"
  /\ UNCHANGED <<flags, log_mutex, heartbeat, counters, peer, stolen>>

MainCancel ==
  /\ main = "cancel"
  /\ cancelled' = TRUE /\ main' = "join"
  /\ UNCHANGED <<worker_running, worker_id, signalled, got_response, socket_mutex,
                 log_mutex, heartbeat, counters, peer, stolen>>

MainJoin ==
  /\ main = "join" /\ heartbeat = "ended"
  /\ main' = "bye"
  /\ UNCHANGED <<flags, socket_mutex, log_mutex, heartbeat, counters, peer, stolen>>

\* The last message, and logger_close, which takes logger.mutex and logs
\* "Logger closed" under it: logger_log waits for the same mutex for ever.
MainBye ==
  /\ main = "bye" /\ log_mutex = "free"
  /\ main' = "logger_close" /\ log_mutex' = "main"
  /\ UNCHANGED <<flags, socket_mutex, heartbeat, counters, peer, stolen>>

-----------------------------------------------------------------------------
HeartbeatLoop ==
  /\ heartbeat = "loop"
  /\ heartbeat' = IF worker_running THEN "sleep" ELSE "stopping"
  /\ UNCHANGED <<flags, socket_mutex, log_mutex, main, counters, peer, stolen>>

HeartbeatLock ==
  /\ heartbeat = "sleep" /\ socket_mutex = "free" /\ beats < MaxBeats
  /\ socket_mutex' = "heartbeat" /\ heartbeat' = "send"
  /\ UNCHANGED <<flags, log_mutex, main, counters, peer, stolen>>

\* Mutant: a send that fails leaves without unlocking.
HeartbeatSendKeeps ==
  /\ heartbeat = "send"
  /\ \/ /\ eof
        /\ heartbeat' = "log"
        /\ UNCHANGED asked
     \/ /\ heartbeat' = "recv"
        /\ asked' = IF eof THEN asked ELSE Append(asked, "HEARTBEAT")
  /\ beats' = beats + 1
  /\ UNCHANGED <<flags, socket_mutex, log_mutex, main, attempts, retries, inbox,
                 eof, extra, stolen>>

HeartbeatSend ==
  /\ heartbeat = "send"
  /\ \/ /\ eof
        /\ heartbeat' = "log" /\ socket_mutex' = "free"
        /\ UNCHANGED asked
     \/ /\ heartbeat' = "recv"
        /\ asked' = IF eof THEN asked ELSE Append(asked, "HEARTBEAT")
        /\ UNCHANGED socket_mutex
  /\ beats' = beats + 1
  /\ UNCHANGED <<flags, log_mutex, main, attempts, retries, inbox, eof, extra,
                 stolen>>

\* The mutex is released before the type is looked at.
HeartbeatRecv ==
  /\ heartbeat = "recv"
  /\ \/ \E h \in Headers :
          /\ RecvHeader(h)
          /\ heartbeat' = CASE h = "HEARTBEAT_RESPONSE" -> "loop"
                            [] h = "TASK" -> "unlock"
                            [] OTHER -> "log"
          /\ stolen' = (stolen \/ h = "TASK")
     \/ RecvFails /\ heartbeat' = "log" /\ UNCHANGED <<peer, stolen>>
  /\ socket_mutex' = "free"
  /\ UNCHANGED <<flags, log_mutex, main, counters>>

\* A task in answer to a heartbeat: socket_mutex is unlocked a second time,
\* whoever has it now, and the payload stays in the stream.
HeartbeatUnlockAgain ==
  /\ heartbeat = "unlock"
  /\ socket_mutex' = "free" /\ heartbeat' = "log"
  /\ UNCHANGED <<flags, log_mutex, main, counters, peer, stolen>>

\* The thread logs when it starts, when a heartbeat failed and when it stops.
HeartbeatLogs == {"log", "stopping"}
HeartbeatLog ==
  /\ heartbeat \in HeartbeatLogs
  /\ \/ log_mutex = "free" /\ log_mutex' = "heartbeat" /\ UNCHANGED heartbeat
     \/ /\ log_mutex = "heartbeat" /\ log_mutex' = "free"
        /\ heartbeat' = IF heartbeat = "stopping" THEN "ended" ELSE "loop"
  /\ UNCHANGED <<flags, socket_mutex, main, counters, peer, stolen>>

\* The cancellation takes effect where the thread sleeps, writes or reads, in
\* the logger too; a mutex it holds stays locked.
HeartbeatCancelled ==
  /\ cancelled
  /\ \/ heartbeat \in {"sleep", "send", "recv"}
     \/ heartbeat \in HeartbeatLogs /\ log_mutex = "heartbeat"
  /\ heartbeat' = "ended"
  /\ UNCHANGED <<flags, socket_mutex, log_mutex, main, counters, peer, stolen>>

-----------------------------------------------------------------------------
(***************************************************************************)
(* The signal handler logs before it clears worker_running.  It runs in    *)
(* either thread: a thread interrupted inside the logger waits for itself, *)
(* a read that is interrupted fails with EINTR.  While it connects,        *)
(* registers and says goodbye, main logs as well.                          *)
(***************************************************************************)
SignalInLogger ==
  /\ ~signalled /\ signalled' = TRUE
  /\ \/ /\ main \in MainLogs /\ log_mutex = "main" /\ main' = "stuck"
        /\ UNCHANGED <<heartbeat, log_mutex>>
     \/ /\ main \in {"connect", "register", "bye"} /\ log_mutex = "free"
        /\ main' = "stuck" /\ log_mutex' = "main"
        /\ UNCHANGED heartbeat
     \/ /\ heartbeat \in HeartbeatLogs /\ log_mutex = "heartbeat" /\ heartbeat' = "stuck"
        /\ UNCHANGED <<main, log_mutex>>
  /\ UNCHANGED <<worker_running, worker_id, cancelled, got_response, socket_mutex,
                 counters, peer, stolen>>

SignalMain ==
  /\ ~signalled /\ signalled' = TRUE
  /\ log_mutex = "free" /\ worker_running' = FALSE
  /\ IF main = "register" THEN RegisterRound(FALSE)
     ELSE /\ main' = CASE main = "recv" -> "loop"
                       [] main = "payload" -> "log"
                       [] OTHER -> main
          /\ UNCHANGED <<retries, got_response, worker_id, heartbeat>>
  /\ socket_mutex' = IF main \in {"recv", "payload"} THEN "free" ELSE socket_mutex
  /\ UNCHANGED <<cancelled, log_mutex, attempts, beats, peer, stolen>>

SignalHeartbeat ==
  /\ ~signalled /\ signalled' = TRUE
  /\ log_mutex = "free" /\ worker_running' = FALSE
  /\ heartbeat \notin {"none", "ended"}
  /\ IF heartbeat = "recv" THEN heartbeat' = "log" /\ socket_mutex' = "free"
     ELSE UNCHANGED <<heartbeat, socket_mutex>>
  /\ UNCHANGED <<worker_id, cancelled, got_response, log_mutex, main, counters,
                 peer, stolen>>

\* Under -std=c99 signal() is one-shot, so a second signal ends the process;
\* nothing handles SIGPIPE, the end of a write to a connection that was closed.
Killed ==
  /\ main # "killed"
  /\ signalled \/ (heartbeat = "send" /\ eof)
  /\ main' = "killed"
  /\ heartbeat' = IF heartbeat = "none" THEN "none" ELSE "ended"
  /\ UNCHANGED <<flags, socket_mutex, log_mutex, counters, peer, stolen>>

Main == \/ ConnectFails \/ Connect \/ Register \/ MainLog \/ MainLoop \/ MainLock
        \/ MainRecv \/ MainPayload \/ MainRecvFails \/ MainCancel \/ MainJoin
        \/ MainBye
Heartbeat == \/ HeartbeatLoop \/ HeartbeatLock \/ HeartbeatSend \/ HeartbeatRecv
             \/ HeartbeatUnlockAgain \/ HeartbeatLog \/ HeartbeatCancelled
Server == ServerAnswers \/ ServerSends \/ ServerCloses
Signal == SignalInLogger \/ SignalMain \/ SignalHeartbeat \/ Killed

Next == Main \/ Heartbeat \/ Server \/ Signal

\* The threads run on; they contend for the mutexes a bounded number of times.
\* A worker that waits for a message keeps socket_mutex, and here it sends at most
\* MaxBeats heartbeats, so it falls silent, and the receive of its handler in the
\* server fails after WORKER_TIMEOUT_SEC.
Fairness == WF_vars(Main) /\ WF_vars(Heartbeat) /\ WF_vars(ServerCloses)

Spec == Init /\ [][Next]_vars /\ Fairness

-----------------------------------------------------------------------------
\* The state is of the declared kind; a worker without an id has no heartbeat
\* thread.
WorkerServerTypeOK ==
  /\ worker_running \in BOOLEAN /\ worker_id \in 0 .. 1
  /\ socket_mutex \in {"free", "main", "heartbeat"}
  /\ log_mutex \in {"free", "main", "heartbeat"}
  /\ main \in {"connect", "register", "loop", "lock", "recv", "payload", "cancel",
               "join", "bye", "logger_close", "stuck", "killed"} \cup MainLogs
  /\ heartbeat \in {"none", "loop", "sleep", "send", "recv", "unlock", "ended",
                    "stuck"} \cup HeartbeatLogs
  /\ attempts \in 0 .. MAX_RECONNECT_ATTEMPTS /\ retries \in 0 .. 3
  /\ got_response \in BOOLEAN /\ cancelled \in BOOLEAN /\ signalled \in BOOLEAN
  /\ inbox \in Seq(Headers \cup {"PAYLOAD"})
  /\ asked \in Seq({"REGISTER", "HEARTBEAT"}) /\ eof \in BOOLEAN
  /\ beats \in 0 .. MaxBeats /\ extra \in 0 .. MaxExtra /\ stolen \in BOOLEAN
  /\ worker_id = 0 <=> heartbeat = "none"

\* A registration that failed although the response came has read it in its
\* third round: the loop of three rounds is good for two.
OnlyThirdResponseLost ==
  main = "bye" /\ heartbeat = "none" /\ got_response => retries = 0

\* Unless a heartbeat was answered with a task, only one thread uses the
\* socket: the two never read each other's messages, and while main waits for
\* a message no heartbeat goes out, so a server that is silent hears nothing.
WorkerServerInv ==
  /\ WorkerServerTypeOK
  /\ main \in {"recv", "payload"} /\ heartbeat \in {"send", "recv"} => stolen

\* No header is read out of the middle of a payload unless a heartbeat was
\* answered with a task or a signal came in between: header and payload of a
\* task are read together.
StreamInStep ==
  inbox # <<>> /\ Head(inbox) = "PAYLOAD" =>
    \/ main = "payload" /\ heartbeat # "recv"
    \/ main = "killed" \/ stolen \/ signalled

\* The logger is lost when a thread was cancelled or interrupted inside it.
LoggerLost == \/ main = "stuck" \/ heartbeat = "stuck"
              \/ heartbeat = "ended" /\ log_mutex = "heartbeat"

\* What it takes for a thread to go on by itself.
Readable == inbox # <<>> \/ eof

MainCanStep ==
  \/ main \in {"connect", "loop", "cancel"}
  \/ main \in {"register", "recv", "payload"} /\ Readable
  \/ main \in MainLogs /\ log_mutex \in {"free", "main"}
  \/ main = "bye" /\ log_mutex = "free"
  \/ main = "lock" /\ socket_mutex = "free"
  \/ main = "join" /\ heartbeat = "ended"

HeartbeatCanStep ==
  \/ heartbeat \in {"loop", "send", "unlock"}
  \/ heartbeat = "sleep" /\ (cancelled \/ (socket_mutex = "free" /\ beats < MaxBeats))
  \/ heartbeat = "recv" /\ (cancelled \/ Readable)
  \/ heartbeat \in HeartbeatLogs /\ log_mutex \in {"free", "heartbeat"}

CanStep == MainCanStep \/ HeartbeatCanStep

\* The two mutexes never bring the worker to a standstill: when neither thread
\* can go on by itself, a thread waits for a message of the server on a
\* connection that is still open, main is in logger_close, the process was
\* killed, or the logger is lost.  A double unlock of socket_mutex, a signal
\* that interrupts a read or a cancellation under the mutex do not change that.
OnlyServerAwaited ==
  \/ CanStep
  \/ (main \in {"register", "recv", "payload"} \/ heartbeat = "recv") /\ ~Readable
  \/ main \in {"logger_close", "killed"} \/ LoggerLost

\* When the connection ends or the worker is told to stop, main gets as far as
\* logger_close, with the heartbeat thread joined, unless the logger is lost or
\* the process was killed.
ShutdownReachesClose ==
  (eof \/ ~worker_running) ~> (main \in {"logger_close", "killed"} \/ LoggerLost)
=============================================================================
