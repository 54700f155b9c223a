----------------------------- MODULE JobWorker -----------------------------
(***************************************************************************)
(* worker/worker.c: a worker process with its main thread, its heartbeat   *)
(* thread and its job thread.  Every exchange with the server is a send    *)
(* and a receive on one socket, without any lock held and without any      *)
(* request number: whichever thread reads first gets the next answer.      *)
(* Only worker_disconnect_from_server keeps g_worker.lock over both.       *)
(*                                                                         *)
(* The heartbeat thread replaces the connection when a beat fails.  close  *)
(* frees the descriptor number and the next socket gets the same number,   *)
(* so a thread that has copied the number before goes on with the new      *)
(* connection; a thread already blocked in a read stays with the old one.  *)
(***************************************************************************)
EXTENDS Integers, Sequences, FiniteSets

CONSTANTS
  MaxConns,   \* bound: connections ever made
  MaxGiven    \* bound: assignments the server makes to this worker

ASSUME WorkerAssumption == MaxConns \in Nat \ {0} /\ MaxGiven \in Nat

Threads == {"main", "heartbeat", "job"}
Conns == 1 .. MaxConns
Jobs == 1 .. MaxGiven

VARIABLES
  is_running, is_connected,
  worker_id,      \* the connection the id was given on, 0 for -1
  lock,           \* the thread that keeps g_worker.lock over system calls
  fd,             \* the connection behind the descriptor number, 0 if closed
  op, stage,      \* op[t], stage[t]: the exchange of thread t, and its place in it
  id,             \* id[t]: the worker id in the message of t
  on, at,         \* on[t], at[t]: the connection t sent on and reads from
  job,            \* the job the job thread works on, 0 if none
  processed,      \* jobs counted by g_jobs_processed
  failed,         \* jobs counted by g_jobs_failed
  link,           \* link[c]: the answers of the server not read yet
  eof,            \* eof[c]: the server has closed c
  conns,          \* connections made so far
  greeted,        \* connections whose first message was WORKER_CONNECT
  registered,     \* ids in the server's worker table
  given,          \* assignments made so far
  accepted,       \* jobs whose result the server took
  overtaken       \* some thread read from a connection it had not sent on

worker == <<is_running, is_connected, worker_id, lock>>
place == <<op, stage, id, on, at>>
server == <<link, eof, greeted, registered, given, accepted>>
stats == <<processed, failed>>
vars == <<worker, fd, place, job, stats, server, conns, overtaken>>

\* GIVEUP is the disconnect after a failed registration.
Ops == {"START", "CONNECT", "REGISTER", "HEARTBEAT", "DISCONNECT", "GIVEUP",
        "REQUEST_JOB", "JOB_COMPLETED", "JOB_FAILED", "PROCESS", "TOP", "RUN",
        "JOIN", "END"}
Stages == {"enter", "send", "receive", "wait", "close"}
Closing == {"DISCONNECT", "GIVEUP"}
Answers == [type : {"CONNECT_ACK", "REGISTERED", "HEARTBEAT_ACK", "NO_JOB",
                    "JOB_ASSIGNED", "COMPLETION_ACK", "FAILURE_ACK",
                    "DISCONNECT_ACK", "ERROR"},
            job : 0 .. MaxGiven]

Init ==
  /\ is_running = FALSE /\ is_connected = FALSE /\ worker_id = 0
  /\ lock = "none" /\ fd = 0
  /\ op = [t \in Threads |-> IF t = "main" THEN "START" ELSE "END"]
  /\ stage = [t \in Threads |-> "enter"]
  /\ id = [t \in Threads |-> 0]
  /\ on = [t \in Threads |-> 0] /\ at = [t \in Threads |-> 0]
  /\ job = 0 /\ processed = {} /\ failed = {}
  /\ link = [c \in Conns |-> <<>>] /\ eof = [c \in Conns |-> FALSE]
  /\ conns = 0 /\ greeted = {} /\ registered = {}
  /\ given = 0 /\ accepted = {} /\ overtaken = FALSE

-----------------------------------------------------------------------------
\* server.c, as far as one connection can tell: every message gets one answer,
\* in order.  A first message other than WORKER_CONNECT is refused and the
\* connection closed; the others name a worker, and a report is refused when
\* the job has been given to somebody else meanwhile.
AnswerTypes(c, m, w) ==
  IF c \notin greeted THEN {IF m = "CONNECT" THEN "CONNECT_ACK" ELSE "ERROR"}
  ELSE IF m = "REGISTER" THEN {"REGISTERED", "ERROR"}
  ELSE IF w \notin registered THEN {"ERROR"}
  ELSE CASE m = "HEARTBEAT" -> {"HEARTBEAT_ACK"}
         [] m = "REQUEST_JOB" -> {"NO_JOB"} \cup
                                 IF given < MaxGiven THEN {"JOB_ASSIGNED"} ELSE {}
         [] m = "JOB_COMPLETED" -> {"COMPLETION_ACK", "ERROR"}
         [] m = "JOB_FAILED" -> {"FAILURE_ACK", "ERROR"}
         [] OTHER -> {"DISCONNECT_ACK"}

Served(c, m, w) ==
  \E a \in AnswerTypes(c, m, w) :
    LET j == CASE a = "JOB_ASSIGNED" -> given + 1
               [] a = "COMPLETION_ACK" -> job
               [] OTHER -> 0
    IN  /\ link' = [link EXCEPT ![c] = Append(@, [type |-> a, job |-> j])]
        /\ greeted' = IF a = "CONNECT_ACK" THEN greeted \cup {c} ELSE greeted
        /\ registered' = CASE a = "REGISTERED" -> registered \cup {c}
                           [] a = "DISCONNECT_ACK" -> registered \ {w}
                           [] OTHER -> registered
        /\ given' = IF a = "JOB_ASSIGNED" THEN j ELSE given
        /\ accepted' = IF a = "COMPLETION_ACK" THEN accepted \cup {j}
                                               ELSE accepted
        /\ eof' = [eof EXCEPT ![c] = c \notin greeted']

\* The server, or the network, ends a connection: what has been sent can still
\* be read, the answers to the latest messages may never come, and the worker
\* may or may not be taken out of the table.
ServerCloses(c) ==
  /\ c <= conns /\ ~eof[c]
  /\ eof' = [eof EXCEPT ![c] = TRUE]
  /\ \E n \in 0 .. Len(link[c]) : link' = [link EXCEPT ![c] = SubSeq(@, 1, n)]
  /\ registered' \in {registered, registered \ {c}}
  /\ UNCHANGED <<worker, fd, place, job, stats, conns, greeted, given,
                 accepted, overtaken>>

-----------------------------------------------------------------------------
\* A registration that fails in worker_start or in the heartbeat thread.
\* Mutant: the heartbeat thread logs the failure and goes on.
AfterRegisterLogged(t, ok) ==
  CASE t = "heartbeat" -> "TOP"
    [] OTHER -> IF ok THEN "RUN" ELSE "GIVEUP"

AfterRegister(t, ok) ==
  CASE ~ok -> "GIVEUP"
    [] OTHER -> IF t = "main" THEN "RUN" ELSE "TOP"

(***************************************************************************)
(* What a thread does after an exchange that succeeded (ok) or failed.     *)
(* worker_start gives up for good, the heartbeat thread goes back to the   *)
(* top of its loop and tries again.                                        *)
(***************************************************************************)
After(t, o, ok) ==
  CASE o = "CONNECT" /\ ok -> "REGISTER"
    [] o = "CONNECT" /\ ~ok -> IF t = "main" THEN "END" ELSE "TOP"
    [] o = "REGISTER" -> AfterRegister(t, ok)
    [] o = "HEARTBEAT" /\ ~ok -> "DISCONNECT"
    [] o = "DISCONNECT" -> IF t = "main" THEN "END" ELSE "CONNECT"
    [] o = "GIVEUP" -> IF t = "main" THEN "END" ELSE "TOP"
    [] o = "REQUEST_JOB" /\ ok -> "PROCESS"
    [] OTHER -> "TOP"

Goto(t, o, s) == /\ op' = [op EXCEPT ![t] = o]
                 /\ stage' = [stage EXCEPT ![t] = s]

\* worker_start creates the two threads once it is registered.  The local
\* variables of the exchange are forgotten.
Return(t, ok) ==
  LET o == After(t, op[t], ok)
  IN  /\ op' = [u \in Threads |-> IF u = t THEN o
                                  ELSE IF o = "RUN" THEN "TOP" ELSE op[u]]
      /\ stage' = [stage EXCEPT ![t] = "enter"]
      /\ id' = [id EXCEPT ![t] = 0]
      /\ on' = [on EXCEPT ![t] = 0] /\ at' = [at EXCEPT ![t] = 0]
      /\ is_running' = (is_running /\ ~(t = "main" /\ o = "END"))

CountReport(ok) ==
  /\ processed' = IF ok THEN processed \cup {job} ELSE processed
  /\ failed' = IF ok THEN failed ELSE failed \cup {job}
  /\ job' = 0

\* A report that cannot be delivered counts as a failure; worker_request_job
\* counts the report of a failure as one whatever the server says.
Fail(t) ==
  /\ Return(t, FALSE)
  /\ IF op[t] \in {"JOB_COMPLETED", "JOB_FAILED"}
     THEN CountReport(FALSE)
     ELSE UNCHANGED <<job, stats>>
  /\ IF op[t] = "CONNECT" THEN fd' = 0 ELSE UNCHANGED fd

-----------------------------------------------------------------------------
Start ==
  /\ op["main"] = "START" /\ lock = "none"
  /\ is_running' = TRUE
  /\ Goto("main", "CONNECT", "enter")
  /\ UNCHANGED <<is_connected, worker_id, lock, fd, id, on, at, job, stats,
                 server, conns, overtaken>>

\* Mutant: the job thread looks at the connection first.
TopConnectedFirst(t) ==
  /\ op[t] = "TOP" /\ lock = "none"
  /\ t = "job" => is_connected
  /\ Goto(t, IF ~is_running THEN "END"
             ELSE IF t = "heartbeat" THEN "HEARTBEAT" ELSE "REQUEST_JOB", "enter")
  /\ UNCHANGED <<worker, fd, id, on, at, job, stats, server, conns, overtaken>>

\* The loops of heartbeat_thread_func and job_thread_func.
Top(t) ==
  /\ op[t] = "TOP" /\ lock = "none"
  /\ IF ~is_running THEN Goto(t, "END", "enter")
     ELSE IF t = "heartbeat" THEN Goto(t, "HEARTBEAT", "enter")
     ELSE is_connected /\ Goto(t, "REQUEST_JOB", "enter")
  /\ UNCHANGED <<worker, fd, id, on, at, job, stats, server, conns, overtaken>>

\* The first critical section of an exchange: the flags are tested, the id and
\* the descriptor copied.
Enter(t) ==
  /\ op[t] \in {"REGISTER", "HEARTBEAT", "REQUEST_JOB", "JOB_COMPLETED",
                "JOB_FAILED"}
  /\ stage[t] = "enter" /\ lock = "none"
  /\ IF is_connected /\ (op[t] = "REGISTER" \/ worker_id # 0)
     THEN /\ Goto(t, op[t], "send")
          /\ id' = [id EXCEPT ![t] = worker_id]
          /\ UNCHANGED <<is_running, on, at, fd, job, stats>>
     ELSE Fail(t)
  /\ UNCHANGED <<is_connected, worker_id, lock, server, conns, overtaken>>

\* socket and connect: the number of the descriptor in use last is free again.
Open(t) ==
  /\ op[t] = "CONNECT" /\ stage[t] = "enter"
  /\ \/ Fail(t) /\ UNCHANGED conns
     \/ /\ conns < MaxConns
        /\ conns' = conns + 1 /\ fd' = conns'
        /\ Goto(t, "CONNECT", "send")
        /\ UNCHANGED <<is_running, id, on, at, job, stats>>
  /\ UNCHANGED <<is_connected, worker_id, lock, server, overtaken>>

\* A worker that was never registered has nothing to take back.
\* Mutant: it waits for the acknowledgment all the same.
TakeBackAlways == IF worker_id # 0 THEN "send" ELSE "receive"
TakeBack == IF worker_id # 0 THEN "send" ELSE "close"

\* worker_disconnect_from_server keeps the lock to its end.
EnterDisconnect(t) ==
  /\ op[t] \in Closing /\ stage[t] = "enter" /\ lock = "none"
  /\ IF is_connected
     THEN /\ lock' = t
          /\ Goto(t, op[t], TakeBack)
          /\ id' = [id EXCEPT ![t] = worker_id]
          /\ on' = [on EXCEPT ![t] = fd]
          /\ UNCHANGED <<is_running, at>>
     ELSE Return(t, TRUE) /\ UNCHANGED lock
  /\ UNCHANGED <<is_connected, worker_id, fd, job, stats, server, conns,
                 overtaken>>

Live == {c \in Conns : ~eof[c]}

\* send_message.  A message to a connection the server has closed may still be
\* accepted by the kernel, without any answer to come.
Send(t) ==
  /\ stage[t] = "send"
  /\ \/ /\ fd \notin Live
        /\ op[t] \notin Closing
        /\ Fail(t)
        /\ UNCHANGED server
     \/ /\ fd # 0
        /\ IF fd \in Live THEN Served(fd, op[t], id[t]) ELSE UNCHANGED server
        /\ Goto(t, op[t], "receive")
        /\ on' = [on EXCEPT ![t] = fd]
        /\ UNCHANGED <<is_running, id, at, fd, job, stats>>
  /\ UNCHANGED <<is_connected, worker_id, lock, conns, overtaken>>

\* receive_message is called with the descriptor number of the send.
Receive(t) ==
  /\ stage[t] = "receive"
  /\ IF fd = 0
     THEN Fail(t) /\ UNCHANGED overtaken
     ELSE /\ at' = [at EXCEPT ![t] = fd]
          /\ overtaken' = (overtaken \/ fd # on[t])
          /\ Goto(t, op[t], "wait")
          /\ UNCHANGED <<is_running, id, on, fd, job, stats>>
  /\ UNCHANGED <<is_connected, worker_id, lock, server, conns>>

-----------------------------------------------------------------------------
\* The answers the exchanges are satisfied with.
Accepts == {<<"CONNECT", "CONNECT_ACK">>, <<"REGISTER", "REGISTERED">>,
            <<"HEARTBEAT", "HEARTBEAT_ACK">>, <<"REQUEST_JOB", "JOB_ASSIGNED">>,
            <<"JOB_COMPLETED", "COMPLETION_ACK">>}

\* Mutant: a report is satisfied with anything but an error.
ExpectedLax(o, a) ==
  IF o = "JOB_COMPLETED" THEN a # "ERROR" ELSE <<o, a>> \in Accepts
Expected(o, a) == <<o, a>> \in Accepts

Succeed(t, a) ==
  /\ Return(t, TRUE)
  /\ is_connected' = (is_connected \/ op[t] = "CONNECT")
  /\ worker_id' = IF op[t] = "REGISTER" THEN at[t] ELSE worker_id
  /\ CASE op[t] = "REQUEST_JOB" -> job' = a.job /\ UNCHANGED stats
       [] op[t] = "JOB_COMPLETED" -> CountReport(TRUE)
       [] OTHER -> UNCHANGED <<job, stats>>
  /\ UNCHANGED <<lock, fd>>

\* A read returns the next answer on the connection, for whomever it was, or
\* the end of the connection, which leaves the request in the buffer and fails
\* the test of the type.  The disconnect does not look at what it has read.
Read(t) ==
  /\ stage[t] = "wait"
  /\ \/ /\ link[at[t]] # <<>>
        /\ LET a == Head(link[at[t]])
           IN  CASE op[t] \in Closing ->
                      /\ Goto(t, op[t], "close")
                      /\ UNCHANGED <<worker, id, on, at, fd, job, stats>>
                 [] Expected(op[t], a.type) -> lock = "none" /\ Succeed(t, a)
                 [] OTHER -> Fail(t) /\ UNCHANGED <<is_connected, worker_id, lock>>
        /\ link' = [link EXCEPT ![at[t]] = Tail(@)]
     \/ /\ link[at[t]] = <<>> /\ eof[at[t]]
        /\ IF op[t] \in Closing
           THEN /\ Goto(t, op[t], "close")
                /\ UNCHANGED <<is_running, id, on, at, fd, job, stats>>
           ELSE Fail(t)
        /\ UNCHANGED <<is_connected, worker_id, lock, link>>
  /\ UNCHANGED <<eof, greeted, registered, given, accepted, conns, overtaken>>

Close(t) ==
  /\ stage[t] = "close"
  /\ fd' = 0 /\ is_connected' = FALSE /\ lock' = "none"
  /\ Return(t, TRUE)
  /\ UNCHANGED <<worker_id, job, stats, server, conns, overtaken>>

\* worker_process_job: a result, or an unknown job type or no memory.
Process ==
  /\ op["job"] = "PROCESS"
  /\ \E o \in {"JOB_COMPLETED", "JOB_FAILED"} : Goto("job", o, "enter")
  /\ UNCHANGED <<worker, fd, id, on, at, job, stats, server, conns, overtaken>>

\* A signal ends the loop of main, which calls worker_stop.
Stop ==
  /\ op["main"] = "RUN" /\ lock = "none"
  /\ is_running' = FALSE
  /\ Goto("main", "JOIN", "enter")
  /\ UNCHANGED <<is_connected, worker_id, lock, fd, id, on, at, job, stats,
                 server, conns, overtaken>>

Join ==
  /\ op["main"] = "JOIN"
  /\ op["heartbeat"] = "END" /\ op["job"] = "END"
  /\ Goto("main", "DISCONNECT", "enter")
  /\ UNCHANGED <<worker, fd, id, on, at, job, stats, server, conns, overtaken>>

Step(t) == \/ Top(t) \/ Enter(t) \/ Open(t) \/ EnterDisconnect(t) \/ Send(t)
           \/ Receive(t) \/ Read(t) \/ Close(t)

Next == \/ Start \/ Process \/ Stop \/ Join
        \/ \E t \in Threads : Step(t)
        \/ \E c \in Conns : ServerCloses(c)

\* Threads run on; the signal and the loss of a connection may never come.
Fairness == /\ WF_vars(Start) /\ WF_vars(Process) /\ WF_vars(Join)
            /\ \A t \in Threads : WF_vars(Step(t))

Spec == Init /\ [][Next]_vars /\ Fairness

-----------------------------------------------------------------------------
\* The state is of the declared kind; a job is counted once at most, and the
\* lock is kept over system calls by a disconnecting thread only.
WorkerTypeOK ==
  /\ is_running \in BOOLEAN /\ is_connected \in BOOLEAN
  /\ worker_id \in 0 .. MaxConns /\ fd \in 0 .. MaxConns
  /\ lock \in Threads \cup {"none"}
  /\ op \in [Threads -> Ops] /\ stage \in [Threads -> Stages]
  /\ id \in [Threads -> 0 .. MaxConns]
  /\ on \in [Threads -> 0 .. MaxConns] /\ at \in [Threads -> 0 .. MaxConns]
  /\ job \in 0 .. MaxGiven
  /\ processed \in SUBSET Jobs /\ failed \in SUBSET Jobs
  /\ processed \cap failed = {}
  /\ link \in [Conns -> Seq(Answers)] /\ eof \in [Conns -> BOOLEAN]
  /\ conns \in 0 .. MaxConns /\ greeted \in SUBSET Conns
  /\ registered \in SUBSET Conns /\ given \in 0 .. MaxGiven
  /\ accepted \in SUBSET Jobs /\ overtaken \in BOOLEAN
  /\ lock # "none" => op[lock] \in Closing

\* The two threads may read each other's answers, but as long as no thread was
\* overtaken by a change of the connection between its send and its receive,
\* there is an answer, or the end of the connection, for everyone who waits:
\* worker.c never blocks in receive_message for good.
Waiting(c) == {t \in Threads : \/ stage[t] = "wait" /\ at[t] = c
                               \/ stage[t] = "receive" /\ on[t] = c}
AnswersArrive ==
  ~overtaken => \A c \in Conns :
                  eof[c] \/ Cardinality(Waiting(c)) <= Len(link[c])

\* A heartbeat never goes out under the id of an earlier connection: the thread
\* that reconnects registers again, or gives the connection up, before it beats.
BeatsAsItself ==
  op["heartbeat"] = "HEARTBEAT" /\ is_connected => worker_id = fd

\* A job is counted as processed only when the server has taken the result of
\* that very job, although answers carry no job number and may be read by the
\* wrong thread: the job thread is never more than one answer behind.
CountedWasAccepted == processed \subseteq accepted

\* What it takes for a thread to go on by itself.
ThreadCanStep(t) ==
  \/ op[t] = "TOP" /\ lock = "none" /\ (t = "job" /\ is_running => is_connected)
  \/ stage[t] = "enter" /\ op[t] = "CONNECT"
  \/ /\ stage[t] = "enter" /\ lock = "none"
     /\ op[t] \in Closing \cup {"START", "REGISTER", "HEARTBEAT", "REQUEST_JOB",
                               "JOB_COMPLETED", "JOB_FAILED"}
  \/ stage[t] = "send" /\ (op[t] \in Closing => fd # 0)
  \/ stage[t] \in {"receive", "close"}
  \/ stage[t] = "wait" /\ IF link[at[t]] = <<>> THEN eof[at[t]]
                          ELSE \/ lock = "none" \/ op[t] \in Closing
                               \/ ~Expected(op[t], Head(link[at[t]]).type)
  \/ op[t] = "PROCESS"
  \/ op[t] = "JOIN" /\ op["heartbeat"] = "END" /\ op["job"] = "END"

CanStep == \E t \in Threads : ThreadCanStep(t)

\* Unless a thread was overtaken, the worker does not stand still before all of
\* its threads have ended, without any help from a signal or from the end of a
\* connection: the thread that keeps g_worker.lock over the exchange of
\* worker_disconnect_from_server gets its answer, so the others get the lock,
\* and worker_stop joins two threads that see is_running cleared.
NeverStandsStill ==
  CanStep \/ overtaken \/ \A t \in Threads : op[t] = "END"

\* worker_stop returns once it was called, unless a thread was overtaken.
StopReturns ==
  (op["main"] = "JOIN") ~> (op["main"] = "END" \/ overtaken)
=============================================================================
