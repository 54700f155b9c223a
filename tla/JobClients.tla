----------------------------- MODULE JobClients -----------------------------
(***************************************************************************)
(* The client side of the job server: server/server.c (accept thread,      *)
(* client handlers, server_stop), the main loop of server_main.c, and      *)
(* client/client.c.                                                        *)
(*                                                                         *)
(* A client writes a request and takes the next message it reads for the   *)
(* answer.  The server also writes JOB_COMPLETED and JOB_FAILED on the     *)
(* same socket whenever a job ends: worker handlers do so after they have  *)
(* left the job table, check_timeouts while it still holds g_job_mutex.    *)
(* A send blocks while the peer's buffer is full.  Descriptors are reused. *)
(*                                                                         *)
(* What workers do to a job is taken from JobHandler and reduced to the    *)
(* status changes a client can see.                                        *)
(***************************************************************************)
EXTENDS Integers, Sequences, FiniteSets

CONSTANTS
  Clients,       \* processes that connect once each
  Strangers,     \* those that may not speak the protocol of the server
  MaxFDs,        \* descriptors the server uses for its clients
  MaxJobs,       \* config->max_jobs
  MaxCalls,      \* bound: calls of all clients between connect and cleanup
  MaxRevivals,   \* bound: failed sends to a worker that take a job back
  Buffer,        \* messages a connection holds before a send blocks
  Workers,       \* worker handlers that can be announcing at the same time
  NoClient

ASSUME ClientsAssumption ==
  /\ MaxJobs \in Nat \ {0} /\ MaxCalls \in Nat /\ MaxRevivals \in Nat
  /\ Buffer \in Nat \ {0} /\ MaxFDs \in Nat \ {0} /\ NoClient \notin Clients
  /\ Strangers \subseteq Clients

VARIABLES
  is_running,                \* g_server.is_running; if not, the socket is closed
  acceptor, acceptor_fd,     \* the accept thread and the socket it serves
  main, due,                 \* the main thread; the timeouts to be announced
  mutex,                     \* g_job_mutex is held across a system call
  jobs, freed,               \* the job table; job_handler_cleanup has run
  notes,                     \* announcements worker handlers have yet to send
  handler, reply,            \* per descriptor: the client handler, its answer
  fd,                        \* fd[d]: the client connected on descriptor d
  up, down,                  \* per client: requests, and what it will read
  far,                       \* per client: the server's end of its connection
  op, asked, mine,           \* per client: call, job asked about, jobs known
  calls, call,               \* history: calls made; number of this call
  behind, misled,            \* history: announcements taken for answers,
                             \* the answer of an earlier call was accepted
  owner, revivals            \* history: who submitted a job; failed sends

acceptVars == <<acceptor, acceptor_fd>>
mainVars == <<is_running, main, due, mutex>>
tableVars == <<jobs, freed, notes, owner, revivals>>
serverVars == <<handler, reply, fd>>
linkVars == <<up, down, far>>
clientVars == <<op, asked, mine, calls, call, behind, misled>>
vars == <<acceptVars, mainVars, tableVars, serverVars, linkVars, clientVars>>

FDs == 1 .. MaxFDs
JobIds == 1 .. MaxJobs
\* PENDING and ASSIGNED are ACTIVE, FAILED and TIMEOUT are FAILED: client.c
\* treats the members of each pair alike.
Statuses == {"ACTIVE", "COMPLETED", "FAILED"}
\* NO_MEMORY is ERR_INTERNAL_ERROR on the wire as well; the cause is kept.
Errors == {"INVALID_MESSAGE", "SUBMISSION_FAILED", "NOT_FOUND",
           "NOT_COMPLETED", "INTERNAL_ERROR", "NO_MEMORY"}
Announcements == {"JOB_COMPLETED", "JOB_FAILED"}

\* First messages: client.c says REGISTER, the server expects CLIENT_CONNECT,
\* and a peer may connect and say nothing.
Greetings == {"CLIENT_CONNECT", "REGISTER", "SILENT"}
Calls == {"SUBMIT_JOB", "GET_JOB_STATUS", "GET_JOB_RESULT",
          "GET_SERVER_STATS", "CLIENT_DISCONNECT"}
Ops == Greetings \cup Calls \cup {"NEW", "IDLE", "END"}

\* val is the status in JOB_STATUS and the code in ERROR; tag is the call the
\* message answers, which the server would copy in message_id.
Msg(type, job, val, tag) == [type |-> type, job |-> job, val |-> val, tag |-> tag]
Types == {"CONNECT_ACK", "JOB_SUBMITTED", "JOB_STATUS", "JOB_RESULT", "ERROR"}
           \cup Announcements
Messages == [type : Types, job : 0 .. MaxJobs,
             val : {"-"} \cup Statuses \cup Errors, tag : 0 .. MaxCalls]
NoMsg == Msg("none", 0, "-", 0)

\* server_init and server_start succeeded: the listening socket is there and
\* the accept thread runs.
Init ==
  /\ is_running = TRUE
  /\ acceptor = "top" /\ acceptor_fd = 0
  /\ main = "loop" /\ due = {} /\ mutex = FALSE
  /\ jobs = <<>> /\ freed = FALSE /\ notes = {}
  /\ handler = [d \in FDs |-> "none"] /\ reply = [d \in FDs |-> NoMsg]
  /\ fd = [d \in FDs |-> NoClient]
  /\ up = [c \in Clients |-> <<>>] /\ down = [c \in Clients |-> <<>>]
  /\ far = [c \in Clients |-> "none"]
  /\ op = [c \in Clients |-> "NEW"]
  /\ asked = [c \in Clients |-> 0] /\ mine = [c \in Clients |-> {}]
  /\ calls = 0 /\ call = [c \in Clients |-> 0]
  /\ behind = [c \in Clients |-> 0]
  /\ misled = [c \in Clients |-> FALSE]
  /\ owner = [j \in JobIds |-> NoClient] /\ revivals = 0

-----------------------------------------------------------------------------
Gone(c) == c = NoClient \/ (c \in Clients /\ op[c] = "END")

\* send_message on descriptor d.  To a closed descriptor or to a peer that
\* has gone it fails; otherwise it waits for room.
SendFails(d) == Gone(fd[d])
SendOK(d, m) ==
  /\ ~Gone(fd[d])
  /\ Len(down[fd[d]]) < Buffer
  /\ down' = [down EXCEPT ![fd[d]] = Append(@, m)]

\* The handler closes the connection and ends.
Close(d) ==
  /\ handler' = [handler EXCEPT ![d] = "none"]
  /\ fd' = [fd EXCEPT ![d] = NoClient]
  /\ far' = [far EXCEPT ![fd[d]] = "closed"]
  /\ up' = [up EXCEPT ![fd[d]] = <<>>]

\* What has been sent can still be read, unless requests are left unread:
\* then the peer is reset and may lose any of it.
Reset(c) ==
  \/ UNCHANGED down
  \/ /\ up[c] # <<>>
     /\ \E n \in 0 .. Len(down[c]) - 1 : down' = [down EXCEPT ![c] = SubSeq(@, 1, n)]

-----------------------------------------------------------------------------
(***************************************************************************)
(* accept_thread_func                                                      *)
(***************************************************************************)
\* accept on a socket that has been closed fails, and the loop then finds
\* is_running cleared.  But a call that waits already keeps the socket alive:
\* closing it does not wake the thread.
AcceptTop ==
  /\ acceptor = "top"
  /\ acceptor' = IF is_running THEN "accept" ELSE "done"
  /\ UNCHANGED <<acceptor_fd, mainVars, tableVars, serverVars, linkVars, clientVars>>

Listening == is_running \/ acceptor = "accept"

\* A connection that is waiting gets the lowest free descriptor.
Accept ==
  /\ acceptor = "accept"
  /\ \E c \in Clients, d \in FDs :
       /\ far[c] = "queued" /\ fd[d] = NoClient
       /\ \A e \in FDs : e < d => fd[e] # NoClient
       /\ far' = [far EXCEPT ![c] = "open"]
       /\ fd' = [fd EXCEPT ![d] = c]
       /\ acceptor_fd' = d
  /\ acceptor' = "first"
  /\ UNCHANGED <<mainVars, tableVars, handler, reply, up, down, clientVars>>

\* The first message decides who handles the connection.  At the end of the
\* stream receive_message returns 0, which is not tested: msg is then not
\* initialized and its type can be anything.
FirstMessages ==
  LET c == fd[acceptor_fd]
  IN  IF up[c] # <<>> THEN {Head(up[c]).type}
      ELSE IF Gone(c) THEN {"CLIENT_CONNECT", "?"} ELSE {}

ReadFirst ==
  LET d == acceptor_fd
      c == fd[d]
  IN  /\ acceptor = "first"
      /\ \E type \in FirstMessages :
           \/ /\ type = "CLIENT_CONNECT"
              /\ acceptor' = "top" /\ acceptor_fd' = 0
              /\ handler' = [handler EXCEPT ![d] = "reply"]
              /\ reply' = [reply EXCEPT ![d] = Msg("CONNECT_ACK", 0, "-", 0)]
           \/ /\ type # "CLIENT_CONNECT"
              /\ acceptor' = "refuse"
              /\ UNCHANGED <<acceptor_fd, handler, reply>>
      /\ up' = [up EXCEPT ![c] = IF @ = <<>> THEN @ ELSE Tail(@)]
      /\ UNCHANGED <<mainVars, tableVars, fd, down, far, clientVars>>

\* send_error_response, whatever it returns, then close.
Refuse ==
  /\ acceptor = "refuse"
  /\ \/ SendFails(acceptor_fd) /\ UNCHANGED down
     \/ SendOK(acceptor_fd, Msg("ERROR", 0, "INVALID_MESSAGE", 0))
  /\ far' = [far EXCEPT ![fd[acceptor_fd]] = "closed"]
  /\ fd' = [fd EXCEPT ![acceptor_fd] = NoClient]
  /\ acceptor' = "top" /\ acceptor_fd' = 0
  /\ UNCHANGED <<mainVars, tableVars, handler, reply, up, clientVars>>

Acceptor == AcceptTop \/ Accept \/ ReadFirst \/ Refuse

-----------------------------------------------------------------------------
(***************************************************************************)
(* job_handler.c, as seen from a client.                                   *)
(***************************************************************************)
\* find_job_by_id; after job_handler_cleanup the table has no slot to look at.
Known(j) == j \in DOMAIN jobs
Status(j) == jobs[j].status

\* Mutant: client_socket is not set; the first descriptor stands for calloc's 0.
SubmitUnset(d) ==
  /\ jobs' = Append(jobs, [sock |-> 1, status |-> "ACTIVE"])
  /\ owner' = [owner EXCEPT ![Len(jobs) + 1] = fd[d]]

Submit(d) ==
  /\ jobs' = Append(jobs, [sock |-> d, status |-> "ACTIVE"])
  /\ owner' = [owner EXCEPT ![Len(jobs) + 1] = fd[d]]

Change(j, status) == jobs' = [jobs EXCEPT ![j].status = status]

\* job_handler_complete, and job_handler_fail at the last attempt: the job
\* ends and leaves an announcement to be sent after the unlock.
Report(j) ==
  /\ ~mutex /\ Known(j) /\ Status(j) = "ACTIVE"
  /\ Cardinality(notes) < Workers
  /\ \/ /\ Change(j, "COMPLETED")
        /\ notes' = notes \cup {[sock |-> jobs[j].sock, job |-> j, type |-> "JOB_COMPLETED"]}
     \/ /\ Change(j, "FAILED")
        /\ notes' = notes \cup {[sock |-> jobs[j].sock, job |-> j, type |-> "JOB_FAILED"]}
  /\ UNCHANGED <<acceptVars, mainVars, freed, owner, revivals, serverVars,
                 linkVars, clientVars>>

\* job_handler_assign could not send the job to its worker and takes it back,
\* although it has ended meanwhile.
Revive(j) ==
  /\ ~mutex /\ Known(j) /\ Status(j) # "ACTIVE"
  /\ revivals < MaxRevivals
  /\ revivals' = revivals + 1
  /\ Change(j, "ACTIVE")
  /\ UNCHANGED <<acceptVars, mainVars, freed, notes, owner, serverVars,
                 linkVars, clientVars>>

\* Mutant: the end of a job is announced as its status.
AnnounceStatus(n) ==
  /\ n \in notes /\ main # "exited"
  /\ \/ SendFails(n.sock) /\ UNCHANGED down
     \/ SendOK(n.sock, Msg("JOB_STATUS", n.job, "COMPLETED", 0))
  /\ notes' = notes \ {n}
  /\ UNCHANGED <<acceptVars, mainVars, jobs, freed, owner, revivals,
                 serverVars, up, far, clientVars>>

\* The worker's handler sends the announcement; a failure is only logged.
Announce(n) ==
  /\ n \in notes /\ main # "exited"
  /\ \/ SendFails(n.sock) /\ UNCHANGED down
     \/ SendOK(n.sock, Msg(n.type, n.job, "-", 0))
  /\ notes' = notes \ {n}
  /\ UNCHANGED <<acceptVars, mainVars, jobs, freed, owner, revivals,
                 serverVars, up, far, clientVars>>

-----------------------------------------------------------------------------
(***************************************************************************)
(* handle_client_connection and server_handle_client_message               *)
(***************************************************************************)
Top(d) ==
  /\ handler[d] = "top"
  /\ \/ /\ is_running
        /\ handler' = [handler EXCEPT ![d] = "recv"]
        /\ UNCHANGED <<fd, linkVars>>
     \/ ~is_running /\ Close(d) /\ Reset(fd[d])
  /\ UNCHANGED <<acceptVars, mainVars, tableVars, reply, clientVars>>

\* The answer to request r.  Submissions and queries are one critical section
\* each; the result of a completed job takes a second one.
Error(r, code) == Msg("ERROR", 0, code, r.tag)

StatusAnswer(r) ==
  IF Known(r.job) THEN Msg("JOB_STATUS", r.job, Status(r.job), r.tag)
                  ELSE Error(r, "NOT_FOUND")

\* Mutant: the status is not looked at before the result is fetched.
ResultRefusalUnchecked(r) ==
  IF ~Known(r.job) THEN Error(r, "NOT_FOUND") ELSE NoMsg

ResultRefusal(r) ==
  CASE ~Known(r.job) -> Error(r, "NOT_FOUND")
    [] Known(r.job) /\ Status(r.job) # "COMPLETED" -> Error(r, "NOT_COMPLETED")
    [] OTHER -> NoMsg

Answering(d, m) ==
  /\ handler' = [handler EXCEPT ![d] = "reply"]
  /\ reply' = [reply EXCEPT ![d] = m]

HandleOther(d, r) ==
  /\ r.type \notin {"SUBMIT_JOB", "GET_JOB_STATUS", "GET_JOB_RESULT"}
  /\ Answering(d, Error(r, "INVALID_MESSAGE"))
  /\ UNCHANGED <<jobs, owner>>

\* A submission is refused when the table is full or freed, or for lack of
\* memory for its data.
HandleSubmit(d, r) ==
  /\ r.type = "SUBMIT_JOB" /\ ~mutex
  /\ \/ /\ Len(jobs) < MaxJobs /\ ~freed
        /\ Submit(d)
        /\ Answering(d, Msg("JOB_SUBMITTED", Len(jobs) + 1, "-", r.tag))
     \/ /\ Answering(d, Error(r, "SUBMISSION_FAILED"))
        /\ UNCHANGED <<jobs, owner>>

HandleQuery(d, r) ==
  /\ ~mutex
  /\ \/ r.type = "GET_JOB_STATUS" /\ Answering(d, StatusAnswer(r))
     \/ /\ r.type = "GET_JOB_RESULT" /\ ResultRefusal(r) # NoMsg
        /\ Answering(d, ResultRefusal(r))
     \/ /\ r.type = "GET_JOB_RESULT" /\ ResultRefusal(r) = NoMsg
        /\ handler' = [handler EXCEPT ![d] = "result"]
        /\ reply' = [reply EXCEPT ![d] = Msg("JOB_RESULT", r.job, "-", r.tag)]
  /\ UNCHANGED <<jobs, owner>>

Recv(d) ==
  LET c == fd[d]
  IN  /\ handler[d] = "recv" /\ up[c] # <<>>
      /\ \/ HandleOther(d, Head(up[c]))
         \/ HandleSubmit(d, Head(up[c]))
         \/ HandleQuery(d, Head(up[c]))
      /\ up' = [up EXCEPT ![c] = Tail(@)]
      /\ UNCHANGED <<acceptVars, mainVars, freed, notes, revivals, fd, down,
                     far, clientVars>>

\* job_handler_get_result, after job_handler_get_status has said COMPLETED.  It
\* looks at the job again, and the copy of the result needs memory.
Result(d) ==
  /\ handler[d] = "result" /\ ~mutex
  /\ LET r == reply[d]
         ok == Known(r.job) /\ Status(r.job) = "COMPLETED"
     IN  \/ ok /\ Answering(d, r)
         \/ ok /\ Answering(d, Error(r, "NO_MEMORY"))
         \/ ~ok /\ Answering(d, Error(r, "INTERNAL_ERROR"))
  /\ UNCHANGED <<acceptVars, mainVars, tableVars, fd, linkVars, clientVars>>

Reply(d) ==
  /\ handler[d] = "reply"
  /\ \/ /\ SendOK(d, reply[d])
        /\ handler' = [handler EXCEPT ![d] = "top"]
        /\ UNCHANGED <<fd, up, far>>
     \/ SendFails(d) /\ Close(d) /\ UNCHANGED down
  /\ reply' = [reply EXCEPT ![d] = NoMsg]
  /\ UNCHANGED <<acceptVars, mainVars, tableVars, clientVars>>

\* The peer has gone and everything it sent has been handled.
RecvEnd(d) ==
  /\ handler[d] = "recv" /\ up[fd[d]] = <<>> /\ Gone(fd[d])
  /\ Close(d)
  /\ UNCHANGED <<acceptVars, mainVars, tableVars, reply, down, clientVars>>

Handler(d) ==
  \/ Top(d) \/ Recv(d) \/ Result(d) \/ Reply(d) \/ RecvEnd(d)

-----------------------------------------------------------------------------
(***************************************************************************)
(* The main thread: check_timeouts every second, then server_stop.         *)
(***************************************************************************)
\* One pass of job_handler_check_timeouts.  Any job may have used up its last
\* attempt; the clients of those are told before the unlock.
CheckTimeouts ==
  /\ main = "loop" /\ ~mutex
  /\ \E over \in SUBSET {j \in DOMAIN jobs : Status(j) = "ACTIVE"} :
       /\ over # {}
       /\ jobs' = [j \in DOMAIN jobs |-> IF j \in over
                     THEN [jobs[j] EXCEPT !.status = "FAILED"] ELSE jobs[j]]
       /\ due' = over /\ mutex' = TRUE
  /\ UNCHANGED <<acceptVars, is_running, main, freed, notes, owner,
                 revivals, serverVars, linkVars, clientVars>>

\* Mutant: a failed announcement leaves the function without unlocking.
UnlockOnSuccess(j) == mutex' = (due # {j} \/ SendFails(jobs[j].sock))

\* The lock is released after the last of them, sent or not.
Unlock(j) == mutex' = (due # {j})

TellTimeout ==
  \E j \in due :
    /\ \A i \in due : j <= i
    /\ \/ SendFails(jobs[j].sock) /\ UNCHANGED down
       \/ SendOK(jobs[j].sock, Msg("JOB_FAILED", j, "-", 0))
    /\ due' = due \ {j} /\ Unlock(j)
    /\ UNCHANGED <<acceptVars, is_running, main, tableVars,
                   serverVars, up, far, clientVars>>

\* A signal ends the loop; server_stop clears the flag, closes the listening
\* socket and waits for the accept thread ...
Stop ==
  /\ main = "loop" /\ ~mutex
  /\ main' = "join" /\ is_running' = FALSE
  /\ UNCHANGED <<acceptVars, due, mutex, tableVars, serverVars, linkVars, clientVars>>

\* ... then frees the job table, which handler threads may still ask for ...
Cleanup ==
  /\ main = "join" /\ acceptor = "done" /\ ~mutex
  /\ main' = "stopped" /\ freed' = TRUE /\ jobs' = <<>>
  /\ UNCHANGED <<acceptVars, is_running, due, mutex, notes, owner,
                 revivals, serverVars, linkVars, clientVars>>

\* ... and main returns: the process ends with all its threads.
Exit ==
  /\ main = "stopped" /\ main' = "exited"
  /\ handler' = [d \in FDs |-> "none"] /\ reply' = [d \in FDs |-> NoMsg]
  /\ fd' = [d \in FDs |-> NoClient] /\ notes' = {}
  /\ far' = [c \in Clients |-> IF far[c] = "open" THEN "closed" ELSE far[c]]
  /\ up' = [c \in Clients |-> <<>>]
  /\ UNCHANGED <<acceptVars, is_running, due, mutex, jobs, freed,
                 owner, revivals, down, clientVars>>

-----------------------------------------------------------------------------
(***************************************************************************)
(* client.c.  A program connects, makes calls and ends with                *)
(* client_cleanup, as client_main.c does.                                  *)
(***************************************************************************)
\* client_connect_to_server up to its first message.
Connect(c) ==
  /\ op[c] = "NEW"
  /\ \/ /\ Listening
        /\ \E g \in Greetings :
             /\ c \in Strangers \/ g = "CLIENT_CONNECT"
             /\ op' = [op EXCEPT ![c] = g]
             /\ up' = [up EXCEPT ![c] = IF g = "SILENT" THEN <<>> ELSE
                         <<[type |-> g, job |-> 0, tag |-> 0]>>]
        /\ far' = [far EXCEPT ![c] = "queued"]
     \/ /\ ~Listening
        /\ op' = [op EXCEPT ![c] = "END"]
        /\ UNCHANGED <<far, up>>
  /\ UNCHANGED <<acceptVars, mainVars, tableVars, serverVars, down, asked, mine,
                 calls, call, behind, misled>>

\* send_message.  Whether it fails on a closed connection or the message is
\* lost, the receive that follows fails as well.
Send(c, o, j, tag) ==
  up' = IF far[c] = "closed" THEN up ELSE
        [up EXCEPT ![c] = Append(@, [type |-> o, job |-> j, tag |-> tag])]

\* A call writes its request.  Queries are about jobs the client was told of.
Call(c, o, j) ==
  /\ op[c] = "IDLE"
  /\ o \in {"GET_JOB_STATUS", "GET_JOB_RESULT"} <=> j # 0
  /\ IF o = "CLIENT_DISCONNECT" THEN UNCHANGED <<calls, call>>
     ELSE /\ calls < MaxCalls
          /\ calls' = calls + 1 /\ call' = [call EXCEPT ![c] = calls + 1]
  /\ op' = [op EXCEPT ![c] = o] /\ asked' = [asked EXCEPT ![c] = j]
  /\ Send(c, o, j, call'[c])
  /\ UNCHANGED <<acceptVars, mainVars, tableVars, serverVars, down, far, mine,
                 behind, misled>>

\* close(socket) and the end of the program.
Leave(c) ==
  /\ op' = [op EXCEPT ![c] = "END"]
  /\ down' = [down EXCEPT ![c] = <<>>]
  /\ asked' = [asked EXCEPT ![c] = 0] /\ mine' = [mine EXCEPT ![c] = {}]
  /\ call' = [call EXCEPT ![c] = 0] /\ behind' = [behind EXCEPT ![c] = 0]
  /\ misled' = [misled EXCEPT ![c] = FALSE]
  /\ UNCHANGED up

\* The client is in receive_message.
Waiting(c) == op[c] \in Greetings \cup Calls

\* The type a call accepts as its answer.
Expected(o) == CASE o = "SUBMIT_JOB" -> "JOB_SUBMITTED"
                 [] o = "GET_JOB_RESULT" -> "JOB_RESULT"
                 [] o = "GET_SERVER_STATS" -> "SERVER_STATS"
                 [] o = "CLIENT_CONNECT" -> "CONNECT_ACK"
                 [] o = "REGISTER" -> "REGISTER_RESPONSE"
                 [] OTHER -> "JOB_STATUS"

\* Every call reads one message.  An ERROR or an unexpected message is a
\* failed call.  client_wait_for_job asks for the status again until the job
\* has ended or its time is over.
Return(c, m) ==
  LET taken == m.type = Expected(op[c])
  IN  /\ \/ /\ op' = [op EXCEPT ![c] = "IDLE"]
            /\ asked' = [asked EXCEPT ![c] = 0]
            /\ UNCHANGED up
         \/ /\ op[c] = "GET_JOB_STATUS" /\ taken /\ m.val = "ACTIVE"
            /\ Send(c, op[c], asked[c], call[c])
            /\ UNCHANGED <<op, asked>>
      /\ mine' = [mine EXCEPT ![c] = @ \cup
                    IF op[c] = "SUBMIT_JOB" /\ taken THEN {m.job} ELSE {}]
      /\ behind' = [behind EXCEPT ![c] =
                      IF m.type \in Announcements THEN @ + 1 ELSE @]
      /\ misled' = [misled EXCEPT ![c] = @ \/ (taken /\ m.tag # call[c])]
      /\ down' = [down EXCEPT ![c] = Tail(@)]
      /\ UNCHANGED call

\* A failed connect and the disconnect close the socket.
Receive(c) ==
  LET m == Head(down[c])
      leaves == \/ op[c] \in Greetings /\ m.type # Expected(op[c])
                \/ op[c] = "CLIENT_DISCONNECT"
  IN  /\ Waiting(c) /\ down[c] # <<>>
      /\ \/ leaves /\ Leave(c)
         \/ ~leaves /\ Return(c, m)
      /\ UNCHANGED <<acceptVars, mainVars, tableVars, serverVars, far, calls>>

\* The end of the stream, or an error: receive_message leaves the request in
\* msg, whose type no call accepts.  The program gives up.
ReceiveEnd(c) ==
  /\ Waiting(c) /\ down[c] = <<>>
  /\ far[c] = "closed" \/ (far[c] = "queued" /\ ~Listening)
  /\ Leave(c)
  /\ UNCHANGED <<acceptVars, mainVars, tableVars, serverVars, far, calls>>

\* A peer that never spoke goes away.
Hangup(c) ==
  /\ op[c] = "SILENT" /\ Leave(c)
  /\ UNCHANGED <<acceptVars, mainVars, tableVars, serverVars, far, calls>>

\* A close with messages not read resets the connection, and the server may
\* lose what it has not read either.
Lost(c) ==
  /\ op[c] = "END" /\ up[c] # <<>>
  /\ up' = [up EXCEPT ![c] = <<>>]
  /\ UNCHANGED <<acceptVars, mainVars, tableVars, serverVars, down, far, clientVars>>

Client(c) ==
  \/ \E o \in Calls, j \in {0} \cup mine[c] : Call(c, o, j)
  \/ Receive(c) \/ ReceiveEnd(c)

-----------------------------------------------------------------------------
Next ==
  \/ Acceptor
  \/ CheckTimeouts \/ TellTimeout \/ Stop \/ Cleanup \/ Exit
  \/ \E d \in FDs : Handler(d)
  \/ \E j \in JobIds : Report(j) \/ Revive(j)
  \/ \E n \in notes : Announce(n)
  \/ \E c \in Clients : Connect(c) \/ Client(c) \/ Hangup(c) \/ Lost(c)

Spec == Init /\ [][Next]_vars

-----------------------------------------------------------------------------
\* The threads, the table and the connections are well typed, and a handler
\* runs on a descriptor that is open.
ClientsTypeOK ==
  /\ acceptor \in {"top", "accept", "first", "refuse", "done"}
  /\ main \in {"loop", "join", "stopped", "exited"}
  /\ due \subseteq DOMAIN jobs /\ (mutex <=> due # {})
  /\ jobs \in Seq([sock : FDs, status : Statuses]) /\ Len(jobs) <= MaxJobs
  /\ notes \subseteq [sock : FDs, job : JobIds, type : Announcements]
  /\ \A d \in FDs : /\ handler[d] \in {"none", "reply", "result", "top", "recv"}
                    /\ handler[d] # "none" => fd[d] # NoClient
                    /\ reply[d] \in Messages \cup {NoMsg}
  /\ \A c \in Clients : /\ op[c] \in Ops /\ mine[c] \subseteq JobIds
                        /\ Len(down[c]) <= Buffer
                        /\ \A i \in DOMAIN down[c] : down[c][i] \in Messages

\* Every answer the server still owes a client: requests not read, the answer
\* a handler is about to send, and answers not read.
Owed(c) ==
  Len(up[c])
    + Cardinality({d \in FDs : fd[d] = c /\ reply[d] # NoMsg})
    + Cardinality({i \in DOMAIN down[c] : down[c][i].type \notin Announcements})

\* Requests and answers never get out of step by themselves: on an open
\* connection the server owes exactly the answer the client waits for, plus
\* one for every announcement that a call has taken for its answer.  Only such
\* a client is ever given the outcome of an earlier call (server.c:494: nothing
\* orders JOB_SUBMITTED before the job's completion).
AnswersInStep ==
  \A c \in Clients :
    /\ far[c] = "open" /\ op[c] \in Calls \cup {"IDLE"} =>
         Owed(c) = behind[c] + (IF Waiting(c) THEN 1 ELSE 0)
    /\ misled[c] => behind[c] > 0

\* An announcement goes to the client that submitted the job, as long as the
\* server has not closed that client's connection: the descriptor read under
\* the lock and used after it is stale only then (job_handler.c:300).
AnnouncedToSubmitter ==
  \A c \in Clients : \A i \in DOMAIN down[c] :
    down[c][i].type \in Announcements =>
      owner[down[c][i].job] = c \/ far[owner[down[c][i].job]] = "closed"

\* A result query that has seen the job COMPLETED and does not run out of memory
\* fails only if a failed send took the job back, or the table was freed,
\* between its two critical sections (server.c:557).
InternalErrorExplained ==
  (\E d \in FDs : reply[d].val = "INTERNAL_ERROR") => revivals > 0 \/ freed

\* What a thread or a client that waits for an answer needs to go on by itself,
\* without anybody connecting, making a call, sending the signal, breaking a
\* silence or letting a job time out.
CanSend(d) == SendFails(d) \/ Len(down[fd[d]]) < Buffer

AcceptorCanStep ==
  \/ acceptor = "top"
  \/ acceptor = "accept" /\ \E c \in Clients, d \in FDs :
                               far[c] = "queued" /\ fd[d] = NoClient
  \/ acceptor = "first" /\ FirstMessages # {}
  \/ acceptor = "refuse" /\ CanSend(acceptor_fd)

MainCanStep ==
  \/ \E j \in due : (\A i \in due : j <= i) /\ CanSend(jobs[j].sock)
  \/ main = "join" /\ acceptor = "done" /\ ~mutex
  \/ main = "stopped"

HandlerCanStep(d) ==
  \/ handler[d] = "top"
  \/ /\ handler[d] = "recv"
     /\ IF up[fd[d]] = <<>> THEN Gone(fd[d])
        ELSE mutex => Head(up[fd[d]]).type \notin
                        {"SUBMIT_JOB", "GET_JOB_STATUS", "GET_JOB_RESULT"}
  \/ handler[d] = "result" /\ ~mutex
  \/ handler[d] = "reply" /\ CanSend(d)

WorkersCanStep ==
  \/ /\ Cardinality(notes) < Workers /\ ~mutex
     /\ \E j \in DOMAIN jobs : Status(j) = "ACTIVE"
  \/ main # "exited" /\ \E n \in notes : CanSend(n.sock)

ClientCanStep(c) ==
  /\ Waiting(c)
  /\ down[c] # <<>> \/ far[c] = "closed" \/ (far[c] = "queued" /\ ~Listening)

CanStep ==
  \/ AcceptorCanStep \/ MainCanStep \/ WorkersCanStep
  \/ \E d \in FDs : HandlerCanStep(d)
  \/ \E c \in Clients : ClientCanStep(c)

\* The accept thread waits for the first message of a peer that says nothing.
Silenced == acceptor = "first" /\ op[fd[acceptor_fd]] = "SILENT"

\* check_timeouts, with g_job_mutex, waits for room in the buffer of a client
\* that makes no call and so reads nothing.
HeldUp ==
  \E j \in due : /\ \A i \in due : j <= i
                 /\ op[fd[jobs[j].sock]] = "IDLE" /\ ~CanSend(jobs[j].sock)

\* A connection that is not accepted for want of a descriptor.
Queueing(c) == far[c] = "queued" /\ \A d \in FDs : fd[d] # NoClient

\* Nobody waits on everybody.  Apart from two standstills, when nothing goes on
\* by itself no client is left in a call, unless all descriptors are taken and
\* it is not connected: its calls were answered or refused, whatever the other
\* clients do not read, and shutdown has left nobody waiting.  And server_stop
\* waits for ever only for an accept thread that stays in accept, which the
\* closing of the socket does not interrupt (server.c:426).  The standstills: a
\* silent peer in front of the accept thread (server.c:75), and a client
\* between two calls whose buffer is full when check_timeouts announces to it
\* with the lock in hand (job_handler.c:501).  A client that waits for an
\* answer never holds the lock up.
NobodyStuck ==
  \/ CanStep
  \/ Silenced
  \/ HeldUp
  \/ /\ \A c \in Clients : op[c] \in {"NEW", "SILENT", "IDLE", "END"} \/ Queueing(c)
     /\ main \in {"loop", "exited"} \/ acceptor = "accept"
=============================================================================
