------------------------- MODULE JobClients_proofs --------------------------
(***************************************************************************)
(* Proofs about the client side of the job server, for any number of       *)
(* clients, descriptors, jobs and calls.                                   *)
(***************************************************************************)
EXTENDS JobClients, FiniteSetTheorems, FunctionTheorems, SequenceTheorems,
        WellFoundedInduction, TLAPS

-----------------------------------------------------------------------------
(***************************************************************************)
(* The parts of the invariant.                                             *)
(***************************************************************************)
\* Types of the server's side, of the connections and of the clients.
Requests == [type : Greetings \cup Calls, job : 0 .. MaxJobs, tag : 0 .. MaxCalls]
Peers == Clients \cup {NoClient}
Phases ==
  /\ acceptor \in {"top", "accept", "first", "refuse", "done"}
  /\ main \in {"loop", "join", "stopped", "exited"}
  /\ acceptor_fd \in 0 .. MaxFDs
  /\ main \in {"stopped", "exited"} => acceptor = "done"
TableOK ==
  /\ jobs \in Seq([sock : FDs, status : Statuses]) /\ Len(jobs) <= MaxJobs
  /\ notes \subseteq [sock : FDs, job : JobIds, type : Announcements]
  /\ owner \in [JobIds -> Peers] /\ revivals \in Nat
DueOK == due \subseteq DOMAIN jobs /\ (mutex <=> due # {})
ServersOK ==
  /\ handler \in [FDs -> {"none", "reply", "result", "top", "recv"}]
  /\ reply \in [FDs -> Messages \cup {NoMsg}]
  /\ fd \in [FDs -> Peers]
LinksOK ==
  /\ up \in [Clients -> Seq(Requests)] /\ down \in [Clients -> Seq(Messages)]
  /\ far \in [Clients -> {"none", "queued", "open", "closed"}]
Roomy == \A c \in Clients : Len(down[c]) <= Buffer
ClientsOK ==
  /\ op \in [Clients -> Ops] /\ asked \in [Clients -> 0 .. MaxJobs]
  /\ mine \in [Clients -> SUBSET JobIds]
  /\ calls \in 0 .. MaxCalls /\ call \in [Clients -> 0 .. MaxCalls]
  /\ behind \in [Clients -> Nat] /\ misled \in [Clients -> BOOLEAN]

\* A descriptor belongs to one client, and a client is connected while it has
\* one.
Wired ==
  /\ \A d, e \in FDs : fd[d] # NoClient /\ fd[d] = fd[e] => d = e
  /\ \A c \in Clients : far[c] = "open" <=> \E d \in FDs : fd[d] = c
  /\ \A d \in FDs : handler[d] # "none" => fd[d] # NoClient
  /\ acceptor \in {"first", "refuse"} =>
       acceptor_fd \in FDs /\ fd[acceptor_fd] # NoClient /\ handler[acceptor_fd] = "none"

\* What each end knows of the other while the connection is set up.
Fresh == {"NEW", "SILENT", "REGISTER"}
Served == Calls \cup {"IDLE", "CLIENT_CONNECT"}
GreetedClient(c) ==
  /\ op[c] = "NEW" => far[c] = "none" /\ up[c] = <<>> /\ call[c] = 0
                        /\ behind[c] = 0 /\ ~misled[c]
  /\ op[c] = "SILENT" => up[c] = <<>>
  /\ op[c] = "REGISTER" => \A i \in DOMAIN up[c] : up[c][i].type = "REGISTER"
  /\ op[c] = "CLIENT_CONNECT" =>
       /\ \A i \in DOMAIN up[c] : up[c][i].type = "CLIENT_CONNECT"
       /\ call[c] = 0 /\ behind[c] = 0
  /\ op[c] \in Fresh =>
       \A i \in DOMAIN down[c] : down[c][i].type \in Announcements \cup {"ERROR"}
  /\ far[c] \in {"none", "queued"} =>
       down[c] = <<>> /\ op[c] \in Greetings \cup {"NEW", "END"}
Attended ==
  /\ \A d \in FDs : handler[d] # "none" => op[fd[d]] \in Served \cup {"END"}
  /\ acceptor = "first" =>
       /\ op[fd[acceptor_fd]] \in Greetings \cup {"END"}
       /\ \A i \in DOMAIN down[fd[acceptor_fd]] :
            down[fd[acceptor_fd]][i].type \in Announcements
  /\ acceptor = "refuse" => op[fd[acceptor_fd]] \in {"REGISTER", "END"}
Greeted == (\A c \in Clients : GreetedClient(c)) /\ Attended

\* The answers: a handler has one exactly while it is to send it.
Replies ==
  \A d \in FDs :
    /\ reply[d] # NoMsg <=> handler[d] \in {"reply", "result"}
    /\ reply[d].type \notin Announcements
    /\ reply[d].type = "JOB_SUBMITTED" => reply[d].job # 0
    /\ handler[d] = "result" => \/ Known(reply[d].job) /\ Status(reply[d].job) = "COMPLETED"
                                \/ revivals > 0 \/ freed
    /\ reply[d].val = "INTERNAL_ERROR" => revivals > 0 \/ freed
Numbered ==
  \A c \in Clients : \A i \in DOMAIN down[c] :
    down[c][i].type \in Announcements \cup {"JOB_SUBMITTED"} => down[c][i].job # 0

\* The submitter of a job is on the descriptor the job names, or its connection
\* was closed.
Reaches(d, j) == owner[j] \in Clients /\ (fd[d] = owner[j] \/ far[owner[j]] = "closed")
Owners ==
  /\ freed => jobs = <<>>
  /\ ~freed => \A j \in JobIds : owner[j] # NoClient <=> j \in DOMAIN jobs
  /\ \A j \in DOMAIN jobs : Reaches(jobs[j].sock, j)
  /\ \A n \in notes : Reaches(n.sock, n.job)
Submitted ==
  \A c \in Clients : \A i \in DOMAIN down[c] :
    down[c][i].type \in Announcements =>
      /\ owner[down[c][i].job] \in Clients
      /\ owner[down[c][i].job] = c \/ far[owner[down[c][i].job]] = "closed"

\* Requests and answers in step.
OwesClient(c) ==
  op[c] \in Served =>
    /\ Owed(c) <= behind[c] + (IF Waiting(c) THEN 1 ELSE 0)
    /\ far[c] = "open" \/ (far[c] = "queued" /\ main # "exited") =>
         Owed(c) = behind[c] + (IF Waiting(c) THEN 1 ELSE 0)
Owes == \A c \in Clients : OwesClient(c)
TaggedClient(c) ==
  op[c] \in Served /\ behind[c] = 0 =>
    /\ \A i \in DOMAIN up[c] : up[c][i].tag = call[c]
    /\ \A d \in FDs : fd[d] = c /\ reply[d] # NoMsg => reply[d].tag = call[c]
    /\ \A i \in DOMAIN down[c] :
         down[c][i].type \notin Announcements => down[c][i].tag = call[c]
Tagged == \A c \in Clients : TaggedClient(c)
Misled == \A c \in Clients : misled[c] => behind[c] > 0

\* The inductive invariant.
ClientsInductive ==
  /\ Phases /\ TableOK /\ DueOK /\ ServersOK /\ LinksOK /\ Roomy /\ ClientsOK
  /\ Wired /\ Greeted /\ Replies /\ Numbered /\ Owners /\ Submitted
  /\ Owes /\ Tagged /\ Misled
-----------------------------------------------------------------------------
(***************************************************************************)
(* The kinds of steps, as far as threads, connections and clients go.      *)
(***************************************************************************)
\* The accept thread serves nobody else than before; the process goes on.
AcceptSame ==
  acceptor' \in {"first", "refuse"} => acceptor' = acceptor /\ acceptor_fd' = acceptor_fd
MainSame == main' = "exited" <=> main = "exited"

\* Nothing happens to them ...
Quiet == AcceptSame /\ MainSame /\ UNCHANGED <<serverVars, linkVars, clientVars>>

\* ... a client is accepted, given a handler, or to be refused ...
Accepts(c, d) ==
  /\ far[c] = "queued" /\ fd[d] = NoClient
  /\ acceptor = "accept" /\ acceptor' = "first" /\ acceptor_fd' = d
  /\ far' = [far EXCEPT ![c] = "open"] /\ fd' = [fd EXCEPT ![d] = c]
  /\ UNCHANGED <<main, handler, reply, up, down, clientVars>>
Greets(d, connects) ==
  /\ acceptor = "first" /\ acceptor_fd = d
  /\ \/ up[fd[d]] = <<>> /\ Gone(fd[d]) /\ up' = up
     \/ /\ up[fd[d]] # <<>> /\ up' = [up EXCEPT ![fd[d]] = Tail(@)]
        /\ connects <=> Head(up[fd[d]]).type = "CLIENT_CONNECT"
  /\ UNCHANGED <<main, fd, down, far, clientVars>>
Welcomes(d) ==
  /\ Greets(d, TRUE) /\ acceptor' = "top"
  /\ handler' = [handler EXCEPT ![d] = "reply"]
  /\ reply' = [reply EXCEPT ![d] = Msg("CONNECT_ACK", 0, "-", 0)]
TurnsAway(d) ==
  Greets(d, FALSE) /\ acceptor' = "refuse" /\ UNCHANGED <<acceptor_fd, handler, reply>>

\* ... the end of a job is announced ...
Tells(d, m) ==
  /\ m \in Messages /\ m.type \in Announcements /\ m.job # 0 /\ Reaches(d, m.job)
  /\ (SendFails(d) /\ down' = down) \/ SendOK(d, m)
  /\ AcceptSame /\ UNCHANGED <<main, serverVars, up, far, clientVars>>

\* ... a handler goes on to receive, has an answer, or sends it ...
Resumes(d) ==
  /\ handler[d] = "top" /\ handler' = [handler EXCEPT ![d] = "recv"]
  /\ AcceptSame /\ UNCHANGED <<main, reply, fd, linkVars, clientVars>>
Handles(d, m) ==
  /\ m \in Messages /\ m.type \notin Announcements
  /\ m.type = "JOB_SUBMITTED" => m.job # 0
  /\ m.val = "INTERNAL_ERROR" => revivals > 0 \/ freed
  /\ \/ /\ handler[d] = "recv" /\ up[fd[d]] # <<>>
        /\ up' = [up EXCEPT ![fd[d]] = Tail(@)] /\ m.tag = Head(up[fd[d]]).tag
     \/ handler[d] = "result" /\ up' = up /\ m.tag = reply[d].tag
  /\ \/ handler' = [handler EXCEPT ![d] = "reply"]
     \/ /\ handler' = [handler EXCEPT ![d] = "result"]
        /\ Known(m.job) /\ Status(m.job) = "COMPLETED"
  /\ reply' = [reply EXCEPT ![d] = m]
  /\ AcceptSame /\ UNCHANGED <<main, fd, down, far, clientVars>>
Answers(d) ==
  /\ handler[d] = "reply" /\ SendOK(d, reply[d])
  /\ handler' = [handler EXCEPT ![d] = "top"] /\ reply' = [reply EXCEPT ![d] = NoMsg]
  /\ AcceptSame /\ UNCHANGED <<main, fd, up, far, clientVars>>

\* ... a connection is closed, or all of them are ...
Closes(d) ==
  /\ fd[d] \in Clients
  /\ handler' = [handler EXCEPT ![d] = "none"] /\ reply' = [reply EXCEPT ![d] = NoMsg]
  /\ fd' = [fd EXCEPT ![d] = NoClient] /\ far' = [far EXCEPT ![fd[d]] = "closed"]
  /\ up' = up \/ up' = [up EXCEPT ![fd[d]] = <<>>]
  /\ \/ down' = down
     \/ \E n \in 0 .. Len(down[fd[d]]) : down' = [down EXCEPT ![fd[d]] = SubSeq(@, 1, n)]
     \/ op[fd[d]] = "REGISTER" /\ SendOK(d, Msg("ERROR", 0, "INVALID_MESSAGE", 0))
  /\ AcceptSame /\ (acceptor' \in {"first", "refuse"} => acceptor_fd # d)
  /\ UNCHANGED <<main, clientVars>>
Exits ==
  /\ main = "stopped" /\ main' = "exited" /\ AcceptSame
  /\ handler' = [d \in FDs |-> "none"] /\ reply' = [d \in FDs |-> NoMsg]
  /\ fd' = [d \in FDs |-> NoClient]
  /\ far' = [c \in Clients |-> IF far[c] = "open" THEN "closed" ELSE far[c]]
  /\ up' = [c \in Clients |-> <<>>] /\ UNCHANGED <<down, clientVars>>

\* ... a client connects, calls, is answered or leaves.
Alone == AcceptSame /\ UNCHANGED <<main, serverVars>>
Comes(c, g) ==
  /\ op[c] = "NEW" /\ g \in Greetings /\ op' = [op EXCEPT ![c] = g]
  /\ up' = [up EXCEPT ![c] = IF g = "SILENT" THEN <<>> ELSE
                               <<[type |-> g, job |-> 0, tag |-> 0]>>]
  /\ far' = [far EXCEPT ![c] = "queued"] /\ Listening
  /\ Alone /\ UNCHANGED <<down, asked, mine, calls, call, behind, misled>>
Asks(c, o, j) ==
  /\ op[c] = "IDLE" /\ o \in Calls /\ j \in {0} \cup mine[c]
  /\ op' = [op EXCEPT ![c] = o] /\ asked' = [asked EXCEPT ![c] = j]
  /\ \/ o = "CLIENT_DISCONNECT" /\ UNCHANGED <<calls, call>>
     \/ calls < MaxCalls /\ calls' = calls + 1 /\ call' = [call EXCEPT ![c] = calls + 1]
  /\ Send(c, o, j, call'[c])
  /\ Alone /\ UNCHANGED <<down, far, mine, behind, misled>>
Leaves(c) == Leave(c) /\ Alone /\ UNCHANGED <<far, calls>>
Returns(c) ==
  /\ op[c] \in Greetings => Head(down[c]).type = Expected(op[c])
  /\ Waiting(c) /\ op[c] # "CLIENT_DISCONNECT" /\ down[c] # <<>> /\ Return(c, Head(down[c]))
  /\ Alone /\ UNCHANGED <<far, calls>>
Loses(c) ==
  /\ op[c] = "END" /\ up' = [up EXCEPT ![c] = <<>>]
  /\ Alone /\ UNCHANGED <<down, far, clientVars>>
Refused(c) ==
  /\ op[c] = "NEW" /\ ~Listening /\ op' = [op EXCEPT ![c] = "END"]
  /\ Alone /\ UNCHANGED <<linkVars, asked, mine, calls, call, behind, misled>>

DescriptorKind(d) ==
  \/ (\E c \in Clients : Accepts(c, d)) \/ Welcomes(d) \/ TurnsAway(d)
  \/ (\E m : Tells(d, m)) \/ Resumes(d) \/ (\E m : Handles(d, m)) \/ Answers(d) \/ Closes(d)
ClientKind(c) ==
  \/ (\E g : Comes(c, g)) \/ (\E o, j : Asks(c, o, j)) \/ Leaves(c) \/ Returns(c)
  \/ Loses(c) \/ Refused(c)
Kind ==
  \/ Quiet \/ Exits \/ (\E d \in FDs : DescriptorKind(d)) \/ (\E c \in Clients : ClientKind(c))
-----------------------------------------------------------------------------
(***************************************************************************)
(* Every step is of one of these kinds.                                    *)
(***************************************************************************)
\* Messages the server makes are messages.
LEMMA MessagesMade ==
  ASSUME NEW type \in Types, NEW j \in 0 .. MaxJobs, NEW val \in {"-"} \cup Statuses \cup Errors,
         NEW tag \in 0 .. MaxCalls
  PROVE  /\ Msg(type, j, val, tag) \in Messages /\ Msg(type, j, val, tag).type = type
         /\ Msg(type, j, val, tag).job = j /\ Msg(type, j, val, tag).val = val
         /\ Msg(type, j, val, tag).tag = tag
BY DEF Msg, Messages

\* An entry of the job table, and its place there.
LEMMA JobTyped ==
  ASSUME TableOK, NEW j \in DOMAIN jobs
  PROVE  j \in JobIds /\ jobs[j].sock \in FDs /\ jobs[j].status \in Statuses
<1>1. jobs \in Seq([sock : FDs, status : Statuses]) /\ j \in 1 .. Len(jobs)
  BY DEF TableOK
<1>2. jobs[j] \in [sock : FDs, status : Statuses]
  BY <1>1, ElementOfSeq
<1>3. Len(jobs) \in Nat /\ Len(jobs) <= MaxJobs /\ MaxJobs \in Nat
  BY ClientsAssumption DEF TableOK
<1> QED BY <1>1, <1>2, <1>3 DEF JobIds

\* A note is an announcement of a job.
LEMMA Notes ==
  ASSUME TableOK, Owners, NEW n \in notes
  PROVE  /\ n.sock \in FDs /\ Reaches(n.sock, n.job)
         /\ Msg(n.type, n.job, "-", 0) \in Messages
         /\ Msg(n.type, n.job, "-", 0).type \in Announcements
         /\ Msg(n.type, n.job, "-", 0).job = n.job /\ n.job # 0
<1>1. n.sock \in FDs /\ n.job \in JobIds /\ n.type \in Announcements
  BY DEF TableOK
<1>2. n.type \in Types /\ n.job \in 0 .. MaxJobs /\ n.job # 0 /\ 0 \in 0 .. MaxCalls
  BY <1>1, ClientsAssumption DEF Types, JobIds
<1>3. Reaches(n.sock, n.job)
  BY DEF Owners
<1> QED BY <1>1, <1>2, <1>3, MessagesMade

\* The accept thread.
LEMMA AcceptorKind ==
  ASSUME Phases, ServersOK, LinksOK, Wired, Greeted, Replies, Acceptor
  PROVE  Quiet \/ \E d \in FDs : DescriptorKind(d)
<1>1. CASE AcceptTop
  BY <1>1 DEF AcceptTop, Quiet, AcceptSame, MainSame, mainVars
<1>2. CASE Accept
  <2>1. PICK c \in Clients, d \in FDs :
          /\ far[c] = "queued" /\ fd[d] = NoClient
          /\ far' = [far EXCEPT ![c] = "open"]
          /\ fd' = [fd EXCEPT ![d] = c]
          /\ acceptor_fd' = d
    BY <1>2 DEF Accept
  <2>2. Accepts(c, d)
    BY <1>2, <2>1 DEF Accept, Accepts, mainVars
  <2> QED BY <2>2 DEF DescriptorKind
<1>3. CASE ReadFirst
  <2> DEFINE d == acceptor_fd
             c == fd[d]
  <2>1. acceptor = "first" /\ d \in FDs /\ c \in Clients
    BY <1>3 DEF ReadFirst, Wired, ServersOK, Peers
  <2>2. PICK type \in FirstMessages :
           \/ /\ type = "CLIENT_CONNECT"
              /\ acceptor' = "top" /\ acceptor_fd' = 0
              /\ handler' = [handler EXCEPT ![d] = "reply"]
              /\ reply' = [reply EXCEPT ![d] = Msg("CONNECT_ACK", 0, "-", 0)]
           \/ /\ type # "CLIENT_CONNECT"
              /\ acceptor' = "refuse"
              /\ UNCHANGED <<acceptor_fd, handler, reply>>
    BY <1>3 DEF ReadFirst
  <2>3. /\ up' = [up EXCEPT ![c] = IF @ = <<>> THEN @ ELSE Tail(@)]
        /\ UNCHANGED <<main, fd, down, far, clientVars>>
    BY <1>3 DEF ReadFirst, mainVars
  <2>4. \/ up[c] = <<>> /\ Gone(c) /\ up' = [up EXCEPT ![c] = up[c]]
        \/ /\ up[c] # <<>> /\ up' = [up EXCEPT ![c] = Tail(@)]
           /\ type = Head(up[c]).type
    BY <2>2, <2>3 DEF FirstMessages
  <2>5. up[c] = <<>> /\ up' = [up EXCEPT ![c] = up[c]] => up' = up
    BY <2>1 DEF LinksOK
  <2>6. Greets(d, type = "CLIENT_CONNECT")
    BY <2>1, <2>3, <2>4, <2>5 DEF Greets
  <2>7. CASE type = "CLIENT_CONNECT"
    <3>1. Greets(d, TRUE)
      BY <2>6, <2>7 DEF Greets
    <3> QED BY <2>1, <2>2, <2>7, <3>1 DEF DescriptorKind, Welcomes
  <2>8. CASE type # "CLIENT_CONNECT"
    <3>1. Greets(d, FALSE)
      BY <2>6, <2>8 DEF Greets
    <3> QED BY <2>1, <2>2, <2>8, <3>1 DEF DescriptorKind, TurnsAway
  <2> QED BY <2>7, <2>8
<1>4. CASE Refuse
  <2> DEFINE d == acceptor_fd
  <2>1. acceptor = "refuse" /\ d \in FDs /\ fd[d] \in Clients /\ handler[d] = "none"
        /\ op[fd[d]] \in {"REGISTER", "END"}
    BY <1>4 DEF Refuse, Wired, ServersOK, Peers, Greeted, Attended
  <2>2. /\ far' = [far EXCEPT ![fd[d]] = "closed"] /\ fd' = [fd EXCEPT ![d] = NoClient]
        /\ acceptor' = "top" /\ UNCHANGED <<main, handler, reply, up, clientVars>>
        /\ \/ down' = down
           \/ SendOK(d, Msg("ERROR", 0, "INVALID_MESSAGE", 0))
    BY <1>4 DEF Refuse, mainVars
  <2>3. reply[d] = NoMsg
    BY <2>1 DEF Replies
  <2>4. handler' = [handler EXCEPT ![d] = "none"] /\ reply' = [reply EXCEPT ![d] = NoMsg]
    BY <2>1, <2>2, <2>3 DEF ServersOK
  <2>5. SendOK(d, Msg("ERROR", 0, "INVALID_MESSAGE", 0)) => op[fd[d]] = "REGISTER"
    BY <2>1 DEF SendOK, Gone
  <2>6. Closes(d)
    BY <2>1, <2>2, <2>4, <2>5 DEF Closes, AcceptSame
  <2> QED BY <2>1, <2>6 DEF DescriptorKind
<1> QED BY <1>1, <1>2, <1>3, <1>4 DEF Acceptor
\* The client handlers.  First what closing comes to.
LEMMA CloseKind ==
  ASSUME ServersOK, Wired, NEW d \in FDs, handler[d] # "none", Close(d),
         reply' = [reply EXCEPT ![d] = NoMsg],
         \/ down' = down
         \/ \E n \in 0 .. Len(down[fd[d]]) : down' = [down EXCEPT ![fd[d]] = SubSeq(@, 1, n)],
         UNCHANGED <<acceptVars, main, clientVars>>
  PROVE  DescriptorKind(d)
<1>1. fd[d] \in Clients /\ (acceptor \in {"first", "refuse"} => acceptor_fd # d)
  BY DEF Wired, ServersOK, Peers
<1>2. Closes(d)
  BY <1>1 DEF Closes, Close, AcceptSame, acceptVars
<1> QED BY <1>2 DEF DescriptorKind

\* The answer to a request.
LEMMA RecvKind ==
  ASSUME TableOK, ServersOK, LinksOK, Wired, NEW d \in FDs, Recv(d)
  PROVE  DescriptorKind(d)
<1> DEFINE c == fd[d]
           r == Head(up[c])
<1>1. c \in Clients /\ up[c] # <<>> /\ handler[d] = "recv"
  BY DEF Recv, Wired, ServersOK, Peers
<1>2. r \in Requests
  BY <1>1, HeadTailProperties DEF LinksOK
<1>3. r.job \in 0 .. MaxJobs /\ r.tag \in 0 .. MaxCalls
  BY <1>2 DEF Requests
<1>4. /\ up' = [up EXCEPT ![c] = Tail(@)]
      /\ AcceptSame /\ UNCHANGED <<main, fd, down, far, clientVars>>
  BY DEF Recv, AcceptSame, acceptVars, mainVars
<1>5. ASSUME NEW m \in Messages, m.type \notin Announcements, m.tag = r.tag,
             m.type = "JOB_SUBMITTED" => m.job # 0, m.val # "INTERNAL_ERROR",
             reply' = [reply EXCEPT ![d] = m],
             \/ handler' = [handler EXCEPT ![d] = "reply"]
             \/ /\ handler' = [handler EXCEPT ![d] = "result"]
                /\ Known(m.job) /\ Status(m.job) = "COMPLETED"
      PROVE  DescriptorKind(d)
  <2>1. Handles(d, m)
    BY <1>1, <1>4, <1>5 DEF Handles
  <2> QED BY <2>1 DEF DescriptorKind
<1>6. ASSUME NEW code \in Errors \ {"INTERNAL_ERROR"}, Answering(d, Error(r, code))
      PROVE  DescriptorKind(d)
  <2> DEFINE m == Error(r, code)
  <2>1. /\ 0 \in 0 .. MaxJobs /\ "ERROR" \in Types
        /\ code \in {"-"} \cup Statuses \cup Errors
    BY ClientsAssumption DEF Types
  <2>2. m \in Messages /\ m.type = "ERROR" /\ m.val = code /\ m.tag = r.tag
    BY <1>3, <2>1, MessagesMade DEF Error
  <2>3. Answering(d, m)
    BY <1>6
  <2> HIDE DEF m
  <2> QED BY <1>5, <2>2, <2>3 DEF Answering, Announcements
<1>7. CASE HandleOther(d, r)
  BY <1>6, <1>7 DEF HandleOther, Errors
<1>8. CASE HandleSubmit(d, r)
  <2>1. CASE Answering(d, Error(r, "SUBMISSION_FAILED"))
    BY <1>6, <2>1 DEF Errors
  <2>2. CASE Len(jobs) < MaxJobs /\ Answering(d, Msg("JOB_SUBMITTED", Len(jobs) + 1, "-", r.tag))
    <3> DEFINE m == Msg("JOB_SUBMITTED", Len(jobs) + 1, "-", r.tag)
    <3>1. Len(jobs) + 1 \in 0 .. MaxJobs /\ Len(jobs) + 1 # 0
      BY <2>2, ClientsAssumption DEF TableOK
    <3>2. /\ m \in Messages /\ m.type = "JOB_SUBMITTED" /\ m.job # 0
          /\ m.val = "-" /\ m.tag = r.tag
      <4>1. "JOB_SUBMITTED" \in Types /\ "-" \in {"-"} \cup Statuses \cup Errors
        BY DEF Types
      <4> QED BY <1>3, <3>1, <4>1, MessagesMade
    <3> HIDE DEF m
    <3> QED BY <1>5, <2>2, <3>2 DEF Answering, Announcements, m
  <2> QED BY <1>8, <2>1, <2>2 DEF HandleSubmit
<1>9. CASE HandleQuery(d, r)
  <2>1. CASE Answering(d, StatusAnswer(r))
    <3>1. CASE Known(r.job)
      <4>1. PICK v \in Statuses : v = Status(r.job)
        BY <3>1, JobTyped DEF Known, Status
      <4> DEFINE m == Msg("JOB_STATUS", r.job, v, r.tag)
      <4>2. /\ m \in Messages /\ m.type = "JOB_STATUS" /\ m.val = v
            /\ m.tag = r.tag
        <5>1. "JOB_STATUS" \in Types /\ v \in {"-"} \cup Statuses \cup Errors
          BY DEF Types
        <5> QED BY <1>3, <5>1, MessagesMade
      <4>3. m.val # "INTERNAL_ERROR"
        BY <4>2 DEF Statuses
      <4>4. Answering(d, m)
        BY <2>1, <3>1, <4>1 DEF StatusAnswer
      <4> HIDE DEF m
      <4> QED BY <1>5, <4>2, <4>3, <4>4 DEF Answering, Announcements
    <3>2. CASE ~Known(r.job)
      BY <1>6, <2>1, <3>2 DEF StatusAnswer, Errors
    <3> QED BY <3>1, <3>2
  <2>2. CASE ResultRefusal(r) # NoMsg /\ Answering(d, ResultRefusal(r))
    <3>1. ResultRefusal(r) \in {Error(r, "NOT_FOUND"), Error(r, "NOT_COMPLETED")}
      BY <2>2 DEF ResultRefusal
    <3> QED BY <1>6, <2>2, <3>1 DEF Errors
  <2>3. CASE /\ ResultRefusal(r) = NoMsg
             /\ handler' = [handler EXCEPT ![d] = "result"]
             /\ reply' = [reply EXCEPT ![d] = Msg("JOB_RESULT", r.job, "-", r.tag)]
    <3> DEFINE m == Msg("JOB_RESULT", r.job, "-", r.tag)
    <3>1. Error(r, "NOT_FOUND") # NoMsg /\ Error(r, "NOT_COMPLETED") # NoMsg
      BY DEF Error, Msg, NoMsg
    <3>2. Known(r.job) /\ Status(r.job) = "COMPLETED"
      BY <2>3, <3>1 DEF ResultRefusal
    <3>3. /\ m \in Messages /\ m.type = "JOB_RESULT" /\ m.job = r.job /\ m.val = "-"
          /\ m.tag = r.tag
      <4>1. "JOB_RESULT" \in Types /\ "-" \in {"-"} \cup Statuses \cup Errors
        BY DEF Types
      <4> QED BY <1>3, <4>1, MessagesMade
    <3> HIDE DEF m
    <3> QED BY <1>5, <2>3, <3>2, <3>3 DEF Announcements, m
  <2> QED BY <1>9, <2>1, <2>2, <2>3 DEF HandleQuery
<1> QED BY <1>7, <1>8, <1>9 DEF Recv

\* The whole loop.
LEMMA HandlerKind ==
  ASSUME TableOK, ServersOK, LinksOK, Wired, Replies, NEW d \in FDs, Handler(d)
  PROVE  DescriptorKind(d)
<1>1. CASE Top(d)
  <2>1. CASE is_running
    <3>1. Resumes(d)
      BY <1>1, <2>1 DEF Top, Resumes, AcceptSame, acceptVars, mainVars
    <3> QED BY <3>1 DEF DescriptorKind
  <2>2. CASE ~is_running
    <3>1. handler[d] = "top" /\ Close(d) /\ Reset(fd[d])
          /\ UNCHANGED <<acceptVars, main, reply, clientVars>>
      BY <1>1, <2>2 DEF Top, mainVars
    <3>2. reply' = [reply EXCEPT ![d] = NoMsg]
      BY <3>1 DEF ServersOK, Replies
    <3>3. fd[d] \in Clients
      BY <3>1 DEF Wired, ServersOK, Peers
    <3>4. Len(down[fd[d]]) \in Nat
      BY <3>3 DEF LinksOK
    <3>5. \/ down' = down
          \/ \E n \in 0 .. Len(down[fd[d]]) : down' = [down EXCEPT ![fd[d]] = SubSeq(@, 1, n)]
      BY <3>1, <3>4 DEF Reset
    <3> QED BY <3>1, <3>2, <3>5, CloseKind
  <2> QED BY <2>1, <2>2
<1>2. CASE Recv(d)
  BY <1>2, RecvKind
<1>3. CASE Result(d)
  <2> DEFINE r == reply[d]
             ok == Known(r.job) /\ Status(r.job) = "COMPLETED"
             failed(code) == Error(r, code)
  <2>1. /\ handler[d] = "result" /\ up' = up
        /\ AcceptSame /\ UNCHANGED <<main, fd, down, far, clientVars>>
        /\ \/ ok /\ Answering(d, r)
           \/ Answering(d, failed("NO_MEMORY"))
           \/ ~ok /\ Answering(d, failed("INTERNAL_ERROR"))
    BY <1>3 DEF Result, AcceptSame, acceptVars, mainVars, linkVars
  <2>2. /\ r \in Messages /\ r.type \notin Announcements
        /\ r.type = "JOB_SUBMITTED" => r.job # 0
        /\ r.val = "INTERNAL_ERROR" => revivals > 0 \/ freed
        /\ ok \/ revivals > 0 \/ freed
    BY <2>1 DEF Replies, ServersOK
  <2>3. ASSUME NEW code \in {"NO_MEMORY", "INTERNAL_ERROR"}
        PROVE  /\ failed(code) \in Messages /\ failed(code).type = "ERROR"
               /\ failed(code).val = code /\ failed(code).tag = r.tag
    <3>1. /\ r.tag \in 0 .. MaxCalls /\ 0 \in 0 .. MaxJobs
          /\ "ERROR" \in Types /\ code \in {"-"} \cup Statuses \cup Errors
      BY <2>2, ClientsAssumption DEF Messages, Types, Errors
    <3> QED BY <3>1, MessagesMade DEF Error
  <2>4. PICK m \in {r, failed("NO_MEMORY"), failed("INTERNAL_ERROR")} :
          /\ Answering(d, m)
          /\ m \in Messages /\ m.type \notin Announcements /\ m.tag = r.tag
          /\ m.type = "JOB_SUBMITTED" => m.job # 0
          /\ m.val = "INTERNAL_ERROR" => revivals > 0 \/ freed
    <3>1. CASE Answering(d, r)
      BY <2>2, <3>1
    <3>2. CASE Answering(d, failed("NO_MEMORY"))
      <4> DEFINE n == failed("NO_MEMORY")
      <4>1. n \in Messages /\ n.type = "ERROR" /\ n.val = "NO_MEMORY" /\ n.tag = r.tag
        BY <2>3
      <4>2. Answering(d, n)
        BY <3>2
      <4> HIDE DEF failed
      <4> QED BY <4>1, <4>2 DEF Announcements
    <3>3. CASE ~ok /\ Answering(d, failed("INTERNAL_ERROR"))
      <4> DEFINE n == failed("INTERNAL_ERROR")
      <4>1. n \in Messages /\ n.type = "ERROR" /\ n.tag = r.tag
        BY <2>3
      <4>2. Answering(d, n) /\ (revivals > 0 \/ freed)
        BY <2>2, <3>3
      <4> HIDE DEF failed
      <4> QED BY <4>1, <4>2 DEF Announcements
    <3> QED BY <2>1, <3>1, <3>2, <3>3
  <2>5. Handles(d, m)
    BY <2>1, <2>4 DEF Handles, Answering
  <2> QED BY <2>5 DEF DescriptorKind
<1>4. CASE Reply(d)
  <2>1. CASE SendOK(d, reply[d]) /\ handler' = [handler EXCEPT ![d] = "top"]
             /\ UNCHANGED <<fd, up, far>>
    <3>1. Answers(d)
      BY <1>4, <2>1 DEF Reply, Answers, AcceptSame, acceptVars, mainVars
    <3> QED BY <3>1 DEF DescriptorKind
  <2>2. CASE SendFails(d) /\ Close(d) /\ UNCHANGED down
    <3>1. handler[d] = "reply" /\ reply' = [reply EXCEPT ![d] = NoMsg]
          /\ UNCHANGED <<acceptVars, main, clientVars>>
      BY <1>4 DEF Reply, mainVars
    <3> QED BY <2>2, <3>1, CloseKind
  <2> QED BY <1>4, <2>1, <2>2 DEF Reply
<1>5. CASE RecvEnd(d)
  <2>1. handler[d] = "recv" /\ Close(d) /\ UNCHANGED <<acceptVars, main, reply, down, clientVars>>
    BY <1>5 DEF RecvEnd, mainVars
  <2>2. reply' = [reply EXCEPT ![d] = NoMsg]
    BY <2>1 DEF ServersOK, Replies
  <2> QED BY <2>1, <2>2, CloseKind
<1> QED BY <1>1, <1>2, <1>3, <1>4, <1>5 DEF Handler
\* The clients.
LEMMA ClientStepKind ==
  ASSUME NEW c \in Clients, Client(c) \/ Connect(c) \/ Hangup(c) \/ Lost(c)
  PROVE  ClientKind(c)
<1>1. ASSUME NEW o \in Calls, NEW j \in {0} \cup mine[c], Call(c, o, j)
      PROVE  ClientKind(c)
  <2>1. Asks(c, o, j)
    BY <1>1 DEF Call, Asks, Alone, AcceptSame, acceptVars, mainVars
  <2> QED BY <2>1 DEF ClientKind
<1>2. CASE Receive(c)
  <2>1. CASE Leave(c)
    <3>1. Leaves(c)
      BY <1>2, <2>1 DEF Receive, Leaves, Alone, AcceptSame, acceptVars, mainVars
    <3> QED BY <3>1 DEF ClientKind
  <2>2. CASE ~Leave(c)
    <3>1. Returns(c)
      BY <1>2, <2>2 DEF Receive, Returns, Alone, AcceptSame, acceptVars, mainVars
    <3> QED BY <3>1 DEF ClientKind
  <2> QED BY <2>1, <2>2
<1>3. CASE ReceiveEnd(c) \/ Hangup(c)
  <2>1. Leaves(c)
    BY <1>3 DEF ReceiveEnd, Hangup, Leaves, Alone, AcceptSame, acceptVars, mainVars
  <2> QED BY <2>1 DEF ClientKind
<1>4. CASE Connect(c)
  <2>1. CASE Listening
    <3>1. PICK g \in Greetings :
             /\ op' = [op EXCEPT ![c] = g]
             /\ up' = [up EXCEPT ![c] = IF g = "SILENT" THEN <<>> ELSE
                         <<[type |-> g, job |-> 0, tag |-> 0]>>]
      BY <1>4, <2>1 DEF Connect
    <3>2. Comes(c, g)
      BY <1>4, <2>1, <3>1 DEF Connect, Comes, Alone, AcceptSame, acceptVars, mainVars
    <3> QED BY <3>2 DEF ClientKind
  <2>2. CASE ~Listening
    <3>1. Refused(c)
      BY <1>4, <2>2 DEF Connect, Refused, Alone, AcceptSame, acceptVars, mainVars, linkVars
    <3> QED BY <3>1 DEF ClientKind
  <2> QED BY <2>1, <2>2
<1>5. CASE Lost(c)
  <2>1. Loses(c)
    BY <1>5 DEF Lost, Loses, Alone, AcceptSame, acceptVars, mainVars
  <2> QED BY <2>1 DEF ClientKind
<1> QED BY <1>1, <1>2, <1>3, <1>4, <1>5 DEF Client

\* Announcements.
LEMMA TellKind ==
  ASSUME TableOK, DueOK, Owners, TellTimeout \/ \E n \in notes : Announce(n)
  PROVE  \E d \in FDs : DescriptorKind(d)
<1>1. CASE TellTimeout
  <2>1. PICK j \in due :
          /\ \/ SendFails(jobs[j].sock) /\ UNCHANGED down
             \/ SendOK(jobs[j].sock, Msg("JOB_FAILED", j, "-", 0))
          /\ UNCHANGED <<acceptVars, is_running, main, tableVars, serverVars, up, far, clientVars>>
    BY <1>1 DEF TellTimeout
  <2> DEFINE d == jobs[j].sock
             m == Msg("JOB_FAILED", j, "-", 0)
  <2>2. j \in DOMAIN jobs /\ Reaches(d, j)
    BY DEF DueOK, Owners
  <2>3. d \in FDs /\ j \in JobIds
    BY <2>2, JobTyped
  <2>4. j \in 0 .. MaxJobs /\ j # 0 /\ 0 \in 0 .. MaxCalls
    BY <2>3, ClientsAssumption DEF JobIds
  <2>5. m \in Messages /\ m.type = "JOB_FAILED" /\ m.job = j
    BY <2>4, MessagesMade DEF Types, Announcements
  <2>6. (SendFails(d) /\ down' = down) \/ SendOK(d, m)
    BY <2>1
  <2>7. AcceptSame /\ UNCHANGED <<main, serverVars, up, far, clientVars>>
    BY <2>1 DEF AcceptSame, acceptVars
  <2> HIDE DEF d, m
  <2>8. Tells(d, m)
    BY <2>2, <2>4, <2>5, <2>6, <2>7 DEF Tells, Announcements
  <2> QED BY <2>3, <2>8 DEF DescriptorKind
<1>2. CASE \E n \in notes : Announce(n)
  <2>1. PICK n \in notes : Announce(n)
    BY <1>2
  <2> DEFINE d == n.sock
             m == Msg(n.type, n.job, "-", 0)
  <2>2. /\ d \in FDs /\ Reaches(d, m.job) /\ m \in Messages
        /\ m.type \in Announcements /\ m.job # 0
    BY Notes
  <2>3. (SendFails(d) /\ down' = down) \/ SendOK(d, m)
    BY <2>1 DEF Announce
  <2>4. AcceptSame /\ UNCHANGED <<main, serverVars, up, far, clientVars>>
    BY <2>1 DEF Announce, AcceptSame, acceptVars, mainVars
  <2> HIDE DEF d, m
  <2>5. Tells(d, m)
    BY <2>2, <2>3, <2>4 DEF Tells
  <2> QED BY <2>2, <2>5 DEF DescriptorKind
<1> QED BY <1>1, <1>2

\* All of them.
LEMMA StepKind ==
  ASSUME ClientsInductive, [Next]_vars
  PROVE  Kind
<1> USE DEF ClientsInductive
<1>1. CASE Acceptor
  BY <1>1, AcceptorKind DEF Kind
<1>2. CASE \E d \in FDs : Handler(d)
  BY <1>2, HandlerKind DEF Kind
<1>3. CASE TellTimeout \/ \E n \in notes : Announce(n)
  BY <1>3, TellKind DEF Kind
<1>4. CASE \E c \in Clients : Client(c) \/ Connect(c) \/ Hangup(c) \/ Lost(c)
  BY <1>4, ClientStepKind DEF Kind
<1>5. CASE Exit
  <2>1. Exits
    BY <1>5 DEF Exit, Exits, AcceptSame, acceptVars
  <2> QED BY <2>1 DEF Kind
<1>6. CASE Cleanup \/ CheckTimeouts \/ Stop \/ UNCHANGED vars
  <2>1. Quiet
    BY <1>6 DEF Cleanup, CheckTimeouts, Stop, vars, Quiet, AcceptSame, MainSame, acceptVars,
                mainVars, serverVars, linkVars, clientVars
  <2> QED BY <2>1 DEF Kind
<1>7. CASE \E j \in JobIds : Report(j) \/ Revive(j)
  <2>1. Quiet
    BY <1>7 DEF Report, Revive, Quiet, AcceptSame, MainSame, acceptVars, mainVars
  <2> QED BY <2>1 DEF Kind
<1> QED BY <1>1, <1>2, <1>3, <1>4, <1>5, <1>6, <1>7 DEF Next
-----------------------------------------------------------------------------
(***************************************************************************)
(* The types.                                                              *)
(***************************************************************************)
\* Threads, answers and descriptors.
LEMMA ServersStep ==
  ASSUME ServersOK, Kind
  PROVE  ServersOK'
<1> NoMsg \in Messages \cup {NoMsg}
  OBVIOUS
<1>1. CASE Quiet
  BY <1>1 DEF Quiet, serverVars, ServersOK
<1>2. CASE Exits
  BY <1>2 DEF Exits, ServersOK, Peers
<1>3. ASSUME NEW d \in FDs, DescriptorKind(d)
      PROVE  ServersOK'
  <2>1. CASE \E c \in Clients : Accepts(c, d)
    BY <2>1 DEF Accepts, ServersOK, Peers
  <2>2. CASE Welcomes(d)
    <3>1. Msg("CONNECT_ACK", 0, "-", 0) \in Messages
      <4>1. 0 \in 0 .. MaxJobs /\ 0 \in 0 .. MaxCalls /\ "CONNECT_ACK" \in Types
        BY ClientsAssumption DEF Types
      <4> QED BY <4>1, MessagesMade
    <3> QED BY <2>2, <3>1 DEF Welcomes, Greets, ServersOK
  <2>3. CASE TurnsAway(d) \/ (\E m : Tells(d, m)) \/ Resumes(d) \/ Answers(d)
    BY <2>3 DEF TurnsAway, Greets, Tells, Resumes, Answers, serverVars, ServersOK
  <2>4. CASE \E m : Handles(d, m)
    BY <2>4 DEF Handles, ServersOK
  <2>5. CASE Closes(d)
    BY <2>5 DEF Closes, ServersOK, Peers
  <2> QED BY <1>3, <2>1, <2>2, <2>3, <2>4, <2>5 DEF DescriptorKind
<1>4. ASSUME NEW c \in Clients, ClientKind(c)
      PROVE  ServersOK'
  BY <1>4 DEF ClientKind, Comes, Asks, Leaves, Returns, Loses, Refused, Alone, serverVars, ServersOK
<1> QED BY <1>1, <1>2, <1>3, <1>4 DEF Kind

\* What a descriptor kind does to the connections, for one client.
Sends(c, m) == Len(down[c]) < Buffer /\ down' = [down EXCEPT ![c] = Append(@, m)]

\* A message fits.
LEMMA SendTyped ==
  ASSUME LinksOK, Roomy, NEW d \in FDs, NEW m \in Messages, ServersOK, SendOK(d, m)
  PROVE  /\ fd[d] \in Clients /\ op[fd[d]] # "END" /\ Sends(fd[d], m)
         /\ down' \in [Clients -> Seq(Messages)] /\ \A c \in Clients : Len(down'[c]) <= Buffer
<1>1. fd[d] \in Clients /\ op[fd[d]] # "END" /\ Sends(fd[d], m)
  BY DEF SendOK, Gone, ServersOK, Peers, Sends
<1> DEFINE s == down[fd[d]]
<1>2. s \in Seq(Messages) /\ Len(s) < Buffer /\ Buffer \in Nat
  BY <1>1, ClientsAssumption DEF Sends, LinksOK
<1>3. Append(s, m) \in Seq(Messages) /\ Len(Append(s, m)) = Len(s) + 1 /\ Len(s) \in Nat
  BY <1>2
<1>4. down' = [down EXCEPT ![fd[d]] = Append(s, m)]
  BY <1>1 DEF Sends
<1> HIDE DEF s
<1> QED BY <1>1, <1>2, <1>3, <1>4 DEF LinksOK, Roomy

\* The connections.
LEMMA LinksStep ==
  ASSUME ServersOK, LinksOK, Roomy, ClientsOK, Replies, Kind
  PROVE  LinksOK' /\ Roomy'
<1> DEFINE FarTyped == far' \in [Clients -> {"none", "queued", "open", "closed"}]
           UpTyped == up' \in [Clients -> Seq(Requests)]
           DownTyped == /\ down' \in [Clients -> Seq(Messages)]
                        /\ \A c \in Clients : Len(down'[c]) <= Buffer
<1>0. SUFFICES FarTyped /\ UpTyped /\ DownTyped
  BY DEF LinksOK, Roomy
<1>a. /\ far' = far => FarTyped
      /\ up' = up => UpTyped
      /\ down' = down => DownTyped
  BY DEF LinksOK, Roomy
<1>b. ASSUME NEW c \in Clients, NEW v \in {"none", "queued", "open", "closed"},
             far' = [far EXCEPT ![c] = v]
      PROVE  FarTyped
  BY <1>b DEF LinksOK
<1>c. ASSUME NEW c \in Clients, NEW s \in Seq(Requests), up' = [up EXCEPT ![c] = s]
      PROVE  UpTyped
  BY <1>c DEF LinksOK
<1>d. ASSUME NEW c \in Clients, NEW s \in Seq(Messages), Len(s) <= Buffer,
             down' = [down EXCEPT ![c] = s]
      PROVE  DownTyped
  BY <1>d DEF LinksOK, Roomy
<1>e. ASSUME NEW c \in Clients
      PROVE  /\ up[c] \in Seq(Requests) /\ down[c] \in Seq(Messages)
             /\ Len(down[c]) \in Nat /\ Len(down[c]) <= Buffer
             /\ <<>> \in Seq(Requests) /\ <<>> \in Seq(Messages) /\ Len(<<>>) <= Buffer
             /\ up[c] # <<>> => Tail(up[c]) \in Seq(Requests)
             /\ down[c] # <<>> => Tail(down[c]) \in Seq(Messages) /\ Len(Tail(down[c])) <= Buffer
  <2>1. up[c] \in Seq(Requests) /\ down[c] \in Seq(Messages) /\ Len(down[c]) <= Buffer
    BY DEF LinksOK, Roomy
  <2>2. up[c] # <<>> => Tail(up[c]) \in Seq(Requests)
    BY <2>1
  <2>3. down[c] # <<>> => Tail(down[c]) \in Seq(Messages) /\ Len(Tail(down[c])) = Len(down[c]) - 1
    BY <2>1
  <2> QED BY <2>1, <2>2, <2>3, ClientsAssumption
<1> HIDE DEF FarTyped, UpTyped, DownTyped
<1>1. CASE Quiet
  BY <1>1, <1>a DEF Quiet, linkVars
<1>2. CASE Exits
  <2>1. FarTyped
    BY <1>2 DEF Exits, FarTyped, LinksOK
  <2>2. UpTyped
    BY <1>2 DEF Exits, UpTyped
  <2> QED BY <1>2, <1>a, <2>1, <2>2 DEF Exits
<1>3. ASSUME NEW d \in FDs, DescriptorKind(d)
      PROVE  FarTyped /\ UpTyped /\ DownTyped
  <2>1. CASE \E c \in Clients : Accepts(c, d)
    BY <2>1, <1>a, <1>b DEF Accepts
  <2>2. CASE Welcomes(d) \/ TurnsAway(d)
    <3>1. PICK b \in BOOLEAN : Greets(d, b)
      BY <2>2 DEF Welcomes, TurnsAway
    <3>2. \/ up' = up
          \/ /\ fd[d] \in Clients /\ up[fd[d]] # <<>>
             /\ up' = [up EXCEPT ![fd[d]] = Tail(up[fd[d]])]
      <4>1. fd[d] \notin Clients => [up EXCEPT ![fd[d]] = Tail(@)] = up
        BY DEF LinksOK
      <4> QED BY <3>1, <4>1 DEF Greets
    <3>3. UpTyped
      BY <3>2, <1>a, <1>c, <1>e
    <3> QED BY <3>1, <3>3, <1>a DEF Greets
  <2>3. CASE \E m : Tells(d, m)
    <3>1. PICK m \in Messages : Tells(d, m)
      BY <2>3 DEF Tells
    <3>2. DownTyped
      BY <3>1, <1>a, SendTyped DEF Tells, DownTyped
    <3> QED BY <3>1, <3>2, <1>a DEF Tells
  <2>4. CASE Resumes(d)
    BY <2>4, <1>a DEF Resumes, linkVars
  <2>5. CASE \E m : Handles(d, m)
    <3>1. PICK m : Handles(d, m)
      BY <2>5
    <3>2. \/ up' = up
          \/ /\ fd[d] \in Clients /\ up[fd[d]] # <<>>
             /\ up' = [up EXCEPT ![fd[d]] = Tail(up[fd[d]])]
      <4>1. fd[d] \notin Clients => [up EXCEPT ![fd[d]] = Tail(@)] = up
        BY DEF LinksOK
      <4> QED BY <3>1, <4>1 DEF Handles
    <3>3. UpTyped
      BY <3>2, <1>a, <1>c, <1>e
    <3> QED BY <3>1, <3>3, <1>a DEF Handles
  <2>6. CASE Answers(d)
    <3>1. DownTyped
      <4>1. reply[d] \in Messages
        BY <2>6 DEF Answers, ServersOK, Replies
      <4> QED BY <2>6, <4>1, SendTyped DEF Answers, DownTyped
    <3> QED BY <2>6, <3>1, <1>a DEF Answers
  <2>7. CASE Closes(d)
    <3>1. fd[d] \in Clients
      BY <2>7 DEF Closes
    <3>2. FarTyped /\ UpTyped
      BY <2>7, <3>1, <1>a, <1>b, <1>c, <1>e DEF Closes
    <3>3. CASE SendOK(d, Msg("ERROR", 0, "INVALID_MESSAGE", 0))
      <4>1. Msg("ERROR", 0, "INVALID_MESSAGE", 0) \in Messages
        <5>1. 0 \in 0 .. MaxJobs /\ 0 \in 0 .. MaxCalls /\ "ERROR" \in Types
              /\ "INVALID_MESSAGE" \in {"-"} \cup Statuses \cup Errors
          BY ClientsAssumption DEF Types, Errors
        <5> QED BY <5>1, MessagesMade
      <4> QED BY <3>2, <3>3, <4>1, SendTyped DEF DownTyped
    <3>4. ASSUME NEW n \in 0 .. Len(down[fd[d]]),
                 down' = [down EXCEPT ![fd[d]] = SubSeq(@, 1, n)]
          PROVE  DownTyped
      <4> DEFINE s == SubSeq(down[fd[d]], 1, n)
      <4>1. down[fd[d]] \in Seq(Messages) /\ Len(down[fd[d]]) \in Nat /\ Len(down[fd[d]]) <= Buffer
        BY <3>1, <1>e
      <4>2. s \in Seq(Messages) /\ Len(s) = n
        BY <4>1, SubSeqProperties
      <4>3. Len(s) <= Buffer
        BY <4>1, <4>2, ClientsAssumption
      <4>4. down' = [down EXCEPT ![fd[d]] = s]
        BY <3>4
      <4> HIDE DEF s
      <4> QED BY <3>1, <4>2, <4>3, <4>4, <1>d
    <3> QED BY <2>7, <3>2, <3>3, <3>4, <1>a DEF Closes
  <2> QED BY <1>3, <2>1, <2>2, <2>3, <2>4, <2>5, <2>6, <2>7 DEF DescriptorKind
<1>4. ASSUME NEW c \in Clients, ClientKind(c)
      PROVE  FarTyped /\ UpTyped /\ DownTyped
  <2>1. CASE \E g : Comes(c, g)
    <3>1. PICK g : Comes(c, g)
      BY <2>1
    <3> DEFINE r == [type |-> g, job |-> 0, tag |-> 0]
               s == IF g = "SILENT" THEN <<>> ELSE <<r>>
    <3>2. r \in Requests
      BY <3>1, ClientsAssumption DEF Comes, Requests
    <3>3. s \in Seq(Requests)
      BY <3>2, <1>e
    <3>4. up' = [up EXCEPT ![c] = s]
      BY <3>1 DEF Comes
    <3> HIDE DEF s
    <3>5. UpTyped
      BY <3>3, <3>4, <1>c
    <3> QED BY <3>1, <3>5, <1>a, <1>b DEF Comes
  <2>2. ASSUME NEW o \in Calls, NEW j \in 0 .. MaxJobs, NEW t \in 0 .. MaxCalls, Send(c, o, j, t)
        PROVE  UpTyped
    <3> DEFINE r == [type |-> o, job |-> j, tag |-> t]
    <3>1. r \in Requests
      BY <2>2 DEF Requests
    <3>2. Append(up[c], r) \in Seq(Requests)
      BY <3>1, <1>e
    <3>3. up' = up \/ up' = [up EXCEPT ![c] = Append(up[c], r)]
      BY <2>2 DEF Send
    <3> HIDE DEF r
    <3> QED BY <3>2, <3>3, <1>a, <1>c
  <2>3. CASE \E o, j : Asks(c, o, j)
    <3>1. PICK o, j : Asks(c, o, j)
      BY <2>3
    <3>2. o \in Calls /\ j \in 0 .. MaxJobs
      BY <3>1, ClientsAssumption DEF Asks, ClientsOK, JobIds
    <3>3. call'[c] \in 0 .. MaxCalls
      BY <3>1, ClientsAssumption DEF Asks, ClientsOK
    <3>4. UpTyped
      BY <3>1, <3>2, <3>3, <2>2 DEF Asks
    <3> QED BY <3>1, <3>4, <1>a DEF Asks
  <2>4. CASE Leaves(c)
    BY <2>4, <1>a, <1>d, <1>e DEF Leaves, Leave
  <2>5. CASE Returns(c)
    <3>1. UpTyped
      <4>1. asked[c] \in 0 .. MaxJobs /\ call[c] \in 0 .. MaxCalls /\ "GET_JOB_STATUS" \in Calls
        BY DEF ClientsOK, Calls
      <4>2. up' = up \/ Send(c, "GET_JOB_STATUS", asked[c], call[c])
        BY <2>5 DEF Returns, Return
      <4> QED BY <4>1, <4>2, <2>2, <1>a
    <3>2. DownTyped
      <4>1. down' = [down EXCEPT ![c] = Tail(down[c])] /\ down[c] # <<>>
        BY <2>5 DEF Returns, Return
      <4> QED BY <4>1, <1>d, <1>e
    <3> QED BY <2>5, <3>1, <3>2, <1>a DEF Returns
  <2>6. CASE Loses(c)
    BY <2>6, <1>a, <1>c, <1>e DEF Loses
  <2>7. CASE Refused(c)
    BY <2>7, <1>a DEF Refused, linkVars
  <2> QED BY <1>4, <2>1, <2>3, <2>4, <2>5, <2>6, <2>7 DEF ClientKind
<1> QED BY <1>1, <1>2, <1>3, <1>4 DEF Kind
\* The clients.
LEMMA ClientsStep ==
  ASSUME LinksOK, ClientsOK, Numbered, Kind
  PROVE  ClientsOK'
<1>1. CASE UNCHANGED clientVars
  BY <1>1 DEF clientVars, ClientsOK
<1>2. ASSUME NEW c \in Clients, ClientKind(c)
      PROVE  ClientsOK'
  <2>1. CASE \E g : Comes(c, g)
    BY <2>1 DEF Comes, ClientsOK, Ops
  <2>2. CASE \E o, j : Asks(c, o, j)
    <3>1. PICK o, j : Asks(c, o, j)
      BY <2>2
    <3>2. o \in Ops /\ j \in 0 .. MaxJobs
      BY <3>1, ClientsAssumption DEF Asks, ClientsOK, JobIds, Ops
    <3>3. calls' \in 0 .. MaxCalls /\ call' \in [Clients -> 0 .. MaxCalls]
      BY <3>1, ClientsAssumption DEF Asks, ClientsOK
    <3> QED BY <3>1, <3>2, <3>3 DEF Asks, ClientsOK
  <2>3. CASE Leaves(c)
    <3>1. 0 \in 0 .. MaxJobs /\ 0 \in 0 .. MaxCalls /\ "END" \in Ops
      BY ClientsAssumption DEF Ops
    <3> QED BY <2>3, <3>1 DEF Leaves, Leave, ClientsOK
  <2>4. CASE Returns(c)
    <3> DEFINE m == Head(down[c])
    <3>1. /\ Return(c, m) /\ calls' = calls /\ down[c] # <<>>
      BY <2>4 DEF Returns
    <3>2. m \in Messages /\ m = down[c][1] /\ 1 \in DOMAIN down[c]
      BY <3>1, HeadTailProperties DEF LinksOK
    <3>3. m.job \in 0 .. MaxJobs /\ (m.type = "JOB_SUBMITTED" => m.job \in JobIds)
      BY <3>2, ClientsAssumption DEF Messages, Numbered, JobIds
    <3>4. op' \in [Clients -> Ops] /\ asked' \in [Clients -> 0 .. MaxJobs]
      <4>1. "IDLE" \in Ops /\ 0 \in 0 .. MaxJobs
        BY ClientsAssumption DEF Ops
      <4>2. \/ op' = [op EXCEPT ![c] = "IDLE"] /\ asked' = [asked EXCEPT ![c] = 0]
            \/ op' = op /\ asked' = asked
        BY <3>1 DEF Return
      <4> QED BY <4>1, <4>2 DEF ClientsOK
    <3>5. mine' \in [Clients -> SUBSET JobIds]
      <4>1. op[c] = "SUBMIT_JOB" /\ m.type = Expected(op[c]) => m.job \in JobIds
        BY <3>3 DEF Expected
      <4>2. PICK X : mine' = [mine EXCEPT ![c] = X] /\ X \subseteq JobIds
        <5> DEFINE Y == IF op[c] = "SUBMIT_JOB" /\ m.type = Expected(op[c]) THEN {m.job} ELSE {}
        <5>1. Y \subseteq JobIds
          BY <4>1
        <5>2. mine' = [mine EXCEPT ![c] = mine[c] \cup Y]
          BY <3>1 DEF Return
        <5> HIDE DEF Y
        <5> QED BY <5>1, <5>2 DEF ClientsOK
      <4> QED BY <4>2 DEF ClientsOK
    <3>6. behind' \in [Clients -> Nat]
      <4>1. PICK k \in {behind[c], behind[c] + 1} : behind' = [behind EXCEPT ![c] = k]
        BY <3>1 DEF Return
      <4> QED BY <4>1 DEF ClientsOK
    <3>7. misled' \in [Clients -> BOOLEAN]
      <4>1. PICK b \in BOOLEAN : misled' = [misled EXCEPT ![c] = b]
        BY <3>1 DEF Return
      <4> QED BY <4>1 DEF ClientsOK
    <3>8. call' = call
      BY <3>1 DEF Return
    <3> QED BY <3>1, <3>4, <3>5, <3>6, <3>7, <3>8 DEF ClientsOK
  <2>5. CASE Loses(c)
    BY <2>5, <1>1 DEF Loses
  <2>6. CASE Refused(c)
    BY <2>6 DEF Refused, ClientsOK, Ops
  <2> QED BY <1>2, <2>1, <2>2, <2>3, <2>4, <2>5, <2>6 DEF ClientKind
<1>3. (~\E c \in Clients : ClientKind(c)) => UNCHANGED clientVars
  BY DEF Kind, Quiet, Exits, DescriptorKind, Accepts, Welcomes, TurnsAway, Greets, Tells, Resumes,
         Handles, Answers, Closes
<1> QED BY <1>1, <1>2, <1>3
-----------------------------------------------------------------------------
(***************************************************************************)
(* Descriptors and connections.                                            *)
(***************************************************************************)
\* A descriptor has one client and a client one descriptor.
LEMMA WiredStep ==
  ASSUME Phases, ServersOK, LinksOK, ClientsOK, Wired, Greeted, Kind
  PROVE  Wired'
<1>1. ASSUME AcceptSame, UNCHANGED <<fd, far>>,
             handler' \in [FDs -> {"none", "reply", "result", "top", "recv"}],
             \A d \in FDs : handler'[d] = "none" <=> handler[d] = "none"
      PROVE  Wired'
  BY <1>1 DEF Wired, AcceptSame
<1>2. CASE Quiet
  BY <1>1, <1>2 DEF Quiet, serverVars, linkVars, ServersOK
<1>3. CASE Exits
  <2>1. acceptor' \notin {"first", "refuse"}
    BY <1>3 DEF Exits, AcceptSame, Phases
  <2>2. \A c \in Clients : c # NoClient
    BY ClientsAssumption
  <2>3. \A c \in Clients : far'[c] # "open"
    BY <1>3 DEF Exits
  <2> QED BY <1>3, <2>1, <2>2, <2>3 DEF Exits, Wired
<1>4. ASSUME NEW d \in FDs, DescriptorKind(d)
      PROVE  Wired'
  <2>1. CASE \E c \in Clients : Accepts(c, d)
    <3>1. PICK c \in Clients : Accepts(c, d)
      BY <2>1
    <3>2. /\ fd[d] = NoClient /\ far[c] = "queued" /\ fd' = [fd EXCEPT ![d] = c]
          /\ far' = [far EXCEPT ![c] = "open"] /\ handler' = handler
          /\ acceptor' = "first" /\ acceptor_fd' = d
      BY <3>1 DEF Accepts
    <3>3. \A e \in FDs : fd[e] # c
      BY <3>2 DEF Wired
    <3>4. c # NoClient /\ handler[d] = "none"
      BY <3>2, ClientsAssumption DEF Wired
    <3>5. /\ \A e \in FDs : fd'[e] = IF e = d THEN c ELSE fd[e]
          /\ \A x \in Clients : far'[x] = IF x = c THEN "open" ELSE far[x]
      BY <3>2 DEF ServersOK, LinksOK
    <3>6. \A e, g \in FDs : fd'[e] # NoClient /\ fd'[e] = fd'[g] => e = g
      BY <3>3, <3>5 DEF Wired
    <3>7. \A x \in Clients : far'[x] = "open" <=> \E e \in FDs : fd'[e] = x
      <4> TAKE x \in Clients
      <4>1. CASE x = c
        BY <3>5, <4>1
      <4>2. CASE x # c
        BY <3>2, <3>4, <3>5, <4>2, ClientsAssumption DEF Wired
      <4> QED BY <4>1, <4>2
    <3>8. \A e \in FDs : handler'[e] # "none" => fd'[e] # NoClient
      BY <3>2, <3>4, <3>5 DEF Wired
    <3> QED BY <3>2, <3>4, <3>5, <3>6, <3>7, <3>8 DEF Wired
  <2>2. CASE Welcomes(d)
    <3>1. /\ UNCHANGED <<fd, far>> /\ handler' = [handler EXCEPT ![d] = "reply"]
          /\ acceptor' = "top" /\ fd[d] # NoClient
      BY <2>2 DEF Welcomes, Greets, Wired
    <3> QED BY <3>1 DEF Wired, ServersOK
  <2>3. CASE TurnsAway(d)
    BY <2>3 DEF TurnsAway, Greets, Wired
  <2>4. CASE \E m : Tells(d, m)
    BY <1>1, <2>4 DEF Tells, serverVars, ServersOK
  <2>5. CASE Resumes(d) \/ (\E m : Handles(d, m)) \/ Answers(d)
    <3>1. /\ handler[d] # "none" /\ AcceptSame /\ UNCHANGED <<fd, far>>
          /\ \E s \in {"recv", "reply", "result", "top"} : handler' = [handler EXCEPT ![d] = s]
      BY <2>5 DEF Resumes, Handles, Answers, linkVars
    <3> QED BY <3>1, <1>1 DEF ServersOK
  <2>6. CASE Closes(d)
    <3> DEFINE c == fd[d]
    <3>1. /\ c \in Clients /\ handler' = [handler EXCEPT ![d] = "none"]
          /\ fd' = [fd EXCEPT ![d] = NoClient] /\ far' = [far EXCEPT ![c] = "closed"]
          /\ AcceptSame /\ (acceptor' \in {"first", "refuse"} => acceptor_fd # d)
      BY <2>6 DEF Closes
    <3>2. c # NoClient
      BY <3>1, ClientsAssumption
    <3>3. /\ \A e \in FDs : fd'[e] = IF e = d THEN NoClient ELSE fd[e]
          /\ \A e \in FDs : handler'[e] = IF e = d THEN "none" ELSE handler[e]
          /\ \A x \in Clients : far'[x] = IF x = c THEN "closed" ELSE far[x]
      BY <3>1 DEF ServersOK, LinksOK
    <3>4. \A e \in FDs : e # d => fd[e] # c
      BY <3>2 DEF Wired
    <3>5. \A x \in Clients : far'[x] = "open" <=> \E e \in FDs : fd'[e] = x
      <4> TAKE x \in Clients
      <4>1. CASE x = c
        BY <3>2, <3>3, <3>4, <4>1
      <4>2. CASE x # c
        BY <3>3, <4>2, ClientsAssumption DEF Wired
      <4> QED BY <4>1, <4>2
    <3>6. \A e, g \in FDs : fd'[e] # NoClient /\ fd'[e] = fd'[g] => e = g
      BY <3>3 DEF Wired
    <3>7. acceptor' \in {"first", "refuse"} =>
            acceptor_fd' \in FDs /\ fd'[acceptor_fd'] # NoClient /\ handler'[acceptor_fd'] = "none"
      BY <3>1, <3>3 DEF Wired, AcceptSame
    <3> QED BY <3>3, <3>5, <3>6, <3>7 DEF Wired
  <2> QED BY <1>4, <2>1, <2>2, <2>3, <2>4, <2>5, <2>6 DEF DescriptorKind
<1>5. ASSUME NEW c \in Clients, ClientKind(c)
      PROVE  Wired'
  <2>1. CASE \E g : Comes(c, g)
    <3>1. far[c] = "none" /\ far' = [far EXCEPT ![c] = "queued"]
          /\ AcceptSame /\ UNCHANGED serverVars
      BY <2>1 DEF Comes, Greeted, GreetedClient, Alone
    <3>2. \A x \in Clients : far'[x] = "open" <=> far[x] = "open"
      BY <3>1 DEF LinksOK
    <3> QED BY <3>1, <3>2 DEF Wired, AcceptSame, serverVars
  <2>2. CASE ~\E g : Comes(c, g)
    <3>1. AcceptSame /\ UNCHANGED <<far, serverVars>>
      BY <1>5, <2>2 DEF ClientKind, Asks, Leaves, Returns, Loses, Refused, Alone, linkVars
    <3> QED BY <1>1, <3>1 DEF serverVars, ServersOK
  <2> QED BY <2>1, <2>2
<1> QED BY <1>2, <1>3, <1>4, <1>5 DEF Kind
-----------------------------------------------------------------------------
(***************************************************************************)
(* What a step of the server does to one connection.                       *)
(***************************************************************************)
\* The elements of t are elements of s; or one of them is m.
From(t, s) == \A i \in DOMAIN t : \E k \in DOMAIN s : t[i] = s[k]
FromOr(t, s, m) == \A i \in DOMAIN t : t[i] = m \/ \E k \in DOMAIN s : t[i] = s[k]

LEMMA Elements ==
  ASSUME NEW S, NEW s \in Seq(S)
  PROVE  /\ From(s, s) /\ From(<<>>, s)
         /\ s # <<>> => From(Tail(s), s) /\ Head(s) = s[1] /\ 1 \in DOMAIN s /\ Head(s) \in S
         /\ \A m \in S : FromOr(Append(s, m), s, m)
         /\ \A n \in 0 .. Len(s) : From(SubSeq(s, 1, n), s)
<1>1. From(s, s) /\ From(<<>>, s)
  BY DEF From
<1>2. ASSUME s # <<>>
      PROVE  From(Tail(s), s) /\ Head(s) = s[1] /\ 1 \in DOMAIN s /\ Head(s) \in S
  <2>1. Len(s) \in Nat \ {0} /\ DOMAIN s = 1 .. Len(s)
    BY <1>2, EmptySeq
  <2>2. /\ Tail(s) \in Seq(S) /\ Len(Tail(s)) = Len(s) - 1
        /\ \A i \in 1 .. Len(s) - 1 : Tail(s)[i] = s[i + 1]
    BY <1>2, HeadTailProperties
  <2>3. From(Tail(s), s)
    <3>1. SUFFICES ASSUME NEW i \in 1 .. Len(s) - 1
                   PROVE  \E k \in DOMAIN s : Tail(s)[i] = s[k]
      BY <2>2, LenProperties DEF From
    <3>2. i + 1 \in DOMAIN s
      BY <2>1
    <3> QED BY <2>2, <3>2
  <2> QED BY <1>2, <2>1, <2>3, HeadTailProperties
<1>3. ASSUME NEW m \in S
      PROVE  FromOr(Append(s, m), s, m)
  BY AppendProperties DEF FromOr
<1>4. ASSUME NEW n \in 0 .. Len(s)
      PROVE  From(SubSeq(s, 1, n), s)
  <2>1. Len(s) \in Nat /\ DOMAIN s = 1 .. Len(s) /\ \A i \in 1 .. n : s[i] \in S
    BY LenProperties, ElementOfSeq
  <2>2. /\ SubSeq(s, 1, n) \in Seq(S) /\ Len(SubSeq(s, 1, n)) = n
        /\ \A i \in 1 .. n : SubSeq(s, 1, n)[i] = s[i]
    BY <2>1, SubSeqProperties
  <2>3. \A i \in 1 .. n : i \in DOMAIN s
    BY <2>1
  <2> QED BY <2>2, <2>3, LenProperties DEF From
<1> QED BY <1>1, <1>2, <1>3, <1>4

\* A message the server may write to client c ...
Written(c, m) ==
  \/ /\ m.type \in Announcements /\ m.job # 0 /\ owner[m.job] \in Clients
     /\ owner[m.job] = c \/ far[owner[m.job]] = "closed"
  \/ \E d \in FDs : fd[d] = c /\ handler[d] = "reply" /\ m = reply[d]
  \/ m.type = "ERROR" /\ op[c] = "REGISTER"

\* ... and what happens to its connection.
Effect(c) ==
  /\ From(up'[c], up[c]) /\ (up[c] = <<>> => up'[c] = <<>>)
  /\ \/ down'[c] = down[c]
     \/ far'[c] = "closed" /\ From(down'[c], down[c])
     \/ /\ far[c] = "open" /\ op[c] # "END"
        /\ \E m \in Messages : Written(c, m) /\ FromOr(down'[c], down[c], m)
  /\ \/ far'[c] = far[c]
     \/ far[c] = "queued" /\ far'[c] = "open"
     \/ far[c] = "open" /\ far'[c] = "closed"

LEMMA ServerEffect ==
  ASSUME ServersOK, LinksOK, Roomy, Wired, Replies,
         Quiet \/ Exits \/ \E d \in FDs : DescriptorKind(d)
  PROVE  UNCHANGED clientVars /\ \A c \in Clients : Effect(c)
<1>1. UNCHANGED clientVars
  BY DEF Quiet, Exits, DescriptorKind, Accepts, Welcomes, TurnsAway, Greets, Tells, Resumes,
         Handles, Answers, Closes
<1>2. SUFFICES ASSUME NEW c \in Clients PROVE Effect(c)
  BY <1>1
<1>3. up[c] \in Seq(Requests) /\ down[c] \in Seq(Messages) /\ down[c] = down[c]
  BY DEF LinksOK
<1>4. /\ From(up[c], up[c]) /\ From(<<>>, up[c]) /\ From(down[c], down[c])
      /\ up[c] # <<>> => From(Tail(up[c]), up[c])
      /\ \A m \in Messages : FromOr(Append(down[c], m), down[c], m)
      /\ \A n \in 0 .. Len(down[c]) : From(SubSeq(down[c], 1, n), down[c])
  BY <1>3, Elements
<1>5. CASE Quiet
  BY <1>4, <1>5 DEF Quiet, linkVars, Effect
<1>6. CASE Exits
  BY <1>4, <1>6 DEF Exits, Effect
<1>7. ASSUME NEW d \in FDs, DescriptorKind(d)
      PROVE  Effect(c)
  <2>1. fd[d] \in Clients => far[fd[d]] = "open"
    BY DEF Wired
  <2>2. ASSUME NEW m \in Messages, SendOK(d, m), Written(fd[d], m)
        PROVE  \/ down'[c] = down[c]
               \/ /\ far[c] = "open" /\ op[c] # "END"
                  /\ \E x \in Messages : Written(c, x) /\ FromOr(down'[c], down[c], x)
    <3>1. fd[d] \in Clients /\ op[fd[d]] # "END" /\ Sends(fd[d], m)
      BY <2>2, SendTyped
    <3>2. CASE c = fd[d]
      <4>1. down'[c] = Append(down[c], m)
        BY <3>1, <3>2 DEF Sends, LinksOK
      <4>2. FromOr(down'[c], down[c], m)
        BY <4>1, <1>4
      <4> QED BY <2>1, <2>2, <3>1, <3>2, <4>2
    <3>3. CASE c # fd[d]
      BY <3>1, <3>3 DEF Sends, LinksOK
    <3> QED BY <3>2, <3>3
  <2>3. CASE \E x \in Clients : Accepts(x, d)
    <3>1. up' = up /\ down' = down /\ (far'[c] = far[c] \/ (far[c] = "queued" /\ far'[c] = "open"))
      BY <2>3 DEF Accepts, LinksOK
    <3> QED BY <1>4, <3>1 DEF Effect
  <2>4. CASE \/ up' = up
             \/ up[fd[d]] # <<>> /\ up' = [up EXCEPT ![fd[d]] = Tail(@)]
             \/ up' = [up EXCEPT ![fd[d]] = <<>>]
    <3>1. From(up'[c], up[c]) /\ (up[c] = <<>> => up'[c] = <<>>)
      BY <2>4, <1>4 DEF LinksOK
    <3>2. CASE Welcomes(d) \/ TurnsAway(d)
      BY <3>1, <3>2 DEF Welcomes, TurnsAway, Greets, Effect
    <3>3. CASE \E m : Tells(d, m)
      <4>1. PICK m : Tells(d, m)
        BY <3>3
      <4>2. m \in Messages /\ Written(fd[d], m) /\ far' = far
        BY <4>1 DEF Tells, Reaches, Written
      <4>3. \/ down'[c] = down[c]
            \/ /\ far[c] = "open" /\ op[c] # "END"
               /\ \E x \in Messages : Written(c, x) /\ FromOr(down'[c], down[c], x)
        BY <4>1, <4>2, <2>2 DEF Tells
      <4> QED BY <3>1, <4>2, <4>3 DEF Effect
    <3>4. CASE Resumes(d) \/ \E m : Handles(d, m)
      BY <3>1, <3>4 DEF Resumes, Handles, linkVars, Effect
    <3>5. CASE Answers(d)
      <4>1. handler[d] = "reply" /\ SendOK(d, reply[d]) /\ far' = far
        BY <3>5 DEF Answers
      <4>2. reply[d] \in Messages
        BY <4>1 DEF Replies, ServersOK
      <4>3. Written(fd[d], reply[d])
        BY <4>1 DEF Written
      <4>4. \/ down'[c] = down[c]
            \/ /\ far[c] = "open" /\ op[c] # "END"
               /\ \E x \in Messages : Written(c, x) /\ FromOr(down'[c], down[c], x)
        BY <4>1, <4>2, <4>3, <2>2
      <4> QED BY <3>1, <4>1, <4>4 DEF Effect
    <3>6. CASE Closes(d)
      <4>1. fd[d] \in Clients /\ far' = [far EXCEPT ![fd[d]] = "closed"]
        BY <3>6 DEF Closes
      <4>2. \/ far'[c] = far[c] /\ c # fd[d]
            \/ far[c] = "open" /\ c = fd[d] /\ far'[c] = "closed"
        BY <4>1, <2>1 DEF LinksOK
      <4>3. CASE down' = down
        BY <3>1, <4>2, <4>3 DEF Effect
      <4>4. ASSUME NEW n \in 0 .. Len(down[fd[d]]),
                   down' = [down EXCEPT ![fd[d]] = SubSeq(@, 1, n)]
            PROVE  Effect(c)
        <5>1. \/ c # fd[d] /\ down'[c] = down[c]
              \/ c = fd[d] /\ From(down'[c], down[c])
          BY <4>4, <1>4 DEF LinksOK
        <5> QED BY <3>1, <4>2, <5>1 DEF Effect
      <4>5. CASE op[fd[d]] = "REGISTER" /\ SendOK(d, Msg("ERROR", 0, "INVALID_MESSAGE", 0))
        <5> DEFINE m == Msg("ERROR", 0, "INVALID_MESSAGE", 0)
        <5>1. m \in Messages /\ m.type = "ERROR"
          <6>1. 0 \in 0 .. MaxJobs /\ 0 \in 0 .. MaxCalls /\ "ERROR" \in Types
                /\ "INVALID_MESSAGE" \in {"-"} \cup Statuses \cup Errors
            BY ClientsAssumption DEF Types, Errors
          <6> QED BY <6>1, MessagesMade
        <5>2. SendOK(d, m)
          BY <4>5
        <5> HIDE DEF m
        <5>3. Written(fd[d], m)
          BY <4>5, <5>1 DEF Written
        <5>4. \/ down'[c] = down[c]
              \/ /\ far[c] = "open" /\ op[c] # "END"
                 /\ \E x \in Messages : Written(c, x) /\ FromOr(down'[c], down[c], x)
          BY <5>1, <5>2, <5>3, <2>2
        <5> QED BY <3>1, <4>2, <5>4 DEF Effect
      <4> QED BY <3>6, <4>3, <4>4, <4>5 DEF Closes
    <3> QED BY <1>7, <2>3, <3>2, <3>3, <3>4, <3>5, <3>6 DEF DescriptorKind
  <2>5. \/ \E x \in Clients : Accepts(x, d)
        \/ up' = up
        \/ up[fd[d]] # <<>> /\ up' = [up EXCEPT ![fd[d]] = Tail(@)]
        \/ up' = [up EXCEPT ![fd[d]] = <<>>]
    BY <1>7 DEF DescriptorKind, Welcomes, TurnsAway, Greets, Tells, Resumes, Handles, Answers,
                Closes, linkVars
  <2> QED BY <2>3, <2>4, <2>5
<1> QED BY <1>5, <1>6, <1>7

\* Nothing changes for client c.
Still(c) ==
  /\ up'[c] = up[c] /\ down'[c] = down[c] /\ far'[c] = far[c] /\ op'[c] = op[c]
  /\ call'[c] = call[c] /\ behind'[c] = behind[c] /\ misled'[c] = misled[c]

\* A step of one client is none of another's.
LEMMA OthersStill ==
  ASSUME LinksOK, ClientsOK, NEW x \in Clients, ClientKind(x)
  PROVE  Alone /\ \A c \in Clients : c # x => Still(c)
<1>1. Alone
  BY DEF ClientKind, Comes, Asks, Leaves, Returns, Loses, Refused
<1>2. ASSUME NEW c \in Clients, c # x
      PROVE  Still(c)
  <2>1. CASE \E g : Comes(x, g)
    BY <1>2, <2>1 DEF Comes, Still, LinksOK, ClientsOK
  <2>2. CASE \E o, j : Asks(x, o, j)
    BY <1>2, <2>2 DEF Asks, Send, Still, LinksOK, ClientsOK
  <2>3. CASE Leaves(x)
    BY <1>2, <2>3 DEF Leaves, Leave, Still, LinksOK, ClientsOK
  <2>4. CASE Returns(x)
    <3>1. Return(x, Head(down[x])) /\ UNCHANGED <<far, calls>>
      BY <2>4 DEF Returns
    <3>2. up'[c] = up[c] /\ op'[c] = op[c]
      BY <1>2, <3>1 DEF Return, Send, LinksOK, ClientsOK
    <3>3. down'[c] = down[c] /\ behind'[c] = behind[c] /\ misled'[c] = misled[c] /\ call' = call
      BY <1>2, <3>1 DEF Return, LinksOK, ClientsOK
    <3> QED BY <3>1, <3>2, <3>3 DEF Still
  <2>5. CASE Loses(x)
    BY <1>2, <2>5 DEF Loses, clientVars, Still, LinksOK, ClientsOK
  <2>6. CASE Refused(x)
    BY <1>2, <2>6 DEF Refused, linkVars, Still, LinksOK, ClientsOK
  <2> QED BY <2>1, <2>2, <2>3, <2>4, <2>5, <2>6 DEF ClientKind
<1> QED BY <1>1, <1>2
-----------------------------------------------------------------------------
(***************************************************************************)
(* Setting up a connection.                                                *)
(***************************************************************************)
\* A client that gets what it waits for has been given a handler.
LEMMA ReturnsServed ==
  ASSUME LinksOK, ClientsOK, Greeted, NEW c \in Clients, Returns(c)
  PROVE  /\ op[c] \in Calls \cup {"CLIENT_CONNECT"} /\ op[c] # "CLIENT_DISCONNECT"
         /\ op[c] = "CLIENT_CONNECT" => Head(down[c]).type = "CONNECT_ACK"
         /\ far[c] \notin {"none", "queued"} /\ down[c] # <<>>
         /\ Head(down[c]) = down[c][1] /\ 1 \in DOMAIN down[c] /\ Head(down[c]) \in Messages
         /\ down[c] \in Seq(Messages)
<1>1. /\ Waiting(c) /\ op[c] # "CLIENT_DISCONNECT" /\ down[c] # <<>>
      /\ op[c] \in Greetings => Head(down[c]).type = Expected(op[c])
  BY DEF Returns
<1>2. down[c] \in Seq(Messages)
  BY DEF LinksOK
<1>3. Head(down[c]) = down[c][1] /\ 1 \in DOMAIN down[c] /\ Head(down[c]) \in Messages
  BY <1>1, <1>2, Elements
<1>4. far[c] \notin {"none", "queued"}
  BY <1>1 DEF Greeted, GreetedClient
<1>5. op[c] # "REGISTER"
  BY <1>1, <1>3 DEF Greetings, Expected, Messages, Types, Announcements
<1>6. op[c] # "SILENT"
  <2>1. op[c] = "SILENT" => Head(down[c]).type \in Announcements \cup {"ERROR"}
    BY <1>3 DEF Greeted, GreetedClient, Fresh
  <2>2. op[c] = "SILENT" => Head(down[c]).type = "JOB_STATUS"
    BY <1>1 DEF Greetings, Expected
  <2> QED BY <2>1, <2>2 DEF Announcements
<1>7. op[c] = "CLIENT_CONNECT" => Head(down[c]).type = "CONNECT_ACK"
  BY <1>1 DEF Greetings, Expected
<1> QED BY <1>1, <1>2, <1>3, <1>4, <1>5, <1>6, <1>7 DEF Waiting, Greetings

\* Each end knows the other.
LEMMA GreetedClientsStep ==
  ASSUME ServersOK, LinksOK, Roomy, ClientsOK, Wired, Greeted, Replies, Kind
  PROVE  \A c \in Clients : GreetedClient(c)'
<1>1. ASSUME Quiet \/ Exits \/ \E d \in FDs : DescriptorKind(d), NEW c \in Clients
      PROVE  GreetedClient(c)'
  <2>1. Effect(c) /\ UNCHANGED <<op, call, behind, misled>> /\ GreetedClient(c)
    BY <1>1, ServerEffect DEF clientVars, Greeted
  <2>2. From(up'[c], up[c]) /\ (up[c] = <<>> => up'[c] = <<>>)
    BY <2>1 DEF Effect
  <2>3. /\ op[c] = "NEW" => far'[c] = "none"
        /\ far'[c] \in {"none", "queued"} => far'[c] = far[c]
    BY <2>1 DEF Effect, GreetedClient
  <2>4. far'[c] \in {"none", "queued"} => down'[c] = down[c]
    BY <2>1, <2>3 DEF Effect
  <2>5. ASSUME op[c] \in Fresh
        PROVE  \A i \in DOMAIN down'[c] : down'[c][i].type \in Announcements \cup {"ERROR"}
    <3>1. \A i \in DOMAIN down[c] : down[c][i].type \in Announcements \cup {"ERROR"}
      BY <2>1, <2>5 DEF GreetedClient
    <3>2. CASE down'[c] = down[c] \/ From(down'[c], down[c])
      BY <3>1, <3>2 DEF From
    <3>3. ASSUME NEW m \in Messages, Written(c, m), FromOr(down'[c], down[c], m)
          PROVE  \A i \in DOMAIN down'[c] : down'[c][i].type \in Announcements \cup {"ERROR"}
      <4>1. \A d \in FDs : fd[d] = c /\ handler[d] = "reply" => op[c] \in Served \cup {"END"}
        BY DEF Greeted, Attended
      <4>2. op[c] \notin Served \cup {"END"}
        BY <2>5 DEF Fresh, Served, Calls
      <4>3. m.type \in Announcements \cup {"ERROR"}
        BY <3>3, <4>1, <4>2 DEF Written
      <4> QED BY <3>1, <3>3, <4>3 DEF FromOr
    <3> QED BY <2>1, <3>2, <3>3 DEF Effect
  <2>6. /\ op[c] = "REGISTER" => \A i \in DOMAIN up'[c] : up'[c][i].type = "REGISTER"
        /\ op[c] = "CLIENT_CONNECT" => \A i \in DOMAIN up'[c] : up'[c][i].type = "CLIENT_CONNECT"
    BY <2>1, <2>2 DEF From, GreetedClient
  <2> QED BY <2>1, <2>2, <2>3, <2>4, <2>5, <2>6 DEF GreetedClient
<1>2. ASSUME NEW x \in Clients, ClientKind(x), NEW c \in Clients
      PROVE  GreetedClient(c)'
  <2>0. GreetedClient(c)
    BY DEF Greeted
  <2>1. CASE c # x
    BY <1>2, <2>0, <2>1, OthersStill DEF Still, GreetedClient
  <2>2. CASE c = x
    <3>1. CASE \E g : Comes(c, g)
      <4>1. PICK g : Comes(c, g)
        BY <3>1
      <4>2. /\ op[c] = "NEW" /\ g \in Greetings /\ op'[c] = g /\ far'[c] = "queued"
            /\ up'[c] = IF g = "SILENT" THEN <<>> ELSE <<[type |-> g, job |-> 0, tag |-> 0]>>
            /\ UNCHANGED <<down, call, behind, misled>>
        BY <4>1 DEF Comes, LinksOK, ClientsOK
      <4>3. down[c] = <<>> /\ call[c] = 0 /\ behind[c] = 0
        BY <2>0, <4>2 DEF GreetedClient
      <4>4. g # "SILENT" => \A i \in DOMAIN up'[c] : up'[c][i].type = g
        BY <4>2
      <4> QED BY <4>2, <4>3, <4>4 DEF GreetedClient, Greetings
    <3>2. CASE \E o, j : Asks(c, o, j)
      <4>1. PICK o, j : Asks(c, o, j)
        BY <3>2
      <4>2. op[c] = "IDLE" /\ op'[c] \in Calls /\ far' = far
        BY <4>1 DEF Asks, ClientsOK
      <4>3. far[c] \notin {"none", "queued"}
        BY <2>0, <4>2 DEF GreetedClient, Greetings
      <4> QED BY <4>2, <4>3 DEF GreetedClient, Calls, Fresh
    <3>3. CASE Leaves(c)
      <4>1. op'[c] = "END" /\ down'[c] = <<>>
        BY <3>3 DEF Leaves, Leave, LinksOK, ClientsOK
      <4> QED BY <4>1 DEF GreetedClient, Fresh
    <3>4. CASE Returns(c)
      <4>1. far[c] \notin {"none", "queued"} /\ far' = far
        BY <3>4, ReturnsServed DEF Returns
      <4>2. op'[c] \in {"IDLE", "GET_JOB_STATUS"}
        BY <3>4 DEF Returns, Return, ClientsOK
      <4> QED BY <4>1, <4>2 DEF GreetedClient, Fresh
    <3>5. CASE Loses(c)
      <4>1. op'[c] = "END" /\ down' = down /\ far' = far
        BY <3>5 DEF Loses, clientVars
      <4> QED BY <2>0, <4>1 DEF GreetedClient, Fresh
    <3>6. CASE Refused(c)
      <4>1. op[c] = "NEW" /\ op'[c] = "END" /\ down' = down /\ far' = far
        BY <3>6 DEF Refused, linkVars, ClientsOK
      <4> QED BY <2>0, <4>1 DEF GreetedClient, Fresh
    <3> QED BY <1>2, <2>2, <3>1, <3>2, <3>3, <3>4, <3>5, <3>6 DEF ClientKind
  <2> QED BY <2>1, <2>2
<1> QED BY <1>1, <1>2 DEF Kind

\* And so does who attends to it.
LEMMA AttendedStep ==
  ASSUME Phases, ServersOK, LinksOK, Roomy, ClientsOK, Wired, Greeted, Replies, Kind
  PROVE  Attended'
<1>1. CASE Quiet
  BY <1>1 DEF Quiet, AcceptSame, serverVars, linkVars, clientVars, Greeted, Attended
<1>2. CASE Exits
  <2>1. acceptor' \notin {"first", "refuse"}
    BY <1>2 DEF Exits, AcceptSame, Phases
  <2> QED BY <1>2, <2>1 DEF Exits, Attended
<1>3. ASSUME NEW d \in FDs, DescriptorKind(d)
      PROVE  Attended'
  <2>0. UNCHANGED op /\ Attended
    BY <1>3, ServerEffect DEF clientVars, Greeted
  <2>1. CASE \E c \in Clients : Accepts(c, d)
    <3>1. PICK c \in Clients : Accepts(c, d)
      BY <2>1
    <3>2. /\ far[c] = "queued" /\ fd[d] = NoClient /\ acceptor' = "first" /\ acceptor_fd' = d
          /\ fd' = [fd EXCEPT ![d] = c] /\ handler' = handler /\ down' = down
      BY <3>1 DEF Accepts
    <3>3. GreetedClient(c) /\ handler[d] = "none" /\ fd'[d] = c
      BY <3>2 DEF Greeted, Wired, ServersOK
    <3>4. down[c] = <<>> /\ op[c] \in Greetings \cup {"END"}
      BY <3>2, <3>3 DEF GreetedClient
    <3> QED BY <2>0, <3>2, <3>3, <3>4 DEF Attended, ServersOK
  <2>2. CASE Welcomes(d) \/ TurnsAway(d)
    <3> DEFINE c == fd[d]
    <3>1. /\ acceptor = "first" /\ acceptor_fd = d /\ fd' = fd
          /\ \/ up[c] = <<>> /\ Gone(c)
             \/ /\ up[c] # <<>>
                /\ Welcomes(d) => Head(up[c]).type = "CLIENT_CONNECT"
                /\ TurnsAway(d) /\ ~Welcomes(d) => Head(up[c]).type # "CLIENT_CONNECT"
      BY <2>2 DEF Welcomes, TurnsAway, Greets
    <3>2. c \in Clients /\ op[c] \in Greetings \cup {"END"} /\ GreetedClient(c)
      BY <3>1 DEF Wired, ServersOK, Peers, Greeted, Attended
    <3>3. up[c] # <<>> => Head(up[c]) = up[c][1] /\ 1 \in DOMAIN up[c]
      BY <3>2, Elements DEF LinksOK
    <3>4. CASE Welcomes(d)
      <4>1. op[c] \in {"CLIENT_CONNECT", "END"}
        BY <3>1, <3>2, <3>3, <3>4, ClientsAssumption DEF GreetedClient, Greetings, Gone
      <4>2. handler' = [handler EXCEPT ![d] = "reply"] /\ acceptor' = "top"
        BY <3>4 DEF Welcomes
      <4> QED BY <2>0, <3>1, <4>1, <4>2 DEF Attended, ServersOK, Served
    <3>5. CASE TurnsAway(d) /\ ~Welcomes(d)
      <4>1. op[c] \in {"REGISTER", "END"}
        BY <3>1, <3>2, <3>3, <3>5, ClientsAssumption DEF GreetedClient, Greetings, Gone
      <4>2. handler' = handler /\ acceptor' = "refuse" /\ acceptor_fd' = d
        BY <3>1, <3>5 DEF TurnsAway
      <4> QED BY <2>0, <3>1, <4>1, <4>2 DEF Attended
    <3> QED BY <2>2, <3>4, <3>5
  <2>3. CASE \E m : Tells(d, m)
    <3>1. PICK m : Tells(d, m)
      BY <2>3
    <3>2. /\ m \in Messages /\ m.type \in Announcements /\ AcceptSame /\ UNCHANGED <<handler, fd>>
          /\ (down' = down) \/ SendOK(d, m)
      BY <3>1 DEF Tells, serverVars
    <3>3. CASE down' = down
      BY <2>0, <3>2, <3>3 DEF Attended, AcceptSame
    <3>4. CASE SendOK(d, m)
      <4>1. fd[d] \in Clients /\ down' = [down EXCEPT ![fd[d]] = Append(@, m)]
        BY <3>2, <3>4, SendTyped DEF Sends
      <4>2. FromOr(Append(down[fd[d]], m), down[fd[d]], m)
        BY <3>2, <4>1, Elements DEF LinksOK
      <4>3. ASSUME acceptor' = "first"
            PROVE  \A i \in DOMAIN down'[fd'[acceptor_fd']] :
                     down'[fd'[acceptor_fd']][i].type \in Announcements
        <5> DEFINE c == fd[acceptor_fd]
        <5>1. acceptor = "first" /\ acceptor_fd' = acceptor_fd /\ c \in Clients
          BY <3>2, <4>3 DEF AcceptSame, Wired, ServersOK, Peers
        <5>2. \A i \in DOMAIN down[c] : down[c][i].type \in Announcements
          BY <2>0, <5>1 DEF Attended
        <5>3. \A i \in DOMAIN down'[c] : down'[c][i].type \in Announcements
          <6>1. CASE c = fd[d]
            <7>1. down'[c] = Append(down[c], m)
              BY <4>1, <6>1 DEF LinksOK
            <7> QED BY <3>2, <4>2, <5>2, <6>1, <7>1 DEF FromOr
          <6>2. CASE c # fd[d]
            <7>1. down'[c] = down[c]
              BY <4>1, <6>2, <5>1 DEF LinksOK
            <7> QED BY <5>2, <7>1
          <6> QED BY <6>1, <6>2
        <5> QED BY <3>2, <5>1, <5>3
      <4> QED BY <2>0, <3>2, <4>3 DEF Attended, AcceptSame
    <3> QED BY <3>2, <3>3, <3>4
  <2>4. CASE Resumes(d) \/ \E m : Handles(d, m)
    <3>1. /\ handler[d] # "none" /\ AcceptSame /\ UNCHANGED <<fd, down>>
          /\ \E s \in {"recv", "reply", "result"} : handler' = [handler EXCEPT ![d] = s]
      BY <2>4 DEF Resumes, Handles, linkVars
    <3> QED BY <2>0, <3>1 DEF Attended, AcceptSame, ServersOK
  <2>5. CASE Answers(d)
    <3>1. /\ handler[d] = "reply" /\ AcceptSame /\ fd' = fd /\ SendOK(d, reply[d])
          /\ handler' = [handler EXCEPT ![d] = "top"]
      BY <2>5 DEF Answers
    <3>2. reply[d] \in Messages
      BY <3>1 DEF Replies, ServersOK
    <3>3. down' = [down EXCEPT ![fd[d]] = Append(@, reply[d])]
      BY <3>1, <3>2, SendTyped DEF Sends
    <3>4. acceptor' \in {"first", "refuse"} =>
            acceptor_fd \in FDs /\ acceptor_fd # d /\ fd[acceptor_fd] # fd[d]
      BY <3>1 DEF AcceptSame, Wired
    <3>5. acceptor' = "first" => down'[fd[acceptor_fd]] = down[fd[acceptor_fd]]
      BY <3>3, <3>4 DEF LinksOK
    <3> QED BY <2>0, <3>1, <3>4, <3>5 DEF Attended, AcceptSame, ServersOK
  <2>6. CASE Closes(d)
    <3>1. /\ handler' = [handler EXCEPT ![d] = "none"] /\ fd' = [fd EXCEPT ![d] = NoClient]
          /\ AcceptSame /\ (acceptor' \in {"first", "refuse"} => acceptor_fd # d) /\ fd[d] \in Clients
      BY <2>6 DEF Closes
    <3>2. acceptor' \in {"first", "refuse"} =>
            /\ acceptor_fd \in FDs /\ fd'[acceptor_fd] = fd[acceptor_fd]
            /\ fd[acceptor_fd] # fd[d]
      BY <3>1 DEF AcceptSame, Wired, ServersOK
    <3>3. ASSUME NEW c \in Clients, c # fd[d]
          PROVE  down'[c] = down[c]
      BY <2>6, <3>3 DEF Closes, SendOK, LinksOK
    <3>4. acceptor' = "first" => down'[fd[acceptor_fd]] = down[fd[acceptor_fd]]
      BY <3>1, <3>2, <3>3 DEF AcceptSame, Wired, ServersOK, Peers
    <3> QED BY <2>0, <3>1, <3>2, <3>4 DEF Attended, AcceptSame, ServersOK
  <2> QED BY <1>3, <2>1, <2>2, <2>3, <2>4, <2>5, <2>6 DEF DescriptorKind
<1>4. ASSUME NEW x \in Clients, ClientKind(x)
      PROVE  Attended'
  <2>0. AcceptSame /\ UNCHANGED <<handler, fd>> /\ Attended /\ \A c \in Clients : c # x => Still(c)
    BY <1>4, OthersStill DEF Alone, serverVars, Greeted
  <2>1. /\ \A d \in FDs : handler[d] # "none" => fd[d] \in Clients
        /\ acceptor' \in {"first", "refuse"} => acceptor_fd \in FDs /\ fd[acceptor_fd] \in Clients
    BY <2>0 DEF Wired, ServersOK, Peers, AcceptSame
  <2>2. ASSUME op[x] \in Served \cup {"END"} => op'[x] \in Served \cup {"END"},
               op[x] = "REGISTER" => op'[x] \in {"REGISTER", "END"},
               op[x] = "END" => op'[x] = "END",
               \/ op'[x] \in Greetings \cup {"END"} /\ down'[x] \in {down[x], <<>>}
               \/ ~(acceptor = "first" /\ fd[acceptor_fd] = x)
        PROVE  Attended'
    <3>1. \A d \in FDs : handler'[d] # "none" => op'[fd'[d]] \in Served \cup {"END"}
      BY <2>0, <2>1, <2>2 DEF Attended, Still
    <3>2. acceptor' = "refuse" => op'[fd'[acceptor_fd']] \in {"REGISTER", "END"}
      BY <2>0, <2>1, <2>2 DEF Attended, Still, AcceptSame
    <3>3. ASSUME acceptor' = "first"
          PROVE  /\ op'[fd'[acceptor_fd']] \in Greetings \cup {"END"}
                 /\ \A i \in DOMAIN down'[fd'[acceptor_fd']] :
                      down'[fd'[acceptor_fd']][i].type \in Announcements
      <4> DEFINE c == fd[acceptor_fd]
      <4>1. acceptor = "first" /\ acceptor_fd' = acceptor_fd /\ fd' = fd /\ c \in Clients
        BY <2>0, <2>1, <3>3 DEF AcceptSame
      <4>2. op[c] \in Greetings \cup {"END"} /\ \A i \in DOMAIN down[c] : down[c][i].type \in Announcements
        BY <2>0, <4>1 DEF Attended
      <4>3. CASE c # x
        BY <2>0, <4>1, <4>2, <4>3 DEF Still
      <4>4. CASE c = x
        BY <2>2, <4>1, <4>2, <4>4
      <4> QED BY <4>3, <4>4
    <3> QED BY <3>1, <3>2, <3>3 DEF Attended
  <2>3. CASE (\E g : Comes(x, g)) \/ Refused(x)
    <3>1. op[x] = "NEW"
      BY <2>3 DEF Comes, Refused
    <3>2. ~(acceptor = "first" /\ fd[acceptor_fd] = x)
      BY <2>0, <3>1 DEF Attended, Greetings
    <3> QED BY <2>2, <3>1, <3>2 DEF Served, Calls
  <2>4. CASE \E o, j : Asks(x, o, j)
    <3>1. op[x] = "IDLE" /\ op'[x] \in Calls
      BY <2>4 DEF Asks, ClientsOK
    <3>2. ~(acceptor = "first" /\ fd[acceptor_fd] = x)
      BY <2>0, <3>1 DEF Attended, Greetings
    <3> QED BY <2>2, <3>1, <3>2 DEF Served
  <2>5. CASE Leaves(x)
    <3>1. op'[x] = "END" /\ down'[x] = <<>>
      BY <2>5 DEF Leaves, Leave, LinksOK, ClientsOK
    <3> QED BY <2>2, <3>1
  <2>6. CASE Returns(x)
    <3>1. /\ op[x] \in Calls \cup {"CLIENT_CONNECT"} /\ Head(down[x]) = down[x][1] /\ 1 \in DOMAIN down[x]
          /\ op[x] = "CLIENT_CONNECT" => Head(down[x]).type = "CONNECT_ACK"
      BY <2>6, ReturnsServed
    <3>2. op'[x] \in {"IDLE", "GET_JOB_STATUS"}
      BY <2>6 DEF Returns, Return, ClientsOK
    <3>3. ~(acceptor = "first" /\ fd[acceptor_fd] = x)
      BY <2>0, <3>1 DEF Attended, Greetings, Announcements, Calls
    <3> QED BY <2>2, <3>1, <3>2, <3>3 DEF Served, Calls
  <2>7. CASE Loses(x)
    <3>1. op[x] = "END" /\ op'[x] = "END" /\ down' = down
      BY <2>7 DEF Loses, clientVars
    <3> QED BY <2>2, <3>1
  <2> QED BY <1>4, <2>3, <2>4, <2>5, <2>6, <2>7 DEF ClientKind
<1> QED BY <1>1, <1>2, <1>3, <1>4 DEF Kind

\* Together.
LEMMA GreetedStep ==
  ASSUME Phases, ServersOK, LinksOK, Roomy, ClientsOK, Wired, Greeted, Replies, Kind
  PROVE  Greeted'
BY GreetedClientsStep, AttendedStep DEF Greeted
-----------------------------------------------------------------------------
(***************************************************************************)
(* The job table.                                                          *)
(***************************************************************************)
Job == [sock : FDs, status : Statuses]

\* The table stays, takes a job, changes statuses, or is freed.
TableSame == UNCHANGED <<jobs, freed, owner, revivals>> /\ notes' \subseteq notes
Submits(d) ==
  /\ ~freed /\ Len(jobs) < MaxJobs /\ Submit(d) /\ fd[d] \in Clients
  /\ UNCHANGED <<fd, freed, notes, revivals>>
Note(n) == /\ n \in [sock : FDs, job : JobIds, type : Announcements]
           /\ n.job \in DOMAIN jobs /\ n.sock = jobs[n.job].sock
Changes ==
  /\ jobs' \in Seq(Job) /\ Len(jobs') = Len(jobs)
  /\ \A j \in DOMAIN jobs : jobs'[j].sock = jobs[j].sock
  /\ revivals' \in Nat /\ revivals' >= revivals
  /\ revivals' > 0 \/ \A j \in DOMAIN jobs : Status(j) = "COMPLETED" => jobs'[j].status = "COMPLETED"
  /\ \A n \in notes' : n \in notes \/ Note(n)
  /\ UNCHANGED <<freed, owner>>
TableKind == TableSame \/ (\E d \in FDs : Submits(d)) \/ Changes \/ Cleanup

\* One job gets another status.
LEMMA ChangeTyped ==
  ASSUME TableOK, NEW j \in DOMAIN jobs, NEW status \in Statuses, Change(j, status)
  PROVE  /\ jobs' \in Seq(Job) /\ Len(jobs') = Len(jobs)
         /\ \A i \in DOMAIN jobs : jobs'[i].sock = jobs[i].sock
         /\ \A i \in DOMAIN jobs : i # j => jobs'[i] = jobs[i]
<1>1. jobs \in Seq(Job) /\ DOMAIN jobs = 1 .. Len(jobs)
  BY DEF TableOK, Job
<1> DEFINE e == [jobs[j] EXCEPT !.status = status]
<1>2. jobs[j] \in Job
  BY <1>1, ElementOfSeq
<1>3. e \in Job /\ e.sock = jobs[j].sock
  BY <1>2 DEF Job
<1>4. jobs' = [jobs EXCEPT ![j] = e]
  BY DEF Change
<1> HIDE DEF e
<1>5. /\ jobs' \in Seq(Job) /\ Len(jobs') = Len(jobs)
      /\ \A i \in 1 .. Len(jobs) : jobs'[i] = IF i = j THEN e ELSE jobs[i]
  BY <1>1, <1>3, <1>4, ExceptSeq
<1> QED BY <1>1, <1>3, <1>5

\* Every step does one of these to the table.
LEMMA TableStep ==
  ASSUME ClientsInductive, [Next]_vars
  PROVE  TableKind
<1>1. TableOK /\ ServersOK /\ Wired
  BY DEF ClientsInductive
<1>2. CASE UNCHANGED tableVars
  BY <1>2 DEF tableVars, TableKind, TableSame
<1>3. CASE \E d \in FDs : Recv(d)
  <2>1. PICK d \in FDs : Recv(d)
    BY <1>3
  <2>2. UNCHANGED <<freed, notes, revivals, fd>> /\ handler[d] = "recv"
    BY <2>1 DEF Recv
  <2>3. fd[d] \in Clients
    BY <1>1, <2>2 DEF Wired, ServersOK, Peers
  <2>4. \/ UNCHANGED <<jobs, owner>>
        \/ Len(jobs) < MaxJobs /\ ~freed /\ Submit(d)
    BY <2>1 DEF Recv, HandleOther, HandleSubmit, HandleQuery
  <2> QED BY <2>2, <2>3, <2>4 DEF TableKind, TableSame, Submits
<1>4. ASSUME NEW j \in JobIds, Report(j)
      PROVE  TableKind
  <2>1. j \in DOMAIN jobs /\ Status(j) = "ACTIVE" /\ UNCHANGED <<freed, owner, revivals>>
    BY <1>4 DEF Report, Known
  <2>2. PICK status \in {"COMPLETED", "FAILED"}, type \in Announcements :
          /\ Change(j, status)
          /\ notes' = notes \cup {[sock |-> jobs[j].sock, job |-> j, type |-> type]}
    BY <1>4 DEF Report, Announcements
  <2>3. status \in Statuses
    BY <2>2 DEF Statuses
  <2>4. /\ jobs' \in Seq(Job) /\ Len(jobs') = Len(jobs)
        /\ \A i \in DOMAIN jobs : jobs'[i].sock = jobs[i].sock
        /\ \A i \in DOMAIN jobs : i # j => jobs'[i] = jobs[i]
    BY <1>1, <2>1, <2>2, <2>3, ChangeTyped
  <2>5. \A i \in DOMAIN jobs : Status(i) = "COMPLETED" => jobs'[i].status = "COMPLETED"
    BY <2>1, <2>4 DEF Status
  <2>6. \A n \in notes' : n \in notes \/ Note(n)
    <3>1. jobs[j].sock \in FDs
      BY <1>1, <2>1, JobTyped
    <3> QED BY <2>1, <2>2, <3>1 DEF Note
  <2> QED BY <1>1, <2>1, <2>4, <2>5, <2>6 DEF TableKind, Changes, TableOK
<1>5. ASSUME NEW j \in JobIds, Revive(j)
      PROVE  TableKind
  <2>1. /\ j \in DOMAIN jobs /\ Change(j, "ACTIVE") /\ revivals' = revivals + 1
        /\ UNCHANGED <<freed, notes, owner>>
    BY <1>5 DEF Revive, Known
  <2>2. /\ jobs' \in Seq(Job) /\ Len(jobs') = Len(jobs)
        /\ \A i \in DOMAIN jobs : jobs'[i].sock = jobs[i].sock
    BY <1>1, <2>1, ChangeTyped DEF Statuses
  <2>3. revivals' \in Nat /\ revivals' >= revivals /\ revivals' > 0
    BY <1>1, <2>1 DEF TableOK
  <2> QED BY <2>1, <2>2, <2>3 DEF TableKind, Changes
<1>6. CASE \E n \in notes : Announce(n)
  BY <1>6 DEF Announce, TableKind, TableSame
<1>7. CASE CheckTimeouts
  <2>1. PICK over \in SUBSET {j \in DOMAIN jobs : Status(j) = "ACTIVE"} :
          jobs' = [j \in DOMAIN jobs |-> IF j \in over
                     THEN [jobs[j] EXCEPT !.status = "FAILED"] ELSE jobs[j]]
    BY <1>7 DEF CheckTimeouts
  <2>2. jobs \in Seq(Job) /\ Len(jobs) \in Nat /\ DOMAIN jobs = 1 .. Len(jobs)
    BY <1>1 DEF TableOK, Job
  <2>3. ASSUME NEW j \in DOMAIN jobs
        PROVE  /\ jobs'[j] \in Job /\ jobs'[j].sock = jobs[j].sock
               /\ Status(j) = "COMPLETED" => jobs'[j].status = "COMPLETED"
    <3>1. jobs[j] \in Job
      BY <2>2, ElementOfSeq
    <3> QED BY <2>1, <3>1 DEF Job, Status, Statuses
  <2>4. DOMAIN jobs' = 1 .. Len(jobs) /\ jobs' = [j \in 1 .. Len(jobs) |-> jobs'[j]]
    BY <2>1, <2>2
  <2>5. jobs' \in Seq(Job) /\ Len(jobs') = Len(jobs)
    BY <2>2, <2>3, <2>4
  <2>6. UNCHANGED <<freed, notes, owner, revivals>>
    BY <1>7 DEF CheckTimeouts
  <2>7. revivals' \in Nat /\ revivals' >= revivals
    BY <1>1, <2>6 DEF TableOK
  <2>8. Changes
    BY <2>3, <2>5, <2>6, <2>7 DEF Changes
  <2> QED BY <2>8 DEF TableKind
<1>8. CASE Cleanup
  BY <1>8 DEF TableKind
<1>9. CASE Exit
  BY <1>9 DEF Exit, TableKind, TableSame
<1>10. CASE \E d \in FDs : Top(d) \/ Result(d) \/ Reply(d) \/ RecvEnd(d)
  BY <1>2, <1>10 DEF Top, Result, Reply, RecvEnd
<1>11. CASE Acceptor
  BY <1>2, <1>11 DEF Acceptor, AcceptTop, Accept, ReadFirst, Refuse
<1>12. CASE TellTimeout \/ Stop \/ UNCHANGED vars
  BY <1>2, <1>12 DEF TellTimeout, Stop, vars
<1>13. CASE \E c \in Clients : Client(c) \/ Connect(c) \/ Hangup(c) \/ Lost(c)
  BY <1>2, <1>13 DEF Client, Call, Receive, ReceiveEnd, Connect, Hangup, Lost
<1> QED BY <1>3, <1>4, <1>5, <1>6, <1>7, <1>8, <1>9, <1>10, <1>11, <1>12, <1>13
        DEF Next, Handler

\* The new job and the old ones.
LEMMA SubmitTyped ==
  ASSUME TableOK, NEW d \in FDs, Submits(d)
  PROVE  /\ jobs' \in Seq(Job) /\ Len(jobs') = Len(jobs) + 1 /\ Len(jobs) + 1 \in JobIds
         /\ DOMAIN jobs' = DOMAIN jobs \cup {Len(jobs) + 1} /\ Len(jobs) + 1 \notin DOMAIN jobs
         /\ \A j \in DOMAIN jobs : jobs'[j] = jobs[j]
         /\ jobs'[Len(jobs) + 1].sock = d
         /\ owner' = [owner EXCEPT ![Len(jobs) + 1] = fd[d]]
<1> DEFINE e == [sock |-> d, status |-> "ACTIVE"]
<1>1. jobs \in Seq(Job) /\ e \in Job /\ e.sock = d
  BY DEF TableOK, Job, Statuses
<1>2. jobs' = Append(jobs, e) /\ owner' = [owner EXCEPT ![Len(jobs) + 1] = fd[d]]
  BY DEF Submits, Submit
<1> HIDE DEF e
<1>3. /\ jobs' \in Seq(Job) /\ Len(jobs') = Len(jobs) + 1
      /\ \A i \in 1 .. Len(jobs) : jobs'[i] = jobs[i]
      /\ jobs'[Len(jobs) + 1] = e
  BY <1>1, <1>2, AppendProperties
<1>4. Len(jobs) \in Nat /\ DOMAIN jobs = 1 .. Len(jobs) /\ DOMAIN jobs' = 1 .. Len(jobs) + 1
  BY <1>1, <1>3, LenProperties
<1>5. Len(jobs) + 1 \in JobIds
  BY <1>4, ClientsAssumption DEF Submits, JobIds
<1>6. 1 .. Len(jobs) + 1 = (1 .. Len(jobs)) \cup {Len(jobs) + 1} /\ Len(jobs) + 1 \notin 1 .. Len(jobs)
  BY <1>4
<1> QED BY <1>1, <1>2, <1>3, <1>4, <1>5, <1>6

\* The table stays well typed.
LEMMA TableOKStep ==
  ASSUME TableOK, ServersOK, TableKind
  PROVE  TableOK'
<1>1. CASE TableSame
  BY <1>1 DEF TableSame, TableOK
<1>2. ASSUME NEW d \in FDs, Submits(d)
      PROVE  TableOK'
  <2>1. jobs' \in Seq(Job) /\ Len(jobs') <= MaxJobs
    <3>1. jobs' \in Seq(Job) /\ Len(jobs') = Len(jobs) + 1 /\ Len(jobs) \in Nat /\ Len(jobs) < MaxJobs
      BY <1>2, SubmitTyped DEF TableOK, Submits
    <3> QED BY <3>1, ClientsAssumption
  <2>2. owner' \in [JobIds -> Peers]
    BY <1>2, SubmitTyped DEF TableOK, Submits, Peers
  <2> QED BY <1>2, <2>1, <2>2 DEF TableOK, Submits, Job
<1>3. CASE Changes
  BY <1>3 DEF Changes, Note, TableOK, Job
<1>4. CASE Cleanup
  BY <1>4, ClientsAssumption DEF Cleanup, TableOK
<1> QED BY <1>1, <1>2, <1>3, <1>4 DEF TableKind

\* The timeouts still to be announced are of jobs in the table.
LEMMA DueStep ==
  ASSUME ClientsInductive, [Next]_vars
  PROVE  DueOK'
<1>1. TableOK /\ DueOK /\ TableKind
  BY TableStep DEF ClientsInductive
<1>2. ASSUME UNCHANGED <<due, mutex>>, ~Cleanup
      PROVE  DueOK'
  <2>1. DOMAIN jobs \subseteq DOMAIN jobs'
    <3>1. CASE TableSame
      BY <3>1 DEF TableSame
    <3>2. CASE \E d \in FDs : Submits(d)
      BY <1>1, <3>2, SubmitTyped
    <3>3. CASE Changes
      BY <1>1, <3>3, LenProperties DEF Changes, TableOK
    <3> QED BY <1>1, <1>2, <3>1, <3>2, <3>3 DEF TableKind
  <2> QED BY <1>1, <1>2, <2>1 DEF DueOK
<1>3. CASE CheckTimeouts
  BY <1>3 DEF CheckTimeouts, DueOK
<1>4. CASE TellTimeout
  <2>1. PICK j \in due : due' = due \ {j} /\ mutex' = (due # {j}) /\ UNCHANGED tableVars
    BY <1>4 DEF TellTimeout, Unlock
  <2> QED BY <1>1, <2>1 DEF DueOK, tableVars
<1>5. CASE Cleanup
  BY <1>1, <1>5 DEF Cleanup, DueOK
<1>6. CASE ~CheckTimeouts /\ ~TellTimeout /\ ~Cleanup
  <2>1. UNCHANGED <<due, mutex>>
    BY <1>6 DEF Next, Acceptor, AcceptTop, Accept, ReadFirst, Refuse, Handler, Top, Recv,
       Result, Reply, RecvEnd, Report, Revive, Announce, Client, Call, Receive, ReceiveEnd, Connect,
       Hangup, Lost, Stop, Exit, vars, mainVars
  <2> QED BY <1>2, <1>6, <2>1
<1> QED BY <1>3, <1>4, <1>5, <1>6
\* What the table has settled stays so.
LEMMA TableKeeps ==
  ASSUME TableOK, Owners, TableKind
  PROVE  /\ revivals > 0 \/ freed => revivals' > 0 \/ freed'
         /\ \A j : Known(j) /\ Status(j) = "COMPLETED" =>
                     \/ Known(j)' /\ Status(j)' = "COMPLETED"
                     \/ revivals' > 0 \/ freed'
         /\ \A j \in JobIds : owner[j] \in Clients => owner'[j] = owner[j]
<1>1. CASE TableSame
  BY <1>1 DEF TableSame, Known, Status
<1>2. ASSUME NEW d \in FDs, Submits(d)
      PROVE  /\ UNCHANGED <<revivals, freed>>
             /\ \A j \in DOMAIN jobs : j \in DOMAIN jobs' /\ jobs'[j] = jobs[j]
             /\ \A j \in JobIds : owner[j] \in Clients => owner'[j] = owner[j]
  <2>1. Len(jobs) + 1 \in JobIds /\ owner[Len(jobs) + 1] = NoClient
    BY <1>2, SubmitTyped DEF Submits, Owners
  <2>2. \A j \in JobIds : owner[j] \in Clients => owner'[j] = owner[j]
    BY <1>2, <2>1, SubmitTyped, ClientsAssumption DEF TableOK
  <2> QED BY <1>2, <2>2, SubmitTyped DEF Submits
<1>3. CASE Changes
  <2>1. DOMAIN jobs' = DOMAIN jobs
    BY <1>3, LenProperties DEF Changes, TableOK
  <2>2. revivals > 0 => revivals' > 0
    BY <1>3 DEF Changes, TableOK
  <2> QED BY <1>3, <2>1, <2>2 DEF Changes, Known, Status
<1>4. CASE Cleanup
  BY <1>4 DEF Cleanup
<1>5. CASE \E d \in FDs : Submits(d)
  <2>1. /\ UNCHANGED <<revivals, freed>>
        /\ \A j \in DOMAIN jobs : j \in DOMAIN jobs' /\ jobs'[j] = jobs[j]
        /\ \A j \in JobIds : owner[j] \in Clients => owner'[j] = owner[j]
    BY <1>2, <1>5
  <2> QED BY <2>1 DEF Known, Status
<1> QED BY <1>1, <1>3, <1>4, <1>5 DEF TableKind

\* A descriptor leads to its client until the connection is closed.
LEMMA ReachKeeps ==
  ASSUME ServersOK, LinksOK, Roomy, ClientsOK, Wired, Greeted, Replies, Kind,
         NEW d \in FDs, NEW c \in Clients
  PROVE  /\ far[c] = "closed" => far'[c] = "closed"
         /\ fd[d] = c => fd'[d] = c \/ far'[c] = "closed"
<1>1. far[c] = "closed" => far'[c] = "closed"
  <2>1. CASE Quiet \/ Exits \/ \E e \in FDs : DescriptorKind(e)
    BY <2>1, ServerEffect DEF Effect
  <2>2. ASSUME NEW x \in Clients, ClientKind(x)
        PROVE  far[c] = "closed" => far'[c] = "closed"
    <3>1. CASE \E g : Comes(x, g)
      <4>1. far[x] = "none"
        BY <3>1 DEF Comes, Greeted, GreetedClient
      <4>2. CASE c = x
        BY <4>1, <4>2
      <4>3. CASE c # x
        BY <2>2, <4>3, OthersStill DEF Still
      <4> QED BY <4>2, <4>3
    <3>2. CASE ~\E g : Comes(x, g)
      <4>1. UNCHANGED far
        BY <2>2, <3>2 DEF ClientKind, Asks, Leaves, Returns, Loses, Refused, linkVars
      <4> QED BY <4>1
    <3> QED BY <3>1, <3>2
  <2> QED BY <2>1, <2>2 DEF Kind
<1>2. ASSUME fd[d] = c
      PROVE  fd'[d] = c \/ far'[c] = "closed"
  <2>0. c # NoClient /\ far[c] = "open"
    BY <1>2, ClientsAssumption DEF Wired
  <2>1. CASE UNCHANGED fd
    BY <1>2, <2>1
  <2>2. CASE Exits
    BY <2>0, <2>2 DEF Exits
  <2>3. ASSUME NEW e \in FDs, NEW x \in Clients, Accepts(x, e)
        PROVE  fd'[d] = c
    BY <1>2, <2>0, <2>3 DEF Accepts, ServersOK
  <2>4. ASSUME NEW e \in FDs, Closes(e)
        PROVE  fd'[d] = c \/ far'[c] = "closed"
    BY <1>2, <2>4 DEF Closes, ServersOK, LinksOK
  <2>5. \/ UNCHANGED fd \/ Exits
        \/ \E e \in FDs : Closes(e) \/ \E x \in Clients : Accepts(x, e)
    BY DEF Kind, Quiet, DescriptorKind, Welcomes, TurnsAway, Greets, Tells, Resumes, Handles,
       Answers, ClientKind, Comes, Asks, Leaves, Returns, Loses, Refused, Alone, serverVars
  <2> QED BY <2>1, <2>2, <2>3, <2>4, <2>5
<1> QED BY <1>1, <1>2

\* Jobs and notes lead to the submitters.
LEMMA OwnersStep ==
  ASSUME TableOK, ServersOK, LinksOK, Roomy, ClientsOK, Wired, Greeted, Replies, Owners,
         Kind, TableKind
  PROVE  Owners'
<1>1. ASSUME NEW d \in FDs, NEW j \in JobIds, Reaches(d, j)
      PROVE  Reaches(d, j)'
  <2>1. owner'[j] = owner[j] /\ owner[j] \in Clients
    BY <1>1, TableKeeps DEF Reaches
  <2>2. fd'[d] = owner[j] \/ far'[owner[j]] = "closed"
    BY <1>1, <2>1, ReachKeeps DEF Reaches
  <2> QED BY <2>1, <2>2 DEF Reaches
<1>2. ASSUME NEW j \in DOMAIN jobs, NEW d, d = jobs[j].sock
      PROVE  owner'[j] \in Clients /\ (fd'[d] = owner'[j] \/ far'[owner'[j]] = "closed")
  <2>1. d \in FDs /\ j \in JobIds /\ Reaches(d, j)
    BY <1>2, JobTyped DEF Owners
  <2> QED BY <1>1, <2>1 DEF Reaches
<1>3. ASSUME NEW n \in notes
      PROVE  /\ owner'[n.job] \in Clients
             /\ fd'[n.sock] = owner'[n.job] \/ far'[owner'[n.job]] = "closed"
  <2>1. n.sock \in FDs /\ n.job \in JobIds /\ Reaches(n.sock, n.job)
    BY DEF TableOK, Owners
  <2> QED BY <1>1, <2>1 DEF Reaches
<1>4. CASE TableSame
  BY <1>2, <1>3, <1>4 DEF TableSame, Owners, Reaches
<1>5. ASSUME NEW e \in FDs, Submits(e)
      PROVE  Owners'
  <2> DEFINE k == Len(jobs) + 1
  <2>1. /\ k \in JobIds /\ DOMAIN jobs' = DOMAIN jobs \cup {k} /\ k \notin DOMAIN jobs
        /\ \A j \in DOMAIN jobs : jobs'[j] = jobs[j]
        /\ jobs'[k].sock = e /\ owner' = [owner EXCEPT ![k] = fd[e]]
    BY <1>5, SubmitTyped
  <2>2. fd[e] \in Clients /\ ~freed /\ UNCHANGED <<fd, freed, notes>>
    BY <1>5 DEF Submits
  <2> HIDE DEF k
  <2>3. owner'[k] = fd'[e] /\ owner'[k] \in Clients /\ \A j \in JobIds : j # k => owner'[j] = owner[j]
    BY <2>1, <2>2 DEF TableOK
  <2>4. \A j \in JobIds : owner'[j] # NoClient <=> j \in DOMAIN jobs'
    BY <2>1, <2>2, <2>3, ClientsAssumption DEF Owners
  <2>5. \A j \in DOMAIN jobs' : Reaches(jobs[j].sock, j)'
    BY <1>2, <2>1, <2>3 DEF Reaches
  <2> QED BY <1>3, <2>2, <2>4, <2>5 DEF Owners, Reaches
<1>6. CASE Changes
  <2>1. /\ DOMAIN jobs' = DOMAIN jobs /\ UNCHANGED <<freed, owner>>
        /\ \A j \in DOMAIN jobs : jobs'[j].sock = jobs[j].sock
        /\ \A n \in notes' : n \in notes \/ Note(n)
    BY <1>6, LenProperties DEF Changes, TableOK
  <2>2. freed' => jobs' = <<>>
    <3>1. jobs' \in Seq(Job) /\ Len(jobs') = Len(jobs) /\ (freed' => Len(jobs) = 0)
      BY <1>6, <2>1 DEF Changes, Owners
    <3> QED BY <3>1, EmptySeq
  <2>3. \A n \in notes' : Reaches(n.sock, n.job)'
    BY <1>2, <1>3, <2>1 DEF Note, Reaches
  <2> QED BY <1>2, <2>1, <2>2, <2>3 DEF Owners, Reaches
<1>7. CASE Cleanup
  BY <1>3, <1>7 DEF Cleanup, Owners, Reaches
<1> QED BY <1>4, <1>5, <1>6, <1>7 DEF TableKind
-----------------------------------------------------------------------------
(***************************************************************************)
(* Answers and announcements.                                              *)
(***************************************************************************)
\* The threads.
LEMMA PhasesStep ==
  ASSUME Phases, [Next]_vars
  PROVE  Phases'
<1>0. 0 \in 0 .. MaxFDs /\ FDs \subseteq 0 .. MaxFDs
  BY ClientsAssumption DEF FDs
<1>1. CASE Acceptor
  <2>1. main' = main /\ acceptor # "done" /\ acceptor' \in {"top", "accept", "first", "refuse", "done"}
    BY <1>1 DEF Acceptor, AcceptTop, Accept, ReadFirst, Refuse, mainVars
  <2>2. acceptor_fd' = acceptor_fd \/ acceptor_fd' = 0 \/ acceptor_fd' \in FDs
    BY <1>1 DEF Acceptor, AcceptTop, Accept, ReadFirst, Refuse
  <2> QED BY <1>0, <2>1, <2>2 DEF Phases
<1>2. CASE Stop \/ Cleanup \/ Exit
  BY <1>2 DEF Stop, Cleanup, Exit, acceptVars, Phases
<1>3. CASE ~Acceptor /\ ~Stop /\ ~Cleanup /\ ~Exit
  <2>1. UNCHANGED <<acceptor, acceptor_fd, main>>
    BY <1>3 DEF Next, Handler, Top, Recv, Result, Reply, RecvEnd, Report, Revive, Announce,
       Client, Call, Receive, ReceiveEnd, Connect, Hangup, Lost, CheckTimeouts, TellTimeout, vars,
       acceptVars, mainVars
  <2> QED BY <2>1 DEF Phases
<1> QED BY <1>1, <1>2, <1>3

\* A message is none that was not prepared.
LEMMA NoMessage ==
  /\ NoMsg \notin Messages /\ NoMsg.type \notin Announcements \cup {"JOB_SUBMITTED"}
  /\ NoMsg.val # "INTERNAL_ERROR"
BY DEF NoMsg, Msg, Messages, Types, Announcements

\* The answers being prepared.
LEMMA RepliesStep ==
  ASSUME TableOK, ServersOK, Wired, Replies, Owners, Kind, TableKind
  PROVE  Replies'
<1> DEFINE Answered(d) ==
      /\ reply[d] # NoMsg <=> handler[d] \in {"reply", "result"}
      /\ reply[d].type \notin Announcements
      /\ reply[d].type = "JOB_SUBMITTED" => reply[d].job # 0
    Sound(d) ==
      /\ handler[d] = "result" => \/ Known(reply[d].job) /\ Status(reply[d].job) = "COMPLETED"
                                  \/ revivals > 0 \/ freed
      /\ reply[d].val = "INTERNAL_ERROR" => revivals > 0 \/ freed
<1>0. \A d \in FDs : Answered(d) /\ Sound(d)
  BY DEF Replies
<1>1. SUFFICES ASSUME NEW d \in FDs
               PROVE  Answered(d)' /\ Sound(d)'
  BY DEF Replies
<1>2. CASE handler'[d] = handler[d] /\ reply'[d] = reply[d]
  BY <1>0, <1>2, TableKeeps
<1>3. CASE reply'[d] = NoMsg /\ handler'[d] \in {"none", "top"}
  BY <1>3, NoMessage
<1>4. CASE handler'[d] = "recv" /\ handler[d] = "top" /\ reply'[d] = reply[d]
  BY <1>0, <1>4, TableKeeps
<1>5. ASSUME Welcomes(d)
      PROVE  Answered(d)' /\ Sound(d)'
  <2>1. handler'[d] = "reply" /\ reply'[d] = Msg("CONNECT_ACK", 0, "-", 0)
    BY <1>5 DEF Welcomes, ServersOK
  <2> QED BY <2>1 DEF Msg, NoMsg, Announcements
<1>6. ASSUME NEW m, Handles(d, m)
      PROVE  Answered(d)' /\ Sound(d)'
  <2>1. /\ m \in Messages /\ m.type \notin Announcements /\ (m.type = "JOB_SUBMITTED" => m.job # 0)
        /\ m.val = "INTERNAL_ERROR" => revivals > 0 \/ freed
        /\ reply'[d] = m
        /\ \/ handler'[d] = "reply"
           \/ handler'[d] = "result" /\ Known(m.job) /\ Status(m.job) = "COMPLETED"
    BY <1>6 DEF Handles, ServersOK
  <2>2. Answered(d)'
    BY <2>1, NoMessage
  <2>3. Sound(d)'
    BY <2>1, TableKeeps
  <2> QED BY <2>2, <2>3
<1>7. ASSUME NEW e \in FDs, DescriptorKind(e)
      PROVE  Answered(d)' /\ Sound(d)'
  <2>1. CASE (\E c \in Clients : Accepts(c, e)) \/ TurnsAway(e) \/ (\E m : Tells(e, m))
    BY <1>2, <2>1 DEF Accepts, TurnsAway, Tells, serverVars
  <2>2. CASE d # e
    <3>1. handler'[d] = handler[d] /\ reply'[d] = reply[d]
      BY <1>7, <2>1, <2>2 DEF DescriptorKind, Accepts, Welcomes, TurnsAway, Tells, Resumes, Handles,
         Answers, Closes, serverVars, ServersOK
    <3> QED BY <1>2, <3>1
  <2>3. CASE d = e
    <3>1. CASE Resumes(d)
      BY <1>4, <3>1 DEF Resumes, ServersOK
    <3>2. CASE Answers(d) \/ Closes(d)
      BY <1>3, <3>2 DEF Answers, Closes, ServersOK
    <3> QED BY <1>5, <1>6, <1>7, <2>1, <2>3, <3>1, <3>2 DEF DescriptorKind
  <2> QED BY <2>2, <2>3
<1>8. CASE Exits
  BY <1>3, <1>8 DEF Exits
<1>9. CASE Quiet \/ \E c \in Clients : ClientKind(c)
  <2>1. UNCHANGED <<handler, reply>>
    BY <1>9 DEF Quiet, ClientKind, Comes, Asks, Leaves, Returns, Loses, Refused, Alone, serverVars
  <2> QED BY <1>2, <2>1
<1> QED BY <1>7, <1>8, <1>9 DEF Kind

\* What a client will read is what it would have read, or was written now.
LEMMA ReadsNew ==
  ASSUME ServersOK, LinksOK, Roomy, ClientsOK, Wired, Greeted, Replies, Kind, NEW c \in Clients,
         NEW i \in DOMAIN down'[c]
  PROVE  \/ \E k \in DOMAIN down[c] : down'[c][i] = down[c][k]
         \/ Written(c, down'[c][i])
<1>0. down[c] \in Seq(Messages) /\ From(down[c], down[c])
  BY Elements DEF LinksOK
<1>1. CASE Quiet \/ Exits \/ \E d \in FDs : DescriptorKind(d)
  <2>1. Effect(c)
    BY <1>1, ServerEffect
  <2> QED BY <1>0, <2>1 DEF Effect, From, FromOr
<1>2. ASSUME NEW x \in Clients, ClientKind(x)
      PROVE  \E k \in DOMAIN down[c] : down'[c][i] = down[c][k]
  <2>1. From(down'[c], down[c])
    <3>1. CASE c # x
      BY <1>0, <1>2, <3>1, OthersStill DEF Still
    <3>2. CASE c = x
      <4>1. CASE Returns(c)
        <5>1. down'[c] = Tail(down[c]) /\ down[c] # <<>>
          BY <4>1 DEF Returns, Return, LinksOK
        <5> QED BY <1>0, <5>1, Elements
      <4>2. CASE Leaves(c)
        BY <4>2 DEF Leaves, Leave, LinksOK, From
      <4>3. CASE ~Returns(c) /\ ~Leaves(c)
        <5>1. down' = down
          BY <1>2, <3>2, <4>3 DEF ClientKind, Comes, Asks, Loses, Refused, linkVars
        <5> QED BY <1>0, <5>1
      <4> QED BY <4>1, <4>2, <4>3
    <3> QED BY <3>1, <3>2
  <2> QED BY <2>1 DEF From
<1> QED BY <1>1, <1>2 DEF Kind

\* Announcements are of numbered jobs, and go to their submitters.
LEMMA MessagesStep ==
  ASSUME TableOK, ServersOK, LinksOK, Roomy, ClientsOK, Wired, Greeted, Replies, Numbered, Owners,
         Submitted, Kind, TableKind
  PROVE  Numbered' /\ Submitted'
<1> SUFFICES ASSUME NEW c \in Clients, NEW i \in DOMAIN down'[c]
    PROVE  /\ down'[c][i].type \in Announcements \cup {"JOB_SUBMITTED"} => down'[c][i].job # 0
           /\ down'[c][i].type \in Announcements =>
                /\ owner'[down'[c][i].job] \in Clients
                /\ \/ owner'[down'[c][i].job] = c
                   \/ far'[owner'[down'[c][i].job]] = "closed"
  BY DEF Numbered, Submitted
<1> DEFINE m == down'[c][i]
<1>1. \/ \E k \in DOMAIN down[c] : m = down[c][k]
      \/ Written(c, m)
  BY ReadsNew
<1>2. m \in Messages
  <2>1. down' \in [Clients -> Seq(Messages)]
    BY LinksStep DEF LinksOK
  <2>2. down'[c] \in Seq(Messages)
    BY <2>1
  <2> QED BY <2>2, ElementOfSeq, LenProperties
<1> HIDE DEF m
<1>3. m.type \in Announcements \cup {"JOB_SUBMITTED"} => m.job # 0
  BY <1>1 DEF Numbered, Written, Replies, Announcements
<1>4. ASSUME m.type \in Announcements
      PROVE  owner'[m.job] \in Clients /\ (owner'[m.job] = c \/ far'[owner'[m.job]] = "closed")
  <2>1. m.job \in JobIds
    BY <1>2, <1>3, <1>4, ClientsAssumption DEF Messages, JobIds
  <2>2. owner[m.job] \in Clients /\ (owner[m.job] = c \/ far[owner[m.job]] = "closed")
    BY <1>1, <1>4 DEF Submitted, Written, Replies, Announcements
  <2>3. owner'[m.job] = owner[m.job]
    BY <2>1, <2>2, TableKeeps
  <2>4. 1 \in FDs
    BY ClientsAssumption DEF FDs
  <2>5. far[owner[m.job]] = "closed" => far'[owner[m.job]] = "closed"
    BY <2>2, <2>4, ReachKeeps
  <2> QED BY <2>2, <2>3, <2>5
<1> QED BY <1>3, <1>4 DEF m
-----------------------------------------------------------------------------
(***************************************************************************)
(* Counting answers.                                                       *)
(***************************************************************************)
\* The answers among the messages of s, and how many there are.
AnswersAt(s) == {i \in DOMAIN s : s[i].type \notin Announcements}
Replied(s) == Cardinality(AnswersAt(s))
Counts(m) == IF m.type \in Announcements THEN 0 ELSE 1

LEMMA RepliedType ==
  ASSUME NEW S, NEW s \in Seq(S)
  PROVE  IsFiniteSet(AnswersAt(s)) /\ Replied(s) \in Nat
<1>1. Len(s) \in Nat /\ AnswersAt(s) \in SUBSET (1 .. Len(s))
  BY LenProperties DEF AnswersAt
<1>2. IsFiniteSet(AnswersAt(s))
  <2>1. IsFiniteSet(1 .. Len(s))
    BY <1>1, FS_Interval
  <2> QED BY <1>1, <2>1, FS_Subset
<1> QED BY <1>2, FS_CardinalityType DEF Replied

LEMMA RepliedEmpty == AnswersAt(<<>>) = {} /\ Replied(<<>>) = 0
BY FS_EmptySet DEF AnswersAt, Replied

\* A message more, a message less, and the first of them.
LEMMA RepliedAppend ==
  ASSUME NEW S, NEW s \in Seq(S), NEW m \in S
  PROVE  Replied(Append(s, m)) = Replied(s) + Counts(m)
<1> DEFINE t == Append(s, m)
           k == Len(s) + 1
<1>1. t \in Seq(S) /\ Len(t) = k /\ t[k] = m /\ \A i \in 1 .. Len(s) : t[i] = s[i]
  BY AppendProperties
<1>2. Len(s) \in Nat /\ DOMAIN s = 1 .. Len(s) /\ DOMAIN t = 1 .. k
  BY <1>1, LenProperties
<1>3. k \notin AnswersAt(s)
  BY <1>2 DEF AnswersAt
<1> HIDE DEF t
<1>4. CASE m.type \in Announcements
  <2>1. AnswersAt(t) = AnswersAt(s)
    BY <1>1, <1>2, <1>4 DEF AnswersAt
  <2> QED BY <1>4, <2>1, RepliedType DEF Replied, Counts, t
<1>5. CASE m.type \notin Announcements
  <2>1. AnswersAt(t) = AnswersAt(s) \cup {k}
    BY <1>1, <1>2, <1>5 DEF AnswersAt
  <2> QED BY <1>3, <1>5, <2>1, RepliedType, FS_AddElement DEF Replied, Counts, t
<1> QED BY <1>4, <1>5

LEMMA RepliedTail ==
  ASSUME NEW S, NEW s \in Seq(S), s # <<>>
  PROVE  Replied(s) = Replied(Tail(s)) + Counts(Head(s))
<1> DEFINE t == Tail(s)
           A == AnswersAt(t)
           B == AnswersAt(s) \ {1}
           f == [i \in A |-> i + 1]
<1>1. /\ t \in Seq(S) /\ Len(t) = Len(s) - 1 /\ Head(s) = s[1]
      /\ \A i \in 1 .. Len(s) - 1 : t[i] = s[i + 1]
  BY HeadTailProperties
<1>2. Len(s) \in Nat \ {0} /\ DOMAIN s = 1 .. Len(s) /\ DOMAIN t = 1 .. Len(s) - 1
  BY <1>1, LenProperties, EmptySeq
<1> HIDE DEF t
<1>3. A \subseteq 1 .. Len(s) - 1 /\ B \subseteq 2 .. Len(s)
  BY <1>2 DEF AnswersAt
<1>4. \A i \in 1 .. Len(s) - 1 : i \in A <=> i + 1 \in B
  BY <1>1, <1>2 DEF AnswersAt
<1>5. IsFiniteSet(A) /\ Cardinality(A) = Replied(t) /\ Replied(t) \in Nat
  BY <1>1, RepliedType DEF Replied
<1> HIDE DEF A, B
<1>6. \A b \in B : b - 1 \in A /\ f[b - 1] = b
  BY <1>2, <1>3, <1>4
<1>7. f \in Bijection(A, B)
  <2>1. f \in [A -> B]
    BY <1>3, <1>4
  <2>2. \A a, b \in A : f[a] = f[b] => a = b
    BY <1>3
  <2> QED BY <1>6, <2>1, <2>2, Fun_IsBij
<1>8. ExistsBijection(A, B)
  BY <1>7 DEF ExistsBijection
<1>9. Cardinality(B) = Replied(t) /\ IsFiniteSet(B)
  BY <1>5, <1>8, FS_Bijection
<1>10. 1 \in AnswersAt(s) <=> Head(s).type \notin Announcements
  BY <1>1, <1>2 DEF AnswersAt
<1>11. /\ IsFiniteSet(AnswersAt(s)) /\ Replied(s) \in Nat
       /\ Cardinality(B) = IF 1 \in AnswersAt(s) THEN Replied(s) - 1 ELSE Replied(s)
  BY RepliedType, FS_RemoveElement DEF Replied, B
<1> QED BY <1>5, <1>9, <1>10, <1>11 DEF Counts, t

LEMMA RepliedSubSeq ==
  ASSUME NEW S, NEW s \in Seq(S), NEW n \in 0 .. Len(s)
  PROVE  Replied(SubSeq(s, 1, n)) <= Replied(s)
<1> DEFINE t == SubSeq(s, 1, n)
<1>1. Len(s) \in Nat /\ DOMAIN s = 1 .. Len(s) /\ \A i \in 1 .. n : s[i] \in S
  BY LenProperties, ElementOfSeq
<1>2. t \in Seq(S) /\ Len(t) = n /\ \A i \in 1 .. n : t[i] = s[i]
  BY <1>1, SubSeqProperties
<1>3. DOMAIN t = 1 .. n /\ 1 .. n \subseteq 1 .. Len(s)
  BY <1>1, <1>2, LenProperties
<1> HIDE DEF t
<1>4. AnswersAt(t) \in SUBSET AnswersAt(s)
  BY <1>1, <1>2, <1>3 DEF AnswersAt
<1>5. Cardinality(AnswersAt(t)) <= Cardinality(AnswersAt(s))
  BY <1>4, RepliedType, FS_Subset
<1> QED BY <1>5 DEF Replied, t

\* A client has at most one answer being prepared.
Preparing(f, r, c) == \E d \in FDs : f[d] = c /\ r[d] # NoMsg
LEMMA OnePrepared ==
  ASSUME NEW f, NEW r, NEW c \in Clients,
         \A d, e \in FDs : f[d] # NoClient /\ f[d] = f[e] => d = e
  PROVE  Cardinality({d \in FDs : f[d] = c /\ r[d] # NoMsg}) = IF Preparing(f, r, c) THEN 1 ELSE 0
<1> DEFINE X == {d \in FDs : f[d] = c /\ r[d] # NoMsg}
<1>1. CASE Preparing(f, r, c)
  <2>1. PICK d \in FDs : f[d] = c /\ r[d] # NoMsg
    BY <1>1 DEF Preparing
  <2>2. X = {d}
    BY <2>1, ClientsAssumption
  <2> QED BY <1>1, <2>2, FS_Singleton
<1>2. CASE ~Preparing(f, r, c)
  <2>1. X = {}
    BY <1>2 DEF Preparing
  <2> QED BY <1>2, <2>1, FS_EmptySet
<1> QED BY <1>1, <1>2

\* Hence what a client is owed.
LEMMA OwedIs ==
  ASSUME LinksOK, LinksOK', Wired, Wired', NEW c \in Clients
  PROVE  /\ Owed(c) = Len(up[c]) + (IF Preparing(fd, reply, c) THEN 1 ELSE 0) + Replied(down[c])
         /\ Owed(c)' = Len(up'[c]) + (IF Preparing(fd', reply', c) THEN 1 ELSE 0) + Replied(down'[c])
         /\ Len(up[c]) \in Nat /\ Replied(down[c]) \in Nat
         /\ Len(up'[c]) \in Nat /\ Replied(down'[c]) \in Nat
         /\ Owed(c) \in Nat /\ Owed(c)' \in Nat
<1>1. Cardinality({d \in FDs : fd[d] = c /\ reply[d] # NoMsg})
        = IF Preparing(fd, reply, c) THEN 1 ELSE 0
  BY OnePrepared DEF Wired
<1>2. Cardinality({d \in FDs : fd'[d] = c /\ reply'[d] # NoMsg})
        = IF Preparing(fd', reply', c) THEN 1 ELSE 0
  BY OnePrepared DEF Wired
<1>3. /\ up[c] \in Seq(Requests) /\ down[c] \in Seq(Messages)
      /\ up'[c] \in Seq(Requests) /\ down'[c] \in Seq(Messages)
  BY DEF LinksOK
<1>4. Replied(down[c]) \in Nat /\ Replied(down'[c]) \in Nat
  BY <1>3, RepliedType
<1>5. Len(up[c]) \in Nat /\ Len(up'[c]) \in Nat
  BY <1>3, LenProperties
<1>6. Owed(c) = Len(up[c]) + (IF Preparing(fd, reply, c) THEN 1 ELSE 0) + Replied(down[c])
  BY <1>1 DEF Owed, Replied, AnswersAt
<1>7. Owed(c)' = Len(up'[c]) + (IF Preparing(fd', reply', c) THEN 1 ELSE 0) + Replied(down'[c])
  BY <1>2 DEF Owed, Replied, AnswersAt
<1>8. \A u, r \in Nat, b \in BOOLEAN : u + (IF b THEN 1 ELSE 0) + r \in Nat
  OBVIOUS
<1>9. Preparing(fd, reply, c) \in BOOLEAN /\ Preparing(fd', reply', c) \in BOOLEAN
  BY DEF Preparing
<1>10. Owed(c) \in Nat /\ Owed(c)' \in Nat
  BY <1>4, <1>5, <1>6, <1>7, <1>8, <1>9
<1> QED BY <1>4, <1>5, <1>6, <1>7, <1>10
-----------------------------------------------------------------------------
(***************************************************************************)
(* Requests and answers in step.                                           *)
(***************************************************************************)
\* The answers prepared for c: on its descriptor, or nowhere.
LEMMA PreparedHere ==
  ASSUME Wired, NEW d \in FDs, fd[d] \in Clients
  PROVE  Preparing(fd, reply, fd[d]) <=> reply[d] # NoMsg
BY ClientsAssumption DEF Wired, Preparing

\* One descriptor is one client's business.
Elsewhere(c) ==
  /\ up'[c] = up[c] /\ down'[c] = down[c]
  /\ Preparing(fd', reply', c) <=> Preparing(fd, reply, c)
LEMMA DescriptorElsewhere ==
  ASSUME ServersOK, LinksOK, Wired, Replies, NEW d \in FDs, DescriptorKind(d),
         NEW c \in Clients, c # fd[d]
  PROVE  /\ Elsewhere(c)
         /\ \/ far'[c] = far[c] \/ Accepts(c, d)
<1>0. c # NoClient
  BY ClientsAssumption
<1>1. CASE \E x \in Clients : Accepts(x, d)
  <2>1. PICK x \in Clients : Accepts(x, d)
    BY <1>1
  <2>2. /\ fd[d] = NoClient /\ fd' = [fd EXCEPT ![d] = x] /\ far' = [far EXCEPT ![x] = "open"]
        /\ UNCHANGED <<reply, up, down>>
    BY <2>1 DEF Accepts
  <2>3. reply[d] = NoMsg
    BY <2>2 DEF Wired, Replies
  <2>4. Preparing(fd', reply', c) <=> Preparing(fd, reply, c)
    BY <1>0, <2>2, <2>3 DEF Preparing, ServersOK
  <2> QED BY <2>1, <2>2, <2>4 DEF Elsewhere, LinksOK
<1>2. CASE ~\E x \in Clients : Accepts(x, d)
  <2>1. /\ up'[c] = up[c] /\ far'[c] = far[c]
        /\ \A e \in FDs : e # d => fd'[e] = fd[e] /\ reply'[e] = reply[e]
        /\ fd'[d] \in {fd[d], NoClient}
    BY <1>2 DEF DescriptorKind, Welcomes, TurnsAway, Greets, Tells, Resumes, Handles, Answers,
       Closes, serverVars, linkVars, ServersOK, LinksOK
  <2>2. down'[c] = down[c]
    <3>1. CASE Closes(d)
      BY <3>1 DEF Closes, SendOK, LinksOK
    <3>2. CASE ~Closes(d)
      BY <1>2, <3>2 DEF DescriptorKind, Welcomes, TurnsAway, Greets, Tells, Resumes, Handles,
         Answers, SendOK, linkVars, LinksOK
    <3> QED BY <3>1, <3>2
  <2> QED BY <1>0, <2>1, <2>2 DEF Elsewhere, Preparing
<1> QED BY <1>1, <1>2

\* A step of the server settles nothing and promises nothing.
LEMMA ServerOwes ==
  ASSUME Phases, ServersOK, LinksOK, Roomy, ClientsOK, Wired, Greeted, Replies,
         LinksOK', Wired', Greeted',
         Quiet \/ Exits \/ \E d \in FDs : DescriptorKind(d),
         NEW c \in Clients, op[c] \in Served
  PROVE  /\ Owed(c)' <= Owed(c)
         /\ far'[c] = "open" \/ (far'[c] = "queued" /\ main' # "exited") =>
              /\ far[c] = "open" \/ (far[c] = "queued" /\ main # "exited")
              /\ Owed(c)' = Owed(c)
<1> DEFINE P == IF Preparing(fd, reply, c) THEN 1 ELSE 0
           Q == IF Preparing(fd', reply', c) THEN 1 ELSE 0
           U == Len(up[c])
           V == Len(up'[c])
           R == Replied(down[c])
           T == Replied(down'[c])
<1>1. /\ Owed(c) = U + P + R /\ Owed(c)' = V + Q + T
      /\ U \in Nat /\ V \in Nat /\ R \in Nat /\ T \in Nat
  BY OwedIs
<1>2. P \in {0, 1} /\ Q \in {0, 1}
  OBVIOUS
<1>a. Owed(c) \in Nat /\ Owed(c)' \in Nat
  BY OwedIs
<1> HIDE DEF P, Q, U, V, R, T
<1>b. /\ up'[c] = up[c] => V = U
      /\ down'[c] = down[c] => T = R
  BY DEF U, V, R, T
<1>3. up[c] \in Seq(Requests) /\ down[c] \in Seq(Messages)
  BY DEF LinksOK
<1>4. up[c] # <<>> /\ up'[c] = Tail(up[c]) => V = U - 1
  BY <1>3, HeadTailProperties DEF U, V
<1>5. CASE Quiet
  <2>1. Owed(c)' = Owed(c) /\ far' = far /\ (main' = "exited" <=> main = "exited")
    <3>1. UNCHANGED <<fd, reply, up, down, far>> /\ (main' = "exited" <=> main = "exited")
      BY <1>5 DEF Quiet, serverVars, linkVars, MainSame
    <3>2. P = Q
      BY <3>1 DEF P, Q
    <3> QED BY <1>1, <1>b, <3>1, <3>2
  <2> QED BY <1>a, <2>1
<1>6. CASE Exits
  <2>1. up'[c] = <<>> /\ down' = down /\ main' = "exited" /\ far'[c] # "open"
    BY <1>6 DEF Exits
  <2>2. Q = 0
    BY <1>6 DEF Exits, Preparing, Q
  <2>3. V = 0 /\ T = R
    BY <2>1, EmptySeq DEF V, T, R
  <2> QED BY <1>1, <1>2, <2>1, <2>2, <2>3
<1>7. ASSUME NEW d \in FDs, DescriptorKind(d)
      PROVE  /\ Owed(c)' <= Owed(c)
             /\ far'[c] = "open" \/ (far'[c] = "queued" /\ main' # "exited") =>
                  /\ far[c] = "open" \/ (far[c] = "queued" /\ main # "exited")
                  /\ Owed(c)' = Owed(c)
  <2>0. main' = main /\ op' = op
    BY <1>7 DEF DescriptorKind, Accepts, Welcomes, TurnsAway, Greets, Tells, Resumes, Handles,
       Answers, Closes, clientVars
  <2>1. CASE c # fd[d]
    <3>1. Elsewhere(c) /\ (far'[c] = far[c] \/ Accepts(c, d))
      BY <1>7, <2>1, DescriptorElsewhere
    <3>2. Owed(c)' = Owed(c)
      <4>1. P = Q /\ V = U /\ T = R
        BY <3>1, <1>b DEF Elsewhere, P, Q
      <4> QED BY <1>1, <4>1
    <3>3. Accepts(c, d) => far[c] = "queued" /\ main # "exited"
      BY DEF Accepts, Phases
    <3> QED BY <1>a, <2>0, <3>1, <3>2, <3>3
  <2>2. CASE c = fd[d]
    <3>0. /\ P = 1 <=> reply[d] # NoMsg
          /\ fd'[d] = c => (Q = 1 <=> reply'[d] # NoMsg)
      <4>1. Preparing(fd, reply, c) <=> reply[d] # NoMsg
        BY <2>2, PreparedHere
      <4>2. fd'[d] = c => (Preparing(fd', reply', c) <=> reply'[d] # NoMsg)
        BY ClientsAssumption DEF Wired, Preparing
      <4> QED BY <4>1, <4>2 DEF P, Q
    <3>b. far[c] = "open"
      BY <2>2 DEF Wired
    <3>c. ASSUME Owed(c)' = Owed(c)
          PROVE  /\ Owed(c)' <= Owed(c)
                 /\ far'[c] = "open" \/ (far'[c] = "queued" /\ main' # "exited") =>
                      /\ far[c] = "open" \/ (far[c] = "queued" /\ main # "exited")
                      /\ Owed(c)' = Owed(c)
      BY <1>a, <3>b, <3>c
    <3>1. CASE \E x \in Clients : Accepts(x, d)
      BY <2>2, <3>1, ClientsAssumption DEF Accepts
    <3>2. CASE Welcomes(d)
      <4>1. /\ acceptor = "first" /\ acceptor_fd = d /\ fd' = fd /\ down' = down
            /\ reply'[d] = Msg("CONNECT_ACK", 0, "-", 0)
        BY <3>2 DEF Welcomes, Greets, ServersOK
      <4>2. up[c] # <<>> /\ up'[c] = Tail(up[c])
        BY <2>2, <3>2, ClientsAssumption DEF Welcomes, Greets, Gone, Served, Calls, LinksOK
      <4>3. reply[d] = NoMsg
        BY <4>1 DEF Wired, Replies
      <4>4. reply'[d] # NoMsg
        BY <4>1 DEF Msg, NoMsg
      <4>5. P = 0 /\ Q = 1
        BY <1>2, <2>2, <3>0, <4>1, <4>3, <4>4
      <4> QED BY <1>1, <1>4, <1>b, <3>c, <4>1, <4>2, <4>5
    <3>3. CASE TurnsAway(d)
      <4>1. acceptor' = "refuse" /\ acceptor_fd' = d /\ fd' = fd
        BY <3>3 DEF TurnsAway, Greets
      <4>2. op[c] \in {"REGISTER", "END"}
        BY <2>0, <2>2, <4>1 DEF Greeted, Attended
      <4> QED BY <4>2 DEF Served, Calls
    <3>4. CASE \E m : Tells(d, m)
      <4>1. PICK m : Tells(d, m)
        BY <3>4
      <4>2. m \in Messages /\ m.type \in Announcements /\ UNCHANGED <<fd, reply, up>>
        BY <4>1 DEF Tells, serverVars
      <4>3. P = Q
        BY <1>2, <2>2, <3>0, <4>2
      <4>4. T = R
        <5>1. down' = down \/ down'[c] = Append(down[c], m)
          BY <2>2, <4>1 DEF Tells, SendOK, LinksOK
        <5>2. Replied(Append(down[c], m)) = Replied(down[c]) + Counts(m)
          BY <1>3, <4>2, RepliedAppend
        <5>3. Counts(m) = 0
          BY <4>2 DEF Counts
        <5>4. Replied(Append(down[c], m)) = R
          BY <1>1, <5>2, <5>3 DEF R
        <5> QED BY <5>1, <5>4 DEF T, R
      <4> QED BY <1>1, <1>b, <3>c, <4>2, <4>3, <4>4
    <3>5. CASE Resumes(d)
      <4>1. UNCHANGED <<fd, reply, up, down>>
        BY <3>5 DEF Resumes, linkVars
      <4>2. P = Q
        BY <1>2, <2>2, <3>0, <4>1
      <4> QED BY <1>1, <1>b, <3>c, <4>1, <4>2
    <3>6. CASE \E m : Handles(d, m)
      <4>1. PICK m : Handles(d, m)
        BY <3>6
      <4>2. reply'[d] # NoMsg /\ fd' = fd /\ down' = down
        BY <4>1, NoMessage DEF Handles, ServersOK
      <4>3. Q = 1
        BY <2>2, <3>0, <4>2
      <4>4. CASE handler[d] = "recv"
        <5>1. reply[d] = NoMsg
          BY <4>4 DEF Replies
        <5>2. up[c] # <<>> /\ up'[c] = Tail(up[c])
          BY <2>2, <4>1, <4>4 DEF Handles, LinksOK
        <5>3. P = 0
          BY <1>2, <3>0, <5>1
        <5> QED BY <1>1, <1>4, <1>b, <3>c, <4>2, <4>3, <5>2, <5>3
      <4>5. CASE handler[d] = "result"
        <5>1. reply[d] # NoMsg /\ up' = up
          BY <4>1, <4>5 DEF Replies, Handles
        <5>2. P = 1
          BY <3>0, <5>1
        <5> QED BY <1>1, <1>b, <3>c, <4>2, <4>3, <5>1, <5>2
      <4> QED BY <4>1, <4>4, <4>5 DEF Handles
    <3>7. CASE Answers(d)
      <4>1. handler[d] = "reply" /\ UNCHANGED <<fd, up>> /\ reply'[d] = NoMsg
        BY <3>7 DEF Answers, ServersOK
      <4>2. reply[d] \in Messages /\ reply[d] # NoMsg /\ reply[d].type \notin Announcements
        BY <4>1 DEF Replies, ServersOK
      <4>3. P = 1 /\ Q = 0
        BY <1>2, <2>2, <3>0, <4>1, <4>2
      <4>4. down'[c] = Append(down[c], reply[d])
        BY <2>2, <3>7 DEF Answers, SendOK, LinksOK
      <4>5. T = R + 1
        BY <1>3, <4>2, <4>4, RepliedAppend DEF Counts, T, R
      <4> QED BY <1>1, <1>b, <3>c, <4>1, <4>3, <4>5
    <3>8. CASE Closes(d)
      <4>1. far'[c] = "closed" /\ fd' = [fd EXCEPT ![d] = NoClient]
        BY <2>2, <3>8 DEF Closes, LinksOK
      <4>2. ~Preparing(fd', reply', c)
        BY <2>2, <4>1, ClientsAssumption DEF Wired, ServersOK, Preparing
      <4>3. V <= U
        <5>1. up'[c] = up[c] \/ up'[c] = <<>>
          BY <2>2, <3>8 DEF Closes, LinksOK
        <5>2. up'[c] = <<>> => V = 0
          BY EmptySeq DEF V
        <5> QED BY <1>1, <1>b, <5>1, <5>2
      <4>4. T <= R
        <5>1. op[c] # "REGISTER"
          BY DEF Served, Calls
        <5>2. \/ down' = down
              \/ \E n \in 0 .. Len(down[c]) : down'[c] = SubSeq(down[c], 1, n)
          BY <2>2, <3>8, <5>1 DEF Closes, LinksOK
        <5>3. ASSUME NEW n \in 0 .. Len(down[c]), down'[c] = SubSeq(down[c], 1, n)
              PROVE  T <= R
          BY <1>3, <5>3, RepliedSubSeq DEF T, R
        <5>4. down' = down => T <= R
          BY <1>1, <1>b
        <5> QED BY <5>2, <5>3, <5>4
      <4>5. Q = 0
        BY <4>2 DEF Q
      <4> QED BY <1>1, <1>2, <4>1, <4>3, <4>4, <4>5
    <3> QED BY <1>7, <3>1, <3>2, <3>3, <3>4, <3>5, <3>6, <3>7, <3>8 DEF DescriptorKind
  <2> QED BY <2>1, <2>2
<1> QED BY <1>5, <1>6, <1>7
\* A call is one answer more to wait for, and what it reads is one less.
LEMMA ClientOwes ==
  ASSUME ServersOK, LinksOK, ClientsOK, Wired, Greeted, Owes, LinksOK', Wired',
         NEW c \in Clients, ClientKind(c)
  PROVE  OwesClient(c)'
<1> DEFINE P == IF Preparing(fd, reply, c) THEN 1 ELSE 0
           U == Len(up[c])
           V == Len(up'[c])
           R == Replied(down[c])
           T == Replied(down'[c])
           Same == far'[c] = far[c] /\ main' = main
<1>1. UNCHANGED <<main, fd, reply>>
  BY OthersStill DEF Alone, serverVars
<1>2. /\ Owed(c) = U + P + R /\ Owed(c)' = V + P + T
      /\ U \in Nat /\ V \in Nat /\ R \in Nat /\ T \in Nat
  BY <1>1, OwedIs
<1>3. P \in {0, 1}
  OBVIOUS
<1>4. up[c] \in Seq(Requests) /\ down[c] \in Seq(Messages) /\ behind[c] \in Nat
  BY DEF LinksOK, ClientsOK
<1>5. /\ up'[c] = up[c] => V = U
      /\ down'[c] = down[c] => T = R
  OBVIOUS
<1> HIDE DEF P, U, V, R, T
<1>6. CASE op'[c] \notin Served
  BY <1>6 DEF OwesClient
<1>7. CASE \E g : Comes(c, g)
  <2>1. PICK g : Comes(c, g)
    BY <1>7
  <2>2. /\ op[c] = "NEW" /\ g \in Greetings /\ op'[c] = g
        /\ up'[c] = IF g = "SILENT" THEN <<>> ELSE <<[type |-> g, job |-> 0, tag |-> 0]>>
        /\ UNCHANGED <<down, behind>>
    BY <2>1 DEF Comes, LinksOK, ClientsOK
  <2>3. far[c] = "none" /\ down[c] = <<>> /\ behind[c] = 0
    BY <2>2 DEF Greeted, GreetedClient
  <2>4. P = 0
    BY <2>3 DEF Wired, Preparing, P
  <2>5. T = 0
    BY <2>2, <2>3, RepliedEmpty DEF T
  <2>6. CASE g = "CLIENT_CONNECT"
    <3>1. V = 1
      BY <2>2, <2>6 DEF V
    <3>2. Waiting(c)' /\ behind'[c] = 0
      BY <2>2, <2>3, <2>6 DEF Waiting, Greetings
    <3>3. Owed(c)' = 1
      BY <1>2, <2>4, <2>5, <3>1
    <3> QED BY <3>2, <3>3 DEF OwesClient
  <2>7. CASE g # "CLIENT_CONNECT"
    BY <1>6, <2>2, <2>7 DEF Greetings, Served, Calls
  <2> QED BY <2>6, <2>7
<1>8. ASSUME NEW o, NEW j, NEW t, Send(c, o, j, t)
      PROVE  (far[c] = "closed" /\ V = U) \/ (far[c] # "closed" /\ V = U + 1)
  <2>1. CASE far[c] = "closed"
    BY <1>5, <1>8, <2>1 DEF Send
  <2>2. CASE far[c] # "closed"
    <3>1. up'[c] = Append(up[c], [type |-> o, job |-> j, tag |-> t])
      BY <1>8, <2>2 DEF Send, LinksOK
    <3>2. V = U + 1
      BY <1>4, <3>1 DEF U, V
    <3> QED BY <2>2, <3>2
  <2> QED BY <2>1, <2>2
<1>9. CASE \E o, j : Asks(c, o, j)
  <2>1. PICK o, j : Asks(c, o, j)
    BY <1>9
  <2>2. op[c] = "IDLE" /\ op'[c] = o /\ o \in Calls /\ UNCHANGED <<down, far, behind>>
        /\ Send(c, o, j, call'[c])
    BY <2>1 DEF Asks, ClientsOK
  <2>3. (far[c] = "closed" /\ V = U) \/ (far[c] # "closed" /\ V = U + 1)
    BY <1>8, <2>2
  <2>4. ~Waiting(c) /\ op[c] \in Served
    BY <2>2 DEF Waiting, Greetings, Calls, Served
  <2>5. Waiting(c)'
    BY <2>2 DEF Waiting
  <2>6. /\ Owed(c) <= behind[c]
        /\ far[c] = "open" \/ (far[c] = "queued" /\ main # "exited") => Owed(c) = behind[c]
    BY <1>4, <2>4 DEF Owes, OwesClient
  <2>7. T = R
    BY <1>5, <2>2
  <2>8. /\ Owed(c)' <= behind[c] + 1
        /\ far[c] = "open" \/ (far[c] = "queued" /\ main # "exited") => Owed(c)' = behind[c] + 1
    BY <1>2, <1>3, <1>4, <2>3, <2>6, <2>7
  <2> QED BY <1>1, <2>2, <2>5, <2>8 DEF OwesClient
<1>10. CASE Returns(c)
  <2> DEFINE m == Head(down[c])
             W == IF Waiting(c)' THEN 1 ELSE 0
  <2>1. /\ op[c] \in Calls \cup {"CLIENT_CONNECT"} /\ far[c] \notin {"none", "queued"} /\ down[c] # <<>>
        /\ Return(c, m) /\ far' = far
    BY <1>10, ReturnsServed DEF Returns
  <2>2. Waiting(c) /\ op[c] \in Served
    BY <2>1 DEF Waiting, Served, Greetings
  <2>3. /\ Owed(c) <= behind[c] + 1
        /\ far[c] = "open" => Owed(c) = behind[c] + 1
    BY <1>4, <2>2 DEF Owes, OwesClient
  <2>4. down'[c] = Tail(down[c])
    BY <2>1 DEF Return, LinksOK
  <2>5. R = T + Counts(m)
    BY <1>4, <2>1, <2>4, RepliedTail DEF R, T
  <2>6. behind'[c] = IF m.type \in Announcements THEN behind[c] + 1 ELSE behind[c]
    BY <2>1 DEF Return, ClientsOK
  <2>7. behind'[c] = behind[c] + 1 - Counts(m) /\ Counts(m) \in {0, 1}
    BY <1>4, <2>6 DEF Counts
  <2> HIDE DEF m
  <2>8. CASE op' = [op EXCEPT ![c] = "IDLE"] /\ up' = up
    <3>1. V = U /\ ~Waiting(c)'
      BY <1>5, <2>8 DEF Waiting, Greetings, Calls, ClientsOK
    <3>2. /\ Owed(c)' <= behind'[c]
          /\ far[c] = "open" => Owed(c)' = behind'[c]
      BY <1>2, <1>3, <1>4, <2>3, <2>5, <2>7, <3>1
    <3>3. behind'[c] \in Nat
      BY <1>4, <2>7
    <3> QED BY <1>1, <2>1, <3>1, <3>2, <3>3 DEF OwesClient
  <2>9. CASE /\ op[c] = "GET_JOB_STATUS" /\ m.type = Expected(op[c])
             /\ Send(c, op[c], asked[c], call[c]) /\ op' = op
    <3>1. Counts(m) = 1
      BY <2>9 DEF Counts, Expected, Announcements
    <3>2. (far[c] = "closed" /\ V = U) \/ (far[c] # "closed" /\ V = U + 1)
      BY <1>8, <2>9
    <3>3. Waiting(c)'
      BY <2>2, <2>9 DEF Waiting
    <3>4. /\ Owed(c)' <= behind'[c] + 1
          /\ far[c] = "open" => Owed(c)' = behind'[c] + 1
      BY <1>2, <1>3, <1>4, <2>3, <2>5, <2>7, <3>1, <3>2
    <3> QED BY <1>1, <2>1, <3>3, <3>4 DEF OwesClient
  <2> QED BY <2>1, <2>8, <2>9 DEF Return, m
<1>11. CASE Leaves(c) \/ Loses(c) \/ Refused(c)
  <2>1. op'[c] = "END"
    BY <1>11 DEF Leaves, Leave, Loses, Refused, clientVars, ClientsOK
  <2> QED BY <1>6, <2>1 DEF Served, Calls
<1> QED BY <1>7, <1>9, <1>10, <1>11 DEF ClientKind

\* Requests and answers stay in step.
LEMMA OwesStep ==
  ASSUME Phases, ServersOK, LinksOK, Roomy, ClientsOK, Wired, Greeted, Replies, Owes,
         LinksOK', ClientsOK', Wired', Greeted', Kind
  PROVE  Owes'
<1> SUFFICES ASSUME NEW c \in Clients PROVE OwesClient(c)'
  BY DEF Owes
<1>0. OwesClient(c) /\ behind[c] \in Nat
  BY DEF Owes, ClientsOK
<1>1. CASE Quiet \/ Exits \/ \E d \in FDs : DescriptorKind(d)
  <2>1. UNCHANGED <<op, behind>>
    BY <1>1, ServerEffect DEF clientVars
  <2>2. CASE op[c] \notin Served
    BY <2>1, <2>2 DEF OwesClient
  <2>3. CASE op[c] \in Served
    <3>1. /\ Owed(c)' <= Owed(c)
          /\ far'[c] = "open" \/ (far'[c] = "queued" /\ main' # "exited") =>
               /\ far[c] = "open" \/ (far[c] = "queued" /\ main # "exited")
               /\ Owed(c)' = Owed(c)
      BY <1>1, <2>3, ServerOwes
    <3> DEFINE k == behind[c] + (IF Waiting(c) THEN 1 ELSE 0)
    <3>2. k \in Nat /\ behind'[c] + (IF Waiting(c)' THEN 1 ELSE 0) = k
      BY <1>0, <2>1 DEF Waiting
    <3>3. Owed(c) \in Nat /\ Owed(c)' \in Nat
      BY OwedIs
    <3>4. Owed(c) <= k /\ (far[c] = "open" \/ (far[c] = "queued" /\ main # "exited") => Owed(c) = k)
      BY <1>0, <2>3 DEF OwesClient
    <3>5. /\ Owed(c)' <= k
          /\ far'[c] = "open" \/ (far'[c] = "queued" /\ main' # "exited") => Owed(c)' = k
      <4> HIDE DEF k
      <4> QED BY <3>1, <3>2, <3>3, <3>4
    <3> QED BY <3>2, <3>5 DEF OwesClient
  <2> QED BY <2>2, <2>3
<1>2. ASSUME NEW x \in Clients, ClientKind(x)
      PROVE  OwesClient(c)'
  <2>1. CASE c = x
    BY <1>2, <2>1, ClientOwes
  <2>2. CASE c # x
    <3>1. Still(c) /\ UNCHANGED <<main, fd, reply>>
      BY <1>2, <2>2, OthersStill DEF Alone, serverVars
    <3>2. Owed(c)' = Owed(c) /\ (Waiting(c)' <=> Waiting(c))
      BY <3>1 DEF Still, Owed, Waiting
    <3> QED BY <1>0, <3>1, <3>2 DEF OwesClient, Still
  <2> QED BY <2>1, <2>2
<1> QED BY <1>1, <1>2 DEF Kind
\* What a server step prepares for a client carries the number of its call.
LEMMA ServerTagged ==
  ASSUME ServersOK, LinksOK, Roomy, ClientsOK, Wired, Greeted, Greeted', Replies, Tagged,
         Quiet \/ Exits \/ \E d \in FDs : DescriptorKind(d), NEW c \in Clients
  PROVE  TaggedClient(c)'
<1>1. UNCHANGED <<op, call, behind>> /\ Effect(c) /\ TaggedClient(c)
  BY ServerEffect DEF clientVars, Tagged
<1>2. SUFFICES ASSUME op[c] \in Served, behind[c] = 0
               PROVE  /\ \A i \in DOMAIN up'[c] : up'[c][i].tag = call[c]
                      /\ \A d \in FDs : fd'[d] = c /\ reply'[d] # NoMsg => reply'[d].tag = call[c]
                      /\ \A i \in DOMAIN down'[c] :
                           down'[c][i].type \notin Announcements => down'[c][i].tag = call[c]
  BY <1>1 DEF TaggedClient
<1>3. /\ \A i \in DOMAIN up[c] : up[c][i].tag = call[c]
      /\ \A d \in FDs : fd[d] = c /\ reply[d] # NoMsg => reply[d].tag = call[c]
      /\ \A i \in DOMAIN down[c] :
           down[c][i].type \notin Announcements => down[c][i].tag = call[c]
  BY <1>1, <1>2 DEF TaggedClient
<1>4. \A i \in DOMAIN up'[c] : up'[c][i].tag = call[c]
  BY <1>1, <1>3 DEF Effect, From
<1>5. \A i \in DOMAIN down'[c] :
        down'[c][i].type \notin Announcements => down'[c][i].tag = call[c]
  <2>1. CASE down'[c] = down[c] \/ From(down'[c], down[c])
    BY <1>3, <2>1 DEF From
  <2>2. ASSUME NEW m \in Messages, Written(c, m), FromOr(down'[c], down[c], m)
        PROVE  \A i \in DOMAIN down'[c] :
                 down'[c][i].type \notin Announcements => down'[c][i].tag = call[c]
    <3>1. op[c] # "REGISTER"
      BY <1>2 DEF Served, Calls
    <3>2. \A d \in FDs : handler[d] = "reply" => reply[d] # NoMsg
      BY DEF Replies
    <3>3. m.type \in Announcements \/ m.tag = call[c]
      BY <1>3, <2>2, <3>1, <3>2 DEF Written
    <3> QED BY <1>3, <2>2, <3>3 DEF FromOr
  <2> QED BY <1>1, <2>1, <2>2 DEF Effect
<1>6. ASSUME NEW d \in FDs, fd'[d] = c, reply'[d] # NoMsg
      PROVE  reply'[d].tag = call[c]
  <2>1. CASE fd'[d] = fd[d] /\ reply'[d] = reply[d]
    BY <1>3, <1>6, <2>1
  <2>2. CASE Quiet \/ Exits
    BY <1>6, <2>1, <2>2 DEF Quiet, Exits, serverVars
  <2>3. ASSUME NEW e \in FDs, DescriptorKind(e)
        PROVE  reply'[d].tag = call[c]
    <3>1. CASE d # e
      <4>1. fd'[d] = fd[d] /\ reply'[d] = reply[d]
        BY <2>3, <3>1 DEF DescriptorKind, Accepts, Welcomes, TurnsAway, Greets, Tells, Resumes,
           Handles, Answers, Closes, serverVars, ServersOK
      <4> QED BY <2>1, <4>1
    <3>2. CASE \E x \in Clients : Accepts(x, d)
      <4>1. fd[d] = NoClient /\ reply' = reply
        BY <3>2 DEF Accepts
      <4>2. reply[d] = NoMsg
        BY <4>1 DEF Wired, Replies
      <4> QED BY <1>6, <4>1, <4>2
    <3>3. CASE Welcomes(d)
      <4>1. reply'[d] = Msg("CONNECT_ACK", 0, "-", 0) /\ fd' = fd /\ acceptor = "first" /\ acceptor_fd = d
        BY <3>3 DEF Welcomes, Greets, ServersOK
      <4>2. op[c] = "CLIENT_CONNECT"
        <5>1. op[c] \in Greetings \cup {"END"}
          BY <1>6, <4>1 DEF Greeted, Attended
        <5> QED BY <1>2, <5>1 DEF Served, Calls, Greetings
      <4>3. call[c] = 0
        BY <4>2 DEF Greeted, GreetedClient
      <4> QED BY <4>1, <4>3 DEF Msg
    <3>4. CASE TurnsAway(d) \/ (\E m : Tells(d, m)) \/ Resumes(d)
      <4>1. fd'[d] = fd[d] /\ reply'[d] = reply[d]
        BY <3>4 DEF TurnsAway, Greets, Tells, Resumes, serverVars
      <4> QED BY <2>1, <4>1
    <3>5. CASE \E m : Handles(d, m)
      <4>1. PICK m : Handles(d, m)
        BY <3>5
      <4>2. reply'[d] = m /\ fd[d] = c
        BY <1>6, <4>1 DEF Handles, ServersOK
      <4>3. CASE up[c] # <<>> /\ m.tag = Head(up[c]).tag
        <5>1. Head(up[c]) = up[c][1] /\ 1 \in DOMAIN up[c]
          BY <4>3, Elements DEF LinksOK
        <5> QED BY <1>3, <4>2, <4>3, <5>1
      <4>4. CASE handler[d] = "result" /\ m.tag = reply[d].tag
        BY <1>3, <4>2, <4>4 DEF Replies
      <4> QED BY <4>1, <4>2, <4>3, <4>4 DEF Handles
    <3>6. CASE Answers(d) \/ Closes(d)
      BY <1>6, <3>6 DEF Answers, Closes, ServersOK
    <3> QED BY <2>3, <3>1, <3>2, <3>3, <3>4, <3>5, <3>6 DEF DescriptorKind
  <2> QED BY <2>2, <2>3
<1> QED BY <1>4, <1>5, <1>6

\* Nothing is owed to a client that is not waiting and has not been misled.
LEMMA NothingOwed ==
  ASSUME LinksOK, LinksOK', Wired, Wired', Owes, NEW c \in Clients, op[c] = "IDLE", behind[c] = 0
  PROVE  /\ up[c] = <<>> /\ ~Preparing(fd, reply, c)
         /\ \A i \in DOMAIN down[c] : down[c][i].type \in Announcements
<1> DEFINE U == Len(up[c])
           R == Replied(down[c])
<1>1. Owed(c) <= 0
  <2>1. op[c] \in Served /\ ~Waiting(c)
    BY DEF Served, Waiting, Greetings, Calls
  <2> QED BY <2>1 DEF Owes, OwesClient
<1>2. /\ Owed(c) = U + (IF Preparing(fd, reply, c) THEN 1 ELSE 0) + R
      /\ U \in Nat /\ R \in Nat
  BY OwedIs
<1>3. up[c] \in Seq(Requests) /\ down[c] \in Seq(Messages)
  BY DEF LinksOK
<1> HIDE DEF U, R
<1>4. U = 0 /\ R = 0 /\ ~Preparing(fd, reply, c)
  <2>1. CASE Preparing(fd, reply, c)
    BY <1>1, <1>2, <2>1
  <2>2. CASE ~Preparing(fd, reply, c)
    BY <1>1, <1>2, <2>2
  <2> QED BY <2>1, <2>2
<1>5. up[c] = <<>>
  BY <1>3, <1>4, EmptySeq DEF U
<1>6. AnswersAt(down[c]) = {}
  BY <1>3, <1>4, RepliedType, FS_EmptySet DEF Replied, R
<1> QED BY <1>4, <1>5, <1>6 DEF AnswersAt

\* A client's request carries the number of its call.
LEMMA ClientTagged ==
  ASSUME ServersOK, LinksOK, ClientsOK, Wired, Greeted, Owes, Tagged, LinksOK', Wired',
         NEW c \in Clients, ClientKind(c)
  PROVE  TaggedClient(c)'
<1>1. UNCHANGED <<fd, reply>> /\ TaggedClient(c)
  BY OthersStill DEF Alone, serverVars, Tagged
<1>2. CASE op'[c] \notin Served
  BY <1>2 DEF TaggedClient
<1>3. CASE \E g : Comes(c, g)
  <2>1. PICK g : Comes(c, g)
    BY <1>3
  <2>2. /\ op[c] = "NEW" /\ g \in Greetings /\ op'[c] = g
        /\ up'[c] = IF g = "SILENT" THEN <<>> ELSE <<[type |-> g, job |-> 0, tag |-> 0]>>
        /\ UNCHANGED <<down, call>>
    BY <2>1 DEF Comes, LinksOK, ClientsOK
  <2>3. far[c] = "none" /\ down[c] = <<>> /\ call[c] = 0
    BY <2>2 DEF Greeted, GreetedClient
  <2>4. \A i \in DOMAIN up'[c] : up'[c][i].tag = 0
    BY <2>2
  <2>5. \A d \in FDs : fd'[d] # c
    BY <1>1, <2>3 DEF Wired
  <2> QED BY <2>2, <2>3, <2>4, <2>5 DEF TaggedClient
<1>4. ASSUME NEW o, NEW j, NEW t, Send(c, o, j, t),
             up' \in [Clients -> Seq(Requests)]
      PROVE  \A i \in DOMAIN up'[c] : up'[c][i].tag = t \/ \E k \in DOMAIN up[c] : up'[c][i] = up[c][k]
  <2>1. CASE far[c] = "closed"
    BY <1>4, <2>1 DEF Send
  <2>2. CASE far[c] # "closed"
    <3> DEFINE r == [type |-> o, job |-> j, tag |-> t]
    <3>1. up'[c] = Append(up[c], r) /\ r.tag = t
      BY <1>4, <2>2 DEF Send, LinksOK
    <3>2. up[c] \in Seq(Requests)
      BY DEF LinksOK
    <3> HIDE DEF r
    <3>3. /\ DOMAIN up'[c] = 1 .. Len(up[c]) + 1 /\ up'[c][Len(up[c]) + 1] = r
          /\ DOMAIN up[c] = 1 .. Len(up[c]) /\ Len(up[c]) \in Nat
          /\ \A i \in 1 .. Len(up[c]) : up'[c][i] = up[c][i]
      BY <3>1, <3>2
    <3>4. \A i \in 1 .. Len(up[c]) + 1 : i \in 1 .. Len(up[c]) \/ i = Len(up[c]) + 1
      BY <3>3
    <3> QED BY <3>1, <3>3, <3>4
  <2> QED BY <2>1, <2>2
<1>5. up' \in [Clients -> Seq(Requests)]
  BY DEF LinksOK
<1>6. CASE \E o, j : Asks(c, o, j)
  <2>1. PICK o, j : Asks(c, o, j)
    BY <1>6
  <2>2. op[c] = "IDLE" /\ UNCHANGED <<down, behind>> /\ Send(c, o, j, call'[c])
    BY <2>1 DEF Asks
  <2>3. CASE behind[c] # 0
    BY <2>2, <2>3 DEF TaggedClient
  <2>4. CASE behind[c] = 0
    <3>1. /\ up[c] = <<>> /\ ~Preparing(fd, reply, c)
          /\ \A i \in DOMAIN down[c] : down[c][i].type \in Announcements
      BY <2>2, <2>4, NothingOwed
    <3>2. \A i \in DOMAIN up'[c] : up'[c][i].tag = call'[c]
      BY <1>4, <1>5, <2>2, <3>1
    <3> QED BY <1>1, <2>2, <3>1, <3>2 DEF TaggedClient, Preparing
  <2> QED BY <2>3, <2>4
<1>7. CASE Returns(c)
  <2> DEFINE m == Head(down[c])
  <2>1. /\ op[c] \in Calls \cup {"CLIENT_CONNECT"} /\ down[c] # <<>> /\ down[c] \in Seq(Messages)
        /\ Return(c, m)
    BY <1>7, ReturnsServed DEF Returns
  <2>2. op[c] \in Served /\ call' = call /\ (behind'[c] = 0 => behind[c] = 0)
    BY <2>1 DEF Served, Return, ClientsOK
  <2>3. From(down'[c], down[c])
    <3>1. down'[c] = Tail(down[c])
      BY <2>1 DEF Return, LinksOK
    <3> QED BY <2>1, <3>1, Elements
  <2>4. up' = up \/ Send(c, op[c], asked[c], call[c])
    BY <2>1 DEF Return
  <2>5. \A i \in DOMAIN up'[c] : up'[c][i].tag = call[c] \/ \E k \in DOMAIN up[c] : up'[c][i] = up[c][k]
    BY <1>4, <1>5, <2>4
  <2> QED BY <1>1, <2>2, <2>3, <2>5 DEF TaggedClient, From
<1>8. CASE Leaves(c) \/ Loses(c) \/ Refused(c)
  <2>1. op'[c] = "END"
    BY <1>8 DEF Leaves, Leave, Loses, Refused, clientVars, ClientsOK
  <2> QED BY <1>2, <2>1 DEF Served, Calls
<1> QED BY <1>3, <1>6, <1>7, <1>8 DEF ClientKind

\* Tags stay right, and only a client that took an announcement for an answer
\* accepts the answer of another call.
LEMMA TaggedStep ==
  ASSUME ServersOK, LinksOK, Roomy, ClientsOK, Wired, Greeted, Replies, Owes, Tagged,
         LinksOK', Wired', Greeted', Kind
  PROVE  Tagged'
<1> SUFFICES ASSUME NEW c \in Clients PROVE TaggedClient(c)'
  BY DEF Tagged
<1>1. CASE Quiet \/ Exits \/ \E d \in FDs : DescriptorKind(d)
  BY <1>1, ServerTagged
<1>2. ASSUME NEW x \in Clients, ClientKind(x)
      PROVE  TaggedClient(c)'
  <2>1. CASE c = x
    BY <1>2, <2>1, ClientTagged
  <2>2. CASE c # x
    <3>1. Still(c) /\ UNCHANGED <<fd, reply>> /\ TaggedClient(c)
      BY <1>2, <2>2, OthersStill DEF Alone, serverVars, Tagged
    <3> QED BY <3>1 DEF Still, TaggedClient
  <2> QED BY <2>1, <2>2
<1> QED BY <1>1, <1>2 DEF Kind

LEMMA MisledStep ==
  ASSUME ServersOK, LinksOK, Roomy, ClientsOK, Wired, Greeted, Replies, Tagged, Misled, Kind
  PROVE  Misled'
<1> SUFFICES ASSUME NEW c \in Clients, misled'[c] PROVE behind'[c] > 0
  BY DEF Misled
<1>0. (misled[c] => behind[c] > 0) /\ behind[c] \in Nat /\ TaggedClient(c)
  BY DEF Misled, ClientsOK, Tagged
<1>1. CASE Quiet \/ Exits \/ \E d \in FDs : DescriptorKind(d)
  BY <1>0, <1>1, ServerEffect DEF clientVars
<1>2. ASSUME NEW x \in Clients, ClientKind(x)
      PROVE  behind'[c] > 0
  <2>1. CASE c # x
    BY <1>0, <1>2, <2>1, OthersStill DEF Still
  <2>2. CASE c = x /\ Returns(c)
    <3> DEFINE m == Head(down[c])
    <3>1. /\ op[c] \in Calls \cup {"CLIENT_CONNECT"} /\ Return(c, m)
          /\ m = down[c][1] /\ 1 \in DOMAIN down[c]
      BY <2>2, ReturnsServed DEF Returns
    <3>2. /\ misled[c] \/ (m.type = Expected(op[c]) /\ m.tag # call[c])
          /\ behind'[c] = IF m.type \in Announcements THEN behind[c] + 1 ELSE behind[c]
      <4>1. misled[c] \/ (m.type = Expected(op[c]) /\ m.tag # call[c])
        BY <3>1 DEF Return, ClientsOK
      <4> QED BY <3>1, <4>1 DEF Return, ClientsOK
    <3>3. m.type \notin Announcements /\ behind[c] = 0 => m.tag = call[c]
      BY <1>0, <3>1 DEF TaggedClient, Served
    <3> HIDE DEF m
    <3>4. CASE behind[c] = 0
      <4>1. m.type = Expected(op[c]) /\ m.tag # call[c]
        BY <1>0, <3>2, <3>4
      <4>2. m.type \in Announcements
        BY <3>3, <3>4, <4>1
      <4> QED BY <3>2, <3>4, <4>2
    <3>5. CASE behind[c] # 0
      BY <1>0, <3>2, <3>5
    <3> QED BY <3>4, <3>5
  <2>3. CASE c = x /\ ~Returns(c)
    <3>1. misled'[c] = FALSE \/ UNCHANGED <<misled, behind>>
      BY <1>2, <2>3 DEF ClientKind, Comes, Asks, Leaves, Leave, Loses, Refused, clientVars, ClientsOK
    <3> QED BY <1>0, <3>1
  <2> QED BY <2>1, <2>2, <2>3
<1> QED BY <1>1, <1>2 DEF Kind
-----------------------------------------------------------------------------
(***************************************************************************)
(* The theorems.                                                           *)
(***************************************************************************)
LEMMA InductiveInit == Init => ClientsInductive
<1> SUFFICES ASSUME Init PROVE ClientsInductive
  OBVIOUS
<1>1. 0 \in 0 .. MaxFDs /\ 0 \in 0 .. MaxJobs /\ 0 \in 0 .. MaxCalls
  BY ClientsAssumption
<1>2. Phases /\ TableOK /\ DueOK
  BY <1>1, ClientsAssumption DEF Init, Phases, TableOK, DueOK, Peers
<1>3. ServersOK /\ LinksOK
  BY DEF Init, ServersOK, LinksOK, Peers
<1>4. Roomy
  BY ClientsAssumption, EmptySeq DEF Init, Roomy
<1>5. ClientsOK
  BY <1>1 DEF Init, ClientsOK, Ops
<1>6. Wired
  BY ClientsAssumption DEF Init, Wired
<1>7. Greeted
  BY DEF Init, Greeted, GreetedClient, Attended
<1>8. Replies
  BY NoMessage DEF Init, Replies
<1>9. Numbered /\ Submitted /\ Misled
  BY DEF Init, Numbered, Submitted, Misled
<1>10. Owners
  BY DEF Init, Owners
<1>11. Owes /\ Tagged
  BY DEF Init, Owes, OwesClient, Tagged, TaggedClient, Served, Calls
<1> QED BY <1>2, <1>3, <1>4, <1>5, <1>6, <1>7, <1>8, <1>9, <1>10, <1>11 DEF ClientsInductive

LEMMA InductiveStep ==
  ASSUME ClientsInductive, [Next]_vars
  PROVE  ClientsInductive'
<1>1. /\ Phases /\ TableOK /\ DueOK /\ ServersOK /\ LinksOK /\ Roomy /\ ClientsOK
      /\ Wired /\ Greeted /\ Replies /\ Numbered /\ Owners /\ Submitted
      /\ Owes /\ Tagged /\ Misled
  BY DEF ClientsInductive
<1>2. Kind /\ TableKind
  BY StepKind, TableStep
<1>3. Phases' /\ DueOK'
  BY <1>1, PhasesStep, DueStep
<1>4. TableOK' /\ ServersOK' /\ LinksOK' /\ Roomy' /\ ClientsOK'
  BY <1>1, <1>2, TableOKStep, ServersStep, LinksStep, ClientsStep
<1>5. Wired' /\ Greeted' /\ Replies'
  BY <1>1, <1>2, WiredStep, GreetedStep, RepliesStep
<1>6. Numbered' /\ Owners' /\ Submitted'
  BY <1>1, <1>2, MessagesStep, OwnersStep
<1>7. Owes' /\ Tagged' /\ Misled'
  BY <1>1, <1>2, <1>4, <1>5, OwesStep, TaggedStep, MisledStep
<1> QED BY <1>3, <1>4, <1>5, <1>6, <1>7 DEF ClientsInductive

\* The inductive invariant holds in every behaviour.
LEMMA AlwaysInductive == Spec => []ClientsInductive
<1>1. ClientsInductive /\ [Next]_vars => ClientsInductive'
  BY InductiveStep
<1> QED BY <1>1, InductiveInit, PTL DEF Spec

\* Threads, table, descriptors and connections of the client side of the job
\* server (server.c, client.c) are well typed, and every client handler runs on
\* an open descriptor, whatever the clients, limits and workers are.
THEOREM ClientsTyped == Spec => []ClientsTypeOK
<1>1. ClientsInductive => ClientsTypeOK
  <2> SUFFICES ASSUME ClientsInductive PROVE ClientsTypeOK
    OBVIOUS
  <2> USE DEF ClientsInductive
  <2>1. \A d \in FDs : /\ handler[d] \in {"none", "reply", "result", "top", "recv"}
                       /\ handler[d] # "none" => fd[d] # NoClient
                       /\ reply[d] \in Messages \cup {NoMsg}
    BY DEF ServersOK, Wired
  <2>2. ASSUME NEW c \in Clients
        PROVE  /\ op[c] \in Ops /\ mine[c] \subseteq JobIds /\ Len(down[c]) <= Buffer
               /\ \A i \in DOMAIN down[c] : down[c][i] \in Messages
    <3>1. op[c] \in Ops /\ mine[c] \subseteq JobIds /\ Len(down[c]) <= Buffer
      BY DEF ClientsOK, Roomy
    <3>2. down[c] \in Seq(Messages)
      BY DEF LinksOK
    <3> QED BY <3>1, <3>2, ElementOfSeq, LenProperties
  <2> QED BY <2>1, <2>2 DEF ClientsTypeOK, Phases, TableOK, DueOK
<1> QED BY <1>1, AlwaysInductive, PTL

\* On an open connection the server owes exactly the answer its client waits
\* for, and one more for every announcement a call took for its answer; only
\* then is the answer of an earlier call accepted (client.c reads one message
\* per call; server.c:494).
THEOREM RequestsInStep == Spec => []AnswersInStep
<1>1. ClientsInductive => AnswersInStep
  <2> SUFFICES ASSUME ClientsInductive, NEW c \in Clients
      PROVE  /\ far[c] = "open" /\ op[c] \in Calls \cup {"IDLE"} =>
                  Owed(c) = behind[c] + (IF Waiting(c) THEN 1 ELSE 0)
             /\ misled[c] => behind[c] > 0
    BY DEF AnswersInStep
  <2> QED BY DEF ClientsInductive, Owes, OwesClient, Served, Misled
<1> QED BY <1>1, AlwaysInductive, PTL

\* JOB_COMPLETED and JOB_FAILED reach the client that submitted the job, unless
\* the server closed that client's connection first and the descriptor kept in
\* the job is another client's by now (job_handler.c:300).
THEOREM AnnouncementsReachSubmitters == Spec => []AnnouncedToSubmitter
<1>1. ClientsInductive => AnnouncedToSubmitter
  BY DEF ClientsInductive, Submitted, AnnouncedToSubmitter
<1> QED BY <1>1, AlwaysInductive, PTL

\* A result query fails between its two critical sections only for lack of
\* memory, or after a failed send has taken a completed job back, or once the
\* table was freed (server.c:557).
THEOREM InternalErrorsExplained == Spec => []InternalErrorExplained
<1>1. ClientsInductive => InternalErrorExplained
  BY DEF ClientsInductive, Replies, InternalErrorExplained
<1> QED BY <1>1, AlwaysInductive, PTL
-----------------------------------------------------------------------------
(***************************************************************************)
(* Nobody waits on everybody.  What is needed on top of the invariant: who *)
(* is responsible for a connection, and that a peer that has spoken has    *)
(* something for the accept thread to read.                                *)
(***************************************************************************)
\* An open connection has a handler or is in front of the accept thread, which
\* ends only when the server was stopped.
Manned ==
  /\ acceptor = "done" => ~is_running
  /\ \A d \in FDs : fd[d] # NoClient =>
       handler[d] # "none" \/ (acceptor \in {"first", "refuse"} /\ acceptor_fd = d)

\* A client that waits after its greeting is at least in the queue, and one
\* whose greeting will be refused has it still unread until then.
SpokenClient(c) ==
  /\ op[c] \in Greetings => far[c] # "none"
  /\ op[c] = "REGISTER" =>
       /\ far[c] = "queued" /\ main # "exited" => up[c] # <<>>
       /\ acceptor = "first" /\ fd[acceptor_fd] = c => up[c] # <<>>
Spoken == \A c \in Clients : SpokenClient(c)

\* The accept thread moves only by its own steps, and the flag is only cleared.
LEMMA AcceptorMoves ==
  ASSUME [Next]_vars
  PROVE  Acceptor \/ (UNCHANGED acceptVars /\ (is_running' => is_running))
<1>1. CASE \E d \in FDs : Handler(d)
  BY <1>1 DEF Handler, Top, Recv, Result, Reply, RecvEnd, mainVars
<1>2. CASE TellTimeout \/ Cleanup \/ Exit \/ CheckTimeouts \/ Stop \/ UNCHANGED vars
  BY <1>2 DEF TellTimeout, Cleanup, Exit, CheckTimeouts, Stop, vars, mainVars
<1>3. CASE \E j \in JobIds : Report(j) \/ Revive(j)
  BY <1>3 DEF Report, Revive, mainVars
<1>4. CASE \E n \in notes : Announce(n)
  BY <1>4 DEF Announce, mainVars
<1>5. CASE \E c \in Clients : Client(c) \/ Connect(c) \/ Hangup(c) \/ Lost(c)
  BY <1>5 DEF Client, Call, Receive, ReceiveEnd, Connect, Hangup, Lost, mainVars
<1> QED BY <1>1, <1>2, <1>3, <1>4, <1>5 DEF Next

\* Without a step of the accept thread a connection keeps its handler until it
\* is closed, and gets no other client.
LEMMA HandlersStay ==
  ASSUME ServersOK, Kind, UNCHANGED acceptVars, NEW d \in FDs, fd'[d] # NoClient
  PROVE  fd'[d] = fd[d] /\ (handler[d] # "none" => handler'[d] # "none")
<1>1. CASE Quiet
  BY <1>1 DEF Quiet, serverVars
<1>2. CASE Exits
  BY <1>2 DEF Exits
<1>3. ASSUME NEW e \in FDs, DescriptorKind(e)
      PROVE  fd'[d] = fd[d] /\ (handler[d] # "none" => handler'[d] # "none")
  <2>1. CASE \E m : Handles(e, m)
    BY <2>1 DEF Handles, ServersOK
  <2>2. CASE (\E m : Tells(e, m)) \/ Resumes(e) \/ Answers(e)
    BY <2>2 DEF Tells, Resumes, Answers, serverVars, ServersOK
  <2>3. CASE Closes(e)
    BY <2>3 DEF Closes, ServersOK
  <2>4. CASE (\E c \in Clients : Accepts(c, e)) \/ Welcomes(e) \/ TurnsAway(e)
    BY <2>4 DEF Accepts, Welcomes, TurnsAway, Greets, acceptVars
  <2> QED BY <1>3, <2>1, <2>2, <2>3, <2>4 DEF DescriptorKind
<1>4. ASSUME NEW c \in Clients, ClientKind(c)
      PROVE  fd'[d] = fd[d] /\ (handler[d] # "none" => handler'[d] # "none")
  BY <1>4 DEF ClientKind, Comes, Asks, Leaves, Returns, Loses, Refused, Alone, serverVars
<1> QED BY <1>1, <1>2, <1>3, <1>4 DEF Kind

LEMMA MannedStep ==
  ASSUME ClientsInductive, Manned, [Next]_vars
  PROVE  Manned'
<1>1. Kind /\ ServersOK /\ Wired
  BY StepKind DEF ClientsInductive
<1>2. CASE UNCHANGED acceptVars /\ (is_running' => is_running)
  <2>1. ASSUME NEW d \in FDs, fd'[d] # NoClient
        PROVE  handler'[d] # "none" \/ (acceptor' \in {"first", "refuse"} /\ acceptor_fd' = d)
    BY <1>1, <1>2, <2>1, HandlersStay DEF Manned, acceptVars
  <2> QED BY <1>2, <2>1 DEF Manned, acceptVars
<1>3. CASE AcceptTop
  BY <1>3 DEF AcceptTop, Manned, mainVars, serverVars
<1>4. CASE Accept
  BY <1>1, <1>4 DEF Accept, Manned, mainVars, ServersOK
<1>5. CASE ReadFirst
  BY <1>1, <1>5 DEF ReadFirst, Manned, mainVars, ServersOK
<1>6. CASE Refuse
  BY <1>1, <1>6 DEF Refuse, Manned, mainVars, ServersOK
<1> QED BY <1>2, <1>3, <1>4, <1>5, <1>6, AcceptorMoves DEF Acceptor

LEMMA SpokenStep ==
  ASSUME ClientsInductive, Spoken, [Next]_vars
  PROVE  Spoken'
<1> SUFFICES ASSUME NEW c \in Clients PROVE SpokenClient(c)'
  BY DEF Spoken
<1>0. /\ Kind /\ SpokenClient(c) /\ c # NoClient
      /\ Phases /\ ServersOK /\ LinksOK /\ Roomy /\ ClientsOK /\ Wired /\ Greeted /\ Replies
  BY StepKind, ClientsAssumption DEF ClientsInductive, Spoken
<1>1. CASE Quiet
  BY <1>0, <1>1 DEF Quiet, AcceptSame, MainSame, serverVars, linkVars, clientVars, SpokenClient
<1>2. CASE Exits
  <2>1. acceptor' # "first" /\ main' = "exited" /\ op'[c] = op[c]
        /\ (far[c] # "none" => far'[c] # "none")
    BY <1>0, <1>2 DEF Exits, AcceptSame, Phases, clientVars, LinksOK
  <2> QED BY <1>0, <2>1 DEF SpokenClient
<1>3. ASSUME NEW d \in FDs, DescriptorKind(d)
      PROVE  SpokenClient(c)'
  <2>1. UNCHANGED op
    BY <1>0, <1>3, ServerEffect DEF clientVars
  <2>2. CASE \E x \in Clients : Accepts(x, d)
    <3>1. PICK x \in Clients : Accepts(x, d)
      BY <2>2
    <3>2. /\ far[x] = "queued" /\ acceptor = "accept" /\ acceptor_fd' = d /\ main' = main
          /\ far' = [far EXCEPT ![x] = "open"] /\ fd'[d] = x /\ up' = up
      BY <1>0, <3>1 DEF Accepts, ServersOK
    <3>3. main # "exited"
      BY <1>0, <3>2 DEF Phases
    <3> QED BY <1>0, <2>1, <3>2, <3>3 DEF SpokenClient, LinksOK
  <2>3. CASE ~\E x \in Clients : Accepts(x, d)
    <3>1. /\ main' = main /\ fd'[d] \in {fd[d], NoClient}
          /\ \A e \in FDs : e # d => fd'[e] = fd[e]
          /\ acceptor' = "first" => acceptor = "first" /\ acceptor_fd' = acceptor_fd
      BY <1>0, <1>3, <2>3 DEF DescriptorKind, Welcomes, TurnsAway, Greets, Tells, Resumes,
         Handles, Answers, Closes, AcceptSame, serverVars, ServersOK
    <3>2. CASE c # fd[d]
      <4>1. up'[c] = up[c] /\ far'[c] = far[c]
        BY <1>0, <1>3, <2>3, <3>2, DescriptorElsewhere DEF Elsewhere
      <4>2. acceptor' = "first" /\ fd'[acceptor_fd'] = c => acceptor_fd \in FDs /\ fd[acceptor_fd] = c
        BY <1>0, <3>1 DEF Wired
      <4> QED BY <1>0, <2>1, <3>1, <4>1, <4>2 DEF SpokenClient
    <3>3. CASE c = fd[d]
      <4>1. far[c] = "open" /\ far'[c] \in {"open", "closed"}
        BY <1>0, <1>3, <2>3, <3>3 DEF DescriptorKind, Welcomes, TurnsAway, Greets, Tells, Resumes,
         Handles, Answers, Closes, linkVars, LinksOK, Wired
      <4>2. CASE acceptor' = "first" /\ fd'[acceptor_fd'] = c /\ op[c] = "REGISTER"
        <5>1. acceptor = "first" /\ acceptor_fd = d /\ handler[d] = "none" /\ fd'[d] = c
          BY <1>0, <3>1, <3>3, <4>2 DEF Wired
        <5>2. up' = up
          BY <1>0, <1>3, <2>3, <3>3, <4>2, <5>1 DEF DescriptorKind, Welcomes, TurnsAway, Tells, Resumes,
             Handles, Answers, Closes, linkVars, ServersOK
        <5> QED BY <1>0, <2>1, <3>3, <4>1, <5>1, <5>2 DEF SpokenClient
      <4> QED BY <2>1, <4>1, <4>2 DEF SpokenClient
    <3> QED BY <3>2, <3>3
  <2> QED BY <2>2, <2>3
<1>4. ASSUME NEW x \in Clients, ClientKind(x)
      PROVE  SpokenClient(c)'
  <2>0. Alone
    BY <1>0, <1>4, OthersStill
  <2>1. CASE c # x
    <3>1. Still(c)
      BY <1>0, <1>4, <2>1, OthersStill
    <3> QED BY <1>0, <2>0, <3>1 DEF Still, Alone, AcceptSame, serverVars, SpokenClient
  <2>2. CASE c = x /\ \E g : Comes(c, g)
    <3>1. PICK g : Comes(c, g)
      BY <2>2
    <3>2. /\ far'[c] = "queued" /\ op'[c] = g
          /\ g # "SILENT" => up'[c] = <<[type |-> g, job |-> 0, tag |-> 0]>>
      BY <1>0, <3>1 DEF Comes, LinksOK, ClientsOK
    <3>3. op'[c] = "REGISTER" => up'[c] # <<>>
      <4>1. \A r : <<r>> # <<>>
        OBVIOUS
      <4>2. ASSUME g = "REGISTER" PROVE \E r : up'[c] = <<r>>
        BY <3>2, <4>2
      <4> QED BY <3>2, <4>1, <4>2
    <3> QED BY <3>2, <3>3 DEF SpokenClient
  <2>3. CASE c = x /\ ~\E g : Comes(c, g)
    <3>1. op'[c] \notin Greetings
      <4>1. CASE Returns(c)
        <5>1. op[c] \in Calls \cup {"CLIENT_CONNECT"}
          BY <1>0, <4>1, ReturnsServed
        <5>2. Return(c, Head(down[c]))
          BY <4>1 DEF Returns
        <5>3. op'[c] = "IDLE" \/ (op[c] = "GET_JOB_STATUS" /\ op'[c] = op[c])
          BY <1>0, <5>2 DEF Return, ClientsOK
        <5> QED BY <5>2, <5>3 DEF Greetings
      <4>2. CASE ~Returns(c)
        BY <1>0, <1>4, <2>3, <4>2 DEF ClientKind, Asks, Leaves, Leave, Loses, Refused, Greetings,
           Calls, ClientsOK, clientVars
      <4> QED BY <4>1, <4>2
    <3> QED BY <3>1 DEF SpokenClient, Greetings
  <2> QED BY <1>4, <2>1, <2>2, <2>3
<1> QED BY <1>0, <1>1, <1>2, <1>3, <1>4 DEF Kind

\* A nonempty set of natural numbers has a least element.
LEMMA LeastOf ==
  ASSUME NEW S \in SUBSET Nat, S # {}
  PROVE  \E j \in S : \A i \in S : j <= i
<1> DEFINE R == OpToRel(<, Nat)
<1>1. R = {ss \in Nat \X Nat : ss[1] < ss[2]}
  BY DEF OpToRel
<1>2. IsWellFoundedOn(R, Nat)
  BY NatLessThanWellFounded
<1> HIDE DEF R
<1>3. PICK j \in S : \A i \in S : ~(<<i, j>> \in R)
  BY <1>2, WFMin
<1>4. \A i \in S : <<i, j>> \in Nat \X Nat /\ <<i, j>>[1] = i /\ <<i, j>>[2] = j
  OBVIOUS
<1>5. \A i \in S : ~(i < j)
  BY <1>1, <1>3, <1>4
<1> QED BY <1>5

\* A client with nothing to read, whose requests have been read and for whom
\* no answer is being prepared, is owed nothing: it does not wait.
LEMMA OwedNothing ==
  ASSUME ClientsInductive, NEW d \in FDs, fd[d] \in Clients, op[fd[d]] \in Served,
         up[fd[d]] = <<>>, down[fd[d]] = <<>>, reply[d] = NoMsg
  PROVE  ~Waiting(fd[d])
<1> DEFINE c == fd[d]
<1>1. Wired /\ OwesClient(c) /\ behind[c] \in Nat
  BY DEF ClientsInductive, Owes, ClientsOK
<1>2. far[c] = "open" /\ ~Preparing(fd, reply, c)
  BY <1>1, PreparedHere DEF Wired
<1>3. Cardinality({e \in FDs : fd[e] = c /\ reply[e] # NoMsg}) = 0
  BY <1>1, <1>2, OnePrepared DEF Wired
<1>4. Len(up[c]) = 0 /\ Cardinality({i \in DOMAIN down[c] : down[c][i].type \notin Announcements}) = 0
  BY RepliedEmpty, EmptySeq DEF Replied, AnswersAt
<1>5. Owed(c) = 0
  BY <1>3, <1>4 DEF Owed
<1>6. Owed(c) = behind[c] + (IF Waiting(c) THEN 1 ELSE 0)
  BY <1>1, <1>2 DEF OwesClient
<1> QED BY <1>1, <1>5, <1>6

\* When nothing can go on, a client that waits has nothing to read, so only the
\* buffer of an idle one can be full.  If g_job_mutex is free, then no handler
\* serves a client that waits; and whoever is in a call is not connected.
LEMMA RestIsHarmless ==
  ASSUME ClientsInductive, Manned, Spoken, ~CanStep
  PROVE  NobodyStuck
<1>0. /\ Phases /\ TableOK /\ DueOK /\ ServersOK /\ LinksOK /\ ClientsOK /\ Wired /\ Greeted
      /\ Replies
  BY DEF ClientsInductive
<1>1. /\ ~AcceptorCanStep /\ ~MainCanStep
      /\ \A d \in FDs : ~HandlerCanStep(d)
      /\ \A c \in Clients : ~ClientCanStep(c)
  BY DEF CanStep
<1>2. ASSUME NEW c \in Clients, Waiting(c)
      PROVE  /\ down[c] = <<>> /\ far[c] # "closed"
             /\ far[c] = "queued" => Listening
  BY <1>1, <1>2 DEF ClientCanStep
<1>3. ASSUME NEW d \in FDs, ~Gone(fd[d])
      PROVE  /\ fd[d] \in Clients /\ far[fd[d]] = "open"
             /\ op[fd[d]] = "IDLE" \/ Waiting(fd[d])
  <2>1. fd[d] \in Clients /\ op[fd[d]] # "END"
    BY <1>0, <1>3 DEF Gone, ServersOK, Peers
  <2>2. far[fd[d]] = "open" /\ GreetedClient(fd[d]) /\ op[fd[d]] \in Ops
    BY <1>0, <2>1 DEF Wired, Greeted, ClientsOK
  <2> QED BY <2>1, <2>2 DEF GreetedClient, Ops, Waiting
<1>4. ASSUME NEW d \in FDs, ~CanSend(d)
      PROVE  fd[d] \in Clients /\ op[fd[d]] = "IDLE"
  <2>1. ~Gone(fd[d]) /\ ~(Len(down[fd[d]]) < Buffer)
    BY <1>4 DEF CanSend, SendFails
  <2>2. down[fd[d]] # <<>>
    BY <2>1, ClientsAssumption, EmptySeq
  <2> QED BY <1>2, <1>3, <2>1, <2>2
<1>5. CASE mutex
  <2>1. due # {} /\ due \subseteq DOMAIN jobs
    BY <1>0, <1>5 DEF DueOK
  <2>2. \A j \in due : j \in JobIds /\ jobs[j].sock \in FDs
    BY <1>0, <2>1, JobTyped
  <2>3. due \in SUBSET Nat
    BY <2>2, ClientsAssumption DEF JobIds
  <2>4. PICK j \in due : \A i \in due : j <= i
    BY <2>1, <2>3, LeastOf
  <2>5. ~CanSend(jobs[j].sock)
    BY <1>1, <2>4 DEF MainCanStep
  <2>6. HeldUp
    BY <1>4, <2>2, <2>4, <2>5 DEF HeldUp
  <2> QED BY <2>6 DEF NobodyStuck
<1>6. ASSUME ~mutex, NEW d \in FDs, Waiting(fd[d]), fd[d] \in Clients, op[fd[d]] \in Served
      PROVE  handler[d] = "none" /\ up[fd[d]] # <<>>
  <2>1. ~Gone(fd[d]) /\ CanSend(d) /\ down[fd[d]] = <<>>
    BY <1>2, <1>4, <1>6, ClientsAssumption DEF Gone, Waiting, Greetings, Calls
  <2>2. handler[d] \in {"none", "recv"} /\ (handler[d] = "recv" => up[fd[d]] = <<>>)
    BY <1>0, <1>1, <1>6, <2>1 DEF HandlerCanStep, ServersOK
  <2>3. reply[d] = NoMsg
    BY <1>0, <2>2 DEF Replies
  <2>4. up[fd[d]] # <<>>
    BY <1>6, <2>1, <2>3, OwedNothing
  <2> QED BY <2>2, <2>4
<1>7. CASE acceptor = "first" /\ ~mutex
  <2> DEFINE d == acceptor_fd
             c == fd[d]
  <2>1. d \in FDs /\ up[c] = <<>> /\ ~Gone(c)
    BY <1>0, <1>1, <1>7 DEF AcceptorCanStep, FirstMessages, Wired
  <2>2. c \in Clients
    BY <1>3, <2>1
  <2>3. op[c] \in Greetings
    BY <1>0, <1>7, <2>1, <2>2 DEF Greeted, Attended, Gone
  <2>4. op[c] # "CLIENT_CONNECT"
    BY <1>6, <1>7, <2>1, <2>2 DEF Served, Waiting, Greetings
  <2>5. op[c] # "REGISTER"
    BY <1>7, <2>1, <2>2 DEF Spoken, SpokenClient
  <2> QED BY <1>7, <2>3, <2>4, <2>5 DEF NobodyStuck, Silenced, Greetings
<1>8. CASE acceptor # "first" /\ ~mutex
  <2>1. acceptor \in {"accept", "done"}
    <3>1. ASSUME acceptor = "refuse" PROVE FALSE
      <4> DEFINE d == acceptor_fd
      <4>1. d \in FDs /\ ~CanSend(d)
        BY <1>0, <1>1, <3>1 DEF AcceptorCanStep, Wired
      <4>2. fd[d] \in Clients /\ op[fd[d]] = "IDLE"
        BY <1>4, <4>1
      <4> QED BY <1>0, <3>1, <4>1, <4>2 DEF Greeted, Attended, Greetings
    <3> QED BY <1>0, <1>1, <1>8, <3>1 DEF AcceptorCanStep, Phases
  <2>2. ASSUME NEW c \in Clients
        PROVE  op[c] \in {"NEW", "SILENT", "IDLE", "END"} \/ Queueing(c)
    <3> SUFFICES ASSUME Waiting(c), op[c] # "SILENT" PROVE Queueing(c)
      BY <1>0 DEF ClientsOK, Ops, Waiting, Greetings
    <3>1. far[c] # "open"
      <4> SUFFICES ASSUME far[c] = "open" PROVE FALSE
        OBVIOUS
      <4>1. PICK d \in FDs : fd[d] = c
        BY <1>0 DEF Wired
      <4>2. handler[d] # "none"
        BY <2>1, <4>1, ClientsAssumption DEF Manned
      <4>3. op[c] \in Served
        BY <1>0, <4>1, <4>2 DEF Greeted, Attended, Waiting, Greetings, Calls
      <4> QED BY <1>6, <1>8, <4>1, <4>2, <4>3
    <3>2. far[c] # "none" /\ far[c] # "closed"
      BY <1>0, <1>2 DEF Greeted, GreetedClient, Spoken, SpokenClient, Waiting, Greetings, Calls
    <3>3. far[c] = "queued"
      BY <1>0, <3>1, <3>2 DEF LinksOK
    <3>4. acceptor = "accept"
      BY <1>2, <2>1, <3>3 DEF Listening, Manned
    <3> QED BY <1>1, <3>3, <3>4 DEF AcceptorCanStep, Queueing
  <2>3. main \in {"loop", "exited"} \/ acceptor = "accept"
    BY <1>0, <1>1, <1>8, <2>1 DEF MainCanStep, Phases
  <2> QED BY <2>2, <2>3 DEF NobodyStuck
<1> QED BY <1>5, <1>7, <1>8

\* In no state do the server and its clients wait for each other, except in
\* front of a silent peer (server.c:75), and while check_timeouts announces with
\* g_job_mutex in hand to a client that is between two calls (job_handler.c:501).
\* Otherwise every call is answered or refused, unless all descriptors are taken
\* by other clients, and server_stop leaves no client waiting (server.c:426).
THEOREM NobodyWaitsOnEverybody == Spec => []NobodyStuck
<1>1. Init => Manned /\ Spoken
  BY DEF Init, Manned, Spoken, SpokenClient, Greetings
<1>2. ClientsInductive /\ Manned /\ Spoken /\ [Next]_vars => (Manned /\ Spoken)'
  BY MannedStep, SpokenStep
<1>3. ClientsInductive /\ Manned /\ Spoken => NobodyStuck
  BY RestIsHarmless DEF NobodyStuck
<1> QED BY <1>1, <1>2, <1>3, AlwaysInductive, PTL DEF Spec
=============================================================================
