---------------------------- MODULE Registration ----------------------------
(***************************************************************************)
(* How a peer registers with the central server, on the wire that          *)
(* lib/src/net_utils.c makes: send_message writes a whole Message, header  *)
(* and body, with the type in network byte order; recv_header reads eight  *)
(* bytes and converts nothing; receive_message reads a whole Message and   *)
(* converts its header.  The peers are worker_server.c, which reads the    *)
(* answer with recv_header, and client.c, which uses receive_message.      *)
(*                                                                         *)
(* The wire carries units of eight bytes: two numbers of four bytes each.  *)
(* A number in the byte order of the other kind of host is marked.         *)
(***************************************************************************)
EXTENDS Integers, Sequences

CONSTANTS
  Workers, Clients,   \* the peers
  BigEndian,          \* the byte order of the hosts
  BodyUnits           \* units in the body of a Message

Peers == Workers \cup Clients

VARIABLES
  peer,        \* peer[p]: the place of peer p
  retries,     \* retries[p]: of register_with_server
  up, down,    \* up[p], down[p]: units on their way to the server and to p
  closed,      \* connections the server has closed
  queue,       \* connections main has not looked at, in their order
  handler,     \* handler[p]: the thread of connection p
  registry     \* the workers in the registry

vars == <<peer, retries, up, down, closed, queue, handler, registry>>

MSG_TYPE_REGISTER == 70
MSG_TYPE_REGISTER_RESPONSE == 71

Number(n) == [value |-> n, swapped |-> FALSE]

\* htonl and ntohl: the same bytes on a big-endian host; 0 has one order.
Htonl(x) == IF BigEndian \/ x.value = 0 THEN x
            ELSE [x EXCEPT !.swapped = ~@]

Unit(a, b) == [type |-> a, id |-> b]

\* send_message: client_id goes through htonl twice.
Wire(type, id, status) ==
  <<Unit(Htonl(Number(type)), Htonl(Htonl(Number(id))))>>
    \o [i \in 1 .. BodyUnits |-> IF i = 1 THEN Unit(Number(status), Number(0))
                                 ELSE Unit(Number(0), Number(0))]

\* A header as recv_header and as receive_message hand it to their caller.
RecvHeader(s) == Head(s)
ReceiveMessage(s) == Unit(Htonl(Head(s).type), Htonl(Htonl(Head(s).id)))

IsType(h, type) == h.type = Number(type)

Init ==
  /\ peer = [p \in Peers |-> "start"] /\ retries = [p \in Peers |-> 3]
  /\ up = [p \in Peers |-> <<>>] /\ down = [p \in Peers |-> <<>>]
  /\ closed = {} /\ queue = <<>>
  /\ handler = [p \in Peers |-> "none"] /\ registry = {}

-----------------------------------------------------------------------------
\* The request register_with_server sends: a worker has no id yet ...
WorkerRequest == Wire(MSG_TYPE_REGISTER, 0, 0)

\* ... and the one of client_connect_to_server, whose client_id is not 0.
ClientRequest == Wire(MSG_TYPE_REGISTER, 1, 0)

\* create_client_socket, and the request that follows it.
Connect(p) ==
  /\ peer[p] = "start"
  /\ peer' = [peer EXCEPT ![p] = "waiting"]
  /\ up' = [up EXCEPT ![p] = IF p \in Workers THEN WorkerRequest ELSE ClientRequest]
  /\ queue' = Append(queue, p)
  /\ UNCHANGED <<retries, down, closed, handler, registry>>

Close(p) == closed' = closed \cup {p}

\* main of the central server: the first header decides on the thread.
Dispatch ==
  /\ queue # <<>>
  /\ LET p == Head(queue)
         h == RecvHeader(up[p])
     IN  /\ IF IsType(h, MSG_TYPE_REGISTER)
            THEN /\ handler' = [handler EXCEPT ![p] =
                                  IF h.id = Number(0) THEN "worker" ELSE "client"]
                 /\ UNCHANGED closed
            ELSE Close(p) /\ UNCHANGED handler
         /\ up' = [up EXCEPT ![p] = Tail(@)]
  /\ queue' = Tail(queue)
  /\ UNCHANGED <<peer, retries, down, registry>>

\* worker_handler_thread and client_handler_thread wait for a registration of
\* their own before they answer.
Handle(p) ==
  /\ handler[p] \in {"worker", "client"} /\ up[p] # <<>>
  /\ IF IsType(RecvHeader(up[p]), MSG_TYPE_REGISTER)
     THEN /\ registry' = IF handler[p] = "worker" THEN registry \cup {p} ELSE registry
          /\ down' = [down EXCEPT ![p] = Wire(MSG_TYPE_REGISTER_RESPONSE, 1, 1)]
          /\ handler' = [handler EXCEPT ![p] = "serving"]
          /\ UNCHANGED closed
     ELSE /\ Close(p)
          /\ handler' = [handler EXCEPT ![p] = "ended"]
          /\ UNCHANGED <<registry, down>>
  /\ up' = [up EXCEPT ![p] = Tail(@)]
  /\ UNCHANGED <<peer, retries, queue>>

\* One round of register_with_server: a header, or the end of the connection.
WorkerReads(p) ==
  /\ p \in Workers /\ peer[p] = "waiting"
  /\ down[p] # <<>> \/ p \in closed
  /\ retries' = [retries EXCEPT ![p] = @ - 1]
  /\ LET response == /\ down[p] # <<>>
                     /\ IsType(RecvHeader(down[p]), MSG_TYPE_REGISTER_RESPONSE)
     IN  peer' = [peer EXCEPT ![p] = IF retries'[p] = 0 THEN "failed"
                                     ELSE IF response THEN "registered"
                                     ELSE "waiting"]
  /\ down' = [down EXCEPT ![p] = IF @ = <<>> THEN @ ELSE Tail(@)]
  /\ UNCHANGED <<up, closed, queue, handler, registry>>

\* client_connect reads one message.
ClientReads(p) ==
  /\ p \in Clients /\ peer[p] = "waiting"
  /\ \/ /\ down[p] # <<>>
        /\ peer' = [peer EXCEPT ![p] =
                      IF IsType(ReceiveMessage(down[p]), MSG_TYPE_REGISTER_RESPONSE)
                      THEN "registered" ELSE "failed"]
        /\ down' = [down EXCEPT ![p] = <<>>]
     \/ /\ down[p] = <<>> /\ p \in closed
        /\ peer' = [peer EXCEPT ![p] = "failed"]
        /\ UNCHANGED down
  /\ UNCHANGED <<retries, up, closed, queue, handler, registry>>

Next == \/ Dispatch
        \/ \E p \in Peers : \/ Connect(p) \/ Handle(p) \/ WorkerReads(p)
                            \/ ClientReads(p)

\* Main, the handlers and the peers run on.
Spec == Init /\ [][Next]_vars /\ WF_vars(Next)

-----------------------------------------------------------------------------
\* Every worker that asks for it is registered with the central server, as the
\* description of the worker server says.
WorkerRegisters ==
  \A w \in Workers : peer[w] = "waiting" ~> (peer[w] = "registered" /\ w \in registry)
=============================================================================
