------------------------ MODULE WorkerServer_proofs ------------------------
(***************************************************************************)
(* The two threads of the worker server on one socket, for any number of   *)
(* attempts to connect, of heartbeats and of messages nobody asked for:    *)
(* which thread uses the socket, which response of the registration is     *)
(* lost, when the stream is read in step, and what the threads may wait    *)
(* for.                                                                    *)
(***************************************************************************)
EXTENDS WorkerServer, TLAPS, SequenceTheorems

Items == Headers \cup {"PAYLOAD"}

(***************************************************************************)
(* The type invariant in three parts: the Booleans, the sequences and the  *)
(* rest.                                                                   *)
(***************************************************************************)
Requests == {"REGISTER", "HEARTBEAT"}

FlagsOK ==
  /\ worker_running \in BOOLEAN /\ got_response \in BOOLEAN /\ cancelled \in BOOLEAN
  /\ signalled \in BOOLEAN /\ eof \in BOOLEAN /\ stolen \in BOOLEAN

SequencesOK == inbox \in Seq(Items) /\ asked \in Seq(Requests)

ScalarsOK ==
  /\ worker_id \in 0 .. 1
  /\ socket_mutex \in {"free", "main", "heartbeat"}
  /\ log_mutex \in {"free", "main", "heartbeat"}
  /\ main \in {"connect", "register", "loop", "lock", "recv", "payload", "cancel",
               "join", "bye", "logger_close", "stuck", "killed"} \cup MainLogs
  /\ heartbeat \in {"none", "loop", "sleep", "send", "recv", "unlock", "ended",
                    "stuck"} \cup HeartbeatLogs
  /\ attempts \in 0 .. MAX_RECONNECT_ATTEMPTS /\ retries \in 0 .. 3
  /\ beats \in 0 .. MaxBeats /\ extra \in 0 .. MaxExtra
  /\ worker_id = 0 <=> heartbeat = "none"

\* The three parts are the type invariant.
LEMMA TypeParts == WorkerServerTypeOK <=> FlagsOK /\ SequencesOK /\ ScalarsOK
BY Zenon DEF WorkerServerTypeOK, FlagsOK, SequencesOK, ScalarsOK, Items, Requests

(***************************************************************************)
(* The inductive invariant, in four parts.                                 *)
(***************************************************************************)
\* What the bounds and the value of worker_id rest on: what is still to come
\* at a place of a thread.
Places ==
  /\ main = "connect" => attempts < MAX_RECONNECT_ATTEMPTS /\ ~got_response
  /\ main \in {"connect", "register"} => retries > 0
  /\ main \in {"connect", "register"} => heartbeat = "none"
  /\ heartbeat = "send" => beats < MaxBeats

\* As long as no heartbeat was answered with a task, a thread that uses the
\* socket owns socket_mutex, and nobody unlocks what he does not own.
SocketOwner ==
  ~stolen =>
    /\ main \in {"recv", "payload"} => socket_mutex = "main"
    /\ heartbeat \in {"send", "recv"} => socket_mutex = "heartbeat"
    /\ heartbeat # "unlock"

\* A stream that starts with a payload (mid) or a header: every other payload
\* stands behind the header of its task, and every such header has its payload.
WellFormed(s, mid) ==
  /\ \A i \in 1 .. Len(s) :
       /\ s[i] = "PAYLOAD" => IF i = 1 THEN mid ELSE s[i - 1] = "TASK"
       /\ s[i] = "TASK" => i + 1 \in 1 .. Len(s) /\ s[i + 1] = "PAYLOAD"
  /\ mid => 1 \in 1 .. Len(s) /\ s[1] = "PAYLOAD"

\* A worker that is not registered has asked for no task.
NoTaskYet ==
  main \in {"connect", "register"} =>
    /\ \A i \in 1 .. Len(asked) : asked[i] = "REGISTER"
    /\ \A i \in 1 .. Len(inbox) : inbox[i] \notin {"TASK", "PAYLOAD"}

\* Until something unusual happens main stands where the stream does.
Stream ==
  \/ main = "killed" \/ stolen \/ signalled
  \/ WellFormed(inbox, main = "payload")

\* Whoever is the owner of a mutex, after a double unlock too, is at a place from
\* which he goes on to release it, or was ended there; the heartbeat thread runs
\* from the registration on, and is cancelled when main is about to join it.
Locks ==
  /\ socket_mutex = "main" => main \in {"recv", "payload", "killed"}
  /\ socket_mutex = "heartbeat" =>
       heartbeat \in {"send", "recv"} \/ cancelled \/ main = "killed"
  /\ log_mutex = "main" => main \in {"stuck", "logger_close", "killed"} \cup MainLogs
  /\ log_mutex = "heartbeat" => heartbeat \in {"stuck", "ended"} \cup HeartbeatLogs
  /\ cancelled => main \in {"join", "bye", "stuck", "logger_close", "killed"}
  /\ main = "join" => cancelled
  /\ main \in {"cancel", "join", "loop", "lock", "recv", "payload"} \cup MainLogs =>
       heartbeat # "none"

Inductive ==
  /\ WorkerServerTypeOK /\ Places /\ SocketOwner /\ OnlyThirdResponseLost
  /\ NoTaskYet /\ Stream /\ Locks

(***************************************************************************)
(* Lemmas about streams.                                                   *)
(***************************************************************************)
\* What arrives in one piece is well formed, and does not start in a payload.
LEMMA PiecesWellFormed ==
  /\ \A h \in Headers \ {"TASK"} : <<h>> \in Seq(Items) /\ WellFormed(<<h>>, FALSE)
  /\ <<>> \in Seq(Items) /\ WellFormed(<<>>, FALSE)
  /\ <<"HEARTBEAT_RESPONSE", "TASK", "PAYLOAD">> \in Seq(Items)
  /\ WellFormed(<<"HEARTBEAT_RESPONSE", "TASK", "PAYLOAD">>, FALSE)
<1>1. ASSUME NEW h \in Headers \ {"TASK"}
      PROVE  <<h>> \in Seq(Items) /\ WellFormed(<<h>>, FALSE)
  BY <1>1 DEF Headers, Items, WellFormed
<1> DEFINE a == <<"HEARTBEAT_RESPONSE", "TASK", "PAYLOAD">>
<1>2. a \in Seq(Items)
  BY DEF Headers, Items
<1>3. Len(a) = 3 /\ a[1] = "HEARTBEAT_RESPONSE" /\ a[2] = "TASK" /\ a[3] = "PAYLOAD"
  OBVIOUS
<1> HIDE DEF a
<1>4. WellFormed(a, FALSE)
  BY <1>3 DEF WellFormed
<1>5. <<>> \in Seq(Items) /\ WellFormed(<<>>, FALSE)
  BY EmptySeq DEF WellFormed
<1> QED BY <1>1, <1>2, <1>4, <1>5 DEF a

\* A well-formed piece may follow any well-formed stream.
LEMMA ConcatWellFormed ==
  ASSUME NEW s \in Seq(Items), NEW a \in Seq(Items), NEW mid \in BOOLEAN,
         WellFormed(s, mid), WellFormed(a, FALSE)
  PROVE  WellFormed(s \o a, mid)
<1> DEFINE c == s \o a
<1>1. /\ Len(s) \in Nat /\ Len(a) \in Nat /\ Len(c) = Len(s) + Len(a)
      /\ \A i \in 1 .. Len(s) + Len(a) : c[i] = IF i <= Len(s) THEN s[i] ELSE a[i - Len(s)]
  BY LenProperties, ConcatProperties
<1> HIDE DEF c
<1>2. ASSUME NEW i \in 1 .. Len(c)
      PROVE  /\ c[i] = "PAYLOAD" => IF i = 1 THEN mid ELSE c[i - 1] = "TASK"
             /\ c[i] = "TASK" => i + 1 \in 1 .. Len(c) /\ c[i + 1] = "PAYLOAD"
  <2>1. CASE i <= Len(s)
    <3>1. i \in 1 .. Len(s) /\ c[i] = s[i]
      BY <1>1, <2>1
    <3>2. i # 1 => c[i - 1] = s[i - 1]
      BY <1>1, <2>1
    <3>3. i + 1 \in 1 .. Len(s) => i + 1 \in 1 .. Len(c) /\ c[i + 1] = s[i + 1]
      BY <1>1, <2>1
    <3> QED BY <3>1, <3>2, <3>3 DEF WellFormed
  <2>2. CASE i > Len(s)
    <3> DEFINE j == i - Len(s)
    <3>1. j \in 1 .. Len(a) /\ c[i] = a[j]
      BY <1>1, <2>2
    <3>2. j # 1 => i # 1 /\ c[i - 1] = a[j - 1]
      <4>1. j # 1 => /\ i # 1 /\ i - 1 \in 1 .. Len(s) + Len(a) /\ ~(i - 1 <= Len(s))
                     /\ (i - 1) - Len(s) = j - 1
        BY <1>1, <2>2
      <4> QED BY <1>1, <4>1
    <3>3. j + 1 \in 1 .. Len(a) => i + 1 \in 1 .. Len(c) /\ c[i + 1] = a[j + 1]
      BY <1>1, <2>2
    <3> HIDE DEF j
    <3> QED BY <3>1, <3>2, <3>3 DEF WellFormed
  <2> QED BY <1>1, <2>1, <2>2
<1>3. mid => 1 \in 1 .. Len(c) /\ c[1] = "PAYLOAD"
  BY <1>1 DEF WellFormed
<1> QED BY <1>2, <1>3 DEF WellFormed, c

\* Once the first element is read, a payload comes next exactly when it was
\* the header of a task.
LEMMA TailWellFormed ==
  ASSUME NEW s \in Seq(Items), NEW mid \in BOOLEAN, WellFormed(s, mid), s # <<>>
  PROVE  /\ Tail(s) \in Seq(Items)
         /\ mid <=> Head(s) = "PAYLOAD"
         /\ WellFormed(Tail(s), Head(s) = "TASK")
<1> DEFINE u == Tail(s)
<1>1. Len(s) \in Nat /\ Len(s) >= 1 /\ Head(s) = s[1]
  BY EmptySeq, LenProperties
<1>2. /\ u \in Seq(Items) /\ Len(u) = Len(s) - 1
      /\ \A i \in 1 .. Len(u) : u[i] = s[i + 1]
  BY HeadTailProperties
<1> HIDE DEF u
<1>3. mid <=> Head(s) = "PAYLOAD"
  BY <1>1 DEF WellFormed
<1>4. ASSUME NEW i \in 1 .. Len(u)
      PROVE  /\ u[i] = "PAYLOAD" => IF i = 1 THEN Head(s) = "TASK" ELSE u[i - 1] = "TASK"
             /\ u[i] = "TASK" => i + 1 \in 1 .. Len(u) /\ u[i + 1] = "PAYLOAD"
  <2>1. i + 1 \in 1 .. Len(s) /\ i + 1 # 1 /\ (i + 1) - 1 = i /\ u[i] = s[i + 1]
    BY <1>1, <1>2
  <2>2. i # 1 => i - 1 \in 1 .. Len(u) /\ u[i - 1] = s[i]
    BY <1>1, <1>2
  <2>3. (i + 1) + 1 \in 1 .. Len(s) => i + 1 \in 1 .. Len(u) /\ u[i + 1] = s[(i + 1) + 1]
    BY <1>1, <1>2
  <2> QED BY <1>1, <2>1, <2>2, <2>3 DEF WellFormed
<1>5. Head(s) = "TASK" => 1 \in 1 .. Len(u) /\ u[1] = "PAYLOAD"
  <2>1. 1 \in 1 .. Len(s)
    BY <1>1
  <2>2. Head(s) = "TASK" => 1 + 1 \in 1 .. Len(s) /\ s[1 + 1] = "PAYLOAD"
    BY <1>1, <2>1 DEF WellFormed
  <2> QED BY <1>1, <1>2, <2>2
<1> QED BY <1>2, <1>3, <1>4, <1>5 DEF WellFormed, u

(***************************************************************************)
(* Every part holds initially and is kept by every step.                   *)
(***************************************************************************)
\* The initial state.
LEMMA InitInductive == Init => Inductive
<1> SUFFICES ASSUME Init PROVE Inductive
  OBVIOUS
<1>1. inbox = <<>> /\ asked = <<>> /\ Len(inbox) = 0 /\ Len(asked) = 0
  BY EmptySeq DEF Init
<1>2. inbox \in Seq(Items) /\ asked \in Seq(Requests)
  BY <1>1, EmptySeq
<1>3. WorkerServerTypeOK
  <2>1. FlagsOK
    BY DEF Init, FlagsOK
  <2>2. ScalarsOK
    BY WorkerServerAssumption DEF Init, ScalarsOK
  <2> QED BY <1>2, <2>1, <2>2, TypeParts DEF SequencesOK
<1>4. Places /\ SocketOwner /\ OnlyThirdResponseLost
  BY WorkerServerAssumption DEF Init, Places, SocketOwner, OnlyThirdResponseLost
<1>5. NoTaskYet /\ Stream
  BY <1>1 DEF Init, NoTaskYet, Stream, WellFormed
<1>6. Locks
  BY DEF Init, Locks, MainLogs
<1> QED BY <1>3, <1>4, <1>5, <1>6 DEF Inductive

\* What recv_header leaves is a stream again.
LEMMA RecvHeaderType ==
  ASSUME WorkerServerTypeOK, NEW h \in Headers, RecvHeader(h)
  PROVE  inbox' \in Seq(Items) /\ asked' = asked /\ eof' = eof /\ extra' = extra
<1>1. inbox \in Seq(Items) /\ inbox # <<>>
  BY DEF WorkerServerTypeOK, Items, RecvHeader
<1>2. Tail(inbox) \in Seq(Items)
  BY <1>1, HeadTailProperties
<1>3. <<"OTHER">> \in Seq(Items)
  BY DEF Items, Headers
<1>4. <<"OTHER">> \o Tail(inbox) \in Seq(Items)
  BY <1>2, <1>3, ConcatProperties
<1> QED BY <1>2, <1>4 DEF RecvHeader

\* The two sequences stay sequences.
LEMMA SequencesKept ==
  ASSUME WorkerServerTypeOK, [Next]_vars
  PROVE  SequencesOK'
<1> USE DEF flags, peer, counters, MainLogs, HeartbeatLogs, AfterHeader
<1>1. inbox \in Seq(Items) /\ asked \in Seq(Requests)
  BY TypeParts DEF SequencesOK
<1>2. ASSUME ServerAnswers
      PROVE  inbox' \in Seq(Items) /\ asked' \in Seq(Requests)
  <2>1. PICK a \in Answers(Head(asked)) : inbox' = inbox \o a
    BY <1>2 DEF ServerAnswers
  <2>2. a \in Seq(Items)
    BY <2>1, PiecesWellFormed DEF Answers, Headers
  <2>3. Tail(asked) \in Seq(Requests)
    BY <1>1, <1>2, HeadTailProperties DEF ServerAnswers
  <2>4. inbox \o a \in Seq(Items)
    BY <1>1, <2>2, ConcatProperties
  <2> QED BY <1>2, <2>1, <2>3, <2>4 DEF ServerAnswers
<1>3. ASSUME ServerSends
      PROVE  inbox' \in Seq(Items) /\ asked' \in Seq(Requests)
  <2>1. PICK h \in {"SHUTDOWN", "OTHER"} : inbox' = Append(inbox, h)
    BY <1>3 DEF ServerSends
  <2>2. h \in Items
    BY DEF Items, Headers
  <2> QED BY <1>1, <1>3, <2>1, <2>2, AppendProperties DEF ServerSends
<1>4. ASSUME ServerCloses \/ Connect
      PROVE  inbox' \in Seq(Items) /\ asked' \in Seq(Requests)
  <2>1. <<>> \in Seq(Requests) /\ <<"REGISTER">> \in Seq(Requests)
    BY EmptySeq DEF Requests
  <2> QED BY <1>1, <1>4, <2>1 DEF ServerCloses, Connect
<1>5. ASSUME NEW h \in Headers, RecvHeader(h)
      PROVE  inbox' \in Seq(Items) /\ asked' \in Seq(Requests)
  BY <1>1, <1>5, RecvHeaderType
<1>6. ASSUME Register \/ MainRecv \/ HeartbeatRecv
      PROVE  inbox' \in Seq(Items) /\ asked' \in Seq(Requests)
  BY <1>1, <1>5, <1>6 DEF Register, MainRecv, HeartbeatRecv
<1>7. ASSUME MainPayload
      PROVE  inbox' \in Seq(Items) /\ asked' \in Seq(Requests)
  <2>1. inbox # <<>> => Tail(inbox) \in Seq(Items)
    BY <1>1, HeadTailProperties
  <2> QED BY <1>1, <1>7, <2>1 DEF MainPayload
<1>8. ASSUME HeartbeatSend
      PROVE  inbox' \in Seq(Items) /\ asked' \in Seq(Requests)
  <2>1. Append(asked, "HEARTBEAT") \in Seq(Requests)
    BY <1>1, AppendProperties DEF Requests
  <2> QED BY <1>1, <1>8, <2>1 DEF HeartbeatSend
<1>9. ASSUME \/ ConnectFails \/ MainLog \/ MainLoop \/ MainLock \/ MainRecvFails
             \/ MainCancel \/ MainJoin \/ MainBye \/ HeartbeatLoop \/ HeartbeatLock
             \/ HeartbeatUnlockAgain \/ HeartbeatLog \/ HeartbeatCancelled \/ Signal
             \/ UNCHANGED vars
      PROVE  inbox' = inbox /\ asked' = asked
  BY <1>9 DEF ConnectFails, MainLog, MainLoop, MainLock, MainRecvFails, MainCancel,
              MainJoin, MainBye, HeartbeatLoop, HeartbeatLock, HeartbeatUnlockAgain,
              HeartbeatLog, HeartbeatCancelled, Signal, SignalInLogger, SignalMain,
              SignalHeartbeat, Killed, vars
<1> QED BY <1>1, <1>2, <1>3, <1>4, <1>6, <1>7, <1>8, <1>9
        DEF Next, Main, Heartbeat, Server, SequencesOK

\* The Booleans stay Booleans.
LEMMA FlagsKept ==
  ASSUME WorkerServerTypeOK, [Next]_vars
  PROVE  FlagsOK'
<1> USE DEF flags, peer, counters, MainLogs, HeartbeatLogs, AfterHeader
<1>1. FlagsOK
  BY TypeParts
<1>2. ASSUME Main PROVE FlagsOK'
  BY <1>1, <1>2 DEF FlagsOK, Main, ConnectFails, Connect, Register, RegisterRound,
     RecvHeader, MainLog, MainLoop, MainLock, MainRecv, MainPayload, MainRecvFails,
     MainCancel, MainJoin, MainBye
<1>3. ASSUME Heartbeat PROVE FlagsOK'
  BY <1>1, <1>3 DEF FlagsOK, Heartbeat, HeartbeatLoop, HeartbeatLock, HeartbeatSend,
     HeartbeatRecv, RecvHeader, HeartbeatUnlockAgain, HeartbeatLog, HeartbeatCancelled
<1>4. ASSUME Server \/ Signal \/ UNCHANGED vars PROVE FlagsOK'
  BY <1>1, <1>4 DEF FlagsOK, Server, ServerAnswers, ServerSends, ServerCloses, Signal,
     SignalInLogger, SignalMain, RegisterRound, SignalHeartbeat, Killed, vars
<1> QED BY <1>2, <1>3, <1>4 DEF Next

\* The places of the threads: bounds, the id, and which response is lost.
Progress == ScalarsOK /\ Places /\ OnlyThirdResponseLost

\* Only register_with_server and connect_to_server can end without a heartbeat
\* thread.
LEMMA ProgressKept ==
  ASSUME WorkerServerTypeOK, Places, OnlyThirdResponseLost, [Next]_vars
  PROVE  Progress'
<1> USE DEF flags, peer, counters, MainLogs, HeartbeatLogs, AfterHeader
<1>1. Progress /\ FlagsOK
  BY TypeParts DEF Progress
<1> USE DEF Progress, ScalarsOK, Places, OnlyThirdResponseLost
<1>2. ASSUME ConnectFails \/ Connect
      PROVE  Progress'
  <2>1. CASE Connect
    BY <1>1, <2>1, WorkerServerAssumption DEF Connect
  <2>2. CASE ConnectFails
    <3>1. /\ attempts' \in 1 .. MAX_RECONNECT_ATTEMPTS
          /\ main' = "connect" => attempts' < MAX_RECONNECT_ATTEMPTS
          /\ main' \in {"connect", "bye"}
      BY <1>1, <2>2, WorkerServerAssumption DEF ConnectFails
    <3>2. UNCHANGED <<worker_id, socket_mutex, log_mutex, heartbeat, retries, beats,
                      extra, got_response>>
      BY <2>2 DEF ConnectFails
    <3> QED BY <1>1, <2>2, <3>1, <3>2, WorkerServerAssumption DEF ConnectFails
  <2> QED BY <1>2, <2>1, <2>2
<1>3. ASSUME NEW response \in BOOLEAN, main = "register", RegisterRound(response),
             UNCHANGED <<socket_mutex, log_mutex, attempts, beats, extra>>
      PROVE  Progress'
  <2>1. /\ retries \in 1 .. 3 /\ retries' = retries - 1 /\ retries' \in 0 .. 2
        /\ worker_id = 0
    BY <1>1, <1>3 DEF RegisterRound
  <2>2. CASE response = TRUE
    <3>1. /\ retries' = 0 => worker_id' = 0 /\ main' = "bye" /\ heartbeat' = "none"
          /\ retries' # 0 => worker_id' = 1 /\ main' = "log" /\ heartbeat' = "log"
      BY <1>3, <2>1, <2>2 DEF RegisterRound
    <3> QED BY <1>1, <1>3, <2>1, <3>1
  <2>3. CASE response = FALSE
    BY <1>1, <1>3, <2>1, <2>3 DEF RegisterRound
  <2> QED BY <2>2, <2>3
<1>4. ASSUME Register
      PROVE  Progress'
  <2>1. /\ main = "register"
        /\ UNCHANGED <<socket_mutex, log_mutex, attempts, beats, extra>>
        /\ \E response \in BOOLEAN : RegisterRound(response)
    BY <1>4 DEF Register, RecvHeader
  <2> QED BY <1>3, <2>1
<1>5. ASSUME MainLog \/ MainLoop \/ MainLock \/ MainCancel \/ MainJoin \/ MainBye
      PROVE  Progress'
  BY <1>1, <1>5 DEF MainLog, MainLoop, MainLock, MainCancel, MainJoin, MainBye
<1>6. ASSUME MainRecv \/ MainPayload \/ MainRecvFails
      PROVE  Progress'
  BY <1>1, <1>6 DEF MainRecv, RecvHeader, MainPayload, MainRecvFails
<1>7. ASSUME HeartbeatLoop \/ HeartbeatLock \/ HeartbeatUnlockAgain \/ HeartbeatLog
             \/ HeartbeatCancelled
      PROVE  Progress'
  BY <1>1, <1>7 DEF HeartbeatLoop, HeartbeatLock, HeartbeatUnlockAgain, HeartbeatLog,
                    HeartbeatCancelled
<1>8. ASSUME HeartbeatSend \/ HeartbeatRecv
      PROVE  Progress'
  BY <1>1, <1>8, WorkerServerAssumption DEF HeartbeatSend, HeartbeatRecv, RecvHeader
<1>9. ASSUME Server \/ UNCHANGED vars
      PROVE  Progress'
  BY <1>1, <1>9, WorkerServerAssumption
     DEF Server, ServerAnswers, ServerSends, ServerCloses, vars
<1>10. ASSUME SignalMain
       PROVE  Progress'
  <2>1. CASE main = "register"
    <3>1. socket_mutex' = socket_mutex /\ RegisterRound(FALSE)
      BY <1>10, <2>1 DEF SignalMain
    <3> QED BY <1>3, <1>10, <2>1, <3>1 DEF SignalMain
  <2>2. CASE main # "register"
    BY <1>1, <1>10, <2>2 DEF SignalMain
  <2> QED BY <2>1, <2>2
<1>11. ASSUME SignalInLogger \/ SignalHeartbeat \/ Killed
       PROVE  Progress'
  BY <1>1, <1>11 DEF SignalInLogger, SignalHeartbeat, Killed
<1> QED BY <1>2, <1>4, <1>5, <1>6, <1>7, <1>8, <1>9, <1>10, <1>11
        DEF Next, Main, Heartbeat, Signal

\* The mutex has one owner, and a thread that uses the socket is it.
LEMMA SocketOwnerKept ==
  ASSUME WorkerServerTypeOK, Places, SocketOwner, [Next]_vars
  PROVE  SocketOwner'
<1> USE DEF flags, peer, counters, MainLogs, HeartbeatLogs, AfterHeader
<1>1. ScalarsOK /\ FlagsOK
  BY TypeParts
<1> USE DEF SocketOwner, Places
<1>2. ASSUME Main
      PROVE  SocketOwner'
  BY <1>1, <1>2 DEF FlagsOK, ScalarsOK, Main, ConnectFails, Connect, Register,
     RegisterRound, MainLog, MainLoop, MainLock, MainRecv, MainPayload, MainRecvFails,
     MainCancel, MainJoin, MainBye
<1>3. ASSUME Heartbeat
      PROVE  SocketOwner'
  BY <1>1, <1>3 DEF FlagsOK, ScalarsOK, Heartbeat, HeartbeatLoop, HeartbeatLock,
     HeartbeatSend, HeartbeatRecv, HeartbeatUnlockAgain, HeartbeatLog,
     HeartbeatCancelled
<1>4. ASSUME Server \/ UNCHANGED vars
      PROVE  SocketOwner'
  BY <1>1, <1>4 DEF Server, ServerAnswers, ServerSends, ServerCloses, vars
<1>5. ASSUME Signal
      PROVE  SocketOwner'
  BY <1>1, <1>5 DEF FlagsOK, ScalarsOK, Signal, SignalInLogger, SignalMain,
     RegisterRound, SignalHeartbeat, Killed
<1> QED BY <1>2, <1>3, <1>4, <1>5 DEF Next

\* The places of the owners, step by step.
LEMMA LocksKept ==
  ASSUME WorkerServerTypeOK, Places, Locks, [Next]_vars
  PROVE  Locks'
<1> USE DEF flags, peer, counters, MainLogs, HeartbeatLogs, AfterHeader
<1>1. ScalarsOK /\ FlagsOK
  BY TypeParts
<1> USE DEF Locks, Places
<1>2. ASSUME ConnectFails \/ Connect \/ Register
      PROVE  Locks'
  BY <1>1, <1>2 DEF FlagsOK, ScalarsOK, ConnectFails, Connect, Register, RegisterRound
<1>3. ASSUME MainLog \/ MainLoop \/ MainLock \/ MainCancel \/ MainJoin \/ MainBye
      PROVE  Locks'
  BY <1>1, <1>3 DEF FlagsOK, ScalarsOK, MainLog, MainLoop, MainLock, MainCancel,
     MainJoin, MainBye
<1>4. ASSUME MainRecv \/ MainPayload \/ MainRecvFails
      PROVE  Locks'
  BY <1>1, <1>4 DEF FlagsOK, ScalarsOK, MainRecv, MainPayload, MainRecvFails
<1>5. ASSUME Heartbeat
      PROVE  Locks'
  BY <1>1, <1>5 DEF FlagsOK, ScalarsOK, Heartbeat, HeartbeatLoop, HeartbeatLock,
     HeartbeatSend, HeartbeatRecv, HeartbeatUnlockAgain, HeartbeatLog,
     HeartbeatCancelled
<1>6. ASSUME Server \/ UNCHANGED vars
      PROVE  Locks'
  BY <1>1, <1>6 DEF Server, ServerAnswers, ServerSends, ServerCloses, vars
<1>7. ASSUME Signal
      PROVE  Locks'
  BY <1>1, <1>7 DEF FlagsOK, ScalarsOK, Signal, SignalInLogger, SignalMain,
     RegisterRound, SignalHeartbeat, Killed
<1> QED BY <1>2, <1>3, <1>4, <1>5, <1>6, <1>7 DEF Next, Main

\* A task is asked for by the heartbeat thread only, which starts with the
\* registration.
LEMMA NoTaskYetKept ==
  ASSUME WorkerServerTypeOK, Places, NoTaskYet, [Next]_vars
  PROVE  NoTaskYet'
<1> USE DEF flags, peer, counters, MainLogs, HeartbeatLogs, AfterHeader
<1>1. inbox \in Seq(Items) /\ asked \in Seq(Requests) /\ ScalarsOK
  BY TypeParts DEF SequencesOK
<1>2. Len(inbox) \in Nat /\ Len(asked) \in Nat
  BY <1>1, LenProperties
<1>3. ASSUME UNCHANGED <<inbox, asked>>,
             main' \in {"connect", "register"} => main \in {"connect", "register"}
      PROVE  NoTaskYet'
  BY <1>3 DEF NoTaskYet
<1>4. ASSUME NEW h \in Headers, RecvHeader(h),
             main' \in {"connect", "register"} => main \in {"connect", "register"}
      PROVE  NoTaskYet'
  <2>1. inbox # <<>> /\ Head(inbox) = inbox[1] /\ 1 \in 1 .. Len(inbox) /\ asked' = asked
    BY <1>1, <1>4, EmptySeq DEF RecvHeader
  <2>2. /\ Tail(inbox) \in Seq(Items) /\ Len(Tail(inbox)) = Len(inbox) - 1
        /\ \A i \in 1 .. Len(Tail(inbox)) : Tail(inbox)[i] = inbox[i + 1]
    BY <1>1, <2>1, HeadTailProperties
  <2>3. SUFFICES ASSUME main' \in {"connect", "register"} PROVE NoTaskYet'
    BY DEF NoTaskYet
  <2>4. Head(inbox) # "PAYLOAD" /\ inbox' = Tail(inbox)
    BY <1>4, <2>1, <2>3 DEF NoTaskYet, RecvHeader
  <2>5. ASSUME NEW i \in 1 .. Len(Tail(inbox))
        PROVE  Tail(inbox)[i] \notin {"TASK", "PAYLOAD"}
    <3>1. i + 1 \in 1 .. Len(inbox)
      BY <1>2, <2>2
    <3> QED BY <1>4, <2>2, <2>3, <3>1 DEF NoTaskYet
  <2> QED BY <1>4, <2>1, <2>3, <2>4, <2>5 DEF NoTaskYet
<1>5. ASSUME Register
      PROVE  NoTaskYet'
  <2>1. CASE RecvFails /\ UNCHANGED peer
    BY <1>3, <1>5, <2>1 DEF Register
  <2>2. CASE \E h \in Headers : RecvHeader(h)
    BY <1>4, <1>5, <2>2 DEF Register
  <2> QED BY <1>5, <2>1, <2>2 DEF Register
<1>6. ASSUME Connect
      PROVE  NoTaskYet'
  <2>1. main = "connect" /\ inbox' = inbox /\ asked' = <<"REGISTER">>
    BY <1>6 DEF Connect
  <2>2. Len(<<"REGISTER">>) = 1 /\ <<"REGISTER">>[1] = "REGISTER"
    OBVIOUS
  <2>3. \A i \in 1 .. Len(asked') : asked'[i] = "REGISTER"
    BY <2>1, <2>2
  <2> QED BY <2>1, <2>3 DEF NoTaskYet
<1>7. ASSUME ServerCloses
      PROVE  NoTaskYet'
  <2>1. asked' = <<>> /\ Len(asked') = 0 /\ inbox' = inbox /\ main' = main
    BY <1>7, EmptySeq DEF ServerCloses
  <2> QED BY <2>1 DEF NoTaskYet
<1>8. ASSUME ServerSends
      PROVE  NoTaskYet'
  <2>1. PICK h \in {"SHUTDOWN", "OTHER"} : inbox' = Append(inbox, h)
    BY <1>8 DEF ServerSends
  <2>2. /\ Len(inbox') = Len(inbox) + 1 /\ inbox'[Len(inbox) + 1] = h
        /\ \A i \in 1 .. Len(inbox) : inbox'[i] = inbox[i]
    BY <1>1, <2>1, AppendProperties DEF Items, Headers
  <2>3. main' = main /\ asked' = asked
    BY <1>8 DEF ServerSends
  <2>4. \A i \in 1 .. Len(inbox') : i \in 1 .. Len(inbox) \/ i = Len(inbox) + 1
    BY <1>2, <2>2
  <2> QED BY <2>2, <2>3, <2>4 DEF NoTaskYet
<1>9. ASSUME ServerAnswers
      PROVE  NoTaskYet'
  <2>1. SUFFICES ASSUME main \in {"connect", "register"} PROVE NoTaskYet'
    BY <1>9 DEF ServerAnswers, NoTaskYet
  <2>2. asked # <<>> /\ Head(asked) = asked[1] /\ 1 \in 1 .. Len(asked)
    BY <1>1, <1>9, EmptySeq DEF ServerAnswers
  <2>3. inbox' = inbox \o <<"REGISTER_RESPONSE">> /\ main' = main /\ asked' = Tail(asked)
    BY <1>9, <2>1, <2>2 DEF ServerAnswers, Answers, NoTaskYet
  <2>4. <<"REGISTER_RESPONSE">> \in Seq(Items) /\ Len(<<"REGISTER_RESPONSE">>) = 1
        /\ <<"REGISTER_RESPONSE">>[1] = "REGISTER_RESPONSE"
    BY DEF Items, Headers
  <2>5. /\ Len(inbox') = Len(inbox) + 1
        /\ \A i \in 1 .. Len(inbox) + 1 :
             inbox'[i] = IF i <= Len(inbox) THEN inbox[i]
                         ELSE <<"REGISTER_RESPONSE">>[i - Len(inbox)]
    BY <1>1, <2>3, <2>4, ConcatProperties
  <2>6. ASSUME NEW i \in 1 .. Len(inbox')
        PROVE  inbox'[i] \notin {"TASK", "PAYLOAD"}
    <3>1. CASE i <= Len(inbox)
      <4>1. i \in 1 .. Len(inbox) /\ inbox'[i] = inbox[i]
        BY <1>2, <2>5, <3>1
      <4> QED BY <2>1, <4>1 DEF NoTaskYet
    <3>2. CASE ~(i <= Len(inbox))
      <4>1. i - Len(inbox) = 1 /\ i \in 1 .. Len(inbox) + 1
        BY <1>2, <2>5, <3>2
      <4> QED BY <2>4, <2>5, <3>2, <4>1
    <3> QED BY <3>1, <3>2
  <2>7. /\ Len(Tail(asked)) = Len(asked) - 1
        /\ \A i \in 1 .. Len(Tail(asked)) : Tail(asked)[i] = asked[i + 1]
    BY <1>1, <2>2, HeadTailProperties
  <2>8. ASSUME NEW i \in 1 .. Len(Tail(asked))
        PROVE  Tail(asked)[i] = "REGISTER"
    <3>1. i + 1 \in 1 .. Len(asked)
      BY <1>2, <2>7
    <3> QED BY <2>1, <2>7, <3>1 DEF NoTaskYet
  <2> QED BY <2>3, <2>6, <2>8 DEF NoTaskYet
<1>10. ASSUME MainRecv \/ MainPayload \/ HeartbeatRecv \/ HeartbeatSend
       PROVE  NoTaskYet'
  <2>1. main \notin {"connect", "register"}
    BY <1>10 DEF MainRecv, MainPayload, HeartbeatRecv, HeartbeatSend, Places
  <2>2. main' \notin {"connect", "register"}
    BY <1>10, <2>1 DEF MainRecv, MainPayload, HeartbeatRecv, HeartbeatSend
  <2> QED BY <2>2 DEF NoTaskYet
<1>11. ASSUME \/ ConnectFails \/ MainLog \/ MainLoop \/ MainLock \/ MainRecvFails
              \/ MainCancel \/ MainJoin \/ MainBye \/ HeartbeatLoop \/ HeartbeatLock
              \/ HeartbeatUnlockAgain \/ HeartbeatLog \/ HeartbeatCancelled \/ Signal
              \/ UNCHANGED vars
       PROVE  NoTaskYet'
  <2>1. UNCHANGED <<inbox, asked>>
    BY <1>11 DEF ConnectFails, MainLog, MainLoop, MainLock, MainRecvFails, MainCancel,
       MainJoin, MainBye, HeartbeatLoop, HeartbeatLock, HeartbeatUnlockAgain,
       HeartbeatLog, HeartbeatCancelled, Signal, SignalInLogger, SignalMain,
       SignalHeartbeat, Killed, vars
  <2>2. main' \in {"connect", "register"} => main \in {"connect", "register"}
    BY <1>11 DEF ConnectFails, MainLog, MainLoop, MainLock, MainRecvFails, MainCancel,
       MainJoin, MainBye, HeartbeatLoop, HeartbeatLock, HeartbeatUnlockAgain,
       HeartbeatLog, HeartbeatCancelled, Signal, SignalInLogger, SignalMain,
       RegisterRound, SignalHeartbeat, Killed, vars
  <2> QED BY <1>3, <2>1, <2>2
<1> QED BY <1>5, <1>6, <1>7, <1>8, <1>9, <1>10, <1>11
        DEF Next, Main, Heartbeat, Server

\* A step that leaves the stream alone, or appends a piece to it.
LEMMA StreamGrows ==
  ASSUME WorkerServerTypeOK, Stream, signalled' = signalled, stolen' = stolen,
         main' = "killed" \/ (main' = "payload" <=> main = "payload"),
         main = "killed" => main' = "killed",
         \/ inbox' = inbox
         \/ \E a \in Seq(Items) : WellFormed(a, FALSE) /\ inbox' = inbox \o a
  PROVE  Stream'
<1>1. inbox \in Seq(Items) /\ (main = "payload") \in BOOLEAN
  BY TypeParts DEF SequencesOK
<1>2. SUFFICES ASSUME ~(main' = "killed" \/ stolen' \/ signalled')
               PROVE  Stream'
  BY DEF Stream
<1>3. WellFormed(inbox, main = "payload")
  BY <1>2 DEF Stream
<1>4. WellFormed(inbox', main = "payload")
  BY <1>1, <1>3, ConcatWellFormed
<1>5. (main' = "payload") <=> (main = "payload")
  BY <1>2
<1> QED BY <1>4, <1>5 DEF Stream, WellFormed

\* Reading a header: main reads a task together with its payload.
LEMMA StreamReadHeader ==
  ASSUME WorkerServerTypeOK, Stream, NEW h \in Headers, RecvHeader(h),
         signalled' = signalled, stolen => stolen',
         main # "payload", main' \in {"killed", "payload"} <=> h = "TASK" /\ ~stolen',
         main = "killed" => main' = "killed", main' # "killed" \/ main = "killed"
  PROVE  Stream'
<1>1. inbox \in Seq(Items) /\ (main = "payload") \in BOOLEAN /\ inbox # <<>>
  BY TypeParts DEF SequencesOK, RecvHeader
<1>2. SUFFICES ASSUME ~(main' = "killed" \/ stolen' \/ signalled')
               PROVE  Stream'
  BY DEF Stream
<1>3. WellFormed(inbox, FALSE)
  BY <1>2 DEF Stream
<1>4. Head(inbox) # "PAYLOAD" /\ WellFormed(Tail(inbox), Head(inbox) = "TASK")
  BY <1>1, <1>3, TailWellFormed
<1>5. h = Head(inbox) /\ inbox' = Tail(inbox)
  BY <1>4 DEF RecvHeader
<1>6. (Head(inbox) = "TASK") <=> (main' = "payload")
  BY <1>2, <1>5
<1> QED BY <1>4, <1>5, <1>6 DEF Stream, WellFormed

\* The stream is read in step until something unusual happens.
LEMMA StreamKept ==
  ASSUME Inductive, [Next]_vars
  PROVE  Stream'
<1> USE DEF flags, peer, counters, MainLogs, HeartbeatLogs, AfterHeader
<1>1. /\ WorkerServerTypeOK /\ Stream /\ inbox \in Seq(Items) /\ asked \in Seq(Requests)
      /\ Places /\ SocketOwner /\ NoTaskYet /\ FlagsOK
  BY TypeParts DEF SequencesOK, Inductive
<1>2. ASSUME ServerAnswers
      PROVE  Stream'
  <2>1. PICK a \in Answers(Head(asked)) : inbox' = inbox \o a
    BY <1>2 DEF ServerAnswers
  <2>2. a \in Seq(Items) /\ WellFormed(a, FALSE)
    BY <2>1, PiecesWellFormed DEF Answers, Headers
  <2>3. UNCHANGED <<main, stolen, signalled>>
    BY <1>2 DEF ServerAnswers
  <2> QED BY <1>1, <2>1, <2>2, <2>3, StreamGrows
<1>3. ASSUME ServerSends
      PROVE  Stream'
  <2>1. PICK h \in {"SHUTDOWN", "OTHER"} : inbox' = Append(inbox, h)
    BY <1>3 DEF ServerSends
  <2>2. <<h>> \in Seq(Items) /\ WellFormed(<<h>>, FALSE)
    BY PiecesWellFormed DEF Headers
  <2>3. inbox' = inbox \o <<h>>
    BY <1>1, <2>1, AppendIsConcat DEF Items, Headers
  <2>4. UNCHANGED <<main, stolen, signalled>>
    BY <1>3 DEF ServerSends
  <2> QED BY <1>1, <2>2, <2>3, <2>4, StreamGrows
<1>4. ASSUME Register
      PROVE  Stream'
  <2>1. /\ main = "register" /\ main' \notin {"killed", "payload"}
        /\ UNCHANGED <<stolen, signalled>>
    BY <1>4 DEF Register, RegisterRound
  <2>2. CASE UNCHANGED peer
    BY <1>1, <2>1, <2>2, StreamGrows
  <2>3. CASE \E h \in Headers : RecvHeader(h)
    <3>1. PICK h \in Headers : RecvHeader(h)
      BY <2>3
    <3>2. h # "TASK"
      <4>1. inbox # <<>> /\ Head(inbox) = inbox[1] /\ 1 \in 1 .. Len(inbox)
        BY <1>1, <3>1, EmptySeq DEF RecvHeader
      <4> QED BY <1>1, <2>1, <3>1, <4>1 DEF RecvHeader, NoTaskYet
    <3> QED BY <1>1, <2>1, <3>1, <3>2, StreamReadHeader
  <2> QED BY <1>4, <2>2, <2>3 DEF Register
<1>5. ASSUME MainRecv
      PROVE  Stream'
  <2>1. PICK h \in Headers : /\ RecvHeader(h)
                             /\ h = "TASK" <=> main' = "payload"
                             /\ main' \in {"log", "shutdown", "payload"}
    BY <1>5 DEF MainRecv
  <2>2. main = "recv" /\ UNCHANGED <<stolen, signalled>>
    BY <1>5 DEF MainRecv
  <2>3. CASE stolen
    BY <2>2, <2>3 DEF Stream
  <2>4. CASE ~stolen
    BY <1>1, <2>1, <2>2, <2>4, StreamReadHeader
  <2> QED BY <2>3, <2>4
<1>6. ASSUME MainPayload
      PROVE  Stream'
  <2>1. main = "payload" /\ UNCHANGED <<stolen, signalled>>
    BY <1>6 DEF MainPayload
  <2>2. CASE stolen \/ signalled
    BY <2>1, <2>2 DEF Stream
  <2>3. CASE ~(stolen \/ signalled)
    <3>1. WellFormed(inbox, TRUE)
      BY <1>1, <2>1, <2>3 DEF Stream
    <3>2. inbox # <<>>
      BY <3>1, EmptySeq DEF WellFormed
    <3>3. Head(inbox) = "PAYLOAD" /\ WellFormed(Tail(inbox), Head(inbox) = "TASK")
      BY <1>1, <3>1, <3>2, TailWellFormed
    <3>4. inbox' = Tail(inbox) /\ main' = "log"
      BY <1>6, <3>2, <3>3 DEF MainPayload, RecvFails
    <3> QED BY <3>3, <3>4 DEF Stream, WellFormed
  <2> QED BY <2>2, <2>3
<1>7. ASSUME HeartbeatRecv
      PROVE  Stream'
  <2>1. main' = main /\ signalled' = signalled /\ (stolen => stolen')
    BY <1>1, <1>7 DEF HeartbeatRecv, FlagsOK
  <2>2. CASE stolen'
    BY <2>2 DEF Stream
  <2>3. CASE ~stolen' /\ UNCHANGED peer
    <3>1. stolen' = stolen
      BY <1>1, <2>1, <2>3, <1>7 DEF HeartbeatRecv, FlagsOK
    <3> QED BY <1>1, <2>1, <2>3, <3>1, StreamGrows
  <2>4. CASE ~stolen' /\ \E h \in Headers : RecvHeader(h) /\ stolen' = (stolen \/ h = "TASK")
    <3>1. PICK h \in Headers : RecvHeader(h) /\ stolen' = (stolen \/ h = "TASK")
      BY <2>4
    <3>2. h # "TASK" /\ ~stolen
      BY <2>4, <3>1
    <3>3. main # "payload"
      BY <1>1, <1>7, <3>2 DEF HeartbeatRecv, SocketOwner
    <3>4. CASE main = "killed"
      BY <2>1, <3>4 DEF Stream
    <3>5. CASE main # "killed"
      BY <1>1, <2>1, <3>1, <3>2, <3>3, <3>5, StreamReadHeader
    <3> QED BY <3>4, <3>5
  <2> QED BY <1>7, <2>2, <2>3, <2>4 DEF HeartbeatRecv
<1>8. ASSUME SignalInLogger \/ SignalMain \/ SignalHeartbeat \/ Killed
      PROVE  Stream'
  BY <1>8 DEF SignalInLogger, SignalMain, SignalHeartbeat, Killed, Stream
<1>9. ASSUME \/ ConnectFails \/ Connect \/ MainLog \/ MainLoop \/ MainLock
             \/ MainRecvFails \/ MainCancel \/ MainJoin \/ MainBye \/ HeartbeatLoop
             \/ HeartbeatLock \/ HeartbeatSend \/ HeartbeatUnlockAgain \/ HeartbeatLog
             \/ HeartbeatCancelled \/ ServerCloses \/ UNCHANGED vars
      PROVE  Stream'
  <2>1. /\ UNCHANGED <<inbox, stolen, signalled>>
        /\ main' = main \/ (main \notin {"payload", "killed"} /\ main' \notin {"payload", "killed"})
    BY <1>9 DEF ConnectFails, Connect, MainLog, MainLoop, MainLock, MainRecvFails,
       MainCancel, MainJoin, MainBye, HeartbeatLoop, HeartbeatLock, HeartbeatSend,
       HeartbeatUnlockAgain, HeartbeatLog, HeartbeatCancelled, ServerCloses, vars
  <2> QED BY <1>1, <2>1, StreamGrows
<1> QED BY <1>2, <1>3, <1>4, <1>5, <1>6, <1>7, <1>8, <1>9
        DEF Next, Main, Heartbeat, Server, Signal

(***************************************************************************)
(* The theorems.                                                           *)
(***************************************************************************)
\* The inductive invariant holds in every behaviour of the worker server.
THEOREM InductiveInvariant == Spec => []Inductive
<1>1. Inductive /\ [Next]_vars => Inductive'
  <2> SUFFICES ASSUME Inductive, [Next]_vars PROVE Inductive'
    OBVIOUS
  <2>1. /\ WorkerServerTypeOK /\ Places /\ SocketOwner /\ OnlyThirdResponseLost
        /\ NoTaskYet /\ Locks
    BY DEF Inductive
  <2>2. Progress' /\ FlagsOK' /\ SequencesOK'
    BY <2>1, ProgressKept, FlagsKept, SequencesKept
  <2>3. WorkerServerTypeOK'
    <3>1. ScalarsOK'
      BY <2>2 DEF Progress
    <3> QED BY <2>2, <3>1, TypeParts, PTL
  <2>4. SocketOwner' /\ NoTaskYet' /\ Stream' /\ Locks'
    BY <2>1, SocketOwnerKept, NoTaskYetKept, StreamKept, LocksKept
  <2> QED BY <2>2, <2>3, <2>4 DEF Inductive, Progress
<1> QED BY <1>1, InitInductive, PTL DEF Spec

\* Type correctness, and only one thread uses the socket unless a heartbeat was
\* answered with a task: for every bound on attempts, heartbeats and messages.
THEOREM OneSocketUser == Spec => []WorkerServerInv
<1>1. Inductive => WorkerServerInv
  BY DEF Inductive, SocketOwner, WorkerServerInv
<1> QED BY <1>1, InductiveInvariant, PTL

\* A registration that failed although the response came has read it in its
\* third round (the test behind the loop of register_with_server).
THEOREM ThirdResponseLost == Spec => []OnlyThirdResponseLost
<1>1. Inductive => OnlyThirdResponseLost
  BY DEF Inductive
<1> QED BY <1>1, InductiveInvariant, PTL

\* Nobody reads a header out of a payload unless a heartbeat was answered with a
\* task or a signal came in between.
THEOREM PayloadsReadInStep == Spec => []StreamInStep
<1>1. Inductive => StreamInStep
  <2> SUFFICES ASSUME Inductive, inbox # <<>>, Head(inbox) = "PAYLOAD",
                      ~(main = "killed" \/ stolen \/ signalled)
               PROVE  main = "payload" /\ heartbeat # "recv"
    BY DEF StreamInStep
  <2>1. inbox \in Seq(Items) /\ WellFormed(inbox, main = "payload") /\ SocketOwner
    BY TypeParts DEF Inductive, SequencesOK, Stream
  <2>2. main = "payload"
    BY <2>1, TailWellFormed
  <2> QED BY <2>1, <2>2 DEF SocketOwner
<1> QED BY <1>1, InductiveInvariant, PTL

\* The two threads never stand still over socket_mutex and the mutex of the
\* logger: they wait for the server on an open connection, or main is in
\* logger_close, the process was killed, or the logger was lost with a thread.
THEOREM StandstillExplained == Spec => []OnlyServerAwaited
<1>1. Inductive => OnlyServerAwaited
  <2> SUFFICES ASSUME Inductive, ~MainCanStep, ~HeartbeatCanStep, ~LoggerLost,
                      ~(\/ main \in {"register", "recv", "payload"}
                        \/ heartbeat = "recv") \/ Readable
               PROVE  main \in {"logger_close", "killed"}
    BY DEF OnlyServerAwaited, CanStep
  <2>1. ScalarsOK /\ Locks
    BY TypeParts DEF Inductive
  <2>2. heartbeat \in {"none", "sleep", "ended"} \cup HeartbeatLogs
        \/ (heartbeat = "recv" /\ ~Readable)
    BY <2>1 DEF ScalarsOK, HeartbeatCanStep, LoggerLost
  <2>3. heartbeat # "recv"
    BY <2>2 DEF HeartbeatLogs
  <2>4. CASE main \in {"bye"} \cup MainLogs
    <3>1. log_mutex = "heartbeat"
      BY <2>1, <2>4 DEF ScalarsOK, Locks, MainCanStep, MainLogs
    <3>2. heartbeat = "ended"
      BY <2>1, <2>2, <2>3, <3>1 DEF Locks, HeartbeatCanStep, HeartbeatLogs
    <3> QED BY <3>1, <3>2 DEF LoggerLost
  <2>5. CASE main = "lock"
    <3>1. socket_mutex = "heartbeat" /\ ~cancelled
      BY <2>1, <2>5 DEF ScalarsOK, Locks, MainCanStep
    <3> QED BY <2>1, <2>2, <2>3, <2>5, <3>1 DEF Locks, HeartbeatLogs
  <2>6. CASE main = "join"
    <3>1. heartbeat \notin {"none", "ended", "sleep"}
      BY <2>1, <2>6 DEF Locks, MainCanStep, HeartbeatCanStep
    <3>2. heartbeat \in HeartbeatLogs /\ log_mutex = "main"
      BY <2>1, <2>2, <2>3, <3>1 DEF HeartbeatCanStep, ScalarsOK, Locks
    <3> QED BY <2>1, <2>6, <3>2 DEF Locks, MainLogs
  <2>7. main \notin {"connect", "loop", "cancel", "register", "recv", "payload", "stuck"}
    BY DEF MainCanStep, LoggerLost
  <2> QED BY <2>1, <2>4, <2>5, <2>6, <2>7 DEF ScalarsOK
<1> QED BY <1>1, InductiveInvariant, PTL
=============================================================================
