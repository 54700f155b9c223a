-------------------------- MODULE JobWorker_proofs --------------------------
(***************************************************************************)
(* Proofs about the worker process of the job system, for every number of  *)
(* connections and of assignments.                                         *)
(***************************************************************************)
EXTENDS JobWorker, FiniteSetTheorems, SequenceTheorems, TLAPS

-----------------------------------------------------------------------------
(***************************************************************************)
(* The parts of the invariant.                                             *)
(***************************************************************************)
\* The flags, the scalars, the threads and the server's side.
FlagsOK == is_running \in BOOLEAN /\ is_connected \in BOOLEAN /\ overtaken \in BOOLEAN
ScalarsOK ==
  /\ worker_id \in 0 .. MaxConns /\ fd \in 0 .. MaxConns /\ conns \in 0 .. MaxConns
  /\ lock \in Threads \cup {"none"}
ThreadsOK ==
  /\ op \in [Threads -> Ops] /\ stage \in [Threads -> Stages]
  /\ id \in [Threads -> 0 .. MaxConns]
  /\ on \in [Threads -> 0 .. MaxConns] /\ at \in [Threads -> 0 .. MaxConns]
NetOK ==
  /\ link \in [Conns -> Seq(Answers)] /\ eof \in [Conns -> BOOLEAN]
  /\ greeted \in SUBSET Conns /\ registered \in SUBSET Conns
CountsOK ==
  /\ job \in 0 .. MaxGiven /\ given \in 0 .. MaxGiven
  /\ processed \in SUBSET Jobs /\ failed \in SUBSET Jobs /\ accepted \in SUBSET Jobs
CountedOnce == processed \cap failed = {}
LockHolder == lock # "none" => op[lock] \in Closing

\* The type invariant is the conjunction of these.
LEMMA TypeParts ==
  WorkerTypeOK <=> /\ FlagsOK /\ ScalarsOK /\ ThreadsOK /\ NetOK /\ CountsOK
                   /\ CountedOnce /\ LockHolder
BY Zenon DEF WorkerTypeOK, FlagsOK, ScalarsOK, ThreadsOK, NetOK, CountsOK, CountedOnce, LockHolder

\* Where each thread can be.  The main thread leaves everything to the other
\* two from the moment it has registered until it has joined them.
MainOps == {"START", "CONNECT", "REGISTER", "GIVEUP", "RUN", "JOIN", "DISCONNECT", "END"}
BeatOps == {"TOP", "HEARTBEAT", "DISCONNECT", "CONNECT", "REGISTER", "GIVEUP", "END"}
JobOps == {"TOP", "REQUEST_JOB", "PROCESS", "JOB_COMPLETED", "JOB_FAILED", "END"}
Exchanges == {"CONNECT", "REGISTER", "HEARTBEAT", "DISCONNECT", "GIVEUP", "REQUEST_JOB",
              "JOB_COMPLETED", "JOB_FAILED"}
Places ==
  /\ op["main"] \in MainOps /\ op["heartbeat"] \in BeatOps /\ op["job"] \in JobOps
  /\ op["main"] \notin {"RUN", "JOIN"} => op["heartbeat"] = "END" /\ op["job"] = "END"
  /\ \A t \in Threads :
       /\ stage[t] # "enter" => op[t] \in Exchanges
       /\ stage[t] = "close" => op[t] \in Closing
       /\ op[t] \in Closing /\ stage[t] # "enter" <=> lock = t

\* The connection: what the thread that replaces it knows of it at each place.
Knows(t) ==
  /\ op[t] \in {"START", "CONNECT"} => ~is_connected
  /\ op[t] = "CONNECT" /\ stage[t] # "enter" => fd # 0
  /\ op[t] \in Closing /\ stage[t] # "enter" => fd # 0
  /\ op[t] = "REGISTER" /\ stage[t] = "wait" => at[t] = fd
  /\ stage[t] = "wait" => at[t] # 0 /\ at[t] <= conns
  /\ stage[t] = "receive" => on[t] # 0 /\ on[t] <= conns
Connected ==
  /\ fd # 0 => fd = conns
  /\ is_connected => fd # 0
  /\ \A t \in Threads : Knows(t)
  /\ op["heartbeat"] \in {"TOP", "HEARTBEAT"} /\ is_connected => worker_id = fd

-----------------------------------------------------------------------------
(***************************************************************************)
(* What the steps do to the threads and to the connection.                 *)
(***************************************************************************)
\* A thread turns to another operation; worker_start wakes the other two.
Turns(t, o) ==
  /\ op'[t] = o /\ stage'[t] = "enter"
  /\ \A u \in Threads \ {t} :
       /\ op'[u] = (IF o = "RUN" THEN "TOP" ELSE op[u]) /\ stage'[u] = stage[u]
       /\ at'[u] = at[u] /\ on'[u] = on[u]

\* A thread goes on to another stage of its exchange.
Advances(t, s) ==
  /\ stage'[t] = s
  /\ \A u \in Threads : op'[u] = op[u]
  /\ \A u \in Threads \ {t} : stage'[u] = stage[u] /\ at'[u] = at[u] /\ on'[u] = on[u]

\* The operations that may follow one another.
Follows(t, o) ==
  \/ /\ t = "main"
     /\ \/ op[t] = "START" /\ o = "CONNECT"
        \/ op[t] = "CONNECT" /\ o \in {"REGISTER", "END"}
        \/ op[t] = "REGISTER" /\ o \in {"RUN", "GIVEUP"}
        \/ op[t] \in Closing /\ o = "END"
        \/ op[t] = "RUN" /\ o = "JOIN"
        \/ op[t] = "JOIN" /\ o = "DISCONNECT" /\ op["heartbeat"] = "END" /\ op["job"] = "END"
  \/ /\ t = "heartbeat"
     /\ \/ op[t] = "TOP" /\ o \in {"END", "HEARTBEAT"}
        \/ op[t] = "HEARTBEAT" /\ o \in {"TOP", "DISCONNECT"}
        \/ op[t] = "CONNECT" /\ o \in {"REGISTER", "TOP"}
        \/ op[t] = "REGISTER" /\ o \in {"TOP", "GIVEUP"}
        \/ op[t] = "DISCONNECT" /\ o = "CONNECT"
        \/ op[t] = "GIVEUP" /\ o = "TOP"
  \/ /\ t = "job"
     /\ \/ op[t] = "TOP" /\ o \in {"END", "REQUEST_JOB"}
        \/ op[t] = "REQUEST_JOB" /\ o \in {"PROCESS", "TOP"}
        \/ op[t] = "PROCESS" /\ o \in {"JOB_COMPLETED", "JOB_FAILED"}
        \/ op[t] \in {"JOB_COMPLETED", "JOB_FAILED"} /\ o = "TOP"

\* What After returns.
LEMMA AfterIs ==
  ASSUME NEW t
  PROVE  /\ After(t, "CONNECT", TRUE) = "REGISTER"
         /\ After(t, "CONNECT", FALSE) = IF t = "main" THEN "END" ELSE "TOP"
         /\ After(t, "REGISTER", TRUE) = IF t = "main" THEN "RUN" ELSE "TOP"
         /\ After(t, "REGISTER", FALSE) = "GIVEUP"
         /\ After(t, "HEARTBEAT", TRUE) = "TOP"
         /\ After(t, "HEARTBEAT", FALSE) = "DISCONNECT"
         /\ After(t, "DISCONNECT", TRUE) = IF t = "main" THEN "END" ELSE "CONNECT"
         /\ After(t, "DISCONNECT", FALSE) = IF t = "main" THEN "END" ELSE "CONNECT"
         /\ After(t, "GIVEUP", TRUE) = IF t = "main" THEN "END" ELSE "TOP"
         /\ After(t, "GIVEUP", FALSE) = IF t = "main" THEN "END" ELSE "TOP"
         /\ After(t, "JOB_COMPLETED", TRUE) = "TOP" /\ After(t, "JOB_COMPLETED", FALSE) = "TOP"
         /\ After(t, "JOB_FAILED", TRUE) = "TOP" /\ After(t, "JOB_FAILED", FALSE) = "TOP"
         /\ After(t, "REQUEST_JOB", TRUE) = "PROCESS"
         /\ After(t, "REQUEST_JOB", FALSE) = "TOP"
BY DEF After, AfterRegister

\* The operations after a success and after a failure.
After2(t, o) ==
  /\ Follows(t, After(t, o, TRUE)) /\ After(t, o, TRUE) \in Ops
  /\ Follows(t, After(t, o, FALSE)) /\ After(t, o, FALSE) \in Ops

\* A finished exchange is followed by one of the operations listed.
LEMMA AfterFollows ==
  ASSUME Places, NEW t \in Threads, op[t] \in Exchanges, NEW ok \in BOOLEAN
  PROVE  Follows(t, After(t, op[t], ok)) /\ After(t, op[t], ok) \in Ops
<1>1. ASSUME NEW o, o = op[t]
      PROVE  After2(t, o)
  <2>1. CASE t = "main"
    <3>1. o \in {"CONNECT", "REGISTER", "DISCONNECT", "GIVEUP"}
      BY <1>1, <2>1 DEF Places, MainOps, Exchanges
    <3> QED BY <1>1, <2>1, <3>1, AfterIs DEF After2, Follows, Closing, Ops
  <2>2. CASE t = "heartbeat"
    <3>1. o \in {"HEARTBEAT", "CONNECT", "REGISTER", "DISCONNECT", "GIVEUP"}
      BY <1>1, <2>2 DEF Places, BeatOps, Exchanges
    <3>2. CASE o = "HEARTBEAT"
      <4>1. After(t, o, TRUE) = "TOP" /\ After(t, o, FALSE) = "DISCONNECT"
        BY <3>2, AfterIs
      <4> QED BY <1>1, <2>2, <3>2, <4>1 DEF After2, Follows, Ops
    <3>3. CASE o = "CONNECT"
      <4>1. After(t, o, TRUE) = "REGISTER" /\ After(t, o, FALSE) = "TOP"
        BY <2>2, <3>3, AfterIs
      <4> QED BY <1>1, <2>2, <3>3, <4>1 DEF After2, Follows, Ops
    <3>4. CASE o = "REGISTER"
      <4>1. After(t, o, TRUE) = "TOP" /\ After(t, o, FALSE) = "GIVEUP"
        BY <2>2, <3>4, AfterIs
      <4> QED BY <1>1, <2>2, <3>4, <4>1 DEF After2, Follows, Ops
    <3>5. CASE o = "DISCONNECT"
      <4>1. After(t, o, TRUE) = "CONNECT" /\ After(t, o, FALSE) = "CONNECT"
        BY <2>2, <3>5, AfterIs
      <4> QED BY <1>1, <2>2, <3>5, <4>1 DEF After2, Follows, Ops
    <3>6. CASE o = "GIVEUP"
      <4>1. After(t, o, TRUE) = "TOP" /\ After(t, o, FALSE) = "TOP"
        BY <2>2, <3>6, AfterIs
      <4> QED BY <1>1, <2>2, <3>6, <4>1 DEF After2, Follows, Ops
    <3> QED BY <3>1, <3>2, <3>3, <3>4, <3>5, <3>6
  <2>3. CASE t = "job"
    <3>1. o \in {"REQUEST_JOB", "JOB_COMPLETED", "JOB_FAILED"}
      BY <1>1, <2>3 DEF Places, JobOps, Exchanges
    <3> QED BY <1>1, <2>3, <3>1, AfterIs DEF After2, Follows, Ops
  <2> QED BY <2>1, <2>2, <2>3 DEF Threads
<1>2. CASE ok = TRUE
  BY <1>1, <1>2 DEF After2
<1>3. CASE ok = FALSE
  BY <1>1, <1>3 DEF After2
<1> QED BY <1>2, <1>3

\* Return is a turn.
LEMMA ReturnTurns ==
  ASSUME ThreadsOK, Places, NEW t \in Threads, op[t] \in Exchanges,
         NEW ok \in BOOLEAN, Return(t, ok)
  PROVE  /\ Turns(t, After(t, op[t], ok)) /\ Follows(t, After(t, op[t], ok))
         /\ ThreadsOK'
<1> DEFINE o == After(t, op[t], ok)
<1>1. o \in Ops /\ Follows(t, o)
  BY AfterFollows
<1>2. /\ op' = [u \in Threads |-> IF u = t THEN o ELSE IF o = "RUN" THEN "TOP" ELSE op[u]]
      /\ stage' = [stage EXCEPT ![t] = "enter"] /\ id' = [id EXCEPT ![t] = 0]
      /\ on' = [on EXCEPT ![t] = 0] /\ at' = [at EXCEPT ![t] = 0]
  BY DEF Return
<1> HIDE DEF o
<1>3. 0 \in 0 .. MaxConns /\ "TOP" \in Ops /\ "enter" \in Stages
  BY WorkerAssumption DEF Ops, Stages
<1>4. Turns(t, o)
  BY <1>2 DEF Turns, ThreadsOK
<1>5. ThreadsOK'
  BY <1>1, <1>2, <1>3 DEF ThreadsOK
<1> QED BY <1>1, <1>4, <1>5 DEF o

\* The connection and the id stay as they are.
Steady ==
  fd' = fd /\ conns' = conns /\ is_connected' = is_connected /\ worker_id' = worker_id

\* The kinds of steps: nothing happens to the threads and the connection ...
Idle ==
  /\ Steady /\ lock' = lock
  /\ \A u \in Threads : /\ op'[u] = op[u] /\ stage'[u] = stage[u]
                        /\ at'[u] = at[u] /\ on'[u] = on[u]

\* ... a thread turns to something else without touching the connection ...
TurnKind(t) ==
  /\ \E o \in Ops : /\ Turns(t, o) /\ Follows(t, o)
                    /\ op[t] = "REGISTER" => o = "GIVEUP"
  /\ Steady /\ lock' = lock /\ lock # t
  /\ op[t] # "CONNECT" /\ (op[t] \in Closing => ~is_connected)

\* ... fails to connect ...
DropKind(t) ==
  /\ op[t] = "CONNECT" /\ Turns(t, IF t = "main" THEN "END" ELSE "TOP")
  /\ fd' = 0 /\ conns' = conns /\ is_connected' = is_connected /\ worker_id' = worker_id
  /\ lock' = lock

\* ... opens a connection ...
OpenKind(t) ==
  /\ op[t] = "CONNECT" /\ stage[t] = "enter" /\ Advances(t, "send")
  /\ fd' = conns + 1 /\ conns' = conns + 1 /\ conns < MaxConns
  /\ is_connected' = is_connected /\ worker_id' = worker_id /\ lock' = lock

\* ... goes on with its exchange ...
AdvanceKind(t) ==
  /\ Steady
  /\ \/ /\ stage[t] = "enter" /\ op[t] \in Exchanges \ (Closing \cup {"CONNECT"})
        /\ Advances(t, "send") /\ lock' = lock
     \/ /\ stage[t] = "enter" /\ op[t] \in Closing /\ lock = "none" /\ is_connected
        /\ Advances(t, "send") \/ Advances(t, "close")
        /\ lock' = t
     \/ /\ stage[t] = "send" /\ Advances(t, "receive")
        /\ fd # 0 /\ on'[t] = fd /\ lock' = lock
     \/ /\ stage[t] = "receive" /\ Advances(t, "wait")
        /\ fd # 0 /\ at'[t] = fd /\ lock' = lock
     \/ /\ stage[t] = "wait" /\ op[t] \in Closing /\ Advances(t, "close") /\ lock' = lock

\* ... is connected, is registered, or has closed the connection.
LinkedKind(t) ==
  /\ op[t] = "CONNECT" /\ stage[t] = "wait" /\ Turns(t, "REGISTER")
  /\ fd' = fd /\ conns' = conns /\ is_connected' = TRUE /\ worker_id' = worker_id
  /\ lock' = lock
RegisteredKind(t) ==
  /\ op[t] = "REGISTER" /\ stage[t] = "wait"
  /\ Turns(t, IF t = "main" THEN "RUN" ELSE "TOP")
  /\ fd' = fd /\ conns' = conns /\ is_connected' = is_connected /\ worker_id' = at[t]
  /\ lock' = lock
CloseKind(t) ==
  /\ stage[t] = "close"
  /\ \E o \in Ops : Turns(t, o) /\ Follows(t, o)
  /\ fd' = 0 /\ conns' = conns /\ is_connected' = FALSE /\ worker_id' = worker_id
  /\ lock' = "none"

ThreadKind(t) ==
  \/ TurnKind(t) \/ DropKind(t) \/ OpenKind(t) \/ AdvanceKind(t)
  \/ LinkedKind(t) \/ RegisteredKind(t) \/ CloseKind(t)

\* The state as far as the threads go.
Good == FlagsOK /\ ScalarsOK /\ ThreadsOK /\ Places /\ Connected

\* Goto to the start of another operation is a turn ...
LEMMA GotoTurns ==
  ASSUME ThreadsOK, NEW t \in Threads, NEW o \in Ops \ {"RUN"}, Goto(t, o, "enter"),
         UNCHANGED <<id, on, at>>
  PROVE  Turns(t, o) /\ ThreadsOK'
<1>1. op' = [op EXCEPT ![t] = o] /\ stage' = [stage EXCEPT ![t] = "enter"]
  BY DEF Goto
<1> QED BY <1>1 DEF Turns, ThreadsOK, Stages

\* ... and to another stage it is an advance.
LEMMA GotoAdvances ==
  ASSUME ThreadsOK, NEW t \in Threads, NEW s \in Stages, Goto(t, op[t], s),
         NEW n \in 0 .. MaxConns,
         id' = id \/ id' = [id EXCEPT ![t] = n],
         NEW m \in 0 .. MaxConns,
         on' = on \/ on' = [on EXCEPT ![t] = m],
         NEW k \in 0 .. MaxConns,
         at' = at \/ at' = [at EXCEPT ![t] = k]
  PROVE  Advances(t, s) /\ ThreadsOK'
<1>1. op' = [op EXCEPT ![t] = op[t]] /\ stage' = [stage EXCEPT ![t] = s]
  BY DEF Goto
<1>2. op' = op
  BY <1>1 DEF ThreadsOK
<1>3. Advances(t, s)
  BY <1>1, <1>2 DEF Advances, ThreadsOK
<1> QED BY <1>1, <1>2, <1>3 DEF ThreadsOK

\* An exchange that fails without the connection being replaced.
LEMMA FailKind ==
  ASSUME Good, NEW t \in Threads, op[t] \in Exchanges, lock # t, op[t] \notin Closing,
         Fail(t), conns' = conns, is_connected' = is_connected, worker_id' = worker_id,
         lock' = lock
  PROVE  ThreadKind(t) /\ ThreadsOK'
<1>1. Return(t, FALSE) /\ (op[t] = "CONNECT" => fd' = 0) /\ (op[t] # "CONNECT" => fd' = fd)
  BY DEF Fail
<1>2. /\ Turns(t, After(t, op[t], FALSE)) /\ Follows(t, After(t, op[t], FALSE))
      /\ ThreadsOK' /\ After(t, op[t], FALSE) \in Ops
  BY <1>1, ReturnTurns, AfterFollows DEF Good
<1>3. CASE op[t] = "CONNECT"
  <2>1. DropKind(t)
    BY <1>1, <1>2, <1>3, AfterIs DEF DropKind
  <2> QED BY <1>2, <2>1 DEF ThreadKind
<1>4. CASE op[t] # "CONNECT"
  <2>1. op[t] = "REGISTER" => After(t, op[t], FALSE) = "GIVEUP"
    BY AfterIs
  <2>2. TurnKind(t)
    BY <1>1, <1>2, <1>4, <2>1 DEF TurnKind, Steady
  <2> QED BY <1>2, <2>2 DEF ThreadKind
<1> QED BY <1>3, <1>4

\* The steps outside an exchange.
LEMMA ControlKind ==
  ASSUME Good, NEW t \in Threads,
         \/ t = "main" /\ (Start \/ Stop \/ Join)
         \/ t = "job" /\ Process
         \/ Top(t)
  PROVE  TurnKind(t) /\ ThreadsOK'
<1>1. /\ Steady /\ lock' = lock /\ UNCHANGED <<id, on, at>>
  BY DEF Start, Stop, Join, Process, Top, Steady, worker
<1>2. \E o \in Ops \ {"RUN"} : Goto(t, o, "enter") /\ Follows(t, o)
  <2>1. CASE t = "main" /\ (Start \/ Stop)
    BY <2>1 DEF Start, Stop, Follows, Ops
  <2>2. CASE t = "main" /\ Join
    BY <2>2 DEF Join, Follows, Ops
  <2>3. CASE t = "job" /\ Process
    BY <2>3 DEF Process, Follows, Ops
  <2>4. CASE Top(t)
    <3>1. op[t] = "TOP" /\ t \in {"heartbeat", "job"}
      BY <2>4 DEF Top, Threads, Good, Places, MainOps
    <3>2. CASE t = "heartbeat"
      <4>1. Goto(t, "END", "enter") \/ Goto(t, "HEARTBEAT", "enter")
        BY <2>4, <3>2 DEF Top
      <4> QED BY <3>1, <3>2, <4>1 DEF Follows, Ops
    <3>3. CASE t = "job"
      <4>1. Goto(t, "END", "enter") \/ Goto(t, "REQUEST_JOB", "enter")
        BY <2>4, <3>3 DEF Top
      <4> QED BY <3>1, <3>3, <4>1 DEF Follows, Ops
    <3> QED BY <3>1, <3>2, <3>3
  <2> QED BY <2>1, <2>2, <2>3, <2>4
<1>3. op[t] \in {"START", "RUN", "JOIN", "PROCESS", "TOP"}
  BY DEF Start, Stop, Join, Process, Top
<1>4. lock # t
  BY <1>3 DEF Good, Places, Closing
<1>5. PICK o \in Ops \ {"RUN"} : Goto(t, o, "enter") /\ Follows(t, o)
  BY <1>2
<1>6. Turns(t, o) /\ ThreadsOK'
  BY <1>1, <1>5, GotoTurns DEF Good
<1> QED BY <1>1, <1>3, <1>4, <1>5, <1>6 DEF TurnKind, Closing

\* The first critical section of an exchange.
LEMMA EnterKind ==
  ASSUME Good, NEW t \in Threads, Enter(t)
  PROVE  ThreadKind(t) /\ ThreadsOK'
<1>1. /\ op[t] \in Exchanges \ (Closing \cup {"CONNECT"}) /\ stage[t] = "enter"
      /\ lock = "none" /\ lock # t
  BY DEF Enter, Exchanges, Closing, Threads
<1>2. /\ conns' = conns /\ is_connected' = is_connected /\ worker_id' = worker_id
      /\ lock' = lock
  BY DEF Enter
<1>3. CASE Fail(t)
  BY <1>1, <1>2, <1>3, FailKind
<1>4. CASE /\ Goto(t, op[t], "send") /\ id' = [id EXCEPT ![t] = worker_id]
           /\ UNCHANGED <<is_running, on, at, fd, job, stats>>
  <2>1. Advances(t, "send") /\ ThreadsOK' /\ fd' = fd
    BY <1>4, GotoAdvances DEF Good, ScalarsOK, Stages
  <2>2. AdvanceKind(t)
    BY <1>1, <1>2, <2>1 DEF AdvanceKind, Steady
  <2> QED BY <2>1, <2>2 DEF ThreadKind
<1> QED BY <1>3, <1>4 DEF Enter

\* socket and connect.
LEMMA OpenIsKind ==
  ASSUME Good, NEW t \in Threads, Open(t)
  PROVE  ThreadKind(t) /\ ThreadsOK'
<1>1. /\ op[t] = "CONNECT" /\ stage[t] = "enter"
      /\ is_connected' = is_connected /\ worker_id' = worker_id /\ lock' = lock
  BY DEF Open
<1>2. lock # t /\ op[t] \in Exchanges /\ op[t] \notin Closing
  BY <1>1 DEF Good, Places, Closing, Exchanges
<1>3. CASE Fail(t) /\ UNCHANGED conns
  BY <1>1, <1>2, <1>3, FailKind
<1>4. CASE /\ conns < MaxConns /\ conns' = conns + 1 /\ fd' = conns'
           /\ Goto(t, "CONNECT", "send") /\ UNCHANGED <<is_running, id, on, at, job, stats>>
  <2>1. Advances(t, "send") /\ ThreadsOK'
    BY <1>1, <1>4, GotoAdvances DEF Good, ScalarsOK, Stages
  <2>2. OpenKind(t)
    BY <1>1, <1>4, <2>1 DEF OpenKind
  <2> QED BY <2>1, <2>2 DEF ThreadKind
<1> QED BY <1>3, <1>4 DEF Open

\* worker_disconnect_from_server takes the lock.
LEMMA DisconnectKind ==
  ASSUME Good, NEW t \in Threads, EnterDisconnect(t)
  PROVE  ThreadKind(t) /\ ThreadsOK'
<1>1. /\ op[t] \in Closing /\ stage[t] = "enter" /\ lock = "none" /\ lock # t
      /\ op[t] # "CONNECT" /\ op[t] # "REGISTER" /\ op[t] \in Exchanges
  BY DEF EnterDisconnect, Closing, Threads, Exchanges
<1>2. Steady
  BY DEF EnterDisconnect, Steady
<1>3. CASE is_connected
  <2>1. /\ lock' = t /\ Goto(t, op[t], TakeBack) /\ id' = [id EXCEPT ![t] = worker_id]
        /\ on' = [on EXCEPT ![t] = fd] /\ UNCHANGED <<is_running, at>>
    BY <1>3 DEF EnterDisconnect
  <2>2. TakeBack \in {"send", "close"}
    BY DEF TakeBack
  <2>3. Advances(t, TakeBack) /\ ThreadsOK'
    BY <2>1, <2>2, GotoAdvances DEF Good, ScalarsOK, Stages
  <2>4. Advances(t, "send") \/ Advances(t, "close")
    BY <2>2, <2>3
  <2>5. AdvanceKind(t)
    BY <1>1, <1>2, <1>3, <2>1, <2>4 DEF AdvanceKind
  <2> QED BY <2>3, <2>5 DEF ThreadKind
<1>4. CASE ~is_connected
  <2>1. Return(t, TRUE) /\ lock' = lock
    BY <1>4 DEF EnterDisconnect
  <2>2. /\ Turns(t, After(t, op[t], TRUE)) /\ Follows(t, After(t, op[t], TRUE))
        /\ ThreadsOK' /\ After(t, op[t], TRUE) \in Ops
    BY <1>1, <2>1, ReturnTurns, AfterFollows DEF Good
  <2>3. TurnKind(t)
    BY <1>1, <1>2, <1>4, <2>1, <2>2 DEF TurnKind
  <2> QED BY <2>2, <2>3 DEF ThreadKind
<1> QED BY <1>3, <1>4

\* send_message.
LEMMA SendKind ==
  ASSUME Good, NEW t \in Threads, Send(t)
  PROVE  ThreadKind(t) /\ ThreadsOK'
<1>1. /\ stage[t] = "send" /\ op[t] \in Exchanges
      /\ conns' = conns /\ is_connected' = is_connected /\ worker_id' = worker_id
      /\ lock' = lock
  BY DEF Send, Good, Places
<1>2. CASE op[t] \notin Closing /\ Fail(t)
  <2>1. lock # t
    BY <1>2 DEF Good, Places
  <2> QED BY <1>1, <1>2, <2>1, FailKind
<1>3. CASE /\ fd # 0 /\ Goto(t, op[t], "receive") /\ on' = [on EXCEPT ![t] = fd]
           /\ UNCHANGED <<is_running, id, at, fd, job, stats>>
  <2>1. Advances(t, "receive") /\ ThreadsOK'
    BY <1>3, GotoAdvances DEF Good, ScalarsOK, Stages
  <2>2. on'[t] = fd
    BY <1>3 DEF Good, ThreadsOK
  <2>3. AdvanceKind(t)
    BY <1>1, <1>3, <2>1, <2>2 DEF AdvanceKind, Steady
  <2> QED BY <2>1, <2>3 DEF ThreadKind
<1> QED BY <1>2, <1>3 DEF Send

\* receive_message, up to the read.
LEMMA ReceiveKind ==
  ASSUME Good, NEW t \in Threads, Receive(t)
  PROVE  ThreadKind(t) /\ ThreadsOK'
<1>1. /\ stage[t] = "receive" /\ op[t] \in Exchanges
      /\ conns' = conns /\ is_connected' = is_connected /\ worker_id' = worker_id
      /\ lock' = lock
  BY DEF Receive, Good, Places
<1>2. CASE fd = 0
  <2>1. op[t] \notin Closing /\ lock # t
    BY <1>1, <1>2 DEF Good, Places, Connected, Knows
  <2> QED BY <1>1, <1>2, <2>1, FailKind DEF Receive
<1>3. CASE fd # 0
  <2>1. /\ at' = [at EXCEPT ![t] = fd] /\ Goto(t, op[t], "wait")
        /\ UNCHANGED <<is_running, id, on, fd, job, stats>>
    BY <1>3 DEF Receive
  <2>2. Advances(t, "wait") /\ ThreadsOK'
    BY <2>1, GotoAdvances DEF Good, ScalarsOK, Stages
  <2>3. at'[t] = fd
    BY <2>1 DEF Good, ThreadsOK
  <2>4. AdvanceKind(t)
    BY <1>1, <1>3, <2>1, <2>2, <2>3 DEF AdvanceKind, Steady
  <2> QED BY <2>2, <2>4 DEF ThreadKind
<1> QED BY <1>2, <1>3

\* A read ends the exchange in failure or success, or goes on to the close.
LEMMA ReadCases ==
  ASSUME NEW t, Read(t)
  PROVE  /\ stage[t] = "wait" /\ conns' = conns
         /\ \/ /\ op[t] \in Closing /\ Goto(t, op[t], "close") /\ Steady /\ lock' = lock
               /\ UNCHANGED <<id, on, at, is_running, job, stats>>
            \/ /\ op[t] \notin Closing /\ Fail(t)
               /\ UNCHANGED <<is_connected, worker_id, lock>>
            \/ /\ op[t] \notin Closing /\ link[at[t]] # <<>>
               /\ Expected(op[t], Head(link[at[t]]).type) /\ Succeed(t, Head(link[at[t]]))
<1>1. stage[t] = "wait" /\ conns' = conns
  BY DEF Read
<1> DEFINE a == Head(link[at[t]])
<1>2. CASE /\ link[at[t]] # <<>>
           /\ CASE op[t] \in Closing ->
                     /\ Goto(t, op[t], "close")
                     /\ UNCHANGED <<worker, id, on, at, fd, job, stats>>
                [] Expected(op[t], a.type) -> lock = "none" /\ Succeed(t, a)
                [] OTHER -> Fail(t) /\ UNCHANGED <<is_connected, worker_id, lock>>
  <2>1. op[t] \in Closing => ~Expected(op[t], a.type)
    BY DEF Closing, Expected, Accepts
  <2>2. \/ /\ op[t] \in Closing /\ Goto(t, op[t], "close")
           /\ UNCHANGED <<worker, id, on, at, fd, job, stats>>
        \/ op[t] \notin Closing /\ Expected(op[t], a.type) /\ Succeed(t, a)
        \/ /\ op[t] \notin Closing /\ Fail(t) /\ UNCHANGED <<is_connected, worker_id, lock>>
    BY <1>2, <2>1
  <2> QED BY <1>1, <1>2, <2>2 DEF Steady, worker
<1>3. CASE /\ IF op[t] \in Closing
              THEN /\ Goto(t, op[t], "close")
                   /\ UNCHANGED <<is_running, id, on, at, fd, job, stats>>
              ELSE Fail(t)
           /\ UNCHANGED <<is_connected, worker_id, lock, link>>
  BY <1>1, <1>3 DEF Steady
<1> QED BY <1>2, <1>3 DEF Read

\* Succeed ends the exchange of CONNECT, REGISTER and the others.
LEMMA SucceedKind ==
  ASSUME Good, NEW t \in Threads, NEW a, stage[t] = "wait", op[t] \notin Closing,
         NEW type, Expected(op[t], type), Succeed(t, a), conns' = conns
  PROVE  ThreadKind(t) /\ ThreadsOK'
<1>1. op[t] \in {"CONNECT", "REGISTER", "HEARTBEAT", "REQUEST_JOB", "JOB_COMPLETED"}
  BY DEF Expected, Accepts
<1>2. op[t] \in Exchanges /\ lock # t
  BY <1>1 DEF Exchanges, Good, Places
<1>3. /\ Return(t, TRUE) /\ fd' = fd /\ lock' = lock
      /\ is_connected' = (is_connected \/ op[t] = "CONNECT")
      /\ worker_id' = IF op[t] = "REGISTER" THEN at[t] ELSE worker_id
  BY DEF Succeed
<1>4. /\ Turns(t, After(t, op[t], TRUE)) /\ Follows(t, After(t, op[t], TRUE))
      /\ ThreadsOK' /\ After(t, op[t], TRUE) \in Ops
  BY <1>2, <1>3, ReturnTurns, AfterFollows DEF Good
<1>5. is_connected \in BOOLEAN
  BY DEF Good, FlagsOK
<1>6. CASE op[t] = "CONNECT"
  <2>1. Turns(t, "REGISTER")
    BY <1>4, <1>6, AfterIs
  <2>2. is_connected' = TRUE
    BY <1>3, <1>6
  <2>3. LinkedKind(t)
    BY <1>3, <1>6, <2>1, <2>2 DEF LinkedKind
  <2> QED BY <1>4, <2>3 DEF ThreadKind
<1>7. ASSUME op[t] # "CONNECT"
      PROVE  is_connected' = is_connected
  BY <1>3, <1>5, <1>7, Zenon
<1>8. CASE op[t] = "REGISTER"
  <2>1. Turns(t, IF t = "main" THEN "RUN" ELSE "TOP")
    BY <1>4, <1>8, AfterIs
  <2>2. RegisteredKind(t)
    BY <1>3, <1>7, <1>8, <2>1 DEF RegisteredKind
  <2> QED BY <1>4, <2>2 DEF ThreadKind
<1>9. CASE op[t] \notin {"CONNECT", "REGISTER"}
  <2>1. Steady
    BY <1>3, <1>7, <1>9 DEF Steady
  <2>2. TurnKind(t)
    BY <1>2, <1>3, <1>4, <1>9, <2>1 DEF TurnKind
  <2> QED BY <1>4, <2>2 DEF ThreadKind
<1> QED BY <1>6, <1>8, <1>9

\* The read.
LEMMA ReadKind ==
  ASSUME Good, NEW t \in Threads, Read(t)
  PROVE  ThreadKind(t) /\ ThreadsOK'
<1>1. stage[t] = "wait" /\ conns' = conns /\ op[t] \in Exchanges
  BY ReadCases DEF Good, Places
<1>2. CASE /\ op[t] \in Closing /\ Goto(t, op[t], "close") /\ Steady /\ lock' = lock
           /\ UNCHANGED <<id, on, at, is_running, job, stats>>
  <2>1. Advances(t, "close") /\ ThreadsOK'
    BY <1>2, GotoAdvances DEF Good, ScalarsOK, Stages
  <2>2. AdvanceKind(t)
    BY <1>1, <1>2, <2>1 DEF AdvanceKind
  <2> QED BY <2>1, <2>2 DEF ThreadKind
<1>3. CASE op[t] \notin Closing /\ Fail(t) /\ UNCHANGED <<is_connected, worker_id, lock>>
  <2>1. lock # t
    BY <1>3 DEF Good, Places
  <2> QED BY <1>1, <1>3, <2>1, FailKind
<1>4. CASE /\ op[t] \notin Closing
           /\ Expected(op[t], Head(link[at[t]]).type) /\ Succeed(t, Head(link[at[t]]))
  BY <1>1, <1>4, SucceedKind
<1> QED BY <1>2, <1>3, <1>4, ReadCases

\* The end of worker_disconnect_from_server.
LEMMA CloseIsKind ==
  ASSUME Good, NEW t \in Threads, Close(t)
  PROVE  ThreadKind(t) /\ ThreadsOK'
<1>1. /\ stage[t] = "close" /\ fd' = 0 /\ is_connected' = FALSE /\ lock' = "none"
      /\ Return(t, TRUE) /\ worker_id' = worker_id /\ conns' = conns
  BY DEF Close
<1>2. op[t] \in Exchanges
  BY <1>1 DEF Good, Places
<1>3. /\ Turns(t, After(t, op[t], TRUE)) /\ Follows(t, After(t, op[t], TRUE))
      /\ ThreadsOK' /\ After(t, op[t], TRUE) \in Ops
  BY <1>1, <1>2, ReturnTurns, AfterFollows DEF Good
<1>4. CloseKind(t)
  BY <1>1, <1>3 DEF CloseKind
<1> QED BY <1>3, <1>4 DEF ThreadKind

\* Every step is of one of the kinds.
LEMMA StepKinds ==
  ASSUME Good, [Next]_vars
  PROVE  (Idle \/ \E t \in Threads : ThreadKind(t)) /\ ThreadsOK'
<1>1. ASSUME NEW c, ServerCloses(c)
      PROVE  Idle /\ ThreadsOK'
  BY <1>1 DEF ServerCloses, Idle, Steady, worker, place, Good, ThreadsOK
<1>2. ASSUME UNCHANGED vars
      PROVE  Idle /\ ThreadsOK'
  BY <1>2 DEF vars, Idle, Steady, worker, place, Good, ThreadsOK
<1>3. ASSUME NEW t \in Threads, Step(t)
      PROVE  ThreadKind(t) /\ ThreadsOK'
  BY <1>3, ControlKind, EnterKind, OpenIsKind, DisconnectKind, SendKind, ReceiveKind,
     ReadKind, CloseIsKind DEF Step, ThreadKind
<1>4. ASSUME Start \/ Stop \/ Join \/ Process
      PROVE  (\E t \in Threads : ThreadKind(t)) /\ ThreadsOK'
  <2>1. "main" \in Threads /\ "job" \in Threads
    BY DEF Threads
  <2> QED BY <1>4, <2>1, ControlKind DEF ThreadKind
<1> QED BY <1>1, <1>2, <1>3, <1>4 DEF Next

-----------------------------------------------------------------------------
(***************************************************************************)
(* The threads stay at their places and the connection is theirs.          *)
(***************************************************************************)
\* A thread in an exchange of its own is not at rest, and nobody but the main
\* thread runs before the other two are started.
LEMMA Alone ==
  ASSUME Places, NEW t \in Threads
  PROVE  /\ t = "main" /\ op[t] \notin {"RUN", "JOIN"} =>
              \A u \in Threads \ {t} : op[u] = "END" /\ stage[u] = "enter"
         /\ t # "main" /\ op[t] # "END" => op["main"] \in {"RUN", "JOIN"}
         /\ t \in {"main", "heartbeat", "job"}
<1>1. t \in {"main", "heartbeat", "job"}
  BY DEF Threads
<1>2. \A u \in Threads : op[u] = "END" => stage[u] = "enter"
  BY DEF Places, Exchanges
<1> QED BY <1>1, <1>2 DEF Places, Threads

\* A turn keeps the threads at their places.
LEMMA TurnPlaces ==
  ASSUME Places, NEW t \in Threads, NEW o \in Ops, Turns(t, o), Follows(t, o),
         \/ lock' = lock /\ lock # t
         \/ lock' = "none" /\ lock = t
  PROVE  Places'
<1>1. /\ op'[t] = o /\ stage'[t] = "enter"
      /\ \A u \in Threads \ {t} : /\ op'[u] = (IF o = "RUN" THEN "TOP" ELSE op[u])
                                  /\ stage'[u] = stage[u]
  BY DEF Turns
<1>2. /\ op["main"] \in MainOps /\ op["heartbeat"] \in BeatOps /\ op["job"] \in JobOps
      /\ op["main"] \notin {"RUN", "JOIN"} => op["heartbeat"] = "END" /\ op["job"] = "END"
  BY DEF Places
<1>3. "main" \in Threads /\ "heartbeat" \in Threads /\ "job" \in Threads
  BY DEF Threads
<1>4. /\ op'["main"] \in MainOps /\ op'["heartbeat"] \in BeatOps /\ op'["job"] \in JobOps
      /\ op'["main"] \notin {"RUN", "JOIN"} => op'["heartbeat"] = "END" /\ op'["job"] = "END"
  <2>1. CASE t = "main"
    <3>1. o \in MainOps /\ (o # "RUN" => op'["heartbeat"] = op["heartbeat"] /\ op'["job"] = op["job"])
      BY <1>1, <1>3, <2>1 DEF Follows, MainOps
    <3>2. o = "RUN" => op'["heartbeat"] = "TOP" /\ op'["job"] = "TOP"
      BY <1>1, <1>3, <2>1
    <3>3. o \notin {"RUN", "JOIN"} => op["heartbeat"] = "END" /\ op["job"] = "END"
      BY <1>2, <2>1 DEF Follows, Closing
    <3> QED BY <1>1, <1>2, <2>1, <3>1, <3>2, <3>3 DEF BeatOps, JobOps
  <2>2. CASE t = "heartbeat"
    <3>1. o \in BeatOps /\ o # "RUN" /\ op[t] # "END"
      BY <2>2 DEF Follows, BeatOps
    <3>2. op["main"] \in {"RUN", "JOIN"}
      BY <1>2, <2>2, <3>1
    <3> QED BY <1>1, <1>2, <1>3, <2>2, <3>1, <3>2
  <2>3. CASE t = "job"
    <3>1. o \in JobOps /\ o # "RUN" /\ op[t] # "END"
      BY <2>3 DEF Follows, JobOps
    <3>2. op["main"] \in {"RUN", "JOIN"}
      BY <1>2, <2>3, <3>1
    <3> QED BY <1>1, <1>2, <1>3, <2>3, <3>1, <3>2
  <2> QED BY <2>1, <2>2, <2>3, Alone
<1>5. ASSUME NEW u \in Threads
      PROVE  /\ stage'[u] # "enter" => op'[u] \in Exchanges
             /\ stage'[u] = "close" => op'[u] \in Closing
             /\ op'[u] \in Closing /\ stage'[u] # "enter" <=> lock' = u
  <2>1. CASE u = t
    <3>1. lock' # t
      BY DEF Threads
    <3> QED BY <1>1, <2>1, <3>1
  <2>2. CASE u # t /\ o # "RUN"
    <3>1. op'[u] = op[u] /\ stage'[u] = stage[u] /\ (lock' = u <=> lock = u)
      BY <1>1, <2>2 DEF Threads
    <3> QED BY <3>1 DEF Places
  <2>3. CASE u # t /\ o = "RUN"
    <3>1. t = "main" /\ op[t] = "REGISTER"
      BY <2>3 DEF Follows
    <3>2. op[u] = "END" /\ stage[u] = "enter"
      BY <2>3, <3>1, Alone
    <3>3. lock # u /\ lock' # u /\ stage'[u] = "enter"
      BY <1>1, <2>3, <3>2 DEF Places, Threads
    <3> QED BY <3>3
  <2> QED BY <2>1, <2>2, <2>3
<1> QED BY <1>4, <1>5 DEF Places

\* So does going on with an exchange.
LEMMA AdvancePlaces ==
  ASSUME Places, NEW t \in Threads, NEW s, Advances(t, s),
         op[t] \in Exchanges, s # "enter", s = "close" => op[t] \in Closing,
         \/ lock' = lock /\ (op[t] \notin Closing \/ stage[t] # "enter")
         \/ lock' = t /\ lock = "none" /\ op[t] \in Closing
  PROVE  Places'
<1>1. /\ stage'[t] = s /\ \A u \in Threads : op'[u] = op[u]
      /\ \A u \in Threads \ {t} : stage'[u] = stage[u]
  BY DEF Advances
<1>2. /\ op'["main"] = op["main"] /\ op'["heartbeat"] = op["heartbeat"]
      /\ op'["job"] = op["job"]
  BY <1>1 DEF Threads
<1>3. ASSUME NEW u \in Threads
      PROVE  /\ stage'[u] # "enter" => op'[u] \in Exchanges
             /\ stage'[u] = "close" => op'[u] \in Closing
             /\ op'[u] \in Closing /\ stage'[u] # "enter" <=> lock' = u
  <2>1. CASE u = t
    BY <1>1, <2>1 DEF Places, Threads
  <2>2. CASE u # t
    BY <1>1, <2>2 DEF Places, Threads
  <2> QED BY <2>1, <2>2
<1> QED BY <1>2, <1>3 DEF Places

\* The threads stay at their places.
LEMMA PlacesKept ==
  ASSUME Good, [Next]_vars
  PROVE  Places'
<1>1. Places
  BY DEF Good
<1>2. CASE Idle
  BY <1>1, <1>2 DEF Idle, Places, Threads
<1>3. ASSUME NEW t \in Threads, ThreadKind(t)
      PROVE  Places'
  <2>1. CASE TurnKind(t)
    BY <1>1, <2>1, TurnPlaces DEF TurnKind
  <2>2. CASE DropKind(t)
    <3>1. lock' = lock /\ lock # t /\ t \in {"main", "heartbeat"}
      BY <1>1, <2>2, Alone DEF DropKind, Places, Closing, JobOps
    <3>2. Follows(t, IF t = "main" THEN "END" ELSE "TOP")
      BY <2>2, <3>1 DEF DropKind, Follows
    <3> QED BY <1>1, <2>2, <3>1, <3>2, TurnPlaces DEF DropKind, Ops
  <2>3. CASE OpenKind(t)
    <3>1. lock' = lock /\ op[t] \in Exchanges /\ op[t] \notin Closing /\ Advances(t, "send")
      BY <2>3 DEF OpenKind, Exchanges, Closing
    <3> QED BY <1>1, <3>1, AdvancePlaces
  <2>4. CASE AdvanceKind(t)
    <3>1. op[t] \in Exchanges
      BY <1>1, <2>4 DEF AdvanceKind, Places, Exchanges, Closing
    <3>2. \/ Advances(t, "send") \/ Advances(t, "receive") \/ Advances(t, "wait")
          \/ Advances(t, "close") /\ op[t] \in Closing
      BY <2>4 DEF AdvanceKind
    <3>3. \/ lock' = lock /\ (op[t] \notin Closing \/ stage[t] # "enter")
          \/ lock' = t /\ lock = "none" /\ op[t] \in Closing
      BY <2>4 DEF AdvanceKind
    <3> QED BY <1>1, <3>1, <3>2, <3>3, AdvancePlaces
  <2>5. CASE LinkedKind(t)
    <3>1. lock' = lock /\ lock # t /\ t \in {"main", "heartbeat"}
      BY <1>1, <2>5, Alone DEF LinkedKind, Places, Closing, JobOps
    <3>2. Follows(t, "REGISTER")
      BY <2>5, <3>1 DEF LinkedKind, Follows
    <3> QED BY <1>1, <2>5, <3>1, <3>2, TurnPlaces DEF LinkedKind, Ops
  <2>6. CASE RegisteredKind(t)
    <3>1. lock' = lock /\ lock # t /\ t \in {"main", "heartbeat"}
      BY <1>1, <2>6, Alone DEF RegisteredKind, Places, Closing, JobOps
    <3>2. Follows(t, IF t = "main" THEN "RUN" ELSE "TOP")
      BY <2>6, <3>1 DEF RegisteredKind, Follows
    <3> QED BY <1>1, <2>6, <3>1, <3>2, TurnPlaces DEF RegisteredKind, Ops
  <2>7. CASE CloseKind(t)
    <3>1. lock = t /\ lock' = "none"
      BY <1>1, <2>7 DEF CloseKind, Places
    <3> QED BY <1>1, <2>7, <3>1, TurnPlaces DEF CloseKind
  <2> QED BY <1>3, <2>1, <2>2, <2>3, <2>4, <2>5, <2>6, <2>7 DEF ThreadKind
<1> QED BY <1>2, <1>3, StepKinds

\* The operations that replace the connection.
Replacing == {"START", "CONNECT", "REGISTER", "DISCONNECT", "GIVEUP"}

\* Only one thread at a time replaces the connection, never the job thread.
LEMMA OneReplaces ==
  ASSUME Places, NEW t \in Threads, op[t] \in Replacing
  PROVE  /\ t \in {"main", "heartbeat"}
         /\ \A u \in Threads \ {t} : op[u] \notin Replacing
         /\ t = "main" => op["heartbeat"] = "END"
<1>1. t \in {"main", "heartbeat"}
  BY Alone DEF Places, JobOps, Replacing
<1>2. CASE t = "main"
  BY <1>2, Alone DEF Replacing, Threads
<1>3. CASE t = "heartbeat"
  <2>1. op["main"] \in {"RUN", "JOIN"} /\ op["job"] \in JobOps
    BY <1>3, Alone DEF Replacing, Places
  <2> QED BY <1>3, <2>1 DEF Replacing, JobOps, Threads
<1> QED BY <1>1, <1>2, <1>3

\* What the others know stays true: the connections only grow in number, and
\* if the connection is replaced they are not the ones that replace it.
LEMMA OthersKnow ==
  ASSUME Good, NEW t \in Threads, NEW u \in Threads \ {t}, conns' \in {conns, conns + 1},
         at'[u] = at[u], on'[u] = on[u], stage'[u] = stage[u],
         op'[u] = op[u] \/ (op'[u] = "TOP" /\ op[t] = "REGISTER" /\ t = "main"),
         \/ op[t] \in Replacing
         \/ fd' = fd /\ is_connected' = is_connected
  PROVE  Knows(u)'
<1>1. Knows(u) /\ conns \in Nat /\ at[u] \in Nat /\ on[u] \in Nat
  BY WorkerAssumption DEF Good, Connected, ScalarsOK, ThreadsOK
<1>2. /\ stage[u] = "wait" => at[u] # 0 /\ at[u] <= conns'
      /\ stage[u] = "receive" => on[u] # 0 /\ on[u] <= conns'
  BY <1>1 DEF Knows
<1>3. CASE op'[u] = "TOP" /\ op[t] = "REGISTER" /\ t = "main"
  BY <1>2, <1>3 DEF Knows, Closing
<1>4. CASE op'[u] = op[u] /\ op[t] \in Replacing
  <2>1. op[u] \notin Replacing
    BY <1>4, OneReplaces DEF Good
  <2> QED BY <1>2, <1>4, <2>1 DEF Knows, Closing, Replacing
<1>5. CASE op'[u] = op[u] /\ fd' = fd /\ is_connected' = is_connected
  BY <1>1, <1>2, <1>5 DEF Knows
<1> QED BY <1>3, <1>4, <1>5

\* Between a turn and its wake-up nobody else moves.
LEMMA TurnOthers ==
  ASSUME NEW t \in Threads, NEW o, Turns(t, o), Follows(t, o), NEW u \in Threads \ {t}
  PROVE  /\ at'[u] = at[u] /\ on'[u] = on[u] /\ stage'[u] = stage[u]
         /\ op'[u] = op[u] \/ (op'[u] = "TOP" /\ op[t] = "REGISTER" /\ t = "main")
<1>1. o = "RUN" => op[t] = "REGISTER" /\ t = "main"
  BY DEF Follows
<1> QED BY <1>1 DEF Turns

\* Steps that leave the connection alone.
LEMMA SteadyKeeps ==
  ASSUME Good, NEW t \in Threads, TurnKind(t) \/ AdvanceKind(t)
  PROVE  Connected'
<1>1. /\ fd' = fd /\ conns' = conns /\ is_connected' = is_connected /\ worker_id' = worker_id
      /\ Connected /\ Places
  BY DEF TurnKind, AdvanceKind, Steady, Good
<1>2. "heartbeat" \in Threads /\ fd \in Nat /\ conns \in Nat
  BY WorkerAssumption DEF Threads, Good, ScalarsOK
<1>3. CASE TurnKind(t)
  <2>1. PICK o \in Ops : Turns(t, o) /\ Follows(t, o) /\ (op[t] = "REGISTER" => o = "GIVEUP")
    BY <1>3 DEF TurnKind
  <2>2. op[t] # "CONNECT" /\ (op[t] \in Closing => ~is_connected)
    BY <1>3 DEF TurnKind
  <2>3. ASSUME NEW u \in Threads \ {t}
        PROVE  Knows(u)'
    BY <1>1, <2>1, <2>3, TurnOthers, OthersKnow
  <2>4. Knows(t)'
    <3>1. op'[t] = o /\ stage'[t] = "enter"
      BY <2>1 DEF Turns
    <3>2. o \in {"START", "CONNECT"} => ~is_connected
      <4>1. op[t] = "START" => ~is_connected
        BY <1>1 DEF Connected, Knows
      <4> QED BY <2>1, <2>2, <4>1 DEF Follows, Closing
    <3> QED BY <1>1, <3>1, <3>2 DEF Knows
  <2>5. op'["heartbeat"] \in {"TOP", "HEARTBEAT"} /\ is_connected => worker_id = fd
    <3>1. CASE t = "heartbeat"
      <4>1. op'[t] = o
        BY <2>1 DEF Turns
      <4>2. o \in {"TOP", "HEARTBEAT"} /\ is_connected => op[t] \in {"TOP", "HEARTBEAT"}
        BY <2>1, <2>2, <3>1 DEF Follows, Closing
      <4> QED BY <1>1, <3>1, <4>1, <4>2 DEF Connected
    <3>2. CASE t # "heartbeat"
      <4>1. o # "RUN"
        BY <2>1 DEF Follows
      <4>2. op'["heartbeat"] = op["heartbeat"]
        BY <1>2, <2>1, <3>2, <4>1 DEF Turns
      <4> QED BY <1>1, <4>2 DEF Connected
    <3> QED BY <3>1, <3>2
  <2> QED BY <1>1, <2>3, <2>4, <2>5 DEF Connected
<1>4. CASE AdvanceKind(t)
  <2>1. PICK s \in {"send", "receive", "wait", "close"} : Advances(t, s)
    BY <1>4 DEF AdvanceKind
  <2>2. ASSUME NEW u \in Threads \ {t}
        PROVE  Knows(u)'
    BY <1>1, <2>1, <2>2, OthersKnow DEF Advances
  <2>3. op'[t] = op[t] /\ stage'[t] = s /\ op'["heartbeat"] = op["heartbeat"]
    BY <1>2, <2>1 DEF Advances
  <2>4. Knows(t)'
    <3>1. op[t] \in {"START", "CONNECT"} => ~is_connected
      BY <1>1 DEF Connected, Knows
    <3>2. op[t] = "CONNECT" \/ op[t] \in Closing => fd # 0
      BY <1>1, <1>4 DEF AdvanceKind, Connected, Knows, Closing
    <3>3. /\ s = "wait" => fd # 0 /\ at'[t] = fd
          /\ s = "receive" => fd # 0 /\ on'[t] = fd
      BY <1>4, <2>3 DEF AdvanceKind, Advances
    <3>4. fd # 0 => fd <= conns
      BY <1>1, <1>2 DEF Connected
    <3> QED BY <1>1, <2>3, <3>1, <3>2, <3>3, <3>4 DEF Knows
  <2> QED BY <1>1, <2>2, <2>3, <2>4 DEF Connected
<1> QED BY <1>3, <1>4

\* Steps that replace the connection.
LEMMA ReplacingKeeps ==
  ASSUME Good, NEW t \in Threads,
         DropKind(t) \/ OpenKind(t) \/ LinkedKind(t) \/ RegisteredKind(t) \/ CloseKind(t)
  PROVE  Connected'
<1>1. Connected /\ Places /\ Knows(t)
  BY DEF Good, Connected
<1>2. "heartbeat" \in Threads /\ fd \in Nat /\ conns \in Nat
  BY WorkerAssumption DEF Threads, Good, ScalarsOK
<1>3. op[t] \in Replacing
  BY <1>1 DEF DropKind, OpenKind, LinkedKind, RegisteredKind, CloseKind, Places, Closing,
              Replacing
<1>4. /\ t \in {"main", "heartbeat"} /\ (t = "main" => op["heartbeat"] = "END")
      /\ \A u \in Threads \ {t} : op[u] \notin Replacing
  BY <1>1, <1>3, OneReplaces
<1>5. CASE OpenKind(t)
  <2>1. /\ op[t] = "CONNECT" /\ Advances(t, "send") /\ is_connected' = is_connected
        /\ fd' = conns + 1 /\ conns' = conns + 1
    BY <1>5 DEF OpenKind
  <2>2. ASSUME NEW u \in Threads \ {t}
        PROVE  Knows(u)'
    BY <1>3, <2>1, <2>2, OthersKnow DEF Advances
  <2>3. op'[t] = op[t] /\ stage'[t] = "send" /\ op'["heartbeat"] = op["heartbeat"]
    BY <1>2, <2>1 DEF Advances
  <2>4. ~is_connected
    BY <1>1, <2>1 DEF Knows
  <2>5. Knows(t)'
    BY <1>2, <2>1, <2>3, <2>4 DEF Knows, Closing
  <2> QED BY <1>2, <2>1, <2>2, <2>4, <2>5 DEF Connected
<1>6. CASE DropKind(t)
  <2>1. /\ op[t] = "CONNECT" /\ Turns(t, IF t = "main" THEN "END" ELSE "TOP")
        /\ is_connected' = is_connected /\ fd' = 0 /\ conns' = conns
    BY <1>6 DEF DropKind
  <2>2. ~is_connected
    BY <1>1, <2>1 DEF Knows
  <2>3. Follows(t, IF t = "main" THEN "END" ELSE "TOP")
    BY <1>4, <2>1 DEF Follows
  <2>4. ASSUME NEW u \in Threads \ {t}
        PROVE  Knows(u)'
    BY <1>3, <2>1, <2>3, <2>4, TurnOthers, OthersKnow
  <2>5. Knows(t)'
    BY <2>1, <2>2 DEF Knows, Closing, Turns
  <2> QED BY <2>1, <2>2, <2>4, <2>5 DEF Connected
<1>7. CASE CloseKind(t)
  <2>1. fd' = 0 /\ conns' = conns /\ is_connected' = FALSE
    BY <1>7 DEF CloseKind
  <2>2. PICK o \in Ops : Turns(t, o) /\ Follows(t, o)
    BY <1>7 DEF CloseKind
  <2>3. ASSUME NEW u \in Threads \ {t}
        PROVE  Knows(u)'
    BY <1>3, <2>1, <2>2, <2>3, TurnOthers, OthersKnow
  <2>4. op'[t] = o /\ stage'[t] = "enter"
    BY <2>2 DEF Turns
  <2>5. Knows(t)'
    BY <2>1, <2>4 DEF Knows
  <2> QED BY <2>1, <2>3, <2>5 DEF Connected
<1>8. CASE LinkedKind(t)
  <2>1. /\ op[t] = "CONNECT" /\ stage[t] = "wait" /\ Turns(t, "REGISTER")
        /\ fd' = fd /\ conns' = conns
    BY <1>8 DEF LinkedKind
  <2>2. fd # 0
    BY <1>1, <2>1 DEF Knows
  <2>3. Follows(t, "REGISTER")
    BY <1>4, <2>1 DEF Follows
  <2>4. ASSUME NEW u \in Threads \ {t}
        PROVE  Knows(u)'
    BY <1>3, <2>1, <2>3, <2>4, TurnOthers, OthersKnow
  <2>5. op'[t] = "REGISTER" /\ stage'[t] = "enter"
    BY <2>1 DEF Turns
  <2>6. Knows(t)'
    BY <2>5 DEF Knows, Closing
  <2>7. op'["heartbeat"] \in {"REGISTER", "END"}
    BY <1>2, <1>4, <2>1, <2>5 DEF Turns
  <2> QED BY <1>1, <2>1, <2>2, <2>4, <2>6, <2>7 DEF Connected
<1>9. CASE RegisteredKind(t)
  <2>1. /\ op[t] = "REGISTER" /\ stage[t] = "wait"
        /\ Turns(t, IF t = "main" THEN "RUN" ELSE "TOP")
        /\ fd' = fd /\ conns' = conns /\ is_connected' = is_connected /\ worker_id' = at[t]
    BY <1>9 DEF RegisteredKind
  <2>2. at[t] = fd
    BY <1>1, <2>1 DEF Knows
  <2>3. Follows(t, IF t = "main" THEN "RUN" ELSE "TOP")
    BY <1>4, <2>1 DEF Follows
  <2>4. ASSUME NEW u \in Threads \ {t}
        PROVE  Knows(u)'
    BY <1>3, <2>1, <2>3, <2>4, TurnOthers, OthersKnow
  <2>5. op'[t] \in {"RUN", "TOP"} /\ stage'[t] = "enter"
    BY <2>1 DEF Turns
  <2>6. Knows(t)'
    BY <2>5 DEF Knows, Closing
  <2> QED BY <1>1, <2>1, <2>2, <2>4, <2>6 DEF Connected
<1> QED BY <1>5, <1>6, <1>7, <1>8, <1>9

\* The flags and the scalars keep their types.
LEMMA FlagsKept ==
  ASSUME FlagsOK, [Next]_vars
  PROVE  is_running' \in BOOLEAN /\ overtaken' \in BOOLEAN
<1>1. is_running \in BOOLEAN /\ overtaken \in BOOLEAN
  BY DEF FlagsOK
<1>2. overtaken' \in BOOLEAN
  <2>1. overtaken' = overtaken \/ \E t \in Threads : overtaken' = (overtaken \/ fd # on[t])
    BY DEF Next, Start, Stop, Join, Process, Step, Top, Enter, Open, EnterDisconnect, Send,
           Receive, Read, Close, ServerCloses, vars
  <2> QED BY <1>1, <2>1, Zenon
<1>3. is_running' \in BOOLEAN
  <2>1. ASSUME NEW t, NEW ok, Return(t, ok)
        PROVE  is_running' \in BOOLEAN
    BY <2>1, Zenon DEF Return
  <2>2. ASSUME NEW t, Fail(t)
        PROVE  is_running' \in BOOLEAN
    BY <2>1, <2>2 DEF Fail
  <2>3. ASSUME NEW t, NEW a, Succeed(t, a)
        PROVE  is_running' \in BOOLEAN
    BY <2>1, <2>3 DEF Succeed
  <2>4. ASSUME Start \/ Stop \/ Join \/ Process
        PROVE  is_running' \in BOOLEAN
    BY <1>1, <2>4 DEF Start, Stop, Join, Process, worker
  <2>5. ASSUME NEW t, Top(t) \/ Enter(t) \/ Open(t) \/ EnterDisconnect(t)
        PROVE  is_running' \in BOOLEAN
    BY <1>1, <2>1, <2>2, <2>5 DEF Top, Enter, Open, EnterDisconnect, worker
  <2>6. ASSUME NEW t, Send(t) \/ Receive(t) \/ Close(t)
        PROVE  is_running' \in BOOLEAN
    BY <1>1, <2>1, <2>2, <2>6 DEF Send, Receive, Close
  <2>7. ASSUME NEW t, Read(t)
        PROVE  is_running' \in BOOLEAN
    BY <1>1, <2>2, <2>3, <2>7, ReadCases
  <2>8. ASSUME NEW c, ServerCloses(c)
        PROVE  is_running' \in BOOLEAN
    BY <1>1, <2>8 DEF ServerCloses, worker
  <2>9. ASSUME UNCHANGED vars
        PROVE  is_running' \in BOOLEAN
    BY <1>1, <2>9 DEF vars, worker
  <2> QED BY <2>4, <2>5, <2>6, <2>7, <2>8, <2>9 DEF Next, Step
<1> QED BY <1>2, <1>3

\* The threads and the connection stay as they should be.
LEMMA GoodKept ==
  ASSUME Good, [Next]_vars
  PROVE  Good'
<1>1. is_connected' \in BOOLEAN
  <2>1. is_connected \in BOOLEAN
    BY DEF Good, FlagsOK
  <2>2. is_connected' = is_connected \/ is_connected' = TRUE \/ is_connected' = FALSE
    BY StepKinds DEF Idle, Steady, ThreadKind, TurnKind, DropKind, OpenKind, AdvanceKind,
                     LinkedKind, RegisteredKind, CloseKind
  <2> QED BY <2>1, <2>2, Zenon
<1>2. FlagsOK'
  BY <1>1, FlagsKept DEF Good, FlagsOK
<1>3. ScalarsOK'
  <2>1. /\ worker_id \in 0 .. MaxConns /\ fd \in 0 .. MaxConns /\ conns \in 0 .. MaxConns
        /\ lock \in Threads \cup {"none"} /\ at \in [Threads -> 0 .. MaxConns]
        /\ MaxConns \in Nat
    BY WorkerAssumption DEF Good, ScalarsOK, ThreadsOK
  <2>2. CASE Idle
    BY <2>1, <2>2 DEF Idle, Steady, ScalarsOK
  <2>3. ASSUME NEW t \in Threads, ThreadKind(t)
        PROVE  ScalarsOK'
    <3>1. lock' \in {lock, t, "none"}
      BY <2>3 DEF ThreadKind, TurnKind, DropKind, OpenKind, AdvanceKind, LinkedKind,
                  RegisteredKind, CloseKind
    <3>2. worker_id' \in {worker_id, at[t]}
      BY <2>3 DEF ThreadKind, TurnKind, DropKind, OpenKind, AdvanceKind, LinkedKind,
                  RegisteredKind, CloseKind, Steady
    <3>3. \/ conns' = conns /\ fd' \in {fd, 0}
          \/ conns' = conns + 1 /\ fd' = conns + 1 /\ conns < MaxConns
      BY <2>3 DEF ThreadKind, TurnKind, DropKind, OpenKind, AdvanceKind, LinkedKind,
                  RegisteredKind, CloseKind, Steady
    <3>4. fd' \in 0 .. MaxConns /\ conns' \in 0 .. MaxConns
      BY <2>1, <3>3
    <3> QED BY <2>1, <3>1, <3>2, <3>4 DEF ScalarsOK
  <2> QED BY <2>2, <2>3, StepKinds
<1>4. Connected'
  <2>1. CASE Idle
    BY <2>1 DEF Idle, Steady, Good, Connected, Knows, Threads
  <2> QED BY <2>1, SteadyKeeps, ReplacingKeeps, StepKinds DEF ThreadKind
<1> QED BY <1>2, <1>3, <1>4, PlacesKept, StepKinds DEF Good

-----------------------------------------------------------------------------
(***************************************************************************)
(* What the steps do to the answers under way and to the jobs.             *)
(***************************************************************************)
\* The answer that ends the report of a result, and the one that brings a job.
Ack(a) == a.type = "COMPLETION_ACK"
Assigns(a) == a.type = "JOB_ASSIGNED"

\* The operations in which the job thread has a job.
Held == {"PROCESS", "JOB_COMPLETED", "JOB_FAILED"}

\* The threads but t stay where they are; the job thread may be started.
Others(t) ==
  /\ \A u \in Threads \ {t} : stage'[u] = stage[u] /\ at'[u] = at[u] /\ on'[u] = on[u]
  /\ t # "job" => op'["job"] = op["job"] \/ (op["job"] = "END" /\ op'["job"] = "TOP")

\* The connection stays, or is closed; a connection is opened.
Keeps == conns' = conns /\ fd' \in {fd, 0}
Opens == conns < MaxConns /\ conns' = conns + 1 /\ fd' = conns + 1

\* The server has nothing to do with the step.
Unasked == UNCHANGED <<link, eof, greeted, registered, given, accepted>>

\* The kinds of steps: a thread acts outside send and receive ...
Outside(t) ==
  /\ Unasked /\ Others(t) /\ overtaken' = overtaken /\ (Keeps \/ Opens)
  /\ stage[t] \notin {"receive", "wait"} /\ stage'[t] \notin {"receive", "wait"}
  /\ t = "job" /\ op[t] \notin Held => op'[t] \notin Held

\* ... sends to nobody, or gets an answer appended ...
Unheard(t) ==
  /\ Unasked /\ Others(t) /\ overtaken' = overtaken
  /\ stage[t] = "send" /\ stage'[t] = "receive" /\ op'[t] = op[t]
  /\ fd # 0 /\ on'[t] = fd /\ eof[fd] /\ fd' = fd /\ conns' = conns

Answered(t, a) ==
  /\ Others(t) /\ overtaken' = overtaken
  /\ stage[t] = "send" /\ stage'[t] = "receive" /\ op'[t] = op[t]
  /\ fd # 0 /\ on'[t] = fd /\ ~eof[fd] /\ fd' = fd /\ conns' = conns
  /\ a \in Answers /\ link' = [link EXCEPT ![fd] = Append(@, a)]
  /\ eof' \in [Conns -> BOOLEAN] /\ \A c \in Conns \ {fd} : eof'[c] = eof[c]
  /\ greeted' \in SUBSET Conns /\ registered' \in SUBSET Conns
  /\ \/ /\ Assigns(a) /\ given < MaxGiven /\ a.job = given + 1 /\ given' = given + 1
        /\ accepted' = accepted
     \/ /\ Ack(a) /\ op[t] = "JOB_COMPLETED" /\ a.job = job
        /\ given' = given /\ accepted' = accepted \cup {job}
     \/ ~Assigns(a) /\ ~Ack(a) /\ given' = given /\ accepted' = accepted

\* ... turns to reading, or finds the connection closed ...
Listens(t) ==
  /\ Unasked /\ Others(t)
  /\ stage[t] = "receive" /\ stage'[t] = "wait" /\ op'[t] = op[t]
  /\ fd # 0 /\ at'[t] = fd /\ overtaken' = (overtaken \/ fd # on[t])
  /\ fd' = fd /\ conns' = conns

Deaf(t) ==
  /\ Unasked /\ Others(t) /\ overtaken' = overtaken
  /\ stage[t] = "receive" /\ stage'[t] = "enter" /\ fd = 0 /\ Keeps
  /\ t = "job" => op'[t] = "TOP"

\* ... reads an answer, or the end of the connection.
Reads(t) ==
  /\ UNCHANGED <<eof, greeted, registered, given, accepted>>
  /\ Others(t) /\ overtaken' = overtaken /\ Keeps
  /\ stage[t] = "wait" /\ stage'[t] \in {"enter", "close"}
  /\ link[at[t]] # <<>> /\ link' = [link EXCEPT ![at[t]] = Tail(@)]
  /\ t = "job" => \/ op'[t] = "TOP"
                  \/ /\ op[t] = "REQUEST_JOB" /\ op'[t] = "PROCESS"
                     /\ Assigns(Head(link[at[t]]))

ReadsEnd(t) ==
  /\ Unasked /\ Others(t) /\ overtaken' = overtaken /\ Keeps
  /\ stage[t] = "wait" /\ stage'[t] \in {"enter", "close"}
  /\ link[at[t]] = <<>> /\ eof[at[t]]
  /\ t = "job" => op'[t] = "TOP"

\* The server ends a connection.
Cuts(c) ==
  /\ c \in Conns /\ eof' = [eof EXCEPT ![c] = TRUE]
  /\ \E n \in 0 .. Len(link[c]) : link' = [link EXCEPT ![c] = SubSeq(@, 1, n)]
  /\ registered' \in SUBSET Conns
  /\ UNCHANGED <<greeted, given, accepted, op, stage, on, at, fd, conns, overtaken>>

NetKind(t) ==
  \/ Outside(t) \/ Unheard(t) \/ (\E a : Answered(t, a)) \/ Listens(t) \/ Deaf(t)
  \/ Reads(t) \/ ReadsEnd(t)

\* The job is kept, received, accepted or given up.
JobSame ==
  UNCHANGED <<job, processed, failed>> /\ (op'["job"] \in Held <=> op["job"] \in Held)
JobGot ==
  /\ op["job"] = "REQUEST_JOB" /\ op'["job"] = "PROCESS" /\ Reads("job")
  /\ Assigns(Head(link[at["job"]])) /\ job' = Head(link[at["job"]]).job
  /\ processed' = processed /\ failed' = failed
JobDone ==
  /\ op["job"] = "JOB_COMPLETED" /\ op'["job"] = "TOP" /\ Reads("job")
  /\ Ack(Head(link[at["job"]]))
  /\ job' = 0 /\ processed' = processed \cup {job} /\ failed' = failed
JobLost ==
  /\ op["job"] \in {"JOB_COMPLETED", "JOB_FAILED"} /\ op'["job"] = "TOP"
  /\ job' = 0 /\ processed' = processed /\ failed' = failed \cup {job}
JobKind == JobSame \/ JobGot \/ JobDone \/ JobLost

\* Turns and advances leave the other threads alone.
LEMMA TurnsOthers ==
  ASSUME Places, NEW t \in Threads, NEW o, Turns(t, o), Follows(t, o)
  PROVE  Others(t)
<1>1. \A u \in Threads \ {t} : stage'[u] = stage[u] /\ at'[u] = at[u] /\ on'[u] = on[u]
  BY DEF Turns
<1>2. ASSUME t # "job"
      PROVE  op'["job"] = op["job"] \/ (op["job"] = "END" /\ op'["job"] = "TOP")
  <2>1. "job" \in Threads \ {t}
    BY <1>2 DEF Threads
  <2>2. o = "RUN" => op["job"] = "END"
    BY DEF Follows, Places
  <2> QED BY <2>1, <2>2 DEF Turns
<1> QED BY <1>1, <1>2 DEF Others

\* An advance does not even start one.
LEMMA AdvancesOthers ==
  ASSUME NEW t \in Threads, NEW s, Advances(t, s)
  PROVE  Others(t) /\ op'[t] = op[t] /\ op'["job"] = op["job"]
BY DEF Advances, Others, Threads
-----------------------------------------------------------------------------
(***************************************************************************)
(* The rest of the invariant.                                              *)
(***************************************************************************)
\* There is nothing on a connection that has not been made.
Fresh == \A c \in Conns : c > conns => link[c] = <<>>

\* On the connection in use there are no more answers than threads that will
\* read one of them.
Due(t) == IF stage[t] = "receive" \/ (stage[t] = "wait" /\ at[t] = fd) THEN 1 ELSE 0
Bounded == fd # 0 => Len(link[fd]) <= Due("main") + Due("heartbeat") + Due("job")

\* The acknowledgment of a result is for the result being reported, or it is
\* the next answer and the job thread has no job: it will read it, or a beat
\* will, before it can have another one.
AckPlace(c) ==
  \A i \in 1 .. Len(link[c]) :
    Ack(link[c][i]) =>
      \/ /\ op["job"] = "JOB_COMPLETED" /\ stage["job"] \in {"receive", "wait"}
         /\ link[c][i].job = job
      \/ i = 1 /\ op["job"] \notin Held
Acks ==
  /\ fd # 0 => AckPlace(fd)
  /\ stage["job"] = "wait" => AckPlace(at["job"])
  /\ stage["job"] = "wait" /\ fd # 0 /\ at["job"] # fd =>
       \A i \in 1 .. Len(link[fd]) : ~Ack(link[fd][i])
AcksTaken ==
  \A c \in Conns : \A i \in 1 .. Len(link[c]) : Ack(link[c][i]) => link[c][i].job \in accepted

\* A job that was assigned and not yet read has been counted by nobody, and is
\* under way once.
Counted == processed \cup failed
Assigned ==
  \A c \in Conns : \A i \in 1 .. Len(link[c]) :
    Assigns(link[c][i]) => link[c][i].job \in (1 .. given) \ (Counted \cup {job})
AssignedOnce ==
  \A c, d \in Conns : \A i \in 1 .. Len(link[c]), j \in 1 .. Len(link[d]) :
    Assigns(link[c][i]) /\ Assigns(link[d][j]) /\ link[c][i].job = link[d][j].job
      => c = d /\ i = j
Holding ==
  /\ job # 0 <=> op["job"] \in Held
  /\ job <= given /\ job \notin Counted /\ Counted \subseteq 1 .. given

\* The inductive invariant.
WorkerInductive ==
  /\ Good /\ NetOK /\ CountsOK /\ CountedOnce
  /\ Fresh /\ Bounded /\ Acks /\ AcksTaken /\ Assigned /\ AssignedOnce /\ Holding
  /\ CountedWasAccepted /\ AnswersArrive
-----------------------------------------------------------------------------
(***************************************************************************)
(* Every step is of one of these kinds.                                    *)
(***************************************************************************)
\* The other threads do not touch the job.
LEMMA OthersHold ==
  ASSUME NEW t \in Threads, t # "job", Others(t)
  PROVE  op'["job"] \in Held <=> op["job"] \in Held
BY DEF Others, Held

\* A failed exchange gives the job up.
LEMMA FailNet ==
  ASSUME Good, NEW t \in Threads, op[t] \in Exchanges, Fail(t)
  PROVE  /\ Others(t) /\ stage'[t] = "enter" /\ fd' \in {fd, 0}
         /\ t = "job" => op'[t] = "TOP"
         /\ JobSame \/ JobLost
<1>1. /\ Return(t, FALSE) /\ fd' \in {fd, 0}
      /\ op[t] \in {"JOB_COMPLETED", "JOB_FAILED"} => CountReport(FALSE)
      /\ op[t] \notin {"JOB_COMPLETED", "JOB_FAILED"} => UNCHANGED <<job, stats>>
  BY DEF Fail
<1>2. Turns(t, After(t, op[t], FALSE)) /\ Follows(t, After(t, op[t], FALSE))
  BY <1>1, ReturnTurns DEF Good
<1>3. Others(t) /\ stage'[t] = "enter" /\ op'[t] = After(t, op[t], FALSE)
  BY <1>2, TurnsOthers DEF Good, Turns
<1>4. CASE t = "job"
  <2>1. op[t] \in {"REQUEST_JOB", "JOB_COMPLETED", "JOB_FAILED"}
    BY <1>4 DEF Good, Places, JobOps, Exchanges
  <2>2. op'[t] = "TOP"
    BY <1>3, <2>1, AfterIs
  <2>3. CASE op[t] = "REQUEST_JOB"
    BY <1>1, <1>3, <1>4, <2>2, <2>3 DEF JobSame, Held, stats
  <2>4. CASE op[t] \in {"JOB_COMPLETED", "JOB_FAILED"}
    BY <1>1, <1>3, <1>4, <2>2, <2>4 DEF JobLost, CountReport
  <2> QED BY <1>1, <1>3, <2>1, <2>2, <2>3, <2>4
<1>5. CASE t # "job"
  <2>1. op[t] \notin {"JOB_COMPLETED", "JOB_FAILED"}
    BY <1>5 DEF Good, Places, MainOps, BeatOps, Threads
  <2> QED BY <1>1, <1>3, <1>5, <2>1, OthersHold DEF JobSame, stats
<1> QED BY <1>4, <1>5

\* Steps outside an exchange.
LEMMA ControlNet ==
  ASSUME Good, NEW t \in Threads,
         \/ t = "main" /\ (Start \/ Stop \/ Join)
         \/ t = "job" /\ Process
         \/ Top(t)
  PROVE  Outside(t) /\ JobSame
<1>1. TurnKind(t)
  BY ControlKind
<1>2. PICK o \in Ops : Turns(t, o) /\ Follows(t, o)
  BY <1>1 DEF TurnKind
<1>3. Others(t) /\ op'[t] = o /\ stage'[t] = "enter"
  BY <1>2, TurnsOthers DEF Good, Turns
<1>4. Unasked /\ overtaken' = overtaken /\ UNCHANGED <<job, processed, failed>> /\ Keeps
  BY DEF Start, Stop, Join, Process, Top, Unasked, server, stats, Keeps
<1>5. op[t] \in {"START", "RUN", "JOIN", "PROCESS", "TOP"}
  BY DEF Start, Stop, Join, Process, Top
<1>6. stage[t] = "enter"
  BY <1>5 DEF Good, Places, Exchanges
<1>7. t = "job" => (o \in Held <=> op[t] \in Held)
  BY <1>2, <1>5 DEF Follows, Held
<1>8. op'["job"] \in Held <=> op["job"] \in Held
  BY <1>3, <1>7, OthersHold
<1> QED BY <1>3, <1>4, <1>6, <1>7, <1>8 DEF Outside, JobSame

\* The first critical section of an exchange, and opening a connection.
LEMMA EnterNet ==
  ASSUME Good, NEW t \in Threads, Enter(t) \/ Open(t)
  PROVE  Outside(t) /\ (JobSame \/ JobLost)
<1>1. op[t] \in Exchanges /\ stage[t] = "enter" /\ Unasked /\ overtaken' = overtaken
  BY DEF Enter, Open, Exchanges, Unasked, server
<1>2. CASE Fail(t) /\ conns' = conns
  <2>1. /\ Others(t) /\ stage'[t] = "enter" /\ fd' \in {fd, 0}
        /\ t = "job" => op'[t] = "TOP"
        /\ JobSame \/ JobLost
    BY <1>1, <1>2, FailNet
  <2> QED BY <1>1, <1>2, <2>1 DEF Outside, Keeps, Held
<1>3. CASE /\ Goto(t, op[t], "send") /\ UNCHANGED <<on, at, job, stats>>
           /\ (id' = id \/ id' = [id EXCEPT ![t] = worker_id]) /\ (Keeps \/ Opens)
  <2>1. Advances(t, "send")
    BY <1>3, GotoAdvances DEF Good, ScalarsOK, Stages
  <2>2. Others(t) /\ op'[t] = op[t] /\ op'["job"] = op["job"] /\ stage'[t] = "send"
    BY <2>1, AdvancesOthers DEF Advances
  <2> QED BY <1>1, <1>3, <2>2 DEF Outside, JobSame, stats
<1> QED BY <1>2, <1>3 DEF Enter, Open, Keeps, Opens

\* worker_disconnect_from_server, before the message and after the answer.
LEMMA DisconnectNet ==
  ASSUME Good, NEW t \in Threads, EnterDisconnect(t) \/ Close(t)
  PROVE  Outside(t) /\ JobSame
<1>1. /\ op[t] \in Closing /\ op[t] \in Exchanges /\ stage[t] \in {"enter", "close"}
      /\ t # "job"
  BY DEF EnterDisconnect, Close, Good, Places, Closing, Exchanges, JobOps
<1>2. Unasked /\ overtaken' = overtaken /\ UNCHANGED <<job, processed, failed>> /\ Keeps
  BY DEF EnterDisconnect, Close, Unasked, server, stats, Keeps
<1>3. CASE Return(t, TRUE)
  <2>1. Turns(t, After(t, op[t], TRUE)) /\ Follows(t, After(t, op[t], TRUE))
    BY <1>1, <1>3, ReturnTurns DEF Good
  <2>2. Others(t) /\ stage'[t] = "enter"
    BY <2>1, TurnsOthers DEF Good, Turns
  <2> QED BY <1>1, <1>2, <2>2, OthersHold DEF Outside, JobSame
<1>4. CASE /\ Goto(t, op[t], TakeBack) /\ id' = [id EXCEPT ![t] = worker_id]
           /\ on' = [on EXCEPT ![t] = fd] /\ UNCHANGED at
  <2>1. TakeBack \in {"send", "close"}
    BY DEF TakeBack
  <2>2. Advances(t, TakeBack)
    BY <1>4, <2>1, GotoAdvances DEF Good, ScalarsOK, Stages
  <2>3. Others(t) /\ stage'[t] \in {"send", "close"}
    BY <2>1, <2>2, AdvancesOthers DEF Advances
  <2> QED BY <1>1, <1>2, <2>3, OthersHold DEF Outside, JobSame
<1> QED BY <1>3, <1>4 DEF EnterDisconnect, Close

\* receive_message, up to the read.
LEMMA ReceiveNet ==
  ASSUME Good, NEW t \in Threads, Receive(t)
  PROVE  (Listens(t) \/ Deaf(t)) /\ (JobSame \/ JobLost)
<1>1. op[t] \in Exchanges /\ stage[t] = "receive" /\ Unasked /\ conns' = conns
  BY DEF Receive, Good, Places, Unasked, server
<1>2. CASE fd = 0
  <2>1. Fail(t) /\ overtaken' = overtaken
    BY <1>2 DEF Receive
  <2>2. /\ Others(t) /\ stage'[t] = "enter" /\ fd' \in {fd, 0}
        /\ t = "job" => op'[t] = "TOP"
        /\ JobSame \/ JobLost
    BY <1>1, <2>1, FailNet
  <2> QED BY <1>1, <1>2, <2>1, <2>2 DEF Deaf, Keeps
<1>3. CASE fd # 0
  <2>1. /\ at' = [at EXCEPT ![t] = fd] /\ overtaken' = (overtaken \/ fd # on[t])
        /\ Goto(t, op[t], "wait") /\ UNCHANGED <<id, on, fd, job, stats>>
    BY <1>3 DEF Receive
  <2>2. Advances(t, "wait") /\ at'[t] = fd
    BY <2>1, GotoAdvances DEF Good, ScalarsOK, Stages, ThreadsOK
  <2>3. Others(t) /\ op'[t] = op[t] /\ op'["job"] = op["job"] /\ stage'[t] = "wait"
    BY <2>2, AdvancesOthers DEF Advances
  <2> QED BY <1>1, <1>3, <2>1, <2>2, <2>3 DEF Listens, JobSame, stats
<1> QED BY <1>2, <1>3
\* The answers the server may give.
Types == {"CONNECT_ACK", "REGISTERED", "HEARTBEAT_ACK", "NO_JOB", "JOB_ASSIGNED",
          "COMPLETION_ACK", "FAILURE_ACK", "DISCONNECT_ACK", "ERROR"}
\* A job is assigned below the bound only, and a result acknowledged only when one
\* is reported.
LEMMA AnswerTypesAre ==
  ASSUME NEW c, NEW m, NEW w, NEW a \in AnswerTypes(c, m, w)
  PROVE  /\ a \in Types
         /\ a = "JOB_ASSIGNED" => given < MaxGiven
         /\ a = "COMPLETION_ACK" => m = "JOB_COMPLETED"
<1>1. CASE c \notin greeted
  BY <1>1 DEF AnswerTypes, Types
<1>2. CASE c \in greeted /\ m = "REGISTER"
  BY <1>2 DEF AnswerTypes, Types
<1>3. CASE c \in greeted /\ m # "REGISTER" /\ w \notin registered
  BY <1>3 DEF AnswerTypes, Types
<1>4. CASE c \in greeted /\ m # "REGISTER" /\ w \in registered
  <2>1. CASE m = "HEARTBEAT"
    BY <1>4, <2>1 DEF AnswerTypes, Types
  <2>2. CASE m = "REQUEST_JOB"
    BY <1>4, <2>2 DEF AnswerTypes, Types
  <2>3. CASE m = "JOB_COMPLETED"
    BY <1>4, <2>3 DEF AnswerTypes, Types
  <2>4. CASE m = "JOB_FAILED"
    BY <1>4, <2>4 DEF AnswerTypes, Types
  <2>5. CASE m \notin {"HEARTBEAT", "REQUEST_JOB", "JOB_COMPLETED", "JOB_FAILED"}
    BY <1>4, <2>5 DEF AnswerTypes, Types
  <2> QED BY <2>1, <2>2, <2>3, <2>4, <2>5
<1> QED BY <1>1, <1>2, <1>3, <1>4

\* A message that is served gets one answer.
LEMMA ServedIs ==
  ASSUME NetOK, CountsOK, NEW c \in Conns, NEW m, NEW w, Served(c, m, w)
  PROVE  \E a \in Answers :
           /\ link' = [link EXCEPT ![c] = Append(@, a)]
           /\ eof' \in [Conns -> BOOLEAN] /\ \A d \in Conns \ {c} : eof'[d] = eof[d]
           /\ greeted' \in SUBSET Conns /\ registered' \in SUBSET Conns
           /\ \/ /\ Assigns(a) /\ given < MaxGiven /\ a.job = given + 1 /\ given' = given + 1
                 /\ accepted' = accepted
              \/ /\ Ack(a) /\ m = "JOB_COMPLETED" /\ a.job = job
                 /\ given' = given /\ accepted' = accepted \cup {job}
              \/ ~Assigns(a) /\ ~Ack(a) /\ given' = given /\ accepted' = accepted
<1>1. PICK a \in AnswerTypes(c, m, w) :
        LET j == CASE a = "JOB_ASSIGNED" -> given + 1
                   [] a = "COMPLETION_ACK" -> job
                   [] OTHER -> 0
        IN  /\ link' = [link EXCEPT ![c] = Append(@, [type |-> a, job |-> j])]
            /\ greeted' = IF a = "CONNECT_ACK" THEN greeted \cup {c} ELSE greeted
            /\ registered' = CASE a = "REGISTERED" -> registered \cup {c}
                               [] a = "DISCONNECT_ACK" -> registered \ {w}
                               [] OTHER -> registered
            /\ given' = IF a = "JOB_ASSIGNED" THEN j ELSE given
            /\ accepted' = IF a = "COMPLETION_ACK" THEN accepted \cup {j} ELSE accepted
            /\ eof' = [eof EXCEPT ![c] = c \notin greeted']
  BY DEF Served
<1>2. /\ a \in Types
      /\ a = "JOB_ASSIGNED" => given < MaxGiven
      /\ a = "COMPLETION_ACK" => m = "JOB_COMPLETED"
  BY AnswerTypesAre
<1>3. greeted' \in SUBSET Conns
  BY <1>1 DEF NetOK
<1>4. registered' \in SUBSET Conns
  <2>1. registered' = CASE a = "REGISTERED" -> registered \cup {c}
                        [] a = "DISCONNECT_ACK" -> registered \ {w}
                        [] OTHER -> registered
    BY <1>1
  <2>2. registered' \in {registered \cup {c}, registered \ {w}, registered}
    <3>1. CASE a = "REGISTERED"
      BY <2>1, <3>1
    <3>2. CASE a = "DISCONNECT_ACK"
      BY <2>1, <3>2
    <3>3. CASE a \notin {"REGISTERED", "DISCONNECT_ACK"}
      BY <2>1, <3>3
    <3> QED BY <3>1, <3>2, <3>3
  <2> QED BY <2>2 DEF NetOK
<1>5. eof' \in [Conns -> BOOLEAN] /\ \A d \in Conns \ {c} : eof'[d] = eof[d]
  <2>1. eof' = [eof EXCEPT ![c] = c \notin greeted'] /\ eof \in [Conns -> BOOLEAN]
    BY <1>1 DEF NetOK
  <2>2. (c \notin greeted') \in BOOLEAN
    OBVIOUS
  <2> QED BY <2>1, <2>2, Zenon
<1>6. given \in Nat /\ given <= MaxGiven /\ job \in 0 .. MaxGiven /\ MaxGiven \in Nat
  BY WorkerAssumption DEF CountsOK
<1>7. CASE a = "JOB_ASSIGNED"
  <2> DEFINE b == [type |-> a, job |-> given + 1]
  <2>1. /\ link' = [link EXCEPT ![c] = Append(@, b)]
        /\ given' = given + 1 /\ accepted' = accepted /\ given < MaxGiven
    BY <1>1, <1>2, <1>7
  <2>2. b \in Answers /\ Assigns(b) /\ b.job = given + 1
    BY <1>2, <1>6, <1>7 DEF Answers, Assigns, Types
  <2> QED BY <1>3, <1>4, <1>5, <2>1, <2>2
<1>8. CASE a = "COMPLETION_ACK"
  <2> DEFINE b == [type |-> a, job |-> job]
  <2>1. /\ link' = [link EXCEPT ![c] = Append(@, b)]
        /\ given' = given /\ accepted' = accepted \cup {job} /\ m = "JOB_COMPLETED"
    BY <1>1, <1>2, <1>8
  <2>2. b \in Answers /\ Ack(b) /\ b.job = job
    BY <1>2, <1>6, <1>8 DEF Answers, Ack, Types
  <2> QED BY <1>3, <1>4, <1>5, <2>1, <2>2
<1>9. CASE a \notin {"JOB_ASSIGNED", "COMPLETION_ACK"}
  <2> DEFINE b == [type |-> a, job |-> 0]
  <2>1. /\ link' = [link EXCEPT ![c] = Append(@, b)]
        /\ given' = given /\ accepted' = accepted
    BY <1>1, <1>2, <1>9
  <2>2. b \in Answers /\ ~Ack(b) /\ ~Assigns(b)
    BY <1>2, <1>6, <1>9 DEF Answers, Ack, Assigns, Types
  <2> QED BY <1>3, <1>4, <1>5, <2>1, <2>2
<1> QED BY <1>7, <1>8, <1>9

\* send_message.
LEMMA SendNet ==
  ASSUME Good, NetOK, CountsOK, NEW t \in Threads, Send(t)
  PROVE  NetKind(t) /\ (JobSame \/ JobLost)
<1>1. /\ op[t] \in Exchanges /\ stage[t] = "send" /\ conns' = conns
      /\ overtaken' = overtaken
  BY DEF Send, Good, Places
<1>2. CASE Fail(t) /\ UNCHANGED server
  <2>1. /\ Others(t) /\ stage'[t] = "enter" /\ fd' \in {fd, 0}
        /\ t = "job" => op'[t] = "TOP"
        /\ JobSame \/ JobLost
    BY <1>1, <1>2, FailNet
  <2>2. Outside(t)
    BY <1>1, <1>2, <2>1 DEF Outside, Keeps, Held, Unasked, server
  <2> QED BY <2>1, <2>2 DEF NetKind
<1>3. CASE /\ fd # 0
           /\ IF fd \in Live THEN Served(fd, op[t], id[t]) ELSE UNCHANGED server
           /\ Goto(t, op[t], "receive") /\ on' = [on EXCEPT ![t] = fd]
           /\ UNCHANGED <<is_running, id, at, fd, job, stats>>
  <2>1. fd \in Conns
    BY <1>3 DEF Good, ScalarsOK, Conns
  <2>2. Advances(t, "receive") /\ on'[t] = fd
    BY <1>3, GotoAdvances DEF Good, ScalarsOK, Stages, ThreadsOK
  <2>3. Others(t) /\ op'[t] = op[t] /\ op'["job"] = op["job"] /\ stage'[t] = "receive"
    BY <2>2, AdvancesOthers DEF Advances
  <2>4. JobSame
    BY <1>3, <2>3 DEF JobSame, stats
  <2>5. CASE fd \in Live
    <3>1. ~eof[fd]
      BY <2>5 DEF Live
    <3>2. Served(fd, op[t], id[t])
      BY <1>3, <2>5
    <3>3. \E a : Answered(t, a)
      BY <1>1, <1>3, <2>1, <2>2, <2>3, <3>1, <3>2, ServedIs DEF Answered
    <3> QED BY <2>4, <3>3 DEF NetKind
  <2>6. CASE fd \notin Live
    <3>1. eof[fd]
      BY <2>1, <2>6 DEF Live
    <3>2. Unheard(t)
      BY <1>1, <1>3, <2>2, <2>3, <2>6, <3>1 DEF Unheard, Unasked, server
    <3> QED BY <2>4, <3>2 DEF NetKind
  <2> QED BY <2>5, <2>6
<1> QED BY <1>2, <1>3 DEF Send
\* The read of an answer that ends the exchange well.
LEMMA SucceedNet ==
  ASSUME Good, NEW t \in Threads, op[t] \notin Closing, stage[t] = "wait",
         Expected(op[t], Head(link[at[t]]).type), Succeed(t, Head(link[at[t]]))
  PROVE  /\ Others(t) /\ stage'[t] = "enter" /\ fd' = fd
         /\ t = "job" => \/ /\ op[t] = "JOB_COMPLETED" /\ op'[t] = "TOP"
                            /\ Ack(Head(link[at[t]])) /\ CountReport(TRUE)
                         \/ /\ op[t] = "REQUEST_JOB" /\ op'[t] = "PROCESS"
                            /\ Assigns(Head(link[at[t]]))
                            /\ job' = Head(link[at[t]]).job /\ UNCHANGED <<processed, failed>>
         /\ t # "job" => JobSame
<1> DEFINE a == Head(link[at[t]])
<1> HIDE DEF a
<1>1. /\ Return(t, TRUE) /\ fd' = fd
      /\ CASE op[t] = "REQUEST_JOB" -> job' = a.job /\ UNCHANGED stats
           [] op[t] = "JOB_COMPLETED" -> CountReport(TRUE)
           [] OTHER -> UNCHANGED <<job, stats>>
  BY DEF Succeed, a
<1>2. /\ op[t] \in {"CONNECT", "REGISTER", "HEARTBEAT", "REQUEST_JOB", "JOB_COMPLETED"}
      /\ op[t] = "REQUEST_JOB" => a.type = "JOB_ASSIGNED"
      /\ op[t] = "JOB_COMPLETED" => a.type = "COMPLETION_ACK"
  BY DEF Expected, Accepts, a
<1>3. Turns(t, After(t, op[t], TRUE)) /\ Follows(t, After(t, op[t], TRUE))
  BY <1>1, <1>2, ReturnTurns DEF Good, Exchanges
<1>4. Others(t) /\ stage'[t] = "enter" /\ op'[t] = After(t, op[t], TRUE)
  BY <1>3, TurnsOthers DEF Good, Turns
<1>5. CASE t = "job"
  <2>1. op[t] \in {"REQUEST_JOB", "JOB_COMPLETED"}
    BY <1>2, <1>5 DEF Good, Places, JobOps
  <2>2. CASE op[t] = "REQUEST_JOB"
    <3>1. op'[t] = "PROCESS"
      BY <1>4, <2>2, AfterIs
    <3> QED BY <1>1, <1>2, <1>4, <1>5, <2>2, <3>1 DEF a, Assigns, stats
  <2>3. CASE op[t] = "JOB_COMPLETED"
    <3>1. op'[t] = "TOP"
      BY <1>4, <2>3, AfterIs
    <3>2. CountReport(TRUE)
      BY <1>1, <2>3
    <3> QED BY <1>1, <1>2, <1>4, <1>5, <2>3, <3>1, <3>2 DEF a, Ack
  <2> QED BY <2>1, <2>2, <2>3
<1>6. CASE t # "job"
  <2>1. op[t] \notin {"REQUEST_JOB", "JOB_COMPLETED"}
    BY <1>6 DEF Good, Places, MainOps, BeatOps, Threads
  <2>2. UNCHANGED <<job, stats>>
    BY <1>1, <2>1
  <2> QED BY <1>1, <1>4, <1>6, <2>2, OthersHold DEF JobSame, stats
<1> QED BY <1>5, <1>6

\* The read.
LEMMA ReadNet ==
  ASSUME Good, NEW t \in Threads, Read(t)
  PROVE  (Reads(t) \/ ReadsEnd(t)) /\ JobKind
<1> DEFINE a == Head(link[at[t]])
<1> HIDE DEF a
<1>1. /\ stage[t] = "wait" /\ conns' = conns /\ op[t] \in Exchanges
      /\ UNCHANGED <<eof, greeted, registered, given, accepted, overtaken>>
  BY DEF Read, Good, Places
<1>2. \/ link[at[t]] # <<>> /\ link' = [link EXCEPT ![at[t]] = Tail(@)]
      \/ link[at[t]] = <<>> /\ eof[at[t]] /\ link' = link
  BY DEF Read
<1>3. CASE /\ op[t] \in Closing /\ Goto(t, op[t], "close") /\ Steady
           /\ UNCHANGED <<id, on, at, is_running, job, stats>>
  <2>1. Advances(t, "close")
    BY <1>3, GotoAdvances DEF Good, ScalarsOK, Stages
  <2>2. Others(t) /\ stage'[t] = "close"
    BY <2>1, AdvancesOthers DEF Advances
  <2>3. t # "job"
    BY <1>3 DEF Good, Places, JobOps, Closing
  <2>4. Reads(t) \/ ReadsEnd(t)
    BY <1>1, <1>2, <1>3, <2>2, <2>3 DEF Reads, ReadsEnd, Keeps, Steady, Unasked
  <2> QED BY <1>3, <2>2, <2>3, <2>4, OthersHold DEF JobKind, JobSame, stats
<1>4. CASE op[t] \notin Closing /\ Fail(t)
  <2>1. /\ Others(t) /\ stage'[t] = "enter" /\ fd' \in {fd, 0}
        /\ t = "job" => op'[t] = "TOP"
        /\ JobSame \/ JobLost
    BY <1>1, <1>4, FailNet
  <2>2. Reads(t) \/ ReadsEnd(t)
    BY <1>1, <1>2, <2>1 DEF Reads, ReadsEnd, Keeps, Unasked
  <2> QED BY <2>1, <2>2 DEF JobKind
<1>5. CASE /\ op[t] \notin Closing /\ link[at[t]] # <<>>
           /\ Expected(op[t], Head(link[at[t]]).type) /\ Succeed(t, Head(link[at[t]]))
  <2>1. /\ Others(t) /\ stage'[t] = "enter" /\ fd' = fd
        /\ t = "job" => \/ /\ op[t] = "JOB_COMPLETED" /\ op'[t] = "TOP"
                           /\ Ack(a) /\ CountReport(TRUE)
                        \/ /\ op[t] = "REQUEST_JOB" /\ op'[t] = "PROCESS"
                           /\ Assigns(a) /\ job' = a.job /\ UNCHANGED <<processed, failed>>
        /\ t # "job" => JobSame
    BY <1>1, <1>5, SucceedNet DEF a
  <2>2. Reads(t)
    BY <1>1, <1>2, <1>5, <2>1 DEF Reads, Keeps, a
  <2>3. CASE t = "job"
    <3>1. CASE op[t] = "JOB_COMPLETED" /\ op'[t] = "TOP" /\ Ack(a) /\ CountReport(TRUE)
      BY <2>2, <2>3, <3>1 DEF JobKind, JobDone, CountReport, a
    <3>2. CASE /\ op[t] = "REQUEST_JOB" /\ op'[t] = "PROCESS"
               /\ Assigns(a) /\ job' = a.job /\ UNCHANGED <<processed, failed>>
      BY <2>2, <2>3, <3>2 DEF JobKind, JobGot, a
    <3> QED BY <2>1, <2>2, <2>3, <3>1, <3>2
  <2> QED BY <2>1, <2>2, <2>3 DEF JobKind
<1> QED BY <1>3, <1>4, <1>5, ReadCases

\* Nothing happens at all.
Still == Unasked /\ UNCHANGED <<op, stage, on, at, fd, conns, overtaken>>

\* Every step is of one of the kinds.
LEMMA NetKinds ==
  ASSUME Good, NetOK, CountsOK, [Next]_vars
  PROVE  /\ Still \/ (\E c : Cuts(c)) \/ (\E t \in Threads : NetKind(t))
         /\ JobKind
<1>1. ASSUME UNCHANGED vars
      PROVE  Still /\ JobKind
  BY <1>1 DEF Still, Unasked, JobKind, JobSame, vars, place, stats, server
<1>2. ASSUME NEW c \in Conns, ServerCloses(c)
      PROVE  Cuts(c) /\ JobKind
  <2>1. registered' \in SUBSET Conns
    BY <1>2 DEF ServerCloses, NetOK
  <2> QED BY <1>2, <2>1 DEF ServerCloses, Cuts, JobKind, JobSame, place, stats
<1>3. ASSUME NEW t \in Threads, Step(t)
      PROVE  NetKind(t) /\ JobKind
  <2>1. CASE Top(t)
    BY <2>1, ControlNet DEF NetKind, JobKind
  <2>2. CASE Enter(t) \/ Open(t)
    BY <2>2, EnterNet DEF NetKind, JobKind
  <2>3. CASE EnterDisconnect(t) \/ Close(t)
    BY <2>3, DisconnectNet DEF NetKind, JobKind
  <2>4. CASE Send(t)
    BY <2>4, SendNet DEF JobKind
  <2>5. CASE Receive(t)
    BY <2>5, ReceiveNet DEF NetKind, JobKind
  <2>6. CASE Read(t)
    BY <2>6, ReadNet DEF NetKind
  <2> QED BY <1>3, <2>1, <2>2, <2>3, <2>4, <2>5, <2>6 DEF Step
<1>4. ASSUME Start \/ Stop \/ Join \/ Process
      PROVE  (\E t \in Threads : NetKind(t)) /\ JobKind
  <2>1. "main" \in Threads /\ "job" \in Threads
    BY DEF Threads
  <2> QED BY <1>4, <2>1, ControlNet DEF NetKind, JobKind
<1> QED BY <1>1, <1>2, <1>3, <1>4 DEF Next
-----------------------------------------------------------------------------
(***************************************************************************)
(* The answers under way.                                                  *)
(***************************************************************************)
\* The step, as far as the network goes.
NetStep == Still \/ (\E c : Cuts(c)) \/ (\E t \in Threads : NetKind(t))

\* What may happen to the answers on a connection.
Grown(c, a) == c = fd /\ (\E t \in Threads : Answered(t, a)) /\ link'[c] = Append(link[c], a)
Read1(c) == /\ \E t \in Threads : Reads(t) /\ c = at[t]
            /\ link[c] # <<>> /\ link'[c] = Tail(link[c])
Cut(c) == Cuts(c) /\ \E n \in 0 .. Len(link[c]) : link'[c] = SubSeq(link[c], 1, n)

\* A thread that waits for an answer does so on a connection.
LEMMA WaitsOn ==
  ASSUME Good, NEW t \in Threads
  PROVE  /\ stage[t] = "wait" => at[t] \in Conns
         /\ fd # 0 => fd \in Conns
<1>1. at[t] \in 0 .. MaxConns /\ fd \in 0 .. MaxConns /\ (stage[t] = "wait" => at[t] # 0)
  BY DEF Good, ThreadsOK, ScalarsOK, Connected, Knows
<1> QED BY <1>1, WorkerAssumption DEF Conns

\* Nothing else happens to it.
LEMMA LinkCases ==
  ASSUME Good, NetOK, NetStep, NEW c \in Conns
  PROVE  link'[c] = link[c] \/ (\E a \in Answers : Grown(c, a)) \/ Read1(c) \/ Cut(c)
<1>1. link \in [Conns -> Seq(Answers)]
  BY DEF NetOK
<1>2. CASE link' = link
  BY <1>2
<1>3. ASSUME NEW d, Cuts(d)
      PROVE  link'[c] = link[c] \/ Cut(c)
  <2>1. PICK n \in 0 .. Len(link[d]) : link' = [link EXCEPT ![d] = SubSeq(@, 1, n)]
    BY <1>3 DEF Cuts
  <2>2. CASE c = d
    <3>1. link'[c] = SubSeq(link[c], 1, n)
      BY <1>1, <2>1, <2>2
    <3> QED BY <1>3, <2>2, <3>1 DEF Cut
  <2>3. CASE c # d
    BY <1>1, <2>1, <2>3
  <2> QED BY <2>2, <2>3
<1>4. ASSUME NEW t \in Threads, NEW a, Answered(t, a)
      PROVE  link'[c] = link[c] \/ (a \in Answers /\ Grown(c, a))
  <2>1. link' = [link EXCEPT ![fd] = Append(@, a)] /\ a \in Answers /\ fd # 0
    BY <1>4 DEF Answered
  <2>2. CASE c = fd
    <3>1. link'[c] = Append(link[c], a)
      BY <1>1, <2>1, <2>2
    <3> QED BY <1>4, <2>1, <2>2, <3>1 DEF Grown
  <2>3. CASE c # fd
    BY <1>1, <2>1, <2>3
  <2> QED BY <2>2, <2>3
<1>5. ASSUME NEW t \in Threads, Reads(t)
      PROVE  link'[c] = link[c] \/ Read1(c)
  <2>1. link[at[t]] # <<>> /\ link' = [link EXCEPT ![at[t]] = Tail(@)]
    BY <1>5 DEF Reads
  <2>2. CASE c = at[t]
    <3>1. link'[c] = Tail(link[c])
      BY <1>1, <2>1, <2>2
    <3> QED BY <1>5, <2>1, <2>2, <3>1 DEF Read1
  <2>3. CASE c # at[t]
    BY <1>1, <2>1, <2>3
  <2> QED BY <2>2, <2>3
<1>6. ASSUME NEW t \in Threads, NetKind(t)
      PROVE  link' = link \/ Reads(t) \/ \E a : Answered(t, a)
  BY <1>6 DEF NetKind, Outside, Unheard, Listens, Deaf, ReadsEnd, Unasked
<1>7. Still => link' = link
  BY DEF Still, Unasked
<1> QED BY <1>2, <1>3, <1>4, <1>5, <1>6, <1>7 DEF NetStep

\* Every answer was there before, k places further on, or is the last one and new.
From(c, k) ==
  \A i \in 1 .. Len(link'[c]) :
    \/ i + k \in 1 .. Len(link[c]) /\ link'[c][i] = link[c][i + k]
    \/ /\ k = 0 /\ c = fd /\ i = Len(link[c]) + 1
       /\ \E t \in Threads : Answered(t, link'[c][i])

\* That is so of every connection.
LEMMA LinkFrom ==
  ASSUME Good, NetOK, NetStep, NEW c \in Conns
  PROVE  link'[c] \in Seq(Answers) /\ \E k \in {0, 1} : From(c, k)
<1>1. link[c] \in Seq(Answers) /\ Len(link[c]) \in Nat
  BY DEF NetOK
<1>2. CASE link'[c] = link[c]
  <2>1. From(c, 0)
    BY <1>1, <1>2 DEF From
  <2> QED BY <1>1, <1>2, <2>1
<1>3. ASSUME NEW a \in Answers, Grown(c, a)
      PROVE  link'[c] \in Seq(Answers) /\ From(c, 0)
  <2>1. PICK t \in Threads : Answered(t, a)
    BY <1>3 DEF Grown
  <2>2. c = fd /\ link'[c] = Append(link[c], a)
    BY <1>3 DEF Grown
  <2>3. /\ link'[c] \in Seq(Answers) /\ Len(link'[c]) = Len(link[c]) + 1
        /\ link'[c][Len(link[c]) + 1] = a
        /\ \A i \in 1 .. Len(link[c]) : link'[c][i] = link[c][i]
    BY <1>1, <2>2, AppendProperties
  <2>4. ASSUME NEW i \in 1 .. Len(link'[c])
        PROVE  \/ i + 0 \in 1 .. Len(link[c]) /\ link'[c][i] = link[c][i + 0]
               \/ /\ c = fd /\ i = Len(link[c]) + 1
                  /\ \E u \in Threads : Answered(u, link'[c][i])
    <3>1. CASE i = Len(link[c]) + 1
      BY <2>1, <2>2, <2>3, <3>1
    <3>2. CASE i # Len(link[c]) + 1
      BY <1>1, <2>3, <3>2
    <3> QED BY <3>1, <3>2
  <2> QED BY <2>3, <2>4 DEF From
<1>4. CASE Read1(c)
  <2>1. link[c] # <<>> /\ link'[c] = Tail(link[c])
    BY <1>4 DEF Read1
  <2>2. /\ link'[c] \in Seq(Answers) /\ Len(link'[c]) = Len(link[c]) - 1
        /\ \A i \in 1 .. Len(link'[c]) : link'[c][i] = link[c][i + 1]
    BY <1>1, <2>1, HeadTailProperties
  <2>3. From(c, 1)
    BY <1>1, <2>2 DEF From
  <2> QED BY <2>2, <2>3
<1>5. CASE Cut(c)
  <2>1. PICK n \in 0 .. Len(link[c]) : link'[c] = SubSeq(link[c], 1, n)
    BY <1>5 DEF Cut
  <2>2. /\ link'[c] \in Seq(Answers) /\ Len(link'[c]) = n
        /\ \A i \in 1 .. n : link'[c][i] = link[c][i]
    BY <1>1, <2>1
  <2>3. From(c, 0)
    BY <1>1, <2>2 DEF From
  <2> QED BY <2>2, <2>3
<1> QED BY <1>2, <1>3, <1>4, <1>5, LinkCases

\* The network keeps its type.
LEMMA NetKept ==
  ASSUME Good, NetOK, NetStep
  PROVE  NetOK'
<1>1. link' \in [Conns -> Seq(Answers)]
  <2>1. DOMAIN link' = Conns /\ link' = [c \in Conns |-> link'[c]]
    <3>1. \/ link' = link \/ (\E d, x : link' = [link EXCEPT ![d] = x])
      <4>1. ASSUME NEW d, Cuts(d)
            PROVE  \E x : link' = [link EXCEPT ![d] = x]
        BY <4>1 DEF Cuts
      <4>2. ASSUME NEW t \in Threads, NetKind(t)
            PROVE  link' = link \/ (\E d, x : link' = [link EXCEPT ![d] = x])
        BY <4>2 DEF NetKind, Outside, Unheard, Listens, Deaf, Reads, ReadsEnd, Unasked, Answered
      <4> QED BY <4>1, <4>2 DEF NetStep, Still, Unasked
    <3> QED BY <3>1 DEF NetOK
  <2> QED BY <2>1, LinkFrom
<1>2. eof' \in [Conns -> BOOLEAN]
  <2>1. eof' = eof \/ eof' \in [Conns -> BOOLEAN] \/ (\E d \in Conns : eof' = [eof EXCEPT ![d] = TRUE])
    BY DEF NetStep, Still, NetKind, Outside, Unheard, Listens, Deaf, Reads, ReadsEnd, Unasked,
           Answered, Cuts
  <2> QED BY <2>1, Zenon DEF NetOK
<1>3. greeted' \in SUBSET Conns /\ registered' \in SUBSET Conns
  BY DEF NetStep, Still, NetKind, Outside, Unheard, Listens, Deaf, Reads, ReadsEnd, Unasked,
         Answered, Cuts, NetOK
<1> QED BY <1>1, <1>2, <1>3 DEF NetOK
-----------------------------------------------------------------------------
(***************************************************************************)
(* The jobs.                                                               *)
(***************************************************************************)
\* Only the job thread reports results.
LEMMA Reporter ==
  ASSUME Good, NEW t \in Threads, op[t] = "JOB_COMPLETED"
  PROVE  t = "job"
BY DEF Good, Places, MainOps, BeatOps, Threads

\* The server's counts only grow.
LEMMA ServerGrows ==
  ASSUME Good, CountsOK, Holding, NetStep
  PROVE  /\ given' \in 0 .. MaxGiven /\ given <= given'
         /\ accepted \subseteq accepted' /\ accepted' \in SUBSET Jobs
<1>1. given \in 0 .. MaxGiven /\ MaxGiven \in Nat /\ accepted \in SUBSET Jobs /\ job \in 0 .. MaxGiven
  BY WorkerAssumption DEF CountsOK
<1>2. CASE given' = given /\ accepted' = accepted
  BY <1>1, <1>2
<1>3. ASSUME NEW t \in Threads, NEW a, Answered(t, a)
      PROVE  /\ given' \in 0 .. MaxGiven /\ given <= given'
             /\ accepted \subseteq accepted' /\ accepted' \in SUBSET Jobs
  <2>1. CASE given < MaxGiven /\ given' = given + 1 /\ accepted' = accepted
    BY <1>1, <2>1
  <2>2. CASE op[t] = "JOB_COMPLETED" /\ given' = given /\ accepted' = accepted \cup {job}
    <3>1. job # 0
      BY <2>2, Reporter DEF Holding, Held
    <3>2. job \in Jobs
      BY <1>1, <3>1 DEF Jobs
    <3> QED BY <1>1, <2>2, <3>2
  <2> QED BY <1>2, <1>3, <2>1, <2>2 DEF Answered
<1>4. ASSUME NEW t \in Threads, NetKind(t)
      PROVE  (given' = given /\ accepted' = accepted) \/ \E a : Answered(t, a)
  BY <1>4 DEF NetKind, Outside, Unheard, Listens, Deaf, Reads, ReadsEnd, Unasked
<1>5. Still \/ (\E c : Cuts(c)) => given' = given /\ accepted' = accepted
  BY DEF Still, Unasked, Cuts
<1> QED BY <1>2, <1>3, <1>4, <1>5 DEF NetStep

\* The next answer for the job thread is the first one on its connection.
LEMMA NextAnswer ==
  ASSUME Good, NetOK, Reads("job")
  PROVE  /\ at["job"] \in Conns /\ stage["job"] = "wait"
         /\ 1 \in 1 .. Len(link[at["job"]]) /\ Head(link[at["job"]]) = link[at["job"]][1]
<1>1. "job" \in Threads /\ stage["job"] = "wait" /\ link[at["job"]] # <<>>
  BY DEF Threads, Reads
<1>2. at["job"] \in Conns
  BY <1>1, WaitsOn
<1>3. link[at["job"]] \in Seq(Answers)
  BY <1>2 DEF NetOK
<1> QED BY <1>1, <1>2, <1>3

\* A job is counted once, and as processed only when the server has taken it.
LEMMA JobsKept ==
  ASSUME Good, NetOK, CountsOK, CountedOnce, Holding, Assigned, AcksTaken, Acks,
         CountedWasAccepted, NetStep, JobKind
  PROVE  CountsOK' /\ CountedOnce' /\ Holding' /\ CountedWasAccepted'
<1>1. /\ job \in 0 .. MaxGiven /\ given \in 0 .. MaxGiven /\ MaxGiven \in Nat
      /\ processed \subseteq Jobs /\ failed \subseteq Jobs /\ processed \cap failed = {}
      /\ processed \subseteq accepted
  BY WorkerAssumption DEF CountsOK, CountedOnce, CountedWasAccepted
<1>2. /\ given' \in 0 .. MaxGiven /\ given <= given'
      /\ accepted \subseteq accepted' /\ accepted' \subseteq Jobs
  BY ServerGrows
<1>3. /\ job # 0 <=> op["job"] \in Held
      /\ job <= given /\ job \notin processed /\ job \notin failed
      /\ processed \subseteq 1 .. given /\ failed \subseteq 1 .. given
  BY DEF Holding, Counted
<1>4. processed \subseteq 1 .. given' /\ failed \subseteq 1 .. given' /\ job <= given'
  BY <1>1, <1>2, <1>3
<1>5. CASE JobSame
  <2>1. job' = job /\ processed' = processed /\ failed' = failed
        /\ (op'["job"] \in Held <=> op["job"] \in Held)
    BY <1>5 DEF JobSame
  <2> QED BY <1>1, <1>2, <1>3, <1>4, <2>1 DEF CountsOK, CountedOnce, Holding, CountedWasAccepted,
                                            Counted
<1>6. CASE JobGot
  <2> DEFINE a == Head(link[at["job"]])
  <2>1. /\ op'["job"] = "PROCESS" /\ job' = a.job /\ Assigns(a)
        /\ processed' = processed /\ failed' = failed /\ Reads("job")
    BY <1>6 DEF JobGot
  <2>2. a.job \in (1 .. given) \ (Counted \cup {job})
    BY <2>1, NextAnswer DEF Assigned
  <2> HIDE DEF a
  <2>3. op'["job"] \in Held
    BY <2>1 DEF Held
  <2> QED BY <1>1, <1>2, <1>3, <1>4, <2>1, <2>2, <2>3
          DEF CountsOK, CountedOnce, Holding, CountedWasAccepted, Counted, Jobs
<1>7. ASSUME op["job"] \in Held, op'["job"] = "TOP", job' = 0
      PROVE  /\ job \in Jobs /\ job \in 1 .. given' /\ op'["job"] \notin Held
             /\ job' \notin processed \cup failed \cup {job}
  BY <1>1, <1>2, <1>3, <1>4, <1>7 DEF Held, Jobs
<1>8. CASE JobDone
  <2> DEFINE a == Head(link[at["job"]])
  <2>1. /\ op["job"] = "JOB_COMPLETED" /\ op'["job"] = "TOP" /\ job' = 0 /\ Ack(a)
        /\ processed' = processed \cup {job} /\ failed' = failed /\ Reads("job")
    BY <1>8 DEF JobDone
  <2>2. a.job \in accepted
    BY <2>1, NextAnswer DEF AcksTaken
  <2>3. a.job = job
    <3>1. AckPlace(at["job"])
      BY <2>1, NextAnswer DEF Acks
    <3> QED BY <2>1, <3>1, NextAnswer DEF AckPlace, Held
  <2> HIDE DEF a
  <2>4. op["job"] \in Held
    BY <2>1 DEF Held
  <2> QED BY <1>1, <1>2, <1>3, <1>4, <1>7, <2>1, <2>2, <2>3, <2>4
          DEF CountsOK, CountedOnce, Holding, CountedWasAccepted, Counted
<1>9. CASE JobLost
  <2>1. /\ op["job"] \in Held /\ op'["job"] = "TOP" /\ job' = 0
        /\ processed' = processed /\ failed' = failed \cup {job}
    BY <1>9 DEF JobLost, Held
  <2> QED BY <1>1, <1>2, <1>3, <1>4, <1>7, <2>1
          DEF CountsOK, CountedOnce, Holding, CountedWasAccepted, Counted
<1> QED BY <1>5, <1>6, <1>8, <1>9 DEF JobKind

\* A read shifts the answers of one connection.
LEMMA ReadsShift ==
  ASSUME Good, NetOK, NEW t \in Threads, Reads(t), NEW c \in Conns,
         NEW i \in 1 .. Len(link'[c])
  PROVE  /\ c = at[t] => i + 1 \in 1 .. Len(link[c]) /\ link'[c][i] = link[c][i + 1]
         /\ c # at[t] => i \in 1 .. Len(link[c]) /\ link'[c][i] = link[c][i]
<1>1. link \in [Conns -> Seq(Answers)] /\ link[c] \in Seq(Answers) /\ Len(link[c]) \in Nat
  BY DEF NetOK
<1>2. link[at[t]] # <<>> /\ link' = [link EXCEPT ![at[t]] = Tail(@)]
  BY DEF Reads
<1>3. CASE c = at[t]
  <2>1. link'[c] = Tail(link[c]) /\ link[c] # <<>>
    BY <1>1, <1>2, <1>3
  <2>2. /\ Len(link'[c]) = Len(link[c]) - 1
        /\ \A j \in 1 .. Len(link'[c]) : link'[c][j] = link[c][j + 1]
    BY <1>1, <2>1, HeadTailProperties
  <2> QED BY <1>1, <1>3, <2>2
<1>4. CASE c # at[t]
  BY <1>1, <1>2, <1>4
<1> QED BY <1>3, <1>4

\* The assignments under way are for jobs nobody has counted.
LEMMA AssignedKept ==
  ASSUME Good, NetOK, CountsOK, Holding, Assigned, AssignedOnce, NetStep, JobKind
  PROVE  Assigned'
<1> SUFFICES ASSUME NEW c \in Conns, NEW i \in 1 .. Len(link'[c]), Assigns(link'[c][i])
             PROVE  link'[c][i].job \in (1 .. given') \ (Counted' \cup {job'})
  BY DEF Assigned, Assigns
<1>1. /\ given \in 0 .. MaxGiven /\ given' \in 0 .. MaxGiven /\ given <= given'
      /\ job \in 0 .. MaxGiven /\ job <= given /\ Counted \subseteq 1 .. given /\ MaxGiven \in Nat
  BY ServerGrows, WorkerAssumption DEF CountsOK, Holding
<1>2. CASE JobGot
  <2>1. /\ Reads("job") /\ Assigns(Head(link[at["job"]])) /\ "job" \in Threads
        /\ job' = Head(link[at["job"]]).job /\ processed' = processed /\ failed' = failed
    BY <1>2 DEF JobGot, Threads
  <2> DEFINE k == IF c = at["job"] THEN i + 1 ELSE i
  <2>2. k \in 1 .. Len(link[c]) /\ link'[c][i] = link[c][k]
    BY <2>1, ReadsShift
  <2>3. ~(c = at["job"] /\ k = 1)
    OBVIOUS
  <2> HIDE DEF k
  <2>4. link[c][k].job \in (1 .. given) \ (Counted \cup {job}) /\ Assigns(link[c][k])
    BY <2>2 DEF Assigned
  <2>5. /\ at["job"] \in Conns /\ 1 \in 1 .. Len(link[at["job"]])
        /\ Head(link[at["job"]]) = link[at["job"]][1]
    BY <2>1, NextAnswer
  <2>6. link[c][k].job # link[at["job"]][1].job
    BY <2>1, <2>2, <2>3, <2>4, <2>5 DEF AssignedOnce
  <2> QED BY <1>1, <2>1, <2>2, <2>4, <2>5, <2>6 DEF Counted
<1>3. CASE ~JobGot
  <2>1. Counted' \cup {job'} \subseteq Counted \cup {job, 0}
    BY <1>3 DEF JobKind, JobSame, JobDone, JobLost, Counted
  <2>2. PICK k \in {0, 1} : From(c, k)
    BY LinkFrom
  <2>3. CASE i + k \in 1 .. Len(link[c]) /\ link'[c][i] = link[c][i + k]
    <3>1. link[c][i + k].job \in (1 .. given) \ (Counted \cup {job})
      BY <2>3 DEF Assigned
    <3> QED BY <1>1, <2>1, <2>3, <3>1
  <2>4. CASE \E t \in Threads : Answered(t, link'[c][i])
    <3>1. link'[c][i].job = given + 1 /\ given' = given + 1
      BY <2>4 DEF Answered, Assigns, Ack
    <3> QED BY <1>1, <2>1, <3>1
  <2> QED BY <2>2, <2>3, <2>4 DEF From
<1> QED BY <1>2, <1>3

\* ... and every job is under way once.
LEMMA AssignedOnceKept ==
  ASSUME Good, NetOK, CountsOK, Assigned, AssignedOnce, NetStep
  PROVE  AssignedOnce'
<1> SUFFICES ASSUME NEW c \in Conns, NEW d \in Conns, NEW i \in 1 .. Len(link'[c]),
                    NEW j \in 1 .. Len(link'[d]), Assigns(link'[c][i]), Assigns(link'[d][j]),
                    link'[c][i].job = link'[d][j].job
             PROVE  c = d /\ i = j
  BY DEF AssignedOnce, Assigns
<1>1. given \in Nat
  BY DEF CountsOK
<1>2. ASSUME NEW b \in Conns, NEW n, \E t \in Threads : Answered(t, link'[b][n]),
             Assigns(link'[b][n])
      PROVE  link'[b][n].job = given + 1
  BY <1>2 DEF Answered, Assigns, Ack
<1>3. ASSUME NEW b \in Conns, NEW n \in 1 .. Len(link[b]), Assigns(link[b][n])
      PROVE  link[b][n].job # given + 1
  BY <1>1, <1>3 DEF Assigned
<1>4. ASSUME NEW k \in {0, 1}, NEW l \in {0, 1}, From(c, k), From(d, l), c = d => k = l
      PROVE  c = d /\ i = j
  <2>1. CASE i + k \in 1 .. Len(link[c]) /\ link'[c][i] = link[c][i + k]
    <3>1. link[c][i + k].job # given + 1 /\ Assigns(link[c][i + k])
      BY <1>3, <2>1
    <3>2. ~\E t \in Threads : Answered(t, link'[d][j])
      BY <1>2, <2>1, <3>1
    <3>3. j + l \in 1 .. Len(link[d]) /\ link'[d][j] = link[d][j + l]
      BY <1>4, <3>2 DEF From
    <3>4. c = d /\ i + k = j + l
      BY <2>1, <3>1, <3>3 DEF AssignedOnce
    <3> QED BY <1>4, <3>4
  <2>2. CASE ~(i + k \in 1 .. Len(link[c]) /\ link'[c][i] = link[c][i + k])
    <3>1. /\ c = fd /\ i = Len(link[c]) + 1
          /\ \E t \in Threads : Answered(t, link'[c][i])
      BY <1>4, <2>2 DEF From
    <3>2. link'[d][j].job = given + 1
      BY <1>2, <3>1
    <3>3. ~(j + l \in 1 .. Len(link[d]) /\ link'[d][j] = link[d][j + l])
      BY <1>3, <3>2
    <3>4. d = fd /\ j = Len(link[d]) + 1
      BY <1>4, <3>3 DEF From
    <3> QED BY <3>1, <3>4
  <2> QED BY <2>1, <2>2
<1>5. PICK k \in {0, 1} : From(c, k)
  BY LinkFrom
<1>6. PICK l \in {0, 1} : From(d, l)
  BY LinkFrom
<1>7. CASE c = d
  BY <1>4, <1>5, <1>7
<1>8. CASE c # d
  BY <1>4, <1>5, <1>6, <1>8
<1> QED BY <1>7, <1>8

\* An acknowledgment under way is for a result the server has taken.
LEMMA AcksTakenKept ==
  ASSUME Good, NetOK, CountsOK, Holding, AcksTaken, NetStep
  PROVE  AcksTaken'
<1> SUFFICES ASSUME NEW c \in Conns, NEW i \in 1 .. Len(link'[c]), Ack(link'[c][i])
             PROVE  link'[c][i].job \in accepted'
  BY DEF AcksTaken, Ack
<1>1. accepted \subseteq accepted'
  BY ServerGrows
<1>2. PICK k \in {0, 1} : From(c, k)
  BY LinkFrom
<1>3. CASE i + k \in 1 .. Len(link[c]) /\ link'[c][i] = link[c][i + k]
  BY <1>1, <1>3 DEF AcksTaken
<1>4. CASE \E t \in Threads : Answered(t, link'[c][i])
  BY <1>4 DEF Answered, Assigns, Ack
<1> QED BY <1>2, <1>3, <1>4 DEF From
-----------------------------------------------------------------------------
(***************************************************************************)
(* The connection in use, its answers and those who read them.             *)
(***************************************************************************)
\* The connection in use stays, is gone or is a new one.
LEMMA Connection ==
  ASSUME Good, NetStep
  PROVE  /\ Keeps \/ (Opens /\ link' = link)
         /\ conns <= conns' /\ conns \in Nat
         /\ fd # 0 => fd = conns
<1>1. conns \in Nat /\ (fd # 0 => fd = conns)
  BY WorkerAssumption DEF Good, ScalarsOK, Connected
<1>2. Still \/ (\E c : Cuts(c)) => Keeps
  BY DEF Still, Cuts, Keeps
<1>3. ASSUME NEW t \in Threads, NetKind(t)
      PROVE  Keeps \/ (Opens /\ Outside(t))
  BY <1>3 DEF NetKind, Outside, Unheard, Answered, Listens, Deaf, Reads, ReadsEnd, Keeps
<1>4. ASSUME NEW t \in Threads, Outside(t)
      PROVE  link' = link
  BY <1>4 DEF Outside, Unasked
<1>5. Keeps \/ (Opens /\ link' = link)
  BY <1>2, <1>3, <1>4 DEF NetStep
<1> QED BY <1>1, <1>5 DEF Keeps, Opens

\* There is nothing on the connections to come.
LEMMA FreshKept ==
  ASSUME Good, NetOK, Fresh, NetStep
  PROVE  Fresh'
<1> SUFFICES ASSUME NEW c \in Conns, c > conns'
             PROVE  link'[c] = <<>>
  BY DEF Fresh
<1>1. c > conns /\ conns \in Nat /\ (fd # 0 => fd = conns) /\ conns' \in Nat
  <2>1. conns <= conns' /\ conns \in Nat /\ (fd # 0 => fd = conns)
    BY Connection
  <2>2. conns' \in Nat
    BY <2>1, Connection DEF Keeps, Opens
  <2> QED BY <2>1, <2>2 DEF Conns
<1>2. link[c] = <<>>
  BY <1>1 DEF Fresh
<1>3. ASSUME NEW a \in Answers, Grown(c, a)
      PROVE  FALSE
  BY <1>1, <1>3 DEF Grown, Answered
<1>4. Cut(c) => link'[c] = <<>>
  <2> SUFFICES ASSUME Cut(c)
               PROVE  link'[c] = <<>>
    OBVIOUS
  <2>1. PICK n \in 0 .. Len(link[c]) : link'[c] = SubSeq(link[c], 1, n)
    BY DEF Cut
  <2>2. n = 0
    BY <1>2, <2>1
  <2> QED BY <1>2, <2>1, <2>2
<1> QED BY <1>2, <1>3, <1>4, LinkCases DEF Read1

\* A new connection carries no answers.
LEMMA NewIsEmpty ==
  ASSUME Good, NetOK, Fresh, NetStep, Opens
  PROVE  link'[fd'] = <<>> /\ Len(link'[fd']) = 0
<1>1. conns \in Nat /\ conns < MaxConns /\ fd' = conns + 1 /\ MaxConns \in Nat
  BY Connection, WorkerAssumption DEF Opens
<1>2. conns + 1 \in Conns
  BY <1>1 DEF Conns
<1>3. link[conns + 1] = <<>>
  BY <1>1, <1>2 DEF Fresh
<1>4. link' = link
  <2>1. ~Keeps
    BY <1>1 DEF Opens, Keeps
  <2> QED BY <2>1, Connection
<1> QED BY <1>1, <1>3, <1>4

\* What a thread's step adds to the answers on the connection in use, it adds to
\* the answers due.
LEMMA DueStep ==
  ASSUME Good, NetOK, NEW t \in Threads, NetKind(t), fd # 0, fd' = fd
  PROVE  \/ Len(link'[fd]) + Due(t) <= Len(link[fd]) + Due(t)'
         \/ Len(link'[fd]) = 0
<1>1. fd \in Conns /\ link[fd] \in Seq(Answers) /\ Len(link[fd]) \in Nat
      /\ link \in [Conns -> Seq(Answers)]
  BY WaitsOn DEF NetOK
<1>2. CASE Outside(t)
  BY <1>1, <1>2 DEF Outside, Unasked, Due
<1>3. CASE Unheard(t)
  BY <1>1, <1>3 DEF Unheard, Unasked, Due
<1>4. ASSUME NEW a, Answered(t, a)
      PROVE  Len(link'[fd]) + Due(t) <= Len(link[fd]) + Due(t)'
  <2>1. link'[fd] = Append(link[fd], a) /\ a \in Answers
    BY <1>1, <1>4 DEF Answered
  <2>2. Len(link'[fd]) = Len(link[fd]) + 1
    BY <1>1, <2>1, AppendProperties
  <2>3. Due(t) = 0 /\ Due(t)' = 1
    BY <1>4 DEF Answered, Due
  <2> QED BY <1>1, <2>2, <2>3
<1>5. CASE Listens(t)
  BY <1>1, <1>5 DEF Listens, Unasked, Due
<1>6. ~Deaf(t)
  BY DEF Deaf
<1>7. CASE Reads(t)
  <2>1. /\ link[at[t]] # <<>> /\ link' = [link EXCEPT ![at[t]] = Tail(@)]
        /\ stage[t] = "wait" /\ Due(t)' = 0
    BY <1>7 DEF Reads, Due
  <2>2. CASE at[t] = fd
    <3>1. link'[fd] = Tail(link[fd]) /\ link[fd] # <<>>
      BY <1>1, <2>1, <2>2
    <3>2. Len(link'[fd]) = Len(link[fd]) - 1
      BY <1>1, <3>1, HeadTailProperties
    <3>3. Due(t) = 1
      BY <2>1, <2>2 DEF Due
    <3> QED BY <1>1, <2>1, <3>2, <3>3
  <2>3. CASE at[t] # fd
    <3>1. Due(t) = 0
      BY <2>1, <2>3 DEF Due
    <3>2. link'[fd] = link[fd]
      BY <1>1, <2>1, <2>3
    <3> QED BY <1>1, <2>1, <3>1, <3>2
  <2> QED BY <2>2, <2>3
<1>8. CASE ReadsEnd(t)
  <2>1. /\ link' = link /\ link[at[t]] = <<>> /\ stage[t] = "wait" /\ Due(t)' = 0
    BY <1>8 DEF ReadsEnd, Unasked, Due
  <2>2. CASE at[t] = fd
    BY <2>1, <2>2
  <2>3. CASE at[t] # fd
    <3>1. Due(t) = 0
      BY <2>1, <2>3 DEF Due
    <3> QED BY <1>1, <2>1, <3>1
  <2> QED BY <2>2, <2>3
<1> QED BY <1>2, <1>3, <1>4, <1>5, <1>6, <1>7, <1>8 DEF NetKind

\* There are no more answers on it than are due.
LEMMA BoundedKept ==
  ASSUME Good, NetOK, Fresh, Bounded, NetStep
  PROVE  Bounded'
<1>1. /\ \A t : Due(t) \in {0, 1} /\ Due(t)' \in {0, 1}
      /\ "main" \in Threads /\ "heartbeat" \in Threads /\ "job" \in Threads
  BY DEF Due, Threads
<1>2. CASE Opens
  <2>1. Len(link'[fd']) = 0
    BY <1>2, NewIsEmpty
  <2> QED BY <1>1, <2>1 DEF Bounded
<1>3. CASE Keeps
  <2> SUFFICES ASSUME fd' # 0
               PROVE  Len(link'[fd]) <= Due("main")' + Due("heartbeat")' + Due("job")'
    BY <1>3 DEF Keeps, Bounded
  <2>1. fd' = fd /\ fd # 0
    BY <1>3 DEF Keeps
  <2>2. /\ fd \in Conns /\ link[fd] \in Seq(Answers) /\ Len(link[fd]) \in Nat
        /\ link'[fd] \in Seq(Answers) /\ Len(link'[fd]) \in Nat
        /\ Len(link[fd]) <= Due("main") + Due("heartbeat") + Due("job")
    <3>1. fd \in Conns
      BY <1>1, <2>1, WaitsOn
    <3>2. link'[fd] \in Seq(Answers)
      BY <3>1, LinkFrom
    <3> QED BY <2>1, <3>1, <3>2 DEF NetOK, Bounded
  <2>3. CASE Still
    <3>1. link' = link /\ stage' = stage /\ at' = at
      BY <2>3 DEF Still, Unasked
    <3> QED BY <2>1, <2>2, <3>1 DEF Due
  <2>4. ASSUME NEW c, Cuts(c)
        PROVE  Len(link'[fd]) <= Due("main")' + Due("heartbeat")' + Due("job")'
    <3>1. stage' = stage /\ at' = at
      BY <2>4 DEF Cuts
    <3>2. Len(link'[fd]) <= Len(link[fd])
      <4>1. PICK n \in 0 .. Len(link[c]) : link' = [link EXCEPT ![c] = SubSeq(@, 1, n)]
        BY <2>4 DEF Cuts
      <4>2. CASE c = fd
        <5>1. link'[fd] = SubSeq(link[fd], 1, n)
          BY <2>2, <4>1, <4>2 DEF NetOK
        <5> QED BY <2>2, <4>1, <4>2, <5>1
      <4>3. CASE c # fd
        <5>1. link'[fd] = link[fd]
          BY <2>2, <4>1, <4>3 DEF NetOK
        <5> QED BY <2>2, <5>1
      <4> QED BY <4>2, <4>3
    <3>3. Due("main")' = Due("main") /\ Due("heartbeat")' = Due("heartbeat") /\ Due("job")' = Due("job")
      BY <2>1, <3>1 DEF Due
    <3> QED BY <1>1, <2>2, <3>2, <3>3
  <2>5. ASSUME NEW t \in Threads, NetKind(t)
        PROVE  Len(link'[fd]) <= Due("main")' + Due("heartbeat")' + Due("job")'
    <3>1. \A u \in Threads \ {t} : Due(u)' = Due(u)
      <4>1. Others(t)
        BY <2>5 DEF NetKind, Outside, Unheard, Answered, Listens, Deaf, Reads, ReadsEnd
      <4> QED BY <2>1, <4>1 DEF Others, Due
    <3>2. \/ Len(link'[fd]) + Due(t) <= Len(link[fd]) + Due(t)'
          \/ Len(link'[fd]) = 0
      BY <2>1, <2>5, DueStep
    <3>3. CASE t = "main"
      <4>1. Due("heartbeat")' = Due("heartbeat") /\ Due("job")' = Due("job")
        BY <1>1, <3>1, <3>3
      <4> QED BY <1>1, <2>2, <3>2, <3>3, <4>1
    <3>4. CASE t = "heartbeat"
      <4>1. Due("main")' = Due("main") /\ Due("job")' = Due("job")
        BY <1>1, <3>1, <3>4
      <4> QED BY <1>1, <2>2, <3>2, <3>4, <4>1
    <3>5. CASE t = "job"
      <4>1. Due("main")' = Due("main") /\ Due("heartbeat")' = Due("heartbeat")
        BY <1>1, <3>1, <3>5
      <4> QED BY <1>1, <2>2, <3>2, <3>5, <4>1
    <3> QED BY <3>3, <3>4, <3>5 DEF Threads
  <2> QED BY <2>3, <2>4, <2>5 DEF NetStep
<1> QED BY <1>2, <1>3, Connection
-----------------------------------------------------------------------------
(***************************************************************************)
(* The acknowledgments.                                                    *)
(***************************************************************************)
\* While the job thread stays where it is, its acknowledgments do.
Stays ==
  /\ stage'["job"] = stage["job"] /\ at'["job"] = at["job"] /\ job' = job
  /\ op'["job"] = op["job"] \/ (op["job"] = "END" /\ op'["job"] = "TOP")

\* Either the job thread makes the step or it stays.
LEMMA JobSteps ==
  ASSUME NetStep, JobKind
  PROVE  Stays \/ NetKind("job")
<1>1. ASSUME stage'["job"] = stage["job"] /\ at'["job"] = at["job"],
             op'["job"] = op["job"] \/ (op["job"] = "END" /\ op'["job"] = "TOP")
      PROVE  Stays
  BY <1>1 DEF Stays, JobKind, JobSame, JobGot, JobDone, JobLost
<1>2. Still \/ (\E c : Cuts(c)) => Stays
  BY <1>1 DEF Still, Cuts
<1>3. ASSUME NEW t \in Threads, t # "job", NetKind(t)
      PROVE  Stays
  <2>1. Others(t) /\ "job" \in Threads \ {t}
    BY <1>3 DEF NetKind, Outside, Unheard, Answered, Listens, Deaf, Reads, ReadsEnd, Threads
  <2> QED BY <1>1, <1>3, <2>1 DEF Others
<1> QED BY <1>2, <1>3 DEF NetStep

\* Only the job thread's own message is acknowledged.
LEMMA NewAck ==
  ASSUME Good, NEW a, Ack(a), \E t \in Threads : Answered(t, a)
  PROVE  /\ Answered("job", a) /\ op["job"] = "JOB_COMPLETED" /\ a.job = job
         /\ stage["job"] = "send" /\ stage'["job"] = "receive" /\ op'["job"] = op["job"]
<1>1. PICK t \in Threads : Answered(t, a)
  OBVIOUS
<1>2. op[t] = "JOB_COMPLETED" /\ a.job = job
  BY <1>1 DEF Answered, Ack, Assigns
<1>3. t = "job"
  BY <1>2, Reporter
<1> QED BY <1>1, <1>2, <1>3 DEF Answered

\* A step of another thread.
LEMMA AckStays ==
  ASSUME Good, NetOK, NetStep, Stays, NEW c \in Conns, AckPlace(c)
  PROVE  AckPlace(c)'
<1> SUFFICES ASSUME NEW i \in 1 .. Len(link'[c]), Ack(link'[c][i])
             PROVE  \/ /\ op'["job"] = "JOB_COMPLETED" /\ stage'["job"] \in {"receive", "wait"}
                       /\ link'[c][i].job = job'
                    \/ i = 1 /\ op'["job"] \notin Held
  BY DEF AckPlace, Ack
<1>1. PICK k \in {0, 1} : From(c, k)
  BY LinkFrom
<1>2. CASE i + k \in 1 .. Len(link[c]) /\ link'[c][i] = link[c][i + k]
  BY <1>2 DEF AckPlace, Stays, Held
<1>3. CASE \E t \in Threads : Answered(t, link'[c][i])
  BY <1>3, NewAck DEF Stays
<1> QED BY <1>1, <1>2, <1>3 DEF From

\* A connection without acknowledgments gets none from a step of another thread.
LEMMA NoneStays ==
  ASSUME Good, NetOK, NetStep, Stays, NEW c \in Conns,
         \A i \in 1 .. Len(link[c]) : ~Ack(link[c][i]),
         NEW i \in 1 .. Len(link'[c])
  PROVE  ~Ack(link'[c][i])
<1> SUFFICES ASSUME Ack(link'[c][i])
             PROVE  FALSE
  OBVIOUS
<1>1. PICK k \in {0, 1} : From(c, k)
  BY LinkFrom
<1>2. CASE \E t \in Threads : Answered(t, link'[c][i])
  BY <1>2, NewAck DEF Stays
<1> QED BY <1>1, <1>2 DEF From

\* On the way out of a read there is at most one more answer for the heartbeat
\* thread on the connection.
LEMMA OneMore ==
  ASSUME Good, NetOK, Bounded, Reads("job"), fd # 0, at["job"] = fd
  PROVE  Len(link'[fd]) <= 1
<1>1. /\ "job" \in Threads /\ "main" \in Threads /\ stage["job"] = "wait"
      /\ link[fd] # <<>> /\ link' = [link EXCEPT ![fd] = Tail(@)]
  BY DEF Reads, Threads
<1>2. op["job"] # "END"
  BY <1>1 DEF Good, Places, Exchanges
<1>3. op["main"] \in {"RUN", "JOIN"}
  BY <1>2 DEF Good, Places
<1>4. stage["main"] = "enter"
  BY <1>1, <1>3 DEF Good, Places, Exchanges
<1>5. Due("main") = 0 /\ Due("job") = 1 /\ Due("heartbeat") \in {0, 1}
  BY <1>1, <1>4 DEF Due
<1>6. /\ fd \in Conns /\ link[fd] \in Seq(Answers) /\ Len(link[fd]) \in Nat
      /\ link \in [Conns -> Seq(Answers)]
  BY <1>1, WaitsOn DEF NetOK
<1>7. Len(link[fd]) <= 2
  BY <1>5, <1>6 DEF Bounded
<1>8. link'[fd] = Tail(link[fd])
  BY <1>1, <1>6
<1>9. Len(link'[fd]) = Len(link[fd]) - 1
  BY <1>1, <1>6, <1>8, HeadTailProperties
<1> QED BY <1>6, <1>7, <1>9

\* A step of the job thread itself.
LEMMA AckOwn ==
  ASSUME Good, NetOK, NetStep, JobKind, Bounded, Acks, NetKind("job"), fd # 0, fd' = fd
  PROVE  AckPlace(fd)'
<1> DEFINE Goal(i) == \/ /\ op'["job"] = "JOB_COMPLETED" /\ stage'["job"] \in {"receive", "wait"}
                         /\ link'[fd][i].job = job'
                      \/ i = 1 /\ op'["job"] \notin Held
<1> SUFFICES ASSUME NEW i \in 1 .. Len(link'[fd]), Ack(link'[fd][i])
             PROVE  Goal(i)
  BY DEF AckPlace, Ack
<1>1. /\ "job" \in Threads /\ fd \in Conns /\ link \in [Conns -> Seq(Answers)]
      /\ link[fd] \in Seq(Answers) /\ Len(link[fd]) \in Nat
  BY WaitsOn DEF NetOK, Threads
<1>2. AckPlace(fd)
  BY DEF Acks
<1>3. ASSUME op'["job"] = op["job"]
      PROVE  job' = job
  BY <1>3 DEF JobKind, JobSame, JobGot, JobDone, JobLost
<1>4. CASE Outside("job")
  BY <1>2, <1>4 DEF Outside, Unasked, AckPlace
<1>5. CASE Unheard("job")
  BY <1>2, <1>5 DEF Unheard, Unasked, AckPlace
<1>6. ASSUME NEW a, Answered("job", a)
      PROVE  Goal(i)
  <2>1. link'[fd] = Append(link[fd], a) /\ op'["job"] = op["job"]
        /\ stage["job"] = "send" /\ stage'["job"] = "receive" /\ a \in Answers
    BY <1>1, <1>6 DEF Answered
  <2>2. /\ Len(link'[fd]) = Len(link[fd]) + 1 /\ link'[fd][Len(link[fd]) + 1] = a
        /\ \A j \in 1 .. Len(link[fd]) : link'[fd][j] = link[fd][j]
    BY <1>1, <2>1, AppendProperties
  <2>3. CASE i = Len(link[fd]) + 1
    <3>1. link'[fd][i] = a /\ Ack(a)
      BY <2>2, <2>3
    <3>2. op["job"] = "JOB_COMPLETED" /\ a.job = job
      BY <1>1, <1>6, <3>1, NewAck
    <3> QED BY <1>3, <2>1, <3>1, <3>2
  <2>4. CASE i # Len(link[fd]) + 1
    <3>1. i \in 1 .. Len(link[fd]) /\ link'[fd][i] = link[fd][i]
      BY <1>1, <2>2, <2>4
    <3> QED BY <1>2, <2>1, <3>1 DEF AckPlace
  <2> QED BY <2>3, <2>4
<1>7. CASE Listens("job")
  BY <1>2, <1>3, <1>7 DEF Listens, Unasked, AckPlace
<1>8. ~Deaf("job")
  BY DEF Deaf
<1>9. ASSUME stage["job"] = "wait", at["job"] # fd
      PROVE  \A j \in 1 .. Len(link[fd]) : ~Ack(link[fd][j])
  BY <1>9 DEF Acks
<1>10. CASE Reads("job")
  <2>1. /\ stage["job"] = "wait"
        /\ \/ op'["job"] = "TOP"
           \/ op["job"] = "REQUEST_JOB" /\ op'["job"] = "PROCESS" /\ Assigns(Head(link[at["job"]]))
    BY <1>10 DEF Reads
  <2>2. CASE at["job"] # fd
    <3>1. i \in 1 .. Len(link[fd]) /\ link'[fd][i] = link[fd][i]
      BY <1>1, <1>10, <2>2, ReadsShift
    <3> QED BY <1>9, <2>1, <2>2, <3>1
  <2>3. CASE at["job"] = fd /\ op'["job"] = "TOP"
    <3>1. i = 1
      BY <1>1, <1>10, <2>3, OneMore
    <3> QED BY <2>3, <3>1 DEF Held
  <2>4. CASE at["job"] = fd /\ op["job"] = "REQUEST_JOB"
    <3>1. i + 1 \in 1 .. Len(link[fd]) /\ link'[fd][i] = link[fd][i + 1]
      BY <1>1, <1>10, <2>4, ReadsShift
    <3> QED BY <1>2, <2>4, <3>1 DEF AckPlace
  <2> QED BY <2>1, <2>2, <2>3, <2>4
<1>11. CASE ReadsEnd("job")
  <2>1. stage["job"] = "wait" /\ link' = link /\ link[at["job"]] = <<>>
    BY <1>11 DEF ReadsEnd, Unasked
  <2>2. CASE at["job"] # fd
    BY <1>9, <2>1, <2>2
  <2>3. CASE at["job"] = fd
    BY <2>1, <2>3
  <2> QED BY <2>2, <2>3
<1> QED BY <1>4, <1>5, <1>6, <1>7, <1>8, <1>10, <1>11 DEF NetKind

\* The acknowledgments stay in their places.
LEMMA AcksKept ==
  ASSUME Good, NetOK, Fresh, Bounded, Acks, NetStep, JobKind
  PROVE  Acks'
<1>1. "job" \in Threads
  BY DEF Threads
<1>2. ASSUME Opens
      PROVE  AckPlace(fd)' /\ \A i \in 1 .. Len(link'[fd']) : ~Ack(link'[fd'][i])
  BY <1>2, NewIsEmpty DEF AckPlace
<1>3. CASE Stays
  <2>1. stage'["job"] = stage["job"] /\ at'["job"] = at["job"]
    BY <1>3 DEF Stays
  <2>2. ASSUME fd' # 0
        PROVE  AckPlace(fd)'
    <3>1. CASE Keeps
      <4>1. fd' = fd /\ fd \in Conns
        BY <1>1, <2>2, <3>1, WaitsOn DEF Keeps
      <4>2. AckPlace(fd)
        BY <2>2, <4>1 DEF Acks
      <4>3. ASSUME NEW c \in Conns, c = fd
            PROVE  AckPlace(c)'
        BY <1>3, <4>2, <4>3, AckStays
      <4> QED BY <4>1, <4>3 DEF AckPlace
    <3> QED BY <1>2, <3>1, Connection
  <2>3. ASSUME stage'["job"] = "wait"
        PROVE  AckPlace(at["job"])'
    <3>1. at["job"] \in Conns /\ AckPlace(at["job"])
      BY <1>1, <2>1, <2>3, WaitsOn DEF Acks
    <3>2. ASSUME NEW c \in Conns, c = at["job"]
          PROVE  AckPlace(c)'
      BY <1>3, <3>1, <3>2, AckStays
    <3> QED BY <2>1, <3>1, <3>2 DEF AckPlace
  <2>4. ASSUME stage'["job"] = "wait", fd' # 0, at'["job"] # fd',
               NEW i \in 1 .. Len(link'[fd'])
        PROVE  ~Ack(link'[fd'][i])
    <3>1. CASE Keeps
      <4>1. fd' = fd /\ fd \in Conns
        BY <1>1, <2>4, <3>1, WaitsOn DEF Keeps
      <4>2. \A j \in 1 .. Len(link[fd]) : ~Ack(link[fd][j])
        BY <2>1, <2>4, <4>1 DEF Acks
      <4> QED BY <1>3, <2>4, <4>1, <4>2, NoneStays
    <3> QED BY <1>2, <2>4, <3>1, Connection
  <2> QED BY <2>2, <2>3, <2>4 DEF Acks, Ack
<1>4. CASE NetKind("job")
  <2>1. ASSUME fd' # 0
        PROVE  AckPlace(fd)'
    <3>1. CASE Keeps
      <4>1. fd' = fd /\ fd # 0
        BY <2>1, <3>1 DEF Keeps
      <4>2. ASSUME NEW c, c = fd
            PROVE  AckPlace(fd)'
        BY <1>4, <4>1, AckOwn
      <4> QED BY <4>2
    <3> QED BY <1>2, <3>1, Connection
  <2>2. stage'["job"] = "wait" => at'["job"] = fd /\ fd' = fd /\ fd # 0
    BY <1>4 DEF NetKind, Outside, Unheard, Answered, Listens, Deaf, Reads, ReadsEnd
  <2>3. ASSUME stage'["job"] = "wait"
        PROVE  AckPlace(at["job"])'
    BY <2>1, <2>2, <2>3 DEF AckPlace
  <2> QED BY <2>1, <2>2, <2>3 DEF Acks
<1> QED BY <1>3, <1>4, JobSteps
-----------------------------------------------------------------------------
(***************************************************************************)
(* An answer for everyone who waits.                                       *)
(***************************************************************************)
\* The threads are a finite set, and so are those of them that wait.
LEMMA WaitingFinite ==
  ASSUME NEW S, S \subseteq Threads
  PROVE  IsFiniteSet(S) /\ Cardinality(S) \in Nat
<1>1. IsFiniteSet({}) /\ IsFiniteSet({"main"}) /\ IsFiniteSet({"main"} \cup {"heartbeat"})
      /\ IsFiniteSet(({"main"} \cup {"heartbeat"}) \cup {"job"})
  BY FS_EmptySet, FS_Singleton, FS_AddElement
<1>2. Threads = ({"main"} \cup {"heartbeat"}) \cup {"job"}
  BY DEF Threads
<1>3. IsFiniteSet(S)
  BY <1>1, <1>2, FS_Subset
<1> QED BY <1>3, FS_CardinalityType

\* A thread waits for an answer on c.
Waits(t, c) == (stage[t] = "wait" /\ at[t] = c) \/ (stage[t] = "receive" /\ on[t] = c)

\* The other threads wait for what they waited for.
LEMMA WaitingOthers ==
  ASSUME NEW t \in Threads, Others(t), NEW c
  PROVE  \A u \in Threads \ {t} : Waits(u, c)' <=> Waits(u, c)
BY DEF Others, Waits

\* Comparing the sets before and after the step.
LEMMA WaitingCounts ==
  ASSUME NEW t \in Threads, NEW c,
         \A u \in Threads \ {t} : Waits(u, c)' <=> Waits(u, c)
  PROVE  /\ Cardinality(Waiting(c)) \in Nat /\ Cardinality(Waiting(c)') \in Nat
         /\ (Waits(t, c)' => Waits(t, c)) => Cardinality(Waiting(c)') <= Cardinality(Waiting(c))
         /\ Cardinality(Waiting(c)') <= Cardinality(Waiting(c)) + 1
         /\ Waits(t, c) /\ ~Waits(t, c)' =>
              Cardinality(Waiting(c)') = Cardinality(Waiting(c)) - 1
<1> DEFINE W == {u \in Threads : Waits(u, c)}
           V == {u \in Threads : Waits(u, c)'}
<1>1. Waiting(c) = W /\ Waiting(c)' = V
  BY DEF Waiting, Waits
<1>2. W \subseteq Threads /\ V \subseteq Threads
  OBVIOUS
<1>3. /\ IsFiniteSet(W) /\ IsFiniteSet(V) /\ Cardinality(W) \in Nat /\ Cardinality(V) \in Nat
  BY <1>2, WaitingFinite
<1>4. ASSUME Waits(t, c)' => Waits(t, c)
      PROVE  Cardinality(V) <= Cardinality(W)
  <2>1. V \subseteq W
    BY <1>4
  <2> HIDE DEF V, W
  <2> QED BY <1>3, <2>1, FS_Subset
<1>5. Cardinality(V) <= Cardinality(W) + 1
  <2>1. V \subseteq W \cup {t}
    OBVIOUS
  <2> HIDE DEF V, W
  <2>2. IsFiniteSet(W \cup {t}) /\ Cardinality(W \cup {t}) <= Cardinality(W) + 1
    BY <1>3, FS_AddElement
  <2>3. Cardinality(V) <= Cardinality(W \cup {t}) /\ Cardinality(W \cup {t}) \in Nat
    BY <1>3, <2>1, <2>2, FS_Subset, FS_CardinalityType
  <2> QED BY <1>3, <2>2, <2>3
<1>6. ASSUME Waits(t, c), ~Waits(t, c)'
      PROVE  Cardinality(V) = Cardinality(W) - 1
  <2>1. V = W \ {t} /\ t \in W
    BY <1>6
  <2> HIDE DEF V, W
  <2> QED BY <1>3, <2>1, FS_RemoveElement
<1> HIDE DEF V, W
<1> QED BY <1>1, <1>3, <1>4, <1>5, <1>6

\* The step of a thread that is not overtaken.
LEMMA AnswersStep ==
  ASSUME Good, NetOK, NEW t \in Threads, NetKind(t), ~overtaken', ~overtaken, NEW c \in Conns,
         eof[c] \/ Cardinality(Waiting(c)) <= Len(link[c])
  PROVE  eof'[c] \/ Cardinality(Waiting(c)') <= Len(link'[c])
<1>1. link \in [Conns -> Seq(Answers)] /\ link[c] \in Seq(Answers) /\ Len(link[c]) \in Nat
  BY DEF NetOK
<1>2. Others(t)
  BY DEF NetKind, Outside, Unheard, Answered, Listens, Deaf, Reads, ReadsEnd
<1>3. /\ Cardinality(Waiting(c)) \in Nat /\ Cardinality(Waiting(c)') \in Nat
      /\ (Waits(t, c)' => Waits(t, c)) => Cardinality(Waiting(c)') <= Cardinality(Waiting(c))
      /\ Cardinality(Waiting(c)') <= Cardinality(Waiting(c)) + 1
      /\ Waits(t, c) /\ ~Waits(t, c)' => Cardinality(Waiting(c)') = Cardinality(Waiting(c)) - 1
  BY <1>2, WaitingOthers, WaitingCounts
<1>4. ASSUME Waits(t, c)' => Waits(t, c), link'[c] = link[c], eof'[c] = eof[c]
      PROVE  eof'[c] \/ Cardinality(Waiting(c)') <= Len(link'[c])
  BY <1>1, <1>3, <1>4
<1>5. CASE Outside(t)
  <2>1. ~Waits(t, c)' /\ link' = link /\ eof' = eof
    BY <1>5 DEF Outside, Unasked, Waits
  <2> QED BY <1>4, <2>1
<1>6. CASE Unheard(t)
  <2>1. /\ Waits(t, c)' => c = fd
        /\ link' = link /\ eof' = eof /\ eof[fd]
    BY <1>6 DEF Unheard, Unasked, Waits
  <2> QED BY <1>4, <2>1
<1>7. ASSUME NEW a, Answered(t, a)
      PROVE  eof'[c] \/ Cardinality(Waiting(c)') <= Len(link'[c])
  <2>1. /\ Waits(t, c)' => c = fd
        /\ link' = [link EXCEPT ![fd] = Append(@, a)] /\ a \in Answers
        /\ \A d \in Conns \ {fd} : eof'[d] = eof[d]
        /\ ~eof[fd]
    BY <1>7 DEF Answered, Waits
  <2>2. CASE c # fd
    <3>1. link'[c] = link[c] /\ eof'[c] = eof[c]
      BY <1>1, <2>1, <2>2
    <3> QED BY <1>4, <2>1, <2>2, <3>1
  <2>3. CASE c = fd
    <3>1. link'[c] = Append(link[c], a)
      BY <1>1, <2>1, <2>3
    <3>2. Len(link'[c]) = Len(link[c]) + 1
      BY <1>1, <2>1, <3>1, AppendProperties
    <3> QED BY <1>1, <1>3, <2>1, <2>3, <3>2
  <2> QED BY <2>2, <2>3
<1>8. CASE Listens(t)
  <2>1. /\ link' = link /\ eof' = eof /\ overtaken' = (overtaken \/ fd # on[t])
        /\ stage[t] = "receive" /\ stage'[t] = "wait" /\ at'[t] = fd
    BY <1>8 DEF Listens, Unasked
  <2>2. fd = on[t]
    BY <2>1, Zenon
  <2>3. Waits(t, c)' => Waits(t, c)
    BY <2>1, <2>2 DEF Waits
  <2> QED BY <1>4, <2>1, <2>3
<1>9. CASE Deaf(t) \/ ReadsEnd(t)
  <2>1. ~Waits(t, c)' /\ link' = link /\ eof' = eof
    BY <1>9 DEF Deaf, ReadsEnd, Unasked, Waits
  <2> QED BY <1>4, <2>1
<1>10. CASE Reads(t)
  <2>1. /\ ~Waits(t, c)' /\ eof' = eof /\ stage[t] = "wait"
        /\ link[at[t]] # <<>> /\ link' = [link EXCEPT ![at[t]] = Tail(@)]
    BY <1>10 DEF Reads, Waits
  <2>2. CASE c # at[t]
    <3>1. link'[c] = link[c]
      BY <1>1, <2>1, <2>2
    <3> QED BY <1>4, <2>1, <3>1
  <2>3. CASE c = at[t]
    <3>1. link'[c] = Tail(link[c]) /\ link[c] # <<>>
      BY <1>1, <2>1, <2>3
    <3>2. Len(link'[c]) = Len(link[c]) - 1
      BY <1>1, <3>1, HeadTailProperties
    <3>3. Waits(t, c)
      BY <2>1, <2>3 DEF Waits
    <3> QED BY <1>1, <1>3, <2>1, <3>2, <3>3
  <2> QED BY <2>2, <2>3
<1> QED BY <1>5, <1>6, <1>7, <1>8, <1>9, <1>10 DEF NetKind

\* Everyone who waits is answered, or sees the end of the connection.
LEMMA AnswersKept ==
  ASSUME Good, NetOK, NetStep, AnswersArrive
  PROVE  AnswersArrive'
<1> SUFFICES ASSUME ~overtaken', NEW c \in Conns
             PROVE  eof'[c] \/ Cardinality(Waiting(c)') <= Len(link'[c])
  BY DEF AnswersArrive
<1>1. ~overtaken
  <2>1. overtaken' = overtaken \/ \E t \in Threads : overtaken' = (overtaken \/ fd # on[t])
    BY DEF NetStep, Still, Cuts, NetKind, Outside, Unheard, Answered, Listens, Deaf, Reads,
           ReadsEnd
  <2> QED BY <2>1, Zenon
<1>2. eof[c] \/ Cardinality(Waiting(c)) <= Len(link[c])
  BY <1>1 DEF AnswersArrive
<1>3. ASSUME Still \/ \E d : Cuts(d)
      PROVE  eof'[c] \/ Cardinality(Waiting(c)') <= Len(link'[c])
  <2>1. Waiting(c)' = Waiting(c)
    BY <1>3 DEF Still, Cuts, Waiting
  <2>2. eof'[c] \/ (link'[c] = link[c] /\ eof'[c] = eof[c])
    <3>1. CASE Still
      BY <3>1 DEF Still, Unasked
    <3>2. ASSUME NEW d, Cuts(d)
          PROVE  eof'[c] \/ (link'[c] = link[c] /\ eof'[c] = eof[c])
      BY <3>2 DEF Cuts, NetOK
    <3> QED BY <1>3, <3>1, <3>2
  <2> QED BY <1>2, <2>1, <2>2
<1> QED BY <1>1, <1>2, <1>3, AnswersStep DEF NetStep

-----------------------------------------------------------------------------
(***************************************************************************)
(* Nobody waits for good.                                                  *)
(***************************************************************************)
\* is_running is set while the main thread is on its way to the two others or
\* waits for a signal, and cleared while it joins them; the heartbeat thread does
\* not end before that.
Running ==
  /\ op["main"] \in {"CONNECT", "REGISTER", "RUN"} => is_running
  /\ op["main"] = "RUN" => op["heartbeat"] # "END"
  /\ op["main"] = "JOIN" => ~is_running

\* A thread that takes a step is in an exchange or at the top of its loop.
LEMMA StepFrom ==
  ASSUME Places, NEW t \in Threads, Step(t)
  PROVE  /\ op[t] \in Exchanges \cup {"TOP"}
         /\ op[t] = "TOP" => Top(t)
<1>1. ASSUME Top(t) PROVE op[t] = "TOP"
  BY <1>1 DEF Top
<1>2. ASSUME Enter(t) \/ Open(t) \/ EnterDisconnect(t) PROVE op[t] \in Exchanges
  BY <1>2 DEF Enter, Open, EnterDisconnect, Closing, Exchanges
<1>3. ASSUME Send(t) \/ Receive(t) \/ Read(t) \/ Close(t) PROVE op[t] \in Exchanges
  BY <1>3 DEF Send, Receive, Read, Close, Places
<1>4. "TOP" \notin Exchanges
  BY DEF Exchanges
<1> QED BY <1>1, <1>2, <1>3, <1>4 DEF Step

\* worker_start sets is_running and worker_stop clears it; besides, only a
\* worker_start that fails does.
LEMMA RunningSteps ==
  ASSUME ThreadsOK, [Next]_vars
  PROVE  Start \/ Stop \/ op'["main"] = "END" \/ (is_running' <=> is_running)
<1> DEFINE Kept == op'["main"] = "END" \/ (is_running' <=> is_running)
<1>1. ASSUME NEW t \in Threads, NEW ok, Return(t, ok)
      PROVE  Kept
  <2> DEFINE o == After(t, op[t], ok)
  <2>1. /\ op' = [u \in Threads |-> IF u = t THEN o
                                    ELSE IF o = "RUN" THEN "TOP" ELSE op[u]]
        /\ is_running' = (is_running /\ ~(t = "main" /\ o = "END"))
    BY <1>1, Zenon DEF Return
  <2> HIDE DEF o
  <2>2. t = "main" /\ o = "END" => op'["main"] = "END"
    BY <2>1 DEF Threads
  <2>3. ~(t = "main" /\ o = "END") => (is_running' <=> is_running)
    BY <2>1, Zenon
  <2> QED BY <2>2, <2>3
<1>2. ASSUME is_running' = is_running
      PROVE  Kept
  BY <1>2, Zenon
<1> HIDE DEF Kept
<1>3. ASSUME NEW t \in Threads, Fail(t)
      PROVE  Kept
  BY <1>1, <1>3 DEF Fail
<1>4. ASSUME NEW t \in Threads, NEW a, Succeed(t, a)
      PROVE  Kept
  BY <1>1, <1>4 DEF Succeed
<1>5. ASSUME Join \/ Process \/ UNCHANGED vars
      PROVE  Kept
  BY <1>2, <1>5 DEF Join, Process, worker, vars
<1>6. ASSUME NEW t \in Threads, Top(t) \/ Enter(t) \/ Open(t) \/ EnterDisconnect(t)
      PROVE  Kept
  BY <1>1, <1>2, <1>3, <1>6 DEF Top, Enter, Open, EnterDisconnect, worker
<1>7. ASSUME NEW t \in Threads, Send(t) \/ Receive(t) \/ Close(t)
      PROVE  Kept
  BY <1>1, <1>2, <1>3, <1>7 DEF Send, Receive, Close
<1>8. ASSUME NEW t \in Threads, Read(t)
      PROVE  Kept
  BY <1>2, <1>3, <1>4, <1>8, ReadCases
<1>9. ASSUME NEW c, ServerCloses(c)
      PROVE  Kept
  BY <1>2, <1>9 DEF ServerCloses, worker
<1> QED BY <1>5, <1>6, <1>7, <1>8, <1>9 DEF Next, Step, Kept

\* The operation of a thread changes by its own step, or from END to TOP when
\* worker_start creates it.
LEMMA OpSteps ==
  ASSUME Good, [Next]_vars
  PROVE  \/ \A u \in Threads : op'[u] = op[u]
         \/ \E t \in Threads, o \in Ops :
              /\ op'[t] = o /\ Follows(t, o)
              /\ \A u \in Threads \ {t} : op'[u] = (IF o = "RUN" THEN "TOP" ELSE op[u])
<1>1. Places
  BY DEF Good
<1>2. ASSUME NEW t \in Threads, NEW o \in Ops, Turns(t, o), Follows(t, o)
      PROVE  /\ op'[t] = o /\ Follows(t, o)
             /\ \A u \in Threads \ {t} : op'[u] = (IF o = "RUN" THEN "TOP" ELSE op[u])
  BY <1>2 DEF Turns
<1>3. ASSUME NEW t \in Threads, ThreadKind(t)
      PROVE  \/ \A u \in Threads : op'[u] = op[u]
             \/ \E o \in Ops : Turns(t, o) /\ Follows(t, o)
  <2>1. CASE TurnKind(t) \/ CloseKind(t)
    BY <2>1 DEF TurnKind, CloseKind
  <2>2. CASE OpenKind(t) \/ AdvanceKind(t)
    BY <2>2 DEF OpenKind, AdvanceKind, Advances
  <2>3. CASE DropKind(t) \/ LinkedKind(t) \/ RegisteredKind(t)
    <3>1. t \in {"main", "heartbeat"}
      BY <1>1, <2>3, Alone DEF DropKind, LinkedKind, RegisteredKind, Places, JobOps
    <3> QED BY <2>3, <3>1 DEF DropKind, LinkedKind, RegisteredKind, Follows, Ops
  <2> QED BY <1>3, <2>1, <2>2, <2>3 DEF ThreadKind
<1>4. CASE Idle
  BY <1>4 DEF Idle
<1> QED BY <1>2, <1>3, <1>4, StepKinds

\* The flag and the operations of the main thread keep in step.
LEMMA RunningKept ==
  ASSUME Good, Running, [Next]_vars
  PROVE  Running'
<1>1. Places /\ ThreadsOK /\ "main" \in Threads /\ "heartbeat" \in Threads /\ "job" \in Threads
  BY DEF Good, Threads
<1>2. CASE Start
  BY <1>1, <1>2 DEF Start, Goto, ThreadsOK, Running
<1>3. CASE Stop
  BY <1>1, <1>3 DEF Stop, Goto, ThreadsOK, Running
<1>4. ASSUME ~Start, ~Stop
      PROVE  Running'
  <2>1. op'["main"] = "END" \/ (is_running' <=> is_running)
    BY <1>1, <1>4, RunningSteps
  <2>2. op["main"] \in {"START", "RUN"} => op'["main"] = op["main"]
    <3>1. ASSUME NEW t \in Threads, Step(t), t # "main", op["main"] \in {"START", "RUN"}
          PROVE  op'["main"] = op["main"]
      <4>1. ThreadKind(t)
        BY <3>1, ControlKind, EnterKind, OpenIsKind, DisconnectKind, SendKind, ReceiveKind,
           ReadKind, CloseIsKind DEF Step, ThreadKind
      <4>2. \/ \A u \in Threads : op'[u] = op[u]
            \/ \E o \in Ops : Turns(t, o) /\ (o = "RUN" => FALSE)
        <5>1. ASSUME NEW o, Follows(t, o) PROVE o # "RUN"
          BY <3>1, <5>1 DEF Follows
        <5>2. CASE TurnKind(t) \/ CloseKind(t)
          BY <5>1, <5>2 DEF TurnKind, CloseKind
        <5>3. CASE OpenKind(t) \/ AdvanceKind(t)
          BY <5>3 DEF OpenKind, AdvanceKind, Advances
        <5>4. CASE DropKind(t) \/ LinkedKind(t) \/ RegisteredKind(t)
          BY <3>1, <5>4 DEF DropKind, LinkedKind, RegisteredKind, Ops
        <5> QED BY <4>1, <5>2, <5>3, <5>4 DEF ThreadKind
      <4> QED BY <1>1, <3>1, <4>2 DEF Turns
    <3>2. ASSUME Step("main")
          PROVE  op["main"] \notin {"START", "RUN"}
      BY <1>1, <3>2, StepFrom DEF Exchanges
    <3>3. ASSUME Join
          PROVE  op["main"] = "JOIN"
      BY <3>3 DEF Join
    <3>4. ASSUME Process \/ UNCHANGED vars \/ \E c \in Conns : ServerCloses(c)
          PROVE  op'["main"] = op["main"]
      BY <1>1, <3>4 DEF Process, Goto, vars, ServerCloses, place, ThreadsOK
    <3> QED BY <1>4, <3>1, <3>2, <3>3, <3>4 DEF Next
  <2>3. /\ op'["main"] \in {"CONNECT", "REGISTER"} => op["main"] \in {"CONNECT", "REGISTER"}
        /\ op'["main"] = "RUN" => op["main"] \in {"REGISTER", "RUN"}
        /\ op'["main"] = "JOIN" => op["main"] = "JOIN"
    BY <1>1, <2>2, OpSteps DEF Follows, Closing
  <2>4. ASSUME op'["main"] = "RUN", op'["heartbeat"] = "END"
        PROVE  FALSE
    <3>1. op["main"] = "RUN"
      BY <1>1, <2>3, <2>4, OpSteps DEF Follows, Closing
    <3>2. is_running /\ op["heartbeat"] # "END"
      BY <3>1 DEF Running
    <3>3. op["heartbeat"] = "TOP"
      BY <1>1, <2>4, <3>2, OpSteps DEF Follows
    <3>4. Step("heartbeat")
      <4>1. ASSUME NEW t \in Threads, Step(t), t # "heartbeat" PROVE FALSE
        <5>1. ThreadKind(t) /\ t # "heartbeat"
          BY <4>1, ControlKind, EnterKind, OpenIsKind, DisconnectKind, SendKind, ReceiveKind,
             ReadKind, CloseIsKind DEF Step, ThreadKind
        <5>2. op'["heartbeat"] \in {op["heartbeat"], "TOP"}
          BY <1>1, <5>1 DEF ThreadKind, TurnKind, DropKind, OpenKind, AdvanceKind, LinkedKind,
             RegisteredKind, CloseKind, Turns, Advances
        <5> QED BY <2>4, <3>3, <5>2
      <4>2. ASSUME Join \/ Process \/ UNCHANGED vars \/ \E c \in Conns : ServerCloses(c)
            PROVE  op'["heartbeat"] = op["heartbeat"]
        BY <1>1, <4>2 DEF Join, Process, Goto, vars, ServerCloses, place, ThreadsOK
      <4> QED BY <1>4, <2>4, <3>2, <4>1, <4>2 DEF Next
    <3>5. Top("heartbeat")
      BY <1>1, <3>3, <3>4, StepFrom
    <3>6. op' = [op EXCEPT !["heartbeat"] = "HEARTBEAT"]
      BY <3>2, <3>5 DEF Top, Goto
    <3> QED BY <1>1, <2>4, <3>6 DEF ThreadsOK
  <2> QED BY <2>1, <2>3, <2>4 DEF Running
<1> QED BY <1>2, <1>3, <1>4

\* For a thread in receive_message there is something to read.
LEMMA SomethingToRead ==
  ASSUME WorkerInductive, ~overtaken, NEW t \in Threads, stage[t] = "wait"
  PROVE  link[at[t]] # <<>> \/ eof[at[t]]
<1>1. at[t] \in Conns
  <2>1. at[t] # 0 /\ at[t] \in 0 .. MaxConns /\ MaxConns \in Nat
    BY WorkerAssumption DEF WorkerInductive, Good, Connected, Knows, ThreadsOK
  <2> QED BY <2>1 DEF Conns
<1>2. eof[at[t]] \/ Cardinality(Waiting(at[t])) <= Len(link[at[t]])
  BY <1>1 DEF WorkerInductive, AnswersArrive
<1>3. t \in Waiting(at[t]) /\ Waiting(at[t]) \subseteq Threads
  BY DEF Waiting
<1>4. Cardinality(Waiting(at[t])) \in Nat /\ Cardinality(Waiting(at[t])) # 0
  BY <1>3, WaitingFinite, FS_EmptySet
<1>5. link[at[t]] = <<>> => Len(link[at[t]]) = 0
  OBVIOUS
<1> QED BY <1>2, <1>4, <1>5

\* At rest nobody keeps the lock: the disconnecting thread could go on.
LEMMA RestUnlocked ==
  ASSUME WorkerInductive, ~overtaken, ~CanStep
  PROVE  lock = "none"
<1> SUFFICES ASSUME lock # "none" PROVE FALSE
  OBVIOUS
<1>1. Good
  BY DEF WorkerInductive
<1> DEFINE t == lock
<1>2. t \in Threads
  BY <1>1 DEF Good, ScalarsOK
<1>3. op[t] \in Closing /\ stage[t] # "enter" /\ stage[t] \in Stages /\ Knows(t)
  BY <1>1, <1>2 DEF Good, Places, ThreadsOK, Connected
<1>4. fd # 0
  BY <1>3 DEF Knows
<1>5. stage[t] = "wait" => link[at[t]] # <<>> \/ eof[at[t]]
  BY <1>2, SomethingToRead
<1>6. ~ThreadCanStep(t)
  BY <1>2 DEF CanStep
<1> HIDE DEF t
<1> QED BY <1>3, <1>4, <1>5, <1>6 DEF ThreadCanStep, Stages

\* With the lock free, a thread that is at rest has nothing to do: it waits for
\* a connection, for a signal or for the others, or has ended.
LEMMA RestIdle ==
  ASSUME WorkerInductive, ~overtaken, ~CanStep, NEW t \in Threads
  PROVE  /\ op[t] \in {"TOP", "RUN", "JOIN", "END"}
         /\ op[t] = "TOP" => t = "job" /\ is_running
         /\ op[t] = "JOIN" => ~(op["heartbeat"] = "END" /\ op["job"] = "END")
<1>1. Good /\ lock = "none" /\ ~ThreadCanStep(t)
  BY RestUnlocked DEF WorkerInductive, CanStep
<1>2. stage[t] \in Stages /\ op[t] \in Ops
  BY <1>1 DEF Good, ThreadsOK
<1>3. stage[t] = "wait" => link[at[t]] # <<>> \/ eof[at[t]]
  BY SomethingToRead
<1>4. lock # t
  BY <1>1 DEF Threads
<1>5. op[t] \in Closing => stage[t] = "enter"
  BY <1>1, <1>4 DEF Good, Places
<1>6. stage[t] = "enter"
  BY <1>1, <1>2, <1>3, <1>5 DEF ThreadCanStep, Stages
<1> QED BY <1>1, <1>2, <1>6 DEF ThreadCanStep, Ops, Closing

-----------------------------------------------------------------------------
(***************************************************************************)
(* The theorems.                                                           *)
(***************************************************************************)
\* The initial states.
LEMMA WorkerStarts ==
  Init => WorkerInductive
<1> SUFFICES ASSUME Init
             PROVE  WorkerInductive
  OBVIOUS
<1>1. /\ is_running = FALSE /\ is_connected = FALSE /\ overtaken = FALSE
      /\ worker_id = 0 /\ lock = "none" /\ fd = 0 /\ conns = 0
      /\ \A t \in Threads : /\ op[t] = (IF t = "main" THEN "START" ELSE "END")
                            /\ stage[t] = "enter" /\ at[t] = 0 /\ on[t] = 0
      /\ job = 0 /\ given = 0 /\ processed = {} /\ failed = {} /\ accepted = {}
      /\ \A c \in Conns : link[c] = <<>>
  BY DEF Init
<1>2. 0 \in 0 .. MaxConns /\ 0 \in 0 .. MaxGiven /\ MaxConns \in Nat /\ MaxGiven \in Nat
  BY WorkerAssumption
<1>3. "main" \in Threads /\ "heartbeat" \in Threads /\ "job" \in Threads
  BY DEF Threads
<1>4. FlagsOK
  BY <1>1, Zenon DEF FlagsOK
<1>5. ScalarsOK /\ ThreadsOK
  BY <1>1, <1>2 DEF ScalarsOK, ThreadsOK, Init, Ops, Stages
<1>6. Places
  BY <1>1, <1>3 DEF Places, MainOps, BeatOps, JobOps, Closing, Exchanges, Threads
<1>7. Connected
  BY <1>1, <1>3 DEF Connected, Knows, Closing
<1>8. NetOK
  <2>1. <<>> \in Seq(Answers)
    OBVIOUS
  <2>2. eof \in [Conns -> BOOLEAN]
    BY Zenon DEF Init
  <2> QED BY <2>1, <2>2 DEF Init, NetOK
<1>9. CountsOK /\ CountedOnce /\ Holding /\ CountedWasAccepted
  BY <1>1, <1>2, <1>3 DEF CountsOK, CountedOnce, Holding, CountedWasAccepted, Counted, Held
<1>10. Fresh /\ Bounded /\ Acks /\ AcksTaken /\ Assigned /\ AssignedOnce
  BY <1>1, <1>3 DEF Fresh, Bounded, Acks, AcksTaken, Assigned, AssignedOnce
<1>11. AnswersArrive
  <2>1. ASSUME NEW c \in Conns
        PROVE  Cardinality(Waiting(c)) <= Len(link[c])
    <3>1. Waiting(c) = {}
      BY <1>1 DEF Waiting
    <3> QED BY <1>1, <3>1, FS_EmptySet
  <2> QED BY <2>1 DEF AnswersArrive
<1> QED BY <1>4, <1>5, <1>6, <1>7, <1>8, <1>9, <1>10, <1>11 DEF WorkerInductive, Good

\* The inductive invariant holds in every reachable state of worker.c, with any
\* number of connections and of assignments.
THEOREM WorkerInvariant == Spec => []WorkerInductive
<1>1. WorkerInductive /\ [Next]_vars => WorkerInductive'
  <2> SUFFICES ASSUME WorkerInductive, [Next]_vars
               PROVE  WorkerInductive'
    OBVIOUS
  <2>1. /\ Good /\ NetOK /\ CountsOK /\ CountedOnce /\ Fresh /\ Bounded /\ Acks /\ AcksTaken
        /\ Assigned /\ AssignedOnce /\ Holding /\ CountedWasAccepted /\ AnswersArrive
    BY DEF WorkerInductive
  <2>2. NetStep /\ JobKind
    BY <2>1, NetKinds DEF NetStep
  <2>3. Good'
    BY <2>1, GoodKept
  <2>4. NetOK' /\ Fresh' /\ Bounded'
    BY <2>1, <2>2, NetKept, FreshKept, BoundedKept
  <2>5. CountsOK' /\ CountedOnce' /\ Holding' /\ CountedWasAccepted'
    BY <2>1, <2>2, JobsKept
  <2>6. Acks' /\ AcksTaken' /\ Assigned' /\ AssignedOnce'
    BY <2>1, <2>2, AcksKept, AcksTakenKept, AssignedKept, AssignedOnceKept
  <2>7. AnswersArrive'
    BY <2>1, <2>2, AnswersKept
  <2> QED BY <2>3, <2>4, <2>5, <2>6, <2>7 DEF WorkerInductive
<1> QED BY <1>1, WorkerStarts, PTL DEF Spec

\* The state of worker.c is of the declared kind; a job is counted once at most,
\* and only a disconnecting thread keeps g_worker.lock over system calls.
THEOREM WorkerTyped == Spec => []WorkerTypeOK
<1>1. WorkerInductive => WorkerTypeOK
  <2> SUFFICES ASSUME WorkerInductive
               PROVE  WorkerTypeOK
    OBVIOUS
  <2>1. Good /\ NetOK /\ CountsOK /\ CountedOnce
    BY DEF WorkerInductive
  <2>2. LockHolder
    BY <2>1 DEF Good, Places, ScalarsOK, LockHolder
  <2> QED BY <2>1, <2>2, TypeParts DEF Good
<1> QED BY <1>1, WorkerInvariant, PTL

\* Whatever thread reads whose answer: as long as nobody was overtaken by a
\* change of the connection between send_message and receive_message, there is an
\* answer, or the end of the connection, for everyone who waits in the latter.
THEOREM EveryWaitAnswered == Spec => []AnswersArrive
<1>1. WorkerInductive => AnswersArrive
  BY DEF WorkerInductive
<1> QED BY <1>1, WorkerInvariant, PTL

\* heartbeat_thread_func never sends a beat under the id of an earlier connection.
THEOREM BeatsUnderOwnId == Spec => []BeatsAsItself
<1>1. WorkerInductive => BeatsAsItself
  BY DEF WorkerInductive, Good, Connected, BeatsAsItself
<1> QED BY <1>1, WorkerInvariant, PTL

\* worker_request_job counts a job as processed only when the server has taken the
\* result of that very job, although the answers carry no job number and may be
\* read by the wrong thread.
THEOREM CountedAccepted == Spec => []CountedWasAccepted
<1>1. WorkerInductive => CountedWasAccepted
  BY DEF WorkerInductive
<1> QED BY <1>1, WorkerInvariant, PTL

\* The worker does not stand still before all of its threads have ended, unless a
\* thread was overtaken: worker_disconnect_from_server, which keeps g_worker.lock
\* over an exchange, does not lock the other threads out for good, and worker_stop
\* does not wait for a thread that waits for it.
THEOREM WorkerKeepsGoing == Spec => []NeverStandsStill
<1>1. Init => Running
  BY DEF Init, Running, Threads
<1>2. WorkerInductive /\ Running /\ [Next]_vars => Running'
  BY RunningKept DEF WorkerInductive
<1>3. WorkerInductive /\ Running => NeverStandsStill
  <2> SUFFICES ASSUME WorkerInductive, Running, ~overtaken, ~CanStep, NEW t \in Threads
               PROVE  op[t] = "END"
    BY DEF NeverStandsStill
  <2>1. Places /\ "main" \in Threads /\ "heartbeat" \in Threads /\ "job" \in Threads
    BY DEF WorkerInductive, Good, Threads
  <2>2. op["heartbeat"] = "END"
    BY <2>1, RestIdle DEF Places, BeatOps
  <2>3. op["main"] # "RUN"
    BY <2>2 DEF Running
  <2>4. op["main"] # "JOIN"
    <3>1. SUFFICES ASSUME op["main"] = "JOIN" PROVE FALSE
      OBVIOUS
    <3>2. op["job"] = "END"
      BY <2>1, <3>1, RestIdle DEF Running, Places, JobOps
    <3> QED BY <2>1, <2>2, <3>1, <3>2, RestIdle
  <2>5. op["main"] = "END"
    BY <2>1, <2>3, <2>4, RestIdle DEF Places, MainOps
  <2> QED BY <2>1, <2>2, <2>5 DEF Places, Threads
<1> QED BY <1>1, <1>2, <1>3, WorkerInvariant, PTL DEF Spec
=============================================================================
