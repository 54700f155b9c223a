---------------------- MODULE HeartbeatServer_proofs ----------------------
(***************************************************************************)
(* The history of the heartbeat server, for any set of connections, any    *)
(* MAX_HEARTBEATS and any size of the answer buffer: the list is the       *)
(* latest heartbeats, queries show it as it was, and its order agrees with *)
(* the timestamps of connections that did not overlap.                     *)
(***************************************************************************)
EXTENDS HeartbeatServer, TLAPS, SequenceTheorems, FiniteSetTheorems

(***************************************************************************)
(* The three operators on lists.                                           *)
(***************************************************************************)
\* A function on 1 .. n is a sequence of length n.
LEMMA FunctionIsSeq ==
  ASSUME NEW n \in Nat, NEW f \in [1 .. n -> Nodes]
  PROVE  f \in Seq(Nodes) /\ Len(f) = n
<1>1. f \in Seq(Nodes)
  OBVIOUS
<1> QED BY <1>1, LenProperties

\* The new node is the first one, the others move back by one.
LEMMA PushFirst ==
  ASSUME NEW e \in Nodes, NEW s \in Seq(Nodes)
  PROVE  /\ Push(e, s) \in Seq(Nodes) /\ Len(Push(e, s)) = Len(s) + 1
         /\ Push(e, s)[1] = e
         /\ \A i \in 1 .. Len(s) : Push(e, s)[i + 1] = s[i]
<1>1. Len(s) \in Nat /\ Len(s) + 1 \in Nat
  BY LenProperties
<1>2. ASSUME NEW i \in 1 .. Len(s) + 1, i # 1
      PROVE  s[i - 1] \in Nodes
  <2>1. i - 1 \in 1 .. Len(s)
    BY <1>1, <1>2
  <2> QED BY <2>1, ElementOfSeq
<1>3. Push(e, s) \in [1 .. Len(s) + 1 -> Nodes]
  BY <1>2 DEF Push
<1>4. Push(e, s)[1] = e
  BY <1>1 DEF Push
<1>5. ASSUME NEW i \in 1 .. Len(s)
      PROVE  Push(e, s)[i + 1] = s[i]
  <2>1. i + 1 \in 1 .. Len(s) + 1 /\ i + 1 # 1 /\ (i + 1) - 1 = i
    BY <1>1
  <2> QED BY <2>1 DEF Push
<1> QED BY <1>1, <1>3, <1>4, <1>5, FunctionIsSeq

\* A prefix of a list is a list of the prefix's length.
LEMMA PrefixOfList ==
  ASSUME NEW s \in Seq(Nodes), NEW n \in 0 .. Len(s)
  PROVE  LET f == [i \in 1 .. n |-> s[i]]
         IN  f \in Seq(Nodes) /\ Len(f) = n /\ \A i \in 1 .. n : f[i] = s[i]
<1> DEFINE f == [i \in 1 .. n |-> s[i]]
<1>1. Len(s) \in Nat /\ n \in Nat
  BY LenProperties
<1>2. \A i \in 1 .. n : s[i] \in Nodes
  BY <1>1, ElementOfSeq
<1>3. f \in [1 .. n -> Nodes]
  BY <1>2
<1>4. \A i \in 1 .. n : f[i] = s[i]
  OBVIOUS
<1> HIDE DEF f
<1>5. f \in Seq(Nodes) /\ Len(f) = n
  BY <1>1, <1>3, FunctionIsSeq
<1> QED BY <1>4, <1>5 DEF f

\* What is left after the trim is the list, or the list without its last node.
LEMMA TrimKeepsPrefix ==
  ASSUME NEW s \in Seq(Nodes), NEW n \in Nat
  PROVE  /\ Trim(s, n) \in Seq(Nodes)
         /\ Len(Trim(s, n)) = IF n > MAX_HEARTBEATS /\ Len(s) > 1
                              THEN Len(s) - 1 ELSE Len(s)
         /\ \A i \in 1 .. Len(Trim(s, n)) : Trim(s, n)[i] = s[i]
<1>1. Len(s) \in Nat
  BY LenProperties
<1>2. CASE n > MAX_HEARTBEATS /\ Len(s) > 1
  <2>1. Len(s) - 1 \in 0 .. Len(s)
    BY <1>1, <1>2
  <2>2. Trim(s, n) = [i \in 1 .. Len(s) - 1 |-> s[i]]
    BY <1>2 DEF Trim, DropLast
  <2> QED BY <1>2, <2>1, <2>2, PrefixOfList
<1>3. CASE ~(n > MAX_HEARTBEATS /\ Len(s) > 1)
  BY <1>3 DEF Trim
<1> QED BY <1>2, <1>3

\* The entries that fit are the first ones.
LEMMA FirstFitsPrefix ==
  ASSUME NEW s \in Seq(Nodes)
  PROVE  /\ FirstFits(s) \in Seq(Nodes)
         /\ Len(FirstFits(s)) = Min2(Len(s), Fits)
         /\ \A i \in 1 .. Len(FirstFits(s)) : FirstFits(s)[i] = s[i]
<1>1. Len(s) \in Nat /\ Fits \in Nat
  BY LenProperties, HeartbeatAssumption
<1>2. Min2(Len(s), Fits) \in 0 .. Len(s)
  BY <1>1 DEF Min2
<1>3. FirstFits(s) = [i \in 1 .. Min2(Len(s), Fits) |-> s[i]]
  BY DEF FirstFits, Min2
<1> QED BY <1>2, <1>3, PrefixOfList

-----------------------------------------------------------------------------
(***************************************************************************)
(* Type correctness and mutual exclusion.  Only Add and Copy build lists.  *)
(***************************************************************************)
\* The node a thread adds is a node.
LEMMA NewNodeType ==
  ASSUME HeartbeatTypeOK, NEW c \in Conns
  PROVE  NewNode(c) \in Nodes
BY DEF HeartbeatTypeOK, NewNode, Nodes

\* Adding keeps the types and says what becomes of the list.
LEMMA AddList ==
  ASSUME HeartbeatTypeOK, NEW c \in Conns, Add(c)
  PROVE  LET s == Push(NewNode(c), heartbeat_history)
         IN  /\ s \in Seq(Nodes) /\ Len(s) = Len(heartbeat_history) + 1
             /\ Len(heartbeat_history) \in Nat
             /\ heartbeat_history' \in Seq(Nodes)
             /\ Len(heartbeat_history') =
                  IF heartbeat_count + 1 > MAX_HEARTBEATS /\ Len(s) > 1
                  THEN Len(s) - 1 ELSE Len(s)
             /\ \A i \in 1 .. Len(heartbeat_history') : heartbeat_history'[i] = s[i]
             /\ heartbeat_count' \in Nat
<1> DEFINE s == Push(NewNode(c), heartbeat_history)
<1>1. /\ heartbeat_history \in Seq(Nodes) /\ Len(heartbeat_history) \in Nat
      /\ heartbeat_count \in Nat /\ heartbeat_count + 1 \in Nat
  <2>1. heartbeat_history \in Seq(Nodes) /\ heartbeat_count \in Nat
    BY DEF HeartbeatTypeOK
  <2> QED BY <2>1, LenProperties
<1>2. s \in Seq(Nodes) /\ Len(s) = Len(heartbeat_history) + 1
  BY <1>1, NewNodeType, PushFirst
<1>3. /\ heartbeat_history' = Trim(s, heartbeat_count + 1)
      /\ heartbeat_count' = heartbeat_count + 1 - (Len(s) - Len(heartbeat_history'))
  BY DEF Add
<1> HIDE DEF s
<1>4. /\ heartbeat_history' \in Seq(Nodes)
      /\ Len(heartbeat_history') =
           IF heartbeat_count + 1 > MAX_HEARTBEATS /\ Len(s) > 1
           THEN Len(s) - 1 ELSE Len(s)
      /\ \A i \in 1 .. Len(heartbeat_history') : heartbeat_history'[i] = s[i]
  BY <1>1, <1>2, <1>3, TrimKeepsPrefix
<1>5. heartbeat_count' \in Nat
  BY <1>1, <1>2, <1>3, <1>4
<1> QED BY <1>1, <1>2, <1>4, <1>5 DEF s

\* Every step keeps the types and the owner of history_mutex.
LEMMA TypesKept ==
  ASSUME HeartbeatTypeOK, [Next]_vars
  PROVE  HeartbeatTypeOK'
<1>1. CASE Tick
  <2>1. now' \in 0 .. MaxNow
    <3>1. now \in 0 .. MaxNow /\ now < MaxNow /\ now' = now + 1
      BY <1>1 DEF HeartbeatTypeOK, Tick
    <3>2. MaxNow \in Nat
      BY HeartbeatAssumption
    <3> QED BY <3>1, <3>2
  <2> QED BY <1>1, <2>1 DEF HeartbeatTypeOK, Tick, shared
<1>2. ASSUME NEW c \in Conns, Accept(c)
      PROVE  HeartbeatTypeOK'
  <2>1. Len(log) \in Nat
    BY LenProperties DEF HeartbeatTypeOK
  <2> QED BY <1>2, <2>1 DEF HeartbeatTypeOK, Accept, Set, shared
<1>3. ASSUME NEW c \in Conns, Refuse(c)
      PROVE  HeartbeatTypeOK'
  BY <1>3 DEF HeartbeatTypeOK, Refuse, Respond, Set, shared
<1>4. ASSUME NEW c \in Conns, ReadHeartbeat(c) \/ ReadQuery(c)
      PROVE  HeartbeatTypeOK'
  BY <1>4 DEF HeartbeatTypeOK, ReadHeartbeat, ReadQuery, Set, shared
<1>5. ASSUME NEW c \in Conns, QueryFails(c) \/ AnswerOK(c)
      PROVE  HeartbeatTypeOK'
  <2>1. CASE AnswerOK(c)
    BY <2>1 DEF HeartbeatTypeOK, AnswerOK, Respond, Set, shared
  <2>2. CASE QueryFails(c)
    <3>1. \A d \in Conns : pc'[d] \in {"adding", "copying"} <=> history_mutex' = d
      BY <2>2, HeartbeatAssumption DEF HeartbeatTypeOK, QueryFails, Respond, Set
    <3> QED BY <2>2, <3>1 DEF HeartbeatTypeOK, QueryFails, Respond, Set
  <2> QED BY <1>5, <2>1, <2>2
<1>6. ASSUME NEW c \in Conns, Stamp(c)
      PROVE  HeartbeatTypeOK'
  <2>1. now \in 0 .. MaxNow /\ timestamp \in [Conns -> 0 .. MaxNow]
    BY DEF HeartbeatTypeOK
  <2>2. timestamp' \in [Conns -> 0 .. MaxNow]
    BY <1>6, <2>1 DEF Stamp
  <2>3. /\ pc[c] = "malloc"
        /\ pc' = [pc EXCEPT ![c] = "add"] \/ pc' = [pc EXCEPT ![c] = "unstored"]
    BY <1>6 DEF Stamp, Set
  <2>4. UNCHANGED <<answer, body, announced, shared, now, since>>
    BY <1>6 DEF Stamp
  <2> QED BY <2>2, <2>3, <2>4 DEF HeartbeatTypeOK, shared
<1>7. ASSUME NEW c \in Conns, Lock(c)
      PROVE  HeartbeatTypeOK'
  <2>1. \A d \in Conns : pc[d] \notin {"adding", "copying"}
    BY <1>7, HeartbeatAssumption DEF HeartbeatTypeOK, Lock
  <2> QED BY <1>7, <2>1 DEF HeartbeatTypeOK, Lock, Set
<1>8. ASSUME NEW c \in Conns, Add(c)
      PROVE  HeartbeatTypeOK'
  <2>1. heartbeat_history' \in Seq(Nodes) /\ heartbeat_count' \in Nat
    BY <1>8, AddList
  <2>2. log' \in Seq(Nodes)
    BY <1>8, NewNodeType, AppendProperties DEF Add, HeartbeatTypeOK
  <2>3. \A d \in Conns : pc'[d] \in {"adding", "copying"} <=> history_mutex' = d
    BY <1>8, HeartbeatAssumption DEF HeartbeatTypeOK, Add, Set
  <2> QED BY <1>8, <2>1, <2>2, <2>3 DEF HeartbeatTypeOK, Add, Set
<1>9. ASSUME NEW c \in Conns, Copy(c)
      PROVE  HeartbeatTypeOK'
  <2>1. /\ FirstFits(heartbeat_history) \in Seq(Nodes)
        /\ Len(heartbeat_history) \in Nat
    BY FirstFitsPrefix, LenProperties DEF HeartbeatTypeOK
  <2> HIDE DEF FirstFits
  <2>2. \A d \in Conns : pc'[d] \in {"adding", "copying"} <=> history_mutex' = d
    BY <1>9, HeartbeatAssumption DEF HeartbeatTypeOK, Copy, Respond, Set
  <2> QED BY <1>9, <2>1, <2>2 DEF HeartbeatTypeOK, Copy, Respond, Set
<1>10. CASE UNCHANGED vars
  BY <1>10 DEF HeartbeatTypeOK, vars, shared
<1> QED BY <1>1, <1>2, <1>3, <1>4, <1>5, <1>6, <1>7, <1>8, <1>9, <1>10
        DEF Next, Work

\* The initial state has the types.
LEMMA TypesAtStart == Init => HeartbeatTypeOK
BY HeartbeatAssumption, EmptySeq DEF Init, HeartbeatTypeOK

-----------------------------------------------------------------------------
(***************************************************************************)
(* The list.  Only Add touches it, and the log of all heartbeats only      *)
(* grows.                                                                  *)
(***************************************************************************)
\* Every other step leaves list, counter and log alone.
LEMMA OnlyAddStores ==
  ASSUME [Next]_vars, ~(\E c \in Conns : Add(c))
  PROVE  UNCHANGED <<heartbeat_history, heartbeat_count, log>>
BY DEF Next, Work, vars, shared, Tick, Accept, Refuse, ReadHeartbeat, ReadQuery,
       QueryFails, Stamp, Lock, AnswerOK, Copy

\* What Add does to the log.
LEMMA AddLogs ==
  ASSUME HeartbeatTypeOK, NEW c \in Conns, Add(c)
  PROVE  /\ Len(log) \in Nat /\ Len(log') = Len(log) + 1
         /\ log'[Len(log) + 1] = NewNode(c)
         /\ \A i \in 1 .. Len(log) : log'[i] = log[i]
<1>1. log \in Seq(Nodes) /\ log' = Append(log, NewNode(c))
  BY DEF HeartbeatTypeOK, Add
<1>2. NewNode(c) \in Nodes
  BY NewNodeType
<1> QED BY <1>1, <1>2, AppendProperties, LenProperties

\* The log is append-only.
LEMMA LogGrows ==
  ASSUME HeartbeatTypeOK, [Next]_vars
  PROVE  /\ Len(log) \in Nat /\ Len(log') \in Nat /\ Len(log) <= Len(log')
         /\ \A i \in 1 .. Len(log) : log'[i] = log[i]
<1>1. Len(log) \in Nat
  <2>1. log \in Seq(Nodes)
    BY DEF HeartbeatTypeOK
  <2> QED BY <2>1, LenProperties
<1>2. CASE \E c \in Conns : Add(c)
  <2>1. PICK c \in Conns : Add(c)
    BY <1>2
  <2> QED BY <1>1, <2>1, AddLogs
<1>3. CASE ~(\E c \in Conns : Add(c))
  <2>1. log' = log
    BY <1>3, OnlyAddStores
  <2> QED BY <1>1, <2>1
<1> QED BY <1>2, <1>3

\* Adding keeps the list the latest heartbeats: it is trimmed exactly when it
\* was full, and the others move back by one.
LEMMA AddKeepsLatest ==
  ASSUME HeartbeatTypeOK, HistoryIsLatest, NEW c \in Conns, Add(c)
  PROVE  HistoryIsLatest'
<1> DEFINE s == Push(NewNode(c), heartbeat_history)
           K == Len(heartbeat_history)
           L == Len(log)
<1>1. /\ K \in Nat /\ Len(s) = K + 1 /\ Len(heartbeat_history') \in Nat
      /\ Len(heartbeat_history') = IF heartbeat_count + 1 > MAX_HEARTBEATS /\ Len(s) > 1
                                   THEN Len(s) - 1 ELSE Len(s)
      /\ \A i \in 1 .. Len(heartbeat_history') : heartbeat_history'[i] = s[i]
  BY AddList
<1>2. heartbeat_count' = heartbeat_count + 1 - (Len(s) - Len(heartbeat_history'))
  BY DEF Add
<1>3. /\ s[1] = NewNode(c)
      /\ \A i \in 1 .. K : s[i + 1] = heartbeat_history[i]
  <2>1. heartbeat_history \in Seq(Nodes)
    BY DEF HeartbeatTypeOK
  <2> QED BY <2>1, NewNodeType, PushFirst
<1>4. /\ L \in Nat /\ Len(log') = L + 1 /\ log'[L + 1] = NewNode(c)
      /\ \A i \in 1 .. L : log'[i] = log[i]
  BY AddLogs
<1>5. /\ heartbeat_count = K /\ K = Min2(MAX_HEARTBEATS, L)
      /\ \A i \in 1 .. K : heartbeat_history[i] = log[L + 1 - i]
  BY DEF HistoryIsLatest
<1>6. MAX_HEARTBEATS \in Nat /\ MAX_HEARTBEATS > 0
  BY HeartbeatAssumption
<1> HIDE DEF s, K, L
<1>7. /\ Len(heartbeat_history') = Min2(MAX_HEARTBEATS, L + 1)
      /\ heartbeat_count' = Len(heartbeat_history')
      /\ Len(heartbeat_history') <= K + 1 /\ K <= L
  BY <1>1, <1>2, <1>4, <1>5, <1>6 DEF Min2
<1>8. ASSUME NEW i \in 1 .. Len(heartbeat_history')
      PROVE  heartbeat_history'[i] = log'[(L + 1) + 1 - i]
  <2>1. CASE i = 1
    <3>1. (L + 1) + 1 - i = L + 1
      BY <1>4, <2>1
    <3> QED BY <1>1, <1>3, <1>4, <2>1, <3>1
  <2>2. CASE i # 1
    <3>1. /\ i - 1 \in 1 .. K /\ (i - 1) + 1 = i
          /\ L + 1 - (i - 1) \in 1 .. L /\ L + 1 - (i - 1) = (L + 1) + 1 - i
      BY <1>1, <1>4, <1>7, <2>2
    <3>2. heartbeat_history'[i] = heartbeat_history[i - 1]
      BY <1>1, <1>3, <3>1
    <3>3. heartbeat_history[i - 1] = log[L + 1 - (i - 1)]
      BY <1>5, <3>1
    <3> QED BY <1>4, <3>1, <3>2, <3>3
  <2> QED BY <2>1, <2>2
<1> QED BY <1>4, <1>7, <1>8 DEF HistoryIsLatest

\* The type invariant and the list, for every run of the server.
THEOREM HeartbeatSafe == Spec => [](HeartbeatTypeOK /\ HistoryIsLatest)
<1> DEFINE Inv == HeartbeatTypeOK /\ HistoryIsLatest
<1>1. Init => Inv
  <2> SUFFICES ASSUME Init PROVE Inv
    OBVIOUS
  <2>1. heartbeat_history = <<>> /\ log = <<>> /\ heartbeat_count = 0
    BY DEF Init
  <2>2. Len(heartbeat_history) = 0 /\ Len(log) = 0
    BY <2>1, EmptySeq
  <2>3. Min2(MAX_HEARTBEATS, 0) = 0
    BY HeartbeatAssumption DEF Min2
  <2> QED BY <2>1, <2>2, <2>3, TypesAtStart DEF HistoryIsLatest
<1>2. Inv /\ [Next]_vars => Inv'
  <2> SUFFICES ASSUME HeartbeatTypeOK, HistoryIsLatest, [Next]_vars
               PROVE  Inv'
    OBVIOUS
  <2>1. HeartbeatTypeOK'
    BY TypesKept
  <2>2. CASE \E c \in Conns : Add(c)
    BY <2>2, <2>1, AddKeepsLatest
  <2>3. CASE ~(\E c \in Conns : Add(c))
    <3>1. UNCHANGED <<heartbeat_history, heartbeat_count, log>>
      BY <2>3, OnlyAddStores
    <3> QED BY <2>1, <3>1 DEF HistoryIsLatest
  <2> QED BY <2>2, <2>3
<1> QED BY <1>1, <1>2, PTL DEF Spec

-----------------------------------------------------------------------------
(***************************************************************************)
(* Queries.  QueryIsFresh needs to know that a connection was accepted     *)
(* before its answer: what was logged by then is still in the log.         *)
(***************************************************************************)
\* A connection that is still connecting has no answer, and the log has not
\* become shorter since the others were accepted.
AcceptedBefore ==
  \A c \in Conns : /\ since[c] <= Len(log)
                   /\ pc[c] = "connecting" => answer[c] = "none"

\* Every step keeps it.
LEMMA AcceptedKept ==
  ASSUME HeartbeatTypeOK, AcceptedBefore, [Next]_vars
  PROVE  AcceptedBefore'
<1>1. Len(log) \in Nat /\ Len(log') \in Nat /\ Len(log) <= Len(log')
  BY LogGrows
<1>2. ASSUME NEW c \in Conns
      PROVE  since'[c] = since[c] \/ since'[c] = Len(log)
  BY DEF HeartbeatTypeOK, Next, Work, vars, Tick, Accept, Refuse, ReadHeartbeat,
         ReadQuery, QueryFails, Stamp, Lock, Add, AnswerOK, Copy
<1>3. ASSUME NEW c \in Conns
      PROVE  since'[c] <= Len(log')
  <2>1. since[c] \in Nat /\ since[c] <= Len(log)
    BY DEF HeartbeatTypeOK, AcceptedBefore
  <2> QED BY <1>1, <1>2, <2>1
<1>4. ASSUME NEW c \in Conns, pc'[c] = "connecting"
      PROVE  pc[c] = "connecting" /\ answer'[c] = answer[c]
  <2>1. CASE Tick \/ UNCHANGED vars
    BY <1>4, <2>1 DEF Tick, vars
  <2>2. ASSUME NEW d \in Conns, Accept(d) \/ ReadHeartbeat(d) \/ ReadQuery(d)
                                 \/ Stamp(d) \/ Lock(d) \/ Add(d)
        PROVE  pc[c] = "connecting" /\ answer'[c] = answer[c]
    BY <1>4, <2>2 DEF HeartbeatTypeOK, Accept, ReadHeartbeat, ReadQuery, Stamp,
                      Lock, Add, Set
  <2>3. ASSUME NEW d \in Conns, Refuse(d) \/ QueryFails(d) \/ AnswerOK(d) \/ Copy(d)
        PROVE  pc[c] = "connecting" /\ answer'[c] = answer[c]
    BY <1>4, <2>3 DEF HeartbeatTypeOK, Refuse, QueryFails, AnswerOK, Copy,
                      Respond, Set
  <2> QED BY <2>1, <2>2, <2>3 DEF Next, Work
<1> QED BY <1>3, <1>4 DEF AcceptedBefore

\* Only Copy answers with the history, and only then the answer changes.
LEMMA OnlyCopyAnswers ==
  ASSUME HeartbeatTypeOK, AcceptedBefore, [Next]_vars, NEW c \in Conns, ~Copy(c),
         answer'[c] = "history"
  PROVE  /\ answer[c] = "history" /\ since'[c] = since[c]
         /\ body'[c] = body[c] /\ announced'[c] = announced[c]
<1>1. CASE Tick \/ UNCHANGED vars
  BY <1>1 DEF Tick, vars
<1>2. ASSUME NEW d \in Conns, Accept(d)
      PROVE  /\ answer[c] = "history" /\ since'[c] = since[c]
             /\ body'[c] = body[c] /\ announced'[c] = announced[c]
  <2>1. answer' = answer /\ body' = body /\ announced' = announced
    BY <1>2 DEF Accept
  <2>2. d # c
    BY <1>2, <2>1 DEF AcceptedBefore, Accept
  <2> QED BY <1>2, <2>1, <2>2 DEF Accept, HeartbeatTypeOK
<1>3. ASSUME NEW d \in Conns, ReadHeartbeat(d) \/ ReadQuery(d) \/ Stamp(d)
                               \/ Lock(d) \/ Add(d)
      PROVE  /\ answer[c] = "history" /\ since'[c] = since[c]
             /\ body'[c] = body[c] /\ announced'[c] = announced[c]
  BY <1>3 DEF ReadHeartbeat, ReadQuery, Stamp, Lock, Add
<1>4. ASSUME NEW d \in Conns, Refuse(d) \/ QueryFails(d) \/ AnswerOK(d)
      PROVE  /\ answer[c] = "history" /\ since'[c] = since[c]
             /\ body'[c] = body[c] /\ announced'[c] = announced[c]
  BY <1>4 DEF HeartbeatTypeOK, Refuse, QueryFails, AnswerOK, Respond
<1>5. ASSUME NEW d \in Conns, Copy(d)
      PROVE  /\ answer[c] = "history" /\ since'[c] = since[c]
             /\ body'[c] = body[c] /\ announced'[c] = announced[c]
  BY <1>5 DEF HeartbeatTypeOK, Copy, Respond
<1> QED BY <1>1, <1>2, <1>3, <1>4, <1>5 DEF Next, Work

\* The moment a query shows is the one of its copy, and stays in the log.
LEMMA FreshKept ==
  ASSUME HeartbeatTypeOK, HistoryIsLatest, AcceptedBefore, QueryIsFresh, [Next]_vars
  PROVE  QueryIsFresh'
<1> SUFFICES ASSUME NEW c \in Conns, answer'[c] = "history"
             PROVE  \E n \in since'[c] .. Len(log') :
                      /\ announced'[c] = Min2(MAX_HEARTBEATS, n)
                      /\ Len(body'[c]) = Min2(announced'[c], Fits)
                      /\ \A i \in 1 .. Len(body'[c]) : body'[c][i] = log'[n + 1 - i]
  BY DEF QueryIsFresh
<1>1. /\ Len(log) \in Nat /\ Len(log') \in Nat /\ Len(log) <= Len(log')
      /\ \A i \in 1 .. Len(log) : log'[i] = log[i]
  BY LogGrows
<1>2. since[c] \in Nat /\ since[c] <= Len(log)
  BY DEF HeartbeatTypeOK, AcceptedBefore
<1>3. MAX_HEARTBEATS \in Nat /\ Fits \in Nat
  BY HeartbeatAssumption
<1>4. CASE Copy(c)
  <2>1. heartbeat_history \in Seq(Nodes)
    BY DEF HeartbeatTypeOK
  <2>2. /\ body'[c] = FirstFits(heartbeat_history)
        /\ announced'[c] = Len(heartbeat_history)
        /\ since' = since /\ log' = log
    BY <1>4 DEF Copy, HeartbeatTypeOK
  <2>3. /\ Len(body'[c]) = Min2(announced'[c], Fits)
        /\ \A i \in 1 .. Len(body'[c]) : body'[c][i] = heartbeat_history[i]
    BY <2>1, <2>2, FirstFitsPrefix
  <2>4. Len(heartbeat_history) \in Nat
    BY <2>1, LenProperties
  <2>5. Len(body'[c]) \in Nat /\ Len(body'[c]) <= Len(heartbeat_history)
    BY <1>3, <2>2, <2>3, <2>4 DEF Min2
  <2>6. /\ announced'[c] = Min2(MAX_HEARTBEATS, Len(log'))
        /\ \A i \in 1 .. Len(heartbeat_history) :
             heartbeat_history[i] = log'[Len(log') + 1 - i]
    BY <2>2 DEF HistoryIsLatest
  <2>7. \A i \in 1 .. Len(body'[c]) : body'[c][i] = log'[Len(log') + 1 - i]
    BY <2>3, <2>4, <2>5, <2>6
  <2>8. Len(log') \in since'[c] .. Len(log')
    BY <1>1, <1>2, <2>2
  <2> QED BY <2>3, <2>6, <2>7, <2>8
<1>5. CASE ~Copy(c)
  <2>1. /\ answer[c] = "history" /\ since'[c] = since[c]
        /\ body'[c] = body[c] /\ announced'[c] = announced[c]
    BY <1>5, OnlyCopyAnswers
  <2>2. PICK n \in since[c] .. Len(log) :
               /\ announced[c] = Min2(MAX_HEARTBEATS, n)
               /\ Len(body[c]) = Min2(announced[c], Fits)
               /\ \A i \in 1 .. Len(body[c]) : body[c][i] = log[n + 1 - i]
    BY <2>1 DEF QueryIsFresh
  <2>3. n \in since'[c] .. Len(log') /\ n \in Nat
    BY <1>1, <1>2, <2>1, <2>2
  <2>4. ASSUME NEW i \in 1 .. Len(body'[c])
        PROVE  body'[c][i] = log'[n + 1 - i]
    <3>1. Len(body[c]) \in Nat /\ Len(body[c]) <= n
      BY <1>3, <2>2, <2>3 DEF Min2
    <3>2. n + 1 - i \in 1 .. Len(log)
      BY <1>1, <2>1, <2>2, <2>3, <2>4, <3>1
    <3> QED BY <1>1, <2>1, <2>2, <2>4, <3>2
  <2> QED BY <2>1, <2>2, <2>3, <2>4
<1> QED BY <1>4, <1>5

\* A query shows the history as it was at one moment after it was accepted.
THEOREM QueriesFresh == Spec => []QueryIsFresh
<1>1. Init => AcceptedBefore /\ QueryIsFresh
  <2> SUFFICES ASSUME Init PROVE AcceptedBefore /\ QueryIsFresh
    OBVIOUS
  <2>1. Len(log) = 0
    BY EmptySeq DEF Init
  <2> QED BY <2>1 DEF Init, AcceptedBefore, QueryIsFresh
<1>2. HeartbeatTypeOK /\ HistoryIsLatest /\ AcceptedBefore /\ QueryIsFresh
        /\ [Next]_vars => (AcceptedBefore /\ QueryIsFresh)'
  BY AcceptedKept, FreshKept
<1> QED BY <1>1, <1>2, HeartbeatSafe, PTL DEF Spec

-----------------------------------------------------------------------------
(***************************************************************************)
(* Timestamps.  A heartbeat is stamped between its connection's accept and *)
(* its entry in the log, so it is no older than what was logged before the *)
(* accept.                                                                 *)
(***************************************************************************)
\* What is logged was stamped in the past, by a thread that is done with it.
LoggedBefore ==
  \A i \in 1 .. Len(log) : /\ log[i].timestamp <= now
                            /\ pc[log[i].by] \in {"stored", "closed"}

\* A node that is not yet logged is no older than what its thread found.
StampedAfter ==
  \A c \in Conns : pc[c] \in {"add", "adding"} =>
    /\ timestamp[c] <= now
    /\ \A i \in 1 .. since[c] : log[i].timestamp <= timestamp[c]

\* The clock does not go back.
LEMMA ClockRuns ==
  ASSUME HeartbeatTypeOK, [Next]_vars
  PROVE  now \in Nat /\ now' \in Nat /\ now <= now'
<1>1. now \in 0 .. MaxNow
  BY DEF HeartbeatTypeOK
<1>2. now' = now \/ now' = now + 1
  BY DEF Next, Work, vars, Tick, Accept, Refuse, ReadHeartbeat, ReadQuery,
         QueryFails, Stamp, Lock, Add, AnswerOK, Copy
<1> QED BY <1>1, <1>2, HeartbeatAssumption

\* A thread that has stored its node only closes, and was accepted long ago.
LEMMA DoneIsDone ==
  ASSUME HeartbeatTypeOK, [Next]_vars, NEW c \in Conns, pc[c] \in {"stored", "closed"}
  PROVE  pc'[c] \in {"stored", "closed"} /\ since'[c] = since[c]
<1>1. CASE Tick \/ UNCHANGED vars
  BY <1>1 DEF Tick, vars
<1>2. ASSUME NEW d \in Conns, Accept(d) \/ ReadHeartbeat(d) \/ ReadQuery(d)
                               \/ Stamp(d) \/ Lock(d) \/ Add(d)
      PROVE  pc'[c] \in {"stored", "closed"} /\ since'[c] = since[c]
  BY <1>2 DEF HeartbeatTypeOK, Accept, ReadHeartbeat, ReadQuery, Stamp, Lock,
              Add, Set
<1>3. ASSUME NEW d \in Conns, Refuse(d) \/ QueryFails(d) \/ AnswerOK(d) \/ Copy(d)
      PROVE  pc'[c] \in {"stored", "closed"} /\ since'[c] = since[c]
  BY <1>3 DEF HeartbeatTypeOK, Refuse, QueryFails, AnswerOK, Copy, Respond, Set
<1> QED BY <1>1, <1>2, <1>3 DEF Next, Work

\* An entry of the log is a node, whose timestamp is a number.
LEMMA LoggedNode ==
  ASSUME HeartbeatTypeOK, NEW i \in 1 .. Len(log)
  PROVE  log[i].by \in Conns /\ log[i].timestamp \in Nat
<1>1. log \in Seq(Nodes)
  BY DEF HeartbeatTypeOK
<1>2. log[i] \in Nodes
  BY <1>1, ElementOfSeq
<1>3. log[i].by \in Conns /\ log[i].timestamp \in 0 .. MaxNow
  BY <1>2 DEF Nodes
<1> QED BY <1>3, HeartbeatAssumption

\* Every step keeps what is known of the log.
LEMMA LoggedKept ==
  ASSUME HeartbeatTypeOK, LoggedBefore, StampedAfter, [Next]_vars
  PROVE  LoggedBefore'
<1> SUFFICES ASSUME NEW i \in 1 .. Len(log')
             PROVE  /\ log'[i].timestamp <= now'
                    /\ pc'[log'[i].by] \in {"stored", "closed"}
  BY DEF LoggedBefore
<1>1. now \in Nat /\ now' \in Nat /\ now <= now'
  BY ClockRuns
<1>2. CASE i \in 1 .. Len(log)
  <2>1. log'[i] = log[i]
    BY <1>2, LogGrows
  <2>2. log[i].by \in Conns /\ log[i].timestamp \in Nat
    BY <1>2, LoggedNode
  <2>3. log[i].timestamp <= now /\ pc[log[i].by] \in {"stored", "closed"}
    BY <1>2 DEF LoggedBefore
  <2>4. pc'[log[i].by] \in {"stored", "closed"}
    BY <2>2, <2>3, DoneIsDone
  <2>5. log[i].timestamp <= now'
    BY <1>1, <2>2, <2>3
  <2> QED BY <2>1, <2>4, <2>5
<1>3. CASE i \notin 1 .. Len(log)
  <2>1. CASE \E c \in Conns : Add(c)
    <3>1. PICK c \in Conns : Add(c)
      BY <2>1
    <3>2. /\ Len(log) \in Nat /\ Len(log') = Len(log) + 1
          /\ log'[Len(log) + 1] = NewNode(c)
      BY <3>1, AddLogs
    <3>3. i = Len(log) + 1
      BY <1>3, <3>2
    <3>4. log'[i].by = c /\ log'[i].timestamp = timestamp[c]
      BY <3>2, <3>3 DEF NewNode
    <3>5. pc[c] = "adding" /\ pc'[c] = "stored" /\ now' = now
      BY <3>1 DEF Add, Set, HeartbeatTypeOK
    <3>6. timestamp[c] <= now
      BY <3>5 DEF StampedAfter
    <3> QED BY <3>4, <3>5, <3>6
  <2>2. CASE ~(\E c \in Conns : Add(c))
    BY <1>3, <2>2, OnlyAddStores
  <2> QED BY <2>1, <2>2
<1> QED BY <1>2, <1>3

\* A thread on its way to the mutex has just been stamped, or was already.
LEMMA StampSource ==
  ASSUME HeartbeatTypeOK, [Next]_vars, NEW c \in Conns, pc'[c] \in {"add", "adding"}
  PROVE  /\ since'[c] = since[c]
         /\ \/ timestamp'[c] = now
            \/ pc[c] \in {"add", "adding"} /\ timestamp'[c] = timestamp[c]
<1> DEFINE Goal == /\ since'[c] = since[c]
                   /\ \/ timestamp'[c] = now
                      \/ pc[c] \in {"add", "adding"} /\ timestamp'[c] = timestamp[c]
<1>1. CASE Tick \/ UNCHANGED vars
  BY <1>1 DEF Tick, vars
<1>2. ASSUME NEW d \in Conns, Accept(d)
      PROVE  Goal
  BY <1>2 DEF HeartbeatTypeOK, Accept, Set
<1>3. ASSUME NEW d \in Conns, Stamp(d)
      PROVE  Goal
  BY <1>3 DEF HeartbeatTypeOK, Stamp, Set
<1>4. ASSUME NEW d \in Conns, ReadHeartbeat(d) \/ ReadQuery(d) \/ Lock(d) \/ Add(d)
      PROVE  Goal
  BY <1>4 DEF HeartbeatTypeOK, ReadHeartbeat, ReadQuery, Lock, Add, Set
<1>5. ASSUME NEW d \in Conns, Refuse(d) \/ QueryFails(d) \/ AnswerOK(d) \/ Copy(d)
      PROVE  Goal
  BY <1>5 DEF HeartbeatTypeOK, Refuse, QueryFails, AnswerOK, Copy, Respond, Set
<1> QED BY <1>1, <1>2, <1>3, <1>4, <1>5 DEF Next, Work

\* Every step keeps the stamps no older than what was logged at the accept.
LEMMA StampedKept ==
  ASSUME HeartbeatTypeOK, AcceptedBefore, LoggedBefore, StampedAfter, [Next]_vars
  PROVE  StampedAfter'
<1> SUFFICES ASSUME NEW c \in Conns, pc'[c] \in {"add", "adding"}
             PROVE  /\ timestamp'[c] <= now'
                    /\ \A i \in 1 .. since'[c] : log'[i].timestamp <= timestamp'[c]
  BY DEF StampedAfter
<1>1. now \in Nat /\ now' \in Nat /\ now <= now'
  BY ClockRuns
<1>2. since'[c] = since[c] /\ since[c] \in Nat /\ since[c] <= Len(log)
  BY StampSource DEF HeartbeatTypeOK, AcceptedBefore
<1>3. Len(log) \in Nat /\ \A i \in 1 .. Len(log) : log'[i] = log[i]
  BY LogGrows
<1>4. \A i \in 1 .. since[c] : i \in 1 .. Len(log)
  BY <1>2, <1>3
<1>5. CASE timestamp'[c] = now
  <2>1. \A i \in 1 .. since[c] : log'[i].timestamp <= now
    BY <1>3, <1>4 DEF LoggedBefore
  <2> QED BY <1>1, <1>2, <1>5, <2>1
<1>6. CASE pc[c] \in {"add", "adding"} /\ timestamp'[c] = timestamp[c]
  <2>1. /\ timestamp[c] <= now
        /\ \A i \in 1 .. since[c] : log[i].timestamp <= timestamp[c]
    BY <1>6 DEF StampedAfter
  <2>2. timestamp[c] \in Nat
    <3>1. timestamp[c] \in 0 .. MaxNow
      BY DEF HeartbeatTypeOK
    <3> QED BY <3>1, HeartbeatAssumption
  <2>3. \A i \in 1 .. since[c] : log'[i].timestamp <= timestamp[c]
    BY <1>3, <1>4, <2>1
  <2>4. timestamp[c] <= now'
    BY <1>1, <2>1, <2>2
  <2> QED BY <1>2, <1>6, <2>3, <2>4
<1> QED BY <1>5, <1>6, StampSource

\* Every step keeps the order of the log.
LEMMA OrderKept ==
  ASSUME HeartbeatTypeOK, AcceptedBefore, LoggedBefore, StampedAfter,
         StampsInOrder, [Next]_vars
  PROVE  StampsInOrder'
<1> SUFFICES ASSUME NEW i \in 1 .. Len(log'), NEW j \in 1 .. Len(log'),
                    i <= since'[log'[j].by]
             PROVE  log'[i].timestamp <= log'[j].timestamp
  BY DEF StampsInOrder
<1>1. /\ Len(log) \in Nat /\ Len(log') \in Nat
      /\ \A k \in 1 .. Len(log) : log'[k] = log[k]
  BY LogGrows
<1>2. CASE j \in 1 .. Len(log)
  <2>1. log'[j] = log[j] /\ log[j].by \in Conns
    BY <1>1, <1>2, LoggedNode
  <2>2. since'[log[j].by] = since[log[j].by]
    BY <1>2, <2>1, DoneIsDone DEF LoggedBefore
  <2>3. since[log[j].by] \in Nat /\ since[log[j].by] <= Len(log)
    BY <2>1 DEF HeartbeatTypeOK, AcceptedBefore
  <2>4. i \in 1 .. Len(log) /\ i <= since[log[j].by]
    BY <1>1, <2>1, <2>2, <2>3
  <2>5. log[i].timestamp <= log[j].timestamp
    BY <1>2, <2>4 DEF StampsInOrder
  <2> QED BY <1>1, <2>1, <2>4, <2>5
<1>3. CASE j \notin 1 .. Len(log)
  <2>1. CASE \E c \in Conns : Add(c)
    <3>1. PICK c \in Conns : Add(c)
      BY <2>1
    <3>2. Len(log') = Len(log) + 1 /\ log'[Len(log) + 1] = NewNode(c)
      BY <3>1, AddLogs
    <3>3. log'[j] = NewNode(c)
      BY <1>1, <1>3, <3>2
    <3>4. log'[j].by = c /\ log'[j].timestamp = timestamp[c]
      BY <3>3 DEF NewNode
    <3>5. pc[c] = "adding" /\ since' = since
      BY <3>1 DEF Add
    <3>6. since[c] \in Nat /\ since[c] <= Len(log)
      BY DEF HeartbeatTypeOK, AcceptedBefore
    <3>7. i \in 1 .. since[c] /\ i \in 1 .. Len(log)
      BY <1>1, <3>4, <3>5, <3>6
    <3>8. log[i].timestamp <= timestamp[c]
      BY <3>5, <3>7 DEF StampedAfter
    <3> QED BY <1>1, <3>4, <3>7, <3>8
  <2>2. CASE ~(\E c \in Conns : Add(c))
    BY <1>3, <2>2, OnlyAddStores
  <2> QED BY <2>1, <2>2
<1> QED BY <1>2, <1>3

\* Heartbeats of connections that did not overlap are listed in the order of
\* their timestamps.
THEOREM TimestampsOrdered == Spec => []StampsInOrder
<1> DEFINE Order == AcceptedBefore /\ LoggedBefore /\ StampedAfter /\ StampsInOrder
<1>1. Init => Order
  <2> SUFFICES ASSUME Init PROVE Order
    OBVIOUS
  <2>1. Len(log) = 0
    BY EmptySeq DEF Init
  <2> QED BY <2>1 DEF Init, AcceptedBefore, LoggedBefore, StampedAfter, StampsInOrder
<1>2. HeartbeatTypeOK /\ Order /\ [Next]_vars => Order'
  BY AcceptedKept, LoggedKept, StampedKept, OrderKept
<1> QED BY <1>1, <1>2, HeartbeatSafe, PTL DEF Spec

-----------------------------------------------------------------------------
(***************************************************************************)
(* The form parser, for forms of any length.  It compares numbers of pairs *)
(* with the number of fields, so the proof compares cardinalities: the     *)
(* usable pairs are mapped onto the given fields, one to one if and only   *)
(* if no key is repeated.                                                  *)
(***************************************************************************)
\* The key of each usable pair.
KeyOf(b) == [i \in UsedPairs(b) |-> b[i].key]

\* There are at most as many given fields as usable pairs, and as many if and
\* only if no key is repeated; all of them are fields.
LEMMA GivenByPairs ==
  ASSUME NEW b \in Seq(Pairs)
  PROVE  /\ IsFiniteSet(UsedPairs(b)) /\ GivenFields(b) \subseteq Fields
         /\ Cardinality(GivenFields(b)) \in Nat /\ Cardinality(UsedPairs(b)) \in Nat
         /\ Cardinality(GivenFields(b)) = Cardinality(UsedPairs(b)) <=> NoRepeats(b)
<1>1. IsFiniteSet(UsedPairs(b))
  <2>1. Len(b) \in Nat
    BY LenProperties
  <2>2. IsFiniteSet(1 .. Len(b))
    BY <2>1, FS_Interval
  <2> QED BY <2>2, FS_Subset DEF UsedPairs
<1>2. GivenFields(b) \subseteq Fields
  BY DEF GivenFields, UsedPairs, Usable
<1>3. KeyOf(b) \in Surjection(UsedPairs(b), GivenFields(b))
  BY DEF KeyOf, GivenFields, Surjection
<1>4. KeyOf(b) \in Injection(UsedPairs(b), GivenFields(b)) <=> NoRepeats(b)
  <2>1. KeyOf(b) \in [UsedPairs(b) -> GivenFields(b)]
    BY DEF KeyOf, GivenFields
  <2>2. DOMAIN KeyOf(b) = UsedPairs(b) /\ \A i \in UsedPairs(b) : KeyOf(b)[i] = b[i].key
    BY DEF KeyOf
  <2> QED BY <2>1, <2>2 DEF Injection, IsInjective, NoRepeats
<1>5. /\ IsFiniteSet(GivenFields(b))
      /\ Cardinality(GivenFields(b)) = Cardinality(UsedPairs(b)) <=> NoRepeats(b)
  BY <1>1, <1>3, <1>4, FS_Surjection
<1> QED BY <1>1, <1>2, <1>5, FS_CardinalityType

\* Whatever the length of the form: without a repeated key the parser takes it
\* exactly when every field is given, and with one only if a field is missing.
LEMMA FormOfAnyLength ==
  ASSUME NEW b \in Seq(Pairs)
  PROVE  IF NoRepeats(b) THEN FormValid(b) <=> GivenFields(b) = Fields
         ELSE FormValid(b) => GivenFields(b) # Fields
<1>1. IsFiniteSet(Fields)
  BY HeartbeatAssumption
<1>2. Cardinality(GivenFields(b)) = Cardinality(Fields) <=> GivenFields(b) = Fields
  BY <1>1, GivenByPairs, FS_Subset
<1> QED BY <1>2, GivenByPairs DEF FormValid

\* The parser of forms against what a heartbeat is, in every state in which a
\* request can be read and for every bound on the pairs of a request.
THEOREM FormsParsed == Spec => []FormParser
<1>1. FormParser
  <2>1. \A b \in Bodies : b \in Seq(Pairs)
    <3> SUFFICES ASSUME NEW b \in Bodies
                 PROVE  b \in Seq(Pairs)
      OBVIOUS
    <3>1. PICK n \in 0 .. MaxPairs : b \in [1 .. n -> Pairs]
      BY DEF Bodies
    <3>2. n \in Nat
      BY HeartbeatAssumption
    <3> QED BY <3>1, <3>2
  <2> QED BY <2>1, FormOfAnyLength DEF FormParser
<1> QED BY <1>1, PTL
============================================================================
