-------------------------- MODULE HeartbeatServer --------------------------
(***************************************************************************)
(* heartbeat_server.c: two acceptors, for raw TCP and for HTTP, start one  *)
(* detached thread per connection; every thread runs handle_client, which  *)
(* reads once, stores a heartbeat or answers with the history, and closes. *)
(* The history is a list, newest first, under history_mutex.               *)
(*                                                                         *)
(* A heartbeat is a list of pairs, a key and whether its value is valid;   *)
(* the list keeps whose it is and its timestamp.  A read that returns only *)
(* the first part of a request reads another request.  time(NULL) is       *)
(* assumed not to step back.                                               *)
(***************************************************************************)
EXTENDS Integers, Sequences, FiniteSets

CONSTANTS
  Fields,           \* the seven keys of a heartbeat
  Conns,            \* connections, one request each
  MAX_HEARTBEATS,
  Fits,             \* entries of the history that fit into BUFFER_SIZE
  MaxPairs,         \* bound: pairs in a request
  MaxNow            \* bound on the clock

ASSUME HeartbeatAssumption ==
  /\ IsFiniteSet(Fields) /\ MAX_HEARTBEATS \in Nat \ {0}
  /\ Fits \in Nat /\ MaxPairs \in Nat /\ MaxNow \in Nat
  /\ "free" \notin Conns

Pairs == [key : Fields \cup {"unknown"}, ok : BOOLEAN]
Bodies == UNION {[1 .. n -> Pairs] : n \in 0 .. MaxPairs}

VARIABLES
  pc,                 \* pc[c]: the place of the thread of connection c
  timestamp,          \* timestamp[c]: of its new node
  answer,             \* answer[c]: what was sent back, "none" before; the
                      \* refusals (400, 404, 500, invalid JSON) are not told apart
  body,               \* body[c]: the entries in its answer
  announced,          \* announced[c]: the entries its Content-Length covers
  heartbeat_history,  \* the list, newest first
  heartbeat_count,
  history_mutex,      \* the thread that holds it, or "free"
  now,
  log,                \* every heartbeat ever added, in order
  since               \* since[c]: Len(log) when c was accepted

shared == <<heartbeat_history, heartbeat_count, history_mutex, log>>
vars == <<pc, timestamp, answer, body, announced, shared, now, since>>

Nodes == [by : Conns, timestamp : 0 .. MaxNow]

Init ==
  /\ pc = [c \in Conns |-> "connecting"]
  /\ timestamp = [c \in Conns |-> 0]
  /\ answer = [c \in Conns |-> "none"]
  /\ body = [c \in Conns |-> <<>>] /\ announced = [c \in Conns |-> 0]
  /\ heartbeat_history = <<>> /\ heartbeat_count = 0
  /\ history_mutex = "free" /\ now = 0
  /\ log = <<>> /\ since = [c \in Conns |-> 0]

-----------------------------------------------------------------------------
(***************************************************************************)
(* The two parsers.  The one for forms takes a pair at a time and counts   *)
(* the pairs it could use: a repeated key counts again, a bad value does   *)
(* not count, an unknown key is skipped.                                   *)
(***************************************************************************)
Usable(p) == p.key \in Fields /\ p.ok
UsedPairs(b) == {i \in 1 .. Len(b) : Usable(b[i])}
GivenFields(b) == {b[i].key : i \in UsedPairs(b)}

\* Mutant: a form with more pairs than fields is taken as well.
FormValidAtLeast(b) == Cardinality(UsedPairs(b)) >= Cardinality(Fields)
FormValid(b) == Cardinality(UsedPairs(b)) = Cardinality(Fields)

\* json-c keeps the last value of a repeated key; all keys must be there and
\* all values valid.
LastOf(b, k) == CHOOSE i \in 1 .. Len(b) :
                  b[i].key = k /\ \A j \in i + 1 .. Len(b) : b[j].key # k
JsonValid(b) == \A k \in Fields : /\ \E i \in 1 .. Len(b) : b[i].key = k
                                  /\ b[LastOf(b, k)].ok

-----------------------------------------------------------------------------
Set(c, p) == pc' = [pc EXCEPT ![c] = p]

\* The acceptors.  pthread_create reports a failure with a positive number,
\* which "< 0" does not see: the connection then stays open without a thread.
Accept(c) ==
  /\ pc[c] = "connecting"
  /\ \/ Set(c, "reading")
     \/ Set(c, "abandoned")
  /\ since' = [since EXCEPT ![c] = Len(log)]
  /\ UNCHANGED <<timestamp, answer, body, announced, shared, now>>

Respond(c, a) ==
  /\ Set(c, "closed")
  /\ answer' = [answer EXCEPT ![c] = a]

\* The first and only read, and what can be said without the history: the end
\* of the connection, an unknown request, a heartbeat that is not valid.
Refuse(c) ==
  /\ pc[c] = "reading"
  /\ \/ Set(c, "closed") /\ UNCHANGED answer
     \/ Respond(c, "refused")
  /\ UNCHANGED <<timestamp, body, announced, shared, now, since>>

Heartbeats == {b \in Bodies : FormValid(b) \/ JsonValid(b)}

ReadHeartbeat(c) ==
  /\ pc[c] = "reading"
  /\ Heartbeats # {} /\ Set(c, "malloc")
  /\ UNCHANGED <<timestamp, answer, body, announced, shared, now, since>>

ReadQuery(c) ==
  /\ pc[c] = "reading"
  /\ Set(c, "query")
  /\ UNCHANGED <<timestamp, answer, body, announced, shared, now, since>>

\* get_history_json without memory for the array, before it takes the mutex, or
\* for the text, after it has walked the list and released the mutex.
QueryFails(c) ==
  /\ \/ pc[c] = "query" /\ UNCHANGED history_mutex
     \/ pc[c] = "copying" /\ history_mutex' = "free"
  /\ Respond(c, "refused")
  /\ UNCHANGED <<timestamp, body, announced, heartbeat_history, heartbeat_count,
                 log, now, since>>

-----------------------------------------------------------------------------
\* Mutant: the node keeps what malloc left in it.
StampForgotten(c) ==
  /\ pc[c] = "malloc"
  /\ \E p \in {"add", "unstored"} : Set(c, p)
  /\ \E t \in 0 .. MaxNow : timestamp' = [timestamp EXCEPT ![c] = t]
  /\ UNCHANGED <<answer, body, announced, shared, now, since>>

\* add_to_history: the node is stamped before the mutex is taken.  Without
\* memory nothing is stored, and handle_client answers OK all the same.
Stamp(c) ==
  /\ pc[c] = "malloc"
  /\ \/ Set(c, "add") /\ timestamp' = [timestamp EXCEPT ![c] = now]
     \/ Set(c, "unstored") /\ UNCHANGED timestamp
  /\ UNCHANGED <<answer, body, announced, shared, now, since>>

Lock(c) ==
  /\ pc[c] \in {"add", "query"} /\ history_mutex = "free"
  /\ history_mutex' = c
  /\ Set(c, IF pc[c] = "add" THEN "adding" ELSE "copying")
  /\ UNCHANGED <<timestamp, answer, body, announced, heartbeat_history,
                 heartbeat_count, log, now, since>>

Push(e, s) == [i \in 1 .. Len(s) + 1 |-> IF i = 1 THEN e ELSE s[i - 1]]
DropLast(s) == [i \in 1 .. Len(s) - 1 |-> s[i]]

\* Mutant: the entry behind the new one goes instead of the last one.
TrimSecond(s, n) ==
  IF n > MAX_HEARTBEATS THEN [i \in 1 .. Len(s) - 1 |->
                                IF i = 1 THEN s[1] ELSE s[i + 1]]
  ELSE s

\* The oldest entry goes when there are too many; a list of one has no entry
\* in front of its last one, and stays.
Trim(s, n) == IF n > MAX_HEARTBEATS /\ Len(s) > 1 THEN DropLast(s) ELSE s

NewNode(c) == [by |-> c, timestamp |-> timestamp[c]]

\* Mutant: returns with the mutex when there is nothing to drop.
AddKeepingMutex(c) ==
  LET s == Push(NewNode(c), heartbeat_history)
  IN  /\ pc[c] = "adding"
      /\ heartbeat_history' = Trim(s, heartbeat_count + 1)
      /\ heartbeat_count' = Len(heartbeat_history')
      /\ history_mutex' = IF Len(heartbeat_history') = Len(s) THEN c ELSE "free"
      /\ log' = Append(log, NewNode(c))
      /\ Set(c, "stored")
      /\ UNCHANGED <<timestamp, answer, body, announced, now, since>>

Add(c) ==
  LET s == Push(NewNode(c), heartbeat_history)
  IN  /\ pc[c] = "adding"
      /\ heartbeat_history' = Trim(s, heartbeat_count + 1)
      /\ heartbeat_count' = heartbeat_count + 1 - (Len(s) - Len(heartbeat_history'))
      /\ history_mutex' = "free"
      /\ log' = Append(log, NewNode(c))
      /\ Set(c, "stored")
      /\ UNCHANGED <<timestamp, answer, body, announced, now, since>>

AnswerOK(c) ==
  /\ pc[c] \in {"stored", "unstored"}
  /\ Respond(c, IF pc[c] = "stored" THEN "OK" ELSE "OK unstored")
  /\ UNCHANGED <<timestamp, body, announced, shared, now, since>>

\* The history is copied under the mutex; snprintf cuts the answer at
\* BUFFER_SIZE, and its Content-Length is that of the whole text.
FirstFits(s) == [i \in 1 .. (IF Len(s) < Fits THEN Len(s) ELSE Fits) |-> s[i]]

\* Mutant: the copy stops in front of the last node.
CopyShort(c) ==
  /\ pc[c] = "copying"
  /\ history_mutex' = "free"
  /\ body' = [body EXCEPT ![c] = FirstFits(heartbeat_history)]
  /\ announced' = [announced EXCEPT ![c] =
                              IF heartbeat_history = <<>> THEN 0
                              ELSE Len(heartbeat_history) - 1]
  /\ Respond(c, "history")
  /\ UNCHANGED <<timestamp, heartbeat_history, heartbeat_count, log, now,
                 since>>

Copy(c) ==
  /\ pc[c] = "copying"
  /\ history_mutex' = "free"
  /\ body' = [body EXCEPT ![c] = FirstFits(heartbeat_history)]
  /\ announced' = [announced EXCEPT ![c] = Len(heartbeat_history)]
  /\ Respond(c, "history")
  /\ UNCHANGED <<timestamp, heartbeat_history, heartbeat_count, log, now,
                 since>>

Tick ==
  /\ now < MaxNow /\ now' = now + 1
  /\ UNCHANGED <<pc, timestamp, answer, body, announced, shared, since>>

\* What a thread does by itself once it has a request.
Work(c) == \/ QueryFails(c) \/ Stamp(c) \/ Lock(c) \/ Add(c) \/ AnswerOK(c)
           \/ Copy(c)

Next == \/ Tick
        \/ \E c \in Conns : \/ Accept(c) \/ Refuse(c) \/ ReadHeartbeat(c)
                            \/ ReadQuery(c) \/ Work(c)

\* A request may never come; once it is read the thread runs on.
Fairness == \A c \in Conns : WF_vars(Work(c))

Spec == Init /\ [][Next]_vars /\ Fairness

-----------------------------------------------------------------------------
Min2(a, b) == IF a < b THEN a ELSE b

\* The state is of the declared kind, and history_mutex is held exactly while
\* its owner is inside add_to_history or get_history_json: no path out of them
\* keeps it.
HeartbeatTypeOK ==
  /\ pc \in [Conns -> {"connecting", "abandoned", "reading", "malloc", "add",
                       "adding", "stored", "unstored", "query", "copying",
                       "closed"}]
  /\ timestamp \in [Conns -> 0 .. MaxNow]
  /\ answer \in [Conns -> {"none", "OK", "OK unstored", "refused", "history"}]
  /\ body \in [Conns -> Seq(Nodes)] /\ announced \in [Conns -> Nat]
  /\ heartbeat_history \in Seq(Nodes) /\ heartbeat_count \in Nat
  /\ now \in 0 .. MaxNow /\ log \in Seq(Nodes) /\ since \in [Conns -> Nat]
  /\ history_mutex \in Conns \cup {"free"}
  /\ \A c \in Conns : pc[c] \in {"adding", "copying"} <=> history_mutex = c

\* The list is exactly the latest MAX_HEARTBEATS heartbeats, newest first, and
\* heartbeat_count is its length, whatever the threads interleave.
HistoryIsLatest ==
  /\ heartbeat_count = Len(heartbeat_history)
  /\ Len(heartbeat_history) = Min2(MAX_HEARTBEATS, Len(log))
  /\ \A i \in 1 .. Len(heartbeat_history) :
       heartbeat_history[i] = log[Len(log) + 1 - i]

\* An answer to a query shows the history as it was at one moment after the
\* query was accepted: whoever has been told OK before finds its heartbeat,
\* unless newer ones have pushed it out or the answer was cut.
QueryIsFresh ==
  \A c \in Conns : answer[c] = "history" =>
    \E n \in since[c] .. Len(log) :
      /\ announced[c] = Min2(MAX_HEARTBEATS, n)
      /\ Len(body[c]) = Min2(announced[c], Fits)
      /\ \A i \in 1 .. Len(body[c]) : body[c][i] = log[n + 1 - i]

\* A heartbeat of a connection accepted after another heartbeat was stored has
\* no older timestamp: only overlapping threads, which stamp before they take
\* the mutex, can be listed against the order of their timestamps.
StampsInOrder ==
  \A i, j \in 1 .. Len(log) :
    i <= since[log[j].by] => log[i].timestamp <= log[j].timestamp

\* The form parser against what a heartbeat is: without a repeated key it takes
\* a form exactly when every field is given; with one it refuses a complete
\* form, and what it takes lacks a field.
NoRepeats(b) == \A i, j \in UsedPairs(b) : b[i].key = b[j].key => i = j
FormParser ==
  (\E c \in Conns : pc[c] = "reading") =>
    \A b \in Bodies :
      IF NoRepeats(b) THEN FormValid(b) <=> GivenFields(b) = Fields
      ELSE FormValid(b) => GivenFields(b) # Fields

\* Every heartbeat and every query that was read is answered and its connection
\* closed: no thread keeps history_mutex.
RequestsAnswered ==
  \A c \in Conns : pc[c] \in {"malloc", "query"} ~> pc[c] = "closed"
=============================================================================
