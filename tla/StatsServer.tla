---------------------------- MODULE StatsServer ----------------------------
(***************************************************************************)
(* c-client-server-app/src/server.c: one thread accepts a connection,      *)
(* reads one message, adds it to the statistics of the address, answers    *)
(* and closes.  The statistics are saved to a file and cleaned up from     *)
(* inside update_ip_stats, which has taken stats_mutex before.             *)
(***************************************************************************)
EXTENDS Integers, Sequences

CONSTANTS
  Conns,                \* connections, one message each
  Addresses,
  RealMutex,            \* FALSE: the C library's stubs of a build without libpthread
  STATS_SAVE_INTERVAL, CLEANUP_INTERVAL, MAX_ENTRY_AGE,
  Start,                \* time(NULL) when the server starts
  MaxNow                \* bound on the clock

VARIABLES
  pc,               \* where the only thread is
  conn,             \* conn[c]: "new", "sent", "answered" or "closed"
  client,           \* the connection in handle_client and its address
  stats_mutex,      \* locked or not
  ip_stats_list,    \* for every address with an entry, when it was last seen
  messages,         \* for every address with an entry, the messages counted
  file,             \* what STATS_FILE holds: the same two functions
  last_stats_save, last_cleanup, now,
  shutdown_requested, status_requested

lists == <<ip_stats_list, messages>>
times == <<last_stats_save, last_cleanup>>
requests == <<shutdown_requested, status_requested>>
vars == <<pc, conn, client, stats_mutex, lists, file, times, now, requests>>

Nobody == [conn |-> "none", ip |-> "none"]
NoEntries == [a \in {} |-> 0]

\* STATS_FILE holds what an earlier run has saved.
Init ==
  /\ pc = "load"
  /\ conn = [c \in Conns |-> "new"] /\ client = Nobody
  /\ stats_mutex = FALSE
  /\ ip_stats_list = NoEntries /\ messages = NoEntries
  /\ \E known \in SUBSET Addresses :
       file = [seen |-> [a \in known |-> 0], messages |-> [a \in known |-> 1]]
  /\ last_stats_save = 0 /\ last_cleanup = 0 /\ now = Start
  /\ shutdown_requested = FALSE /\ status_requested = FALSE

-----------------------------------------------------------------------------
\* pthread_mutex_lock: the only thread waits for itself if it has the mutex.
Lock(next) == IF RealMutex /\ stats_mutex THEN pc' = "stuck" /\ UNCHANGED stats_mutex
              ELSE pc' = next /\ stats_mutex' = TRUE
Unlock(next) == pc' = next /\ stats_mutex' = FALSE

\* load_ip_stats, before any connection.
Load ==
  /\ pc = "load"
  /\ ip_stats_list' = file.seen /\ messages' = file.messages
  /\ Unlock("loop")
  /\ UNCHANGED <<conn, client, file, times, now, requests>>

\* A client connects and sends its message; a signal sets its flag.
Arrive(c) ==
  /\ conn[c] = "new"
  /\ conn' = [conn EXCEPT ![c] = "sent"]
  /\ UNCHANGED <<pc, client, stats_mutex, lists, file, times, now, requests>>

HandleSignal ==
  /\ \/ shutdown_requested' = TRUE /\ UNCHANGED status_requested
     \/ status_requested' = TRUE /\ UNCHANGED shutdown_requested
  /\ UNCHANGED <<pc, conn, client, stats_mutex, lists, file, times, now>>

\* The top of the main loop; print_ip_stats locks, prints and unlocks.
Loop ==
  /\ pc = "loop"
  /\ IF shutdown_requested THEN pc' = "shutdown" /\ UNCHANGED stats_mutex
     ELSE IF status_requested THEN Unlock("accept")
     ELSE pc' = "accept" /\ UNCHANGED stats_mutex
  /\ status_requested' = (status_requested /\ shutdown_requested)
  /\ UNCHANGED <<conn, client, lists, file, times, now, shutdown_requested>>

\* accept, the read of handle_client, and the mutex of update_ip_stats.
Accept(c, a) ==
  /\ pc = "accept" /\ conn[c] = "sent"
  /\ client' = [conn |-> c, ip |-> a]
  /\ Lock("update")
  /\ UNCHANGED <<conn, lists, file, times, now, requests>>

\* The client has gone before the read.
ReadFails(c) ==
  /\ pc = "accept" /\ conn[c] = "sent"
  /\ conn' = [conn EXCEPT ![c] = "closed"]
  /\ pc' = "loop"
  /\ UNCHANGED <<client, stats_mutex, lists, file, times, now, requests>>

\* The entry of the address is found or made.
Update ==
  LET a == client.ip
      known == DOMAIN messages \cup {a}
  IN  /\ pc = "update"
      /\ ip_stats_list' = [x \in known |-> IF x = a THEN now ELSE ip_stats_list[x]]
      /\ messages' = [x \in known |-> IF x # a THEN messages[x]
                                      ELSE IF a \in DOMAIN messages
                                           THEN messages[a] + 1 ELSE 1]
      /\ pc' = "periodic save"
      /\ UNCHANGED <<conn, client, stats_mutex, file, times, now, requests>>

\* save_ip_stats takes the mutex, writes and releases it.
PeriodicSave ==
  /\ pc = "periodic save"
  /\ IF now - last_stats_save <= STATS_SAVE_INTERVAL
     THEN pc' = "periodic cleanup" /\ UNCHANGED <<stats_mutex, file, last_stats_save>>
     ELSE IF RealMutex /\ stats_mutex
     THEN pc' = "stuck" /\ UNCHANGED <<stats_mutex, file, last_stats_save>>
     ELSE /\ Unlock("periodic cleanup")
          /\ file' = [seen |-> ip_stats_list, messages |-> messages]
          /\ last_stats_save' = now
  /\ UNCHANGED <<conn, client, lists, last_cleanup, now, requests>>

Restricted(f, s) == [a \in DOMAIN f \cap s |-> f[a]]

\* cleanup_old_entries likewise.
PeriodicCleanup ==
  LET recent == {a \in DOMAIN ip_stats_list : now - ip_stats_list[a] <= MAX_ENTRY_AGE}
  IN  /\ pc = "periodic cleanup"
      /\ IF now - last_cleanup <= CLEANUP_INTERVAL
         THEN Unlock("reply") /\ UNCHANGED <<lists, last_cleanup>>
         ELSE IF RealMutex /\ stats_mutex
         THEN pc' = "stuck" /\ UNCHANGED <<stats_mutex, lists, last_cleanup>>
         ELSE /\ Unlock("reply")
              /\ ip_stats_list' = Restricted(ip_stats_list, recent)
              /\ messages' = Restricted(messages, recent)
              /\ last_cleanup' = now
      /\ UNCHANGED <<conn, client, file, last_stats_save, now, requests>>

Reply ==
  /\ pc = "reply"
  /\ conn' = [conn EXCEPT ![client.conn] = "answered"]
  /\ client' = Nobody /\ pc' = "loop"
  /\ UNCHANGED <<stats_mutex, lists, file, times, now, requests>>

\* The end of main: save and free everything.
Shutdown ==
  /\ pc = "shutdown"
  /\ file' = [seen |-> ip_stats_list, messages |-> messages]
  /\ ip_stats_list' = NoEntries /\ messages' = NoEntries
  /\ Unlock("end")
  /\ UNCHANGED <<conn, client, times, now, requests>>

Tick ==
  /\ now < MaxNow /\ now' = now + 1
  /\ UNCHANGED <<pc, conn, client, stats_mutex, lists, file, times, requests>>

Serve == \/ Load \/ Loop \/ Update \/ PeriodicSave \/ PeriodicCleanup \/ Reply
         \/ Shutdown
         \/ \E c \in Conns : ReadFails(c) \/ \E a \in Addresses : Accept(c, a)

Next == \/ Serve \/ HandleSignal \/ Tick \/ \E c \in Conns : Arrive(c)

\* The server runs on; clients and signals need not come.
Spec == Init /\ [][Next]_vars /\ WF_vars(Serve)

-----------------------------------------------------------------------------
\* Every client that has sent a message gets the acknowledgment, or has gone,
\* or the server has been told to stop.
EveryMessageAnswered ==
  \A c \in Conns :
    conn[c] = "sent" ~> (conn[c] \in {"answered", "closed"} \/ shutdown_requested)
=============================================================================
