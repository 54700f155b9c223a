----------------------------- MODULE JobHandler -----------------------------
(***************************************************************************)
(* server/job_handler.c: the job table of the job server, its statistics   *)
(* and the operations that connection-handler threads and the main loop    *)
(* perform on them.                                                        *)
(*                                                                         *)
(* A step is one critical section under g_job_mutex.  job_handler_assign   *)
(* has two of them with the (blocking) send to the worker in between, so   *)
(* it is two steps, and every other thread may run while the send is under *)
(* way.  Real time is the number of ticks since a job was started, counted *)
(* up to the first value past the timeout; submit times only order jobs,   *)
(* and slots are filled in submission order and never freed, so the lowest *)
(* slot is the oldest job.                                                 *)
(***************************************************************************)
EXTENDS Integers, FiniteSets

CONSTANTS
  MaxJobs,          \* g_max_jobs
  JobTimeout,       \* g_job_timeout_seconds, in ticks
  MAX_JOB_RETRIES,  \* from the missing common/protocol.h
  Handlers,         \* worker connections: a handler thread and its peer
  MaxSendFailures   \* bound: how often sending a job to a worker may fail

ASSUME JobAssumption ==
  /\ MaxJobs \in Nat \ {0}
  /\ JobTimeout \in Nat
  /\ MAX_JOB_RETRIES \in Nat \ {0}
  /\ MaxSendFailures \in Nat

VARIABLES
  g_jobs,           \* the job array
  g_next_job_id,
  g_pending_jobs, g_running_jobs, g_completed_jobs, g_failed_jobs,
  told,             \* told[s]: the verdicts sent to the client of slot s
  sending,          \* sending[h]: the job h is sending to its peer, or 0
  working,          \* working[h]: the job the peer of h is processing, or 0
  send_failures     \* how many sends of a job have failed

gauges == <<g_pending_jobs, g_running_jobs, g_completed_jobs, g_failed_jobs>>
jobVars == <<g_jobs, g_next_job_id, gauges, told, sending, working,
             send_failures>>

Slots == 1 .. MaxJobs
JobIds == 1 .. MaxJobs
Statuses == {"PENDING", "ASSIGNED", "COMPLETED", "FAILED", "TIMEOUT"}
Terminal == {"COMPLETED", "FAILED", "TIMEOUT"}
Verdicts == {"COMPLETED", "FAILED"}

\* calloc: job_id 0 marks a free slot, whose status reads as PENDING.
FreeJob ==
  [job_id |-> 0, status |-> "PENDING", retry_count |-> 0, elapsed |-> 0]

Job == [job_id : 0 .. MaxJobs, status : Statuses,
        retry_count : Nat, elapsed : 0 .. JobTimeout + 1]

\* The occupied slots whose job has one of the given statuses.
InState(S) == {s \in Slots : g_jobs[s].job_id > 0 /\ g_jobs[s].status \in S}

\* A job that changes status.  How long it has been running is only looked at
\* while it is ASSIGNED, and counted from the moment it was assigned.
Moved(job, status) == [job EXCEPT !.status = status, !.elapsed = 0]

\* The slot find_job_by_id returns; the id is one the handler gave out.
SlotsOf(id) ==
  {s \in Slots : id > 0 /\ id < g_next_job_id /\ g_jobs[s].job_id = id}

\* The slot a scan of the table meets first, as a set.
Lowest(S) == {s \in S : \A r \in S : s <= r}

-----------------------------------------------------------------------------
\* job_handler_init; no worker has asked for anything yet.
JobInit ==
  /\ g_jobs = [s \in Slots |-> FreeJob]
  /\ g_next_job_id = 1
  /\ g_pending_jobs = 0 /\ g_running_jobs = 0
  /\ g_completed_jobs = 0 /\ g_failed_jobs = 0
  /\ told = [s \in Slots |-> {}]
  /\ sending = [h \in Handlers |-> 0]
  /\ working = [h \in Handlers |-> 0]
  /\ send_failures = 0

FreeSlots == {s \in Slots : g_jobs[s].job_id = 0}

\* Mutant: any free slot will do.
SubmitAnywhere ==
  /\ \E slot \in FreeSlots :
       g_jobs' = [g_jobs EXCEPT ![slot] =
                    [FreeJob EXCEPT !.job_id = g_next_job_id]]
  /\ g_next_job_id' = g_next_job_id + 1
  /\ g_pending_jobs' = g_pending_jobs + 1
  /\ UNCHANGED <<g_running_jobs, g_completed_jobs, g_failed_jobs, told,
                 sending, working, send_failures>>

\* job_handler_submit.  Without a free slot it returns -1 and changes nothing.
Submit ==
  /\ \E slot \in Lowest(FreeSlots) :
       g_jobs' = [g_jobs EXCEPT ![slot] =
                    [FreeJob EXCEPT !.job_id = g_next_job_id]]
  /\ g_next_job_id' = g_next_job_id + 1
  /\ g_pending_jobs' = g_pending_jobs + 1
  /\ UNCHANGED <<g_running_jobs, g_completed_jobs, g_failed_jobs, told,
                 sending, working, send_failures>>

\* job_handler_assign up to the unlock before the send.  The peer asks only
\* when it has nothing to do.
Assign(h) ==
  /\ sending[h] = 0
  /\ \E slot \in Lowest(InState({"PENDING"})) :
       /\ g_jobs' = [g_jobs EXCEPT ![slot] = Moved(@, "ASSIGNED")]
       /\ sending' = [sending EXCEPT ![h] = g_jobs[slot].job_id]
  /\ g_pending_jobs' = g_pending_jobs - 1
  /\ g_running_jobs' = g_running_jobs + 1
  /\ UNCHANGED <<g_next_job_id, g_completed_jobs, g_failed_jobs, told,
                 working, send_failures>>

\* The send succeeds and the peer starts on the job.
SendJob(h) ==
  /\ sending[h] # 0
  /\ working' = [working EXCEPT ![h] = sending[h]]
  /\ sending' = [sending EXCEPT ![h] = 0]
  /\ UNCHANGED <<g_jobs, g_next_job_id, gauges, told, send_failures>>

\* The send fails: the job is made pending again, whatever happened to it
\* since the lock was released.  It is always found: jobs are never removed.
SendFailed(h) ==
  /\ sending[h] # 0
  /\ send_failures < MaxSendFailures
  /\ send_failures' = send_failures + 1
  /\ sending' = [sending EXCEPT ![h] = 0]
  /\ \E slot \in SlotsOf(sending[h]) :
       g_jobs' = [g_jobs EXCEPT ![slot] = Moved(@, "PENDING")]
  /\ g_pending_jobs' = g_pending_jobs + 1
  /\ g_running_jobs' = g_running_jobs - 1
  /\ UNCHANGED <<g_next_job_id, g_completed_jobs, g_failed_jobs, told, working>>

\* Mutant: the test for JOB_STATUS_ASSIGNED is dropped.
ReportableAlways(id) == SlotsOf(id)

\* Where job_handler_complete and job_handler_fail accept a report on job id.
Reportable(id) == SlotsOf(id) \cap InState({"ASSIGNED"})

\* job_handler_complete: any worker may report an assigned job.
Complete(id) ==
  \E slot \in Reportable(id) :
    /\ g_jobs' = [g_jobs EXCEPT ![slot] = Moved(@, "COMPLETED")]
    /\ told' = [told EXCEPT ![slot] = @ \cup {"COMPLETED"}]
    /\ g_running_jobs' = g_running_jobs - 1
    /\ g_completed_jobs' = g_completed_jobs + 1
    /\ UNCHANGED <<g_next_job_id, g_pending_jobs, g_failed_jobs, send_failures>>

\* Mutant: one attempt too many.
LastAttemptLate(job) == job.retry_count + 1 > MAX_JOB_RETRIES

LastAttempt(job) == job.retry_count + 1 >= MAX_JOB_RETRIES

\* Mutant: the attempt is not counted.
AfterAttemptUncounted(job, final) ==
  Moved(job, IF LastAttempt(job) THEN final ELSE "PENDING")

\* The attempt of a job is over: retry it, or leave it in its final status.
AfterAttempt(job, final) ==
  [Moved(job, IF LastAttempt(job) THEN final ELSE "PENDING")
     EXCEPT !.retry_count = @ + 1]

\* job_handler_fail.
Fail(id) ==
  \E slot \in Reportable(id) :
    /\ g_jobs' = [g_jobs EXCEPT ![slot] = AfterAttempt(@, "FAILED")]
    /\ g_running_jobs' = g_running_jobs - 1
    /\ \/ /\ LastAttempt(g_jobs[slot])
          /\ g_failed_jobs' = g_failed_jobs + 1
          /\ told' = [told EXCEPT ![slot] = @ \cup {"FAILED"}]
          /\ UNCHANGED g_pending_jobs
       \/ /\ ~LastAttempt(g_jobs[slot])
          /\ g_pending_jobs' = g_pending_jobs + 1
          /\ UNCHANGED <<g_failed_jobs, told>>
    /\ UNCHANGED <<g_next_job_id, g_completed_jobs, send_failures>>

\* The running jobs that have exceeded g_job_timeout_seconds, and the ones of
\* them that have no attempt left.
Expired == {s \in InState({"ASSIGNED"}) : g_jobs[s].elapsed > JobTimeout}
Doomed == {s \in Expired : LastAttempt(g_jobs[s])}

\* Mutant: the client is told of every timeout, retried or not.
CheckTimeoutsTellAll ==
  /\ Expired # {}
  /\ g_jobs' = [s \in Slots |-> IF s \in Expired
                                  THEN AfterAttempt(g_jobs[s], "TIMEOUT")
                                  ELSE g_jobs[s]]
  /\ told' = [s \in Slots |-> IF s \in Expired
                                THEN told[s] \cup {"FAILED"} ELSE told[s]]
  /\ g_running_jobs' = g_running_jobs - Cardinality(Expired)
  /\ g_pending_jobs' = g_pending_jobs + Cardinality(Expired \ Doomed)
  /\ g_failed_jobs' = g_failed_jobs + Cardinality(Doomed)
  /\ UNCHANGED <<g_next_job_id, g_completed_jobs, sending, working,
                 send_failures>>

\* job_handler_check_timeouts: one pass over the table under the lock.
CheckTimeouts ==
  /\ Expired # {}
  /\ g_jobs' = [s \in Slots |-> IF s \in Expired
                                  THEN AfterAttempt(g_jobs[s], "TIMEOUT")
                                  ELSE g_jobs[s]]
  /\ told' = [s \in Slots |-> IF s \in Doomed
                                THEN told[s] \cup {"FAILED"} ELSE told[s]]
  /\ g_running_jobs' = g_running_jobs - Cardinality(Expired)
  /\ g_pending_jobs' = g_pending_jobs + Cardinality(Expired \ Doomed)
  /\ g_failed_jobs' = g_failed_jobs + Cardinality(Doomed)
  /\ UNCHANGED <<g_next_job_id, g_completed_jobs, sending, working,
                 send_failures>>

\* get_current_time_ms advances for every running job.
Tick ==
  /\ g_jobs' = [s \in Slots |->
                  IF s \in InState({"ASSIGNED"}) /\ g_jobs[s].elapsed <= JobTimeout
                    THEN [g_jobs[s] EXCEPT !.elapsed = @ + 1]
                    ELSE g_jobs[s]]
  /\ UNCHANGED <<g_next_job_id, gauges, told, sending, working, send_failures>>

-----------------------------------------------------------------------------
\* The job handler with callers that only do what handler threads and workers
\* can do: ask when free, report the job last received, or go away with it.
Request(h) == working[h] = 0 /\ Assign(h)

\* The peer reports its job; a refused report also leaves it without work.
ReportDone(h) ==
  /\ working[h] # 0 /\ sending[h] = 0
  /\ working' = [working EXCEPT ![h] = 0]
  /\ UNCHANGED sending
  /\ \/ Complete(working[h])
     \/ /\ Reportable(working[h]) = {}
        /\ UNCHANGED <<g_jobs, g_next_job_id, gauges, told, send_failures>>

ReportFailed(h) ==
  /\ working[h] # 0 /\ sending[h] = 0
  /\ working' = [working EXCEPT ![h] = 0]
  /\ UNCHANGED sending
  /\ \/ Fail(working[h])
     \/ /\ Reportable(working[h]) = {}
        /\ UNCHANGED <<g_jobs, g_next_job_id, gauges, told, send_failures>>

\* The worker crashes or loses its connection and never reports.
Abandon(h) ==
  /\ working[h] # 0
  /\ working' = [working EXCEPT ![h] = 0]
  /\ UNCHANGED <<g_jobs, g_next_job_id, gauges, told, sending, send_failures>>

\* The worker gives up connection h and carries on, with its job, on k.
Migrate(h, k) ==
  /\ h # k
  /\ working[k] = 0 /\ sending[k] = 0
  /\ working' = [working EXCEPT ![k] = working[h], ![h] = 0]
  /\ UNCHANGED <<g_jobs, g_next_job_id, gauges, told, sending, send_failures>>

HandlerStep(h) ==
  \/ Request(h)
  \/ SendJob(h)
  \/ SendFailed(h)
  \/ ReportDone(h)
  \/ ReportFailed(h)
  \/ Abandon(h)
  \/ \E k \in Handlers : Migrate(h, k)

JobNext ==
  \/ Submit
  \/ CheckTimeouts
  \/ Tick
  \/ \E h \in Handlers : HandlerStep(h)

JobSpec == JobInit /\ [][JobNext]_jobVars

\* The main loop of server_main.c runs check_timeouts every second, sends and
\* worker processing end, and some idle worker keeps asking (job_thread_func).
JobFairness ==
  /\ WF_jobVars(Tick) /\ WF_jobVars(CheckTimeouts)
  /\ WF_jobVars(\E h \in Handlers : Request(h))
  /\ WF_jobVars(\E h \in Handlers :
                  ReportDone(h) \/ ReportFailed(h) \/ Abandon(h))
  /\ \A h \in Handlers : WF_jobVars(SendJob(h) \/ SendFailed(h))

JobFairSpec == JobSpec /\ JobFairness

-----------------------------------------------------------------------------
\* The job array, the counters and the handlers' registers are well typed.
JobTypeOK ==
  /\ g_jobs \in [Slots -> Job]
  /\ g_next_job_id \in 1 .. MaxJobs + 1
  /\ g_pending_jobs \in Int /\ g_running_jobs \in Int
  /\ g_completed_jobs \in Nat /\ g_failed_jobs \in Nat
  /\ told \in [Slots -> SUBSET Verdicts]
  /\ sending \in [Handlers -> 0 .. MaxJobs]
  /\ working \in [Handlers -> 0 .. MaxJobs]
  /\ send_failures \in 0 .. MaxSendFailures

\* Slots fill up in submission order and are never reused, so a job id names
\* one job for ever and a late report can never hit another job.
SlotOrder ==
  \A s \in Slots : g_jobs[s].job_id = IF s < g_next_job_id THEN s ELSE 0

\* Whatever sends fail and whatever races with them, the four statistics of
\* job_handler_get_stats add up to the number of jobs ever submitted.
GaugesConserved ==
  g_pending_jobs + g_running_jobs + g_completed_jobs + g_failed_jobs
    = g_next_job_id - 1

\* lo <= gauge - (number of jobs) <= hi
Off(gauge, S, lo, hi) ==
  /\ gauge - Cardinality(InState(S)) >= lo
  /\ gauge - Cardinality(InState(S)) <= hi

\* The statistics are exact as long as no send to a worker has failed, and
\* each failed send puts each of them off by at most one, in one direction:
\* too few running jobs, too many of the others.
GaugeDrift ==
  /\ Off(g_pending_jobs, {"PENDING"}, 0, send_failures)
  /\ Off(g_running_jobs, {"ASSIGNED"}, -send_failures, 0)
  /\ Off(g_completed_jobs, {"COMPLETED"}, 0, send_failures)
  /\ Off(g_failed_jobs, {"FAILED", "TIMEOUT"}, 0, send_failures)

\* A job is attempted at most MAX_JOB_RETRIES times, plus once per failed
\* send that brought it back to life.
AttemptsBounded ==
  \A s \in Slots : g_jobs[s].retry_count <= MAX_JOB_RETRIES + send_failures

\* Without failed sends, the verdict a client has been told is final: the job
\* is in that state and its client is never told another one.
VerdictMatchesStatus ==
  send_failures = 0 =>
    \A s \in Slots :
      /\ "COMPLETED" \in told[s] <=> g_jobs[s].status = "COMPLETED"
      /\ "FAILED" \in told[s] <=> g_jobs[s].status \in {"FAILED", "TIMEOUT"}

\* Every submitted job reaches a final status, through retries if its workers
\* fail, hang or vanish, as long as only finitely many sends fail.
EveryJobEnds ==
  \A s \in Slots :
    (g_jobs[s].job_id > 0) ~> (g_jobs[s].status \in Terminal)

-----------------------------------------------------------------------------
\* job_handler_complete ignores a failed notification because the client can
\* poll for the job's status: a completed job stays completed.
CompletedIsFinal ==
  [][\A s \in Slots : g_jobs[s].status = "COMPLETED"
                        => g_jobs'[s].status = "COMPLETED"]_jobVars
=============================================================================
