-------------------------- MODULE JobHandler_proofs --------------------------
(***************************************************************************)
(* Proofs about JobHandler, for every table size, timeout, number of       *)
(* retries, set of connections and number of failed sends.                 *)
(***************************************************************************)
EXTENDS JobHandler, FiniteSetTheorems, TLAPS

\* A slot that was never used is as calloc left it, and a handler only sends,
\* and a peer only works on, a job that was submitted.
Fresh ==
  /\ \A s \in Slots : g_jobs[s].job_id = 0 => g_jobs[s].status = "PENDING"
  /\ \A h \in Handlers : /\ sending[h] < g_next_job_id
                         /\ working[h] < g_next_job_id

\* The inductive invariant of the table.
JobInv == JobTypeOK /\ SlotOrder /\ Fresh

\* Every set of slots is finite.
LEMMA SlotSetFinite ==
  ASSUME NEW T \in SUBSET Slots
  PROVE  IsFiniteSet(T) /\ Cardinality(T) \in Nat
<1>1. IsFiniteSet(Slots)
  BY JobAssumption, FS_Interval DEF Slots
<1> QED BY <1>1, FS_Subset, FS_CardinalityType

\* What the operations on one job do to the table: the job in the given slot
\* gets a status and a number of attempts, and its clock is reset.
Update(slot, st, n) ==
  /\ slot \in Slots
  /\ g_jobs' \in [Slots -> Job]
  /\ g_jobs'[slot].job_id = g_jobs[slot].job_id
  /\ g_jobs'[slot].status = st
  /\ g_jobs'[slot].retry_count = n
  /\ \A s \in Slots : s # slot => g_jobs'[s] = g_jobs[s]

-----------------------------------------------------------------------------
\* job_handler_submit fills the slot whose number is the new job's id.
LEMMA SubmitSlot ==
  ASSUME JobInv, Submit
  PROVE  /\ g_next_job_id \in Slots /\ g_jobs[g_next_job_id].job_id = 0
         /\ g_jobs' \in [Slots -> Job]
         /\ g_jobs'[g_next_job_id].job_id = g_next_job_id
         /\ g_jobs'[g_next_job_id].status = "PENDING"
         /\ g_jobs'[g_next_job_id].retry_count = 0
         /\ \A s \in Slots : s # g_next_job_id => g_jobs'[s] = g_jobs[s]
<1>1. PICK slot \in Lowest(FreeSlots) :
        g_jobs' = [g_jobs EXCEPT ![slot] =
                     [FreeJob EXCEPT !.job_id = g_next_job_id]]
  BY DEF Submit
<1>2. slot \in Slots /\ g_jobs[slot].job_id = 0
  BY DEF Lowest, FreeSlots
<1>3. g_next_job_id \in Nat \ {0} /\ slot \in Nat /\ MaxJobs \in Nat
  BY <1>2, JobAssumption DEF JobInv, JobTypeOK, Slots
<1>4. slot >= g_next_job_id
  BY <1>2, <1>3 DEF JobInv, SlotOrder, Slots
<1>5. g_next_job_id \in Slots
  BY <1>2, <1>3, <1>4 DEF Slots
<1>6. g_next_job_id \in FreeSlots
  BY <1>3, <1>5 DEF JobInv, SlotOrder, FreeSlots
<1>7. slot = g_next_job_id
  BY <1>3, <1>4, <1>6 DEF Lowest
<1> DEFINE j == [FreeJob EXCEPT !.job_id = g_next_job_id]
<1>8. /\ j \in Job /\ j.job_id = g_next_job_id
      /\ j.status = "PENDING" /\ j.retry_count = 0
  BY <1>5, JobAssumption DEF FreeJob, Job, Statuses, Slots
<1> HIDE DEF j
<1>9. g_jobs' = [g_jobs EXCEPT ![g_next_job_id] = j]
  BY <1>1, <1>7 DEF j
<1> QED BY <1>2, <1>5, <1>7, <1>8, <1>9 DEF JobInv, JobTypeOK

\* Changing one slot to another version of the same job is an update.
LEMMA UpdateBy ==
  ASSUME JobInv, NEW slot \in Slots, NEW j \in Job,
         j.job_id = g_jobs[slot].job_id,
         g_jobs' = [g_jobs EXCEPT ![slot] = j]
  PROVE  Update(slot, j.status, j.retry_count)
BY DEF Update, JobInv, JobTypeOK

\* What changing the status of a job leaves alone.
LEMMA MovedJob ==
  ASSUME NEW r \in Job, NEW st \in Statuses
  PROVE  /\ Moved(r, st) \in Job
         /\ Moved(r, st).job_id = r.job_id
         /\ Moved(r, st).status = st
         /\ Moved(r, st).retry_count = r.retry_count
<1> DEFINE m == [r EXCEPT !.status = st]
<1>1. /\ m \in Job /\ m.job_id = r.job_id
      /\ m.status = st /\ m.retry_count = r.retry_count
  BY DEF Job
<1>2. Moved(r, st) = [m EXCEPT !.elapsed = 0]
  BY DEF Moved, Job
<1> HIDE DEF m
<1>3. 0 \in 0 .. JobTimeout + 1
  BY JobAssumption
<1> QED BY <1>1, <1>2, <1>3 DEF Job

\* Changing the status of one job is an update.
LEMMA MovedUpdate ==
  ASSUME JobInv, NEW slot \in Slots, NEW st \in Statuses,
         g_jobs' = [g_jobs EXCEPT ![slot] = Moved(@, st)]
  PROVE  Update(slot, st, g_jobs[slot].retry_count)
<1>1. g_jobs[slot] \in Job
  BY DEF JobInv, JobTypeOK
<1>2. /\ Moved(g_jobs[slot], st) \in Job
      /\ Moved(g_jobs[slot], st).job_id = g_jobs[slot].job_id
      /\ Moved(g_jobs[slot], st).status = st
      /\ Moved(g_jobs[slot], st).retry_count = g_jobs[slot].retry_count
  BY <1>1, MovedJob
<1>3. Update(slot, Moved(g_jobs[slot], st).status,
                   Moved(g_jobs[slot], st).retry_count)
  BY <1>2, UpdateBy
<1> QED BY <1>2, <1>3

\* What the end of an attempt does to a job.
LEMMA AfterAttemptJob ==
  ASSUME NEW r \in Job, NEW final \in Statuses
  PROVE  /\ AfterAttempt(r, final) \in Job
         /\ AfterAttempt(r, final).job_id = r.job_id
         /\ AfterAttempt(r, final).status
              = IF LastAttempt(r) THEN final ELSE "PENDING"
         /\ AfterAttempt(r, final).retry_count = r.retry_count + 1
<1> DEFINE m == Moved(r, IF LastAttempt(r) THEN final ELSE "PENDING")
<1>1. /\ m \in Job /\ m.job_id = r.job_id
      /\ m.status = IF LastAttempt(r) THEN final ELSE "PENDING"
      /\ m.retry_count = r.retry_count
  BY MovedJob DEF Statuses
<1>2. AfterAttempt(r, final) = [m EXCEPT !.retry_count = @ + 1]
  BY DEF AfterAttempt
<1> HIDE DEF m
<1> QED BY <1>1, <1>2 DEF Job

\* An id names the slot of the same number.
LEMMA SlotOfId ==
  ASSUME JobInv, NEW id \in 0 .. MaxJobs, NEW slot \in SlotsOf(id)
  PROVE  slot = id /\ slot \in Slots /\ g_jobs[slot].job_id > 0
<1>1. slot \in Slots /\ id > 0 /\ id < g_next_job_id /\ g_jobs[slot].job_id = id
  BY DEF SlotsOf
<1>2. slot \in Nat /\ id \in Nat /\ g_next_job_id \in Nat
  BY <1>1, JobAssumption DEF Slots, JobInv, JobTypeOK
<1> QED BY <1>1, <1>2 DEF JobInv, SlotOrder

\* job_handler_assign moves one pending job to the running ones.
LEMMA AssignUpdate ==
  ASSUME JobInv, NEW h \in Handlers, Assign(h)
  PROVE  \E slot \in InState({"PENDING"}) :
           /\ Update(slot, "ASSIGNED", g_jobs[slot].retry_count)
           /\ sending' = [sending EXCEPT ![h] = g_jobs[slot].job_id]
<1>1. PICK slot \in Lowest(InState({"PENDING"})) :
        /\ g_jobs' = [g_jobs EXCEPT ![slot] = Moved(@, "ASSIGNED")]
        /\ sending' = [sending EXCEPT ![h] = g_jobs[slot].job_id]
  BY DEF Assign
<1>2. slot \in InState({"PENDING"}) /\ slot \in Slots
  BY DEF Lowest, InState
<1>3. Update(slot, "ASSIGNED", g_jobs[slot].retry_count)
  BY <1>1, <1>2, MovedUpdate DEF Statuses
<1> QED BY <1>1, <1>2, <1>3

\* A failed send makes its job pending, from whatever status it has by then.
LEMMA SendFailedUpdate ==
  ASSUME JobInv, NEW h \in Handlers, SendFailed(h)
  PROVE  \E slot \in InState(Statuses) :
           Update(slot, "PENDING", g_jobs[slot].retry_count)
<1>1. PICK slot \in SlotsOf(sending[h]) :
        g_jobs' = [g_jobs EXCEPT ![slot] = Moved(@, "PENDING")]
  BY DEF SendFailed
<1>2. sending[h] \in 0 .. MaxJobs
  BY DEF JobInv, JobTypeOK
<1>3. slot \in Slots /\ g_jobs[slot].job_id > 0 /\ g_jobs[slot] \in Job
  BY <1>2, SlotOfId DEF JobInv, JobTypeOK
<1>4. slot \in InState(Statuses)
  BY <1>3 DEF InState, Job
<1>5. Update(slot, "PENDING", g_jobs[slot].retry_count)
  BY <1>1, <1>3, MovedUpdate DEF Statuses
<1> QED BY <1>4, <1>5

\* job_handler_complete moves one running job to the completed ones.
LEMMA CompleteUpdate ==
  ASSUME JobInv, NEW id \in 0 .. MaxJobs, Complete(id)
  PROVE  \E slot \in InState({"ASSIGNED"}) :
           /\ Update(slot, "COMPLETED", g_jobs[slot].retry_count)
           /\ told' = [told EXCEPT ![slot] = @ \cup {"COMPLETED"}]
<1>1. PICK slot \in Reportable(id) :
        /\ g_jobs' = [g_jobs EXCEPT ![slot] = Moved(@, "COMPLETED")]
        /\ told' = [told EXCEPT ![slot] = @ \cup {"COMPLETED"}]
  BY DEF Complete
<1>2. slot \in InState({"ASSIGNED"}) /\ slot \in Slots
  BY DEF Reportable, InState
<1>3. Update(slot, "COMPLETED", g_jobs[slot].retry_count)
  BY <1>1, <1>2, MovedUpdate DEF Statuses
<1> QED BY <1>1, <1>2, <1>3

\* job_handler_fail moves one running job to the pending or the failed ones.
LEMMA FailUpdate ==
  ASSUME JobInv, NEW id \in 0 .. MaxJobs, Fail(id)
  PROVE  \E slot \in InState({"ASSIGNED"}) :
           \/ /\ g_jobs[slot].retry_count + 1 >= MAX_JOB_RETRIES
              /\ Update(slot, "FAILED", g_jobs[slot].retry_count + 1)
              /\ told' = [told EXCEPT ![slot] = @ \cup {"FAILED"}]
              /\ g_failed_jobs' = g_failed_jobs + 1
              /\ g_pending_jobs' = g_pending_jobs
           \/ /\ g_jobs[slot].retry_count + 1 < MAX_JOB_RETRIES
              /\ Update(slot, "PENDING", g_jobs[slot].retry_count + 1)
              /\ told' = told
              /\ g_failed_jobs' = g_failed_jobs
              /\ g_pending_jobs' = g_pending_jobs + 1
<1>1. PICK slot \in Reportable(id) :
        /\ g_jobs' = [g_jobs EXCEPT ![slot] = AfterAttempt(@, "FAILED")]
        /\ \/ /\ LastAttempt(g_jobs[slot])
              /\ g_failed_jobs' = g_failed_jobs + 1
              /\ told' = [told EXCEPT ![slot] = @ \cup {"FAILED"}]
              /\ UNCHANGED g_pending_jobs
           \/ /\ ~LastAttempt(g_jobs[slot])
              /\ g_pending_jobs' = g_pending_jobs + 1
              /\ UNCHANGED <<g_failed_jobs, told>>
  BY DEF Fail
<1>2. slot \in InState({"ASSIGNED"}) /\ slot \in Slots /\ g_jobs[slot] \in Job
  BY DEF Reportable, InState, JobInv, JobTypeOK
<1>3. g_jobs[slot].retry_count \in Nat /\ MAX_JOB_RETRIES \in Nat
  BY <1>2, JobAssumption DEF Job
<1>4. /\ AfterAttempt(g_jobs[slot], "FAILED") \in Job
      /\ AfterAttempt(g_jobs[slot], "FAILED").job_id = g_jobs[slot].job_id
      /\ AfterAttempt(g_jobs[slot], "FAILED").status
           = IF LastAttempt(g_jobs[slot]) THEN "FAILED" ELSE "PENDING"
      /\ AfterAttempt(g_jobs[slot], "FAILED").retry_count
           = g_jobs[slot].retry_count + 1
  BY <1>2, AfterAttemptJob DEF Statuses
<1>5. Update(slot, AfterAttempt(g_jobs[slot], "FAILED").status,
                   AfterAttempt(g_jobs[slot], "FAILED").retry_count)
  BY <1>1, <1>2, <1>4, UpdateBy
<1>6. CASE LastAttempt(g_jobs[slot])
  <2>1. Update(slot, "FAILED", g_jobs[slot].retry_count + 1)
    BY <1>1, <1>2, <1>4, <1>5, <1>6
  <2> QED BY <1>1, <1>2, <1>3, <1>6, <2>1 DEF LastAttempt
<1>7. CASE ~LastAttempt(g_jobs[slot])
  <2>1. Update(slot, "PENDING", g_jobs[slot].retry_count + 1)
    BY <1>1, <1>2, <1>4, <1>5, <1>7
  <2> QED BY <1>1, <1>2, <1>3, <1>7, <2>1 DEF LastAttempt
<1> QED BY <1>6, <1>7

\* job_handler_check_timeouts ends the attempt of every expired job.
LEMMA CheckTimeoutsJobs ==
  ASSUME JobInv, CheckTimeouts
  PROVE  /\ g_jobs' \in [Slots -> Job]
         /\ \A s \in Slots : g_jobs'[s].job_id = g_jobs[s].job_id
         /\ \A s \in Slots \ Expired : g_jobs'[s] = g_jobs[s]
         /\ \A s \in Expired :
              /\ s \in InState({"ASSIGNED"})
              /\ g_jobs'[s].retry_count = g_jobs[s].retry_count + 1
              /\ g_jobs'[s].status = IF s \in Doomed THEN "TIMEOUT" ELSE "PENDING"
              /\ s \in Doomed <=> g_jobs[s].retry_count + 1 >= MAX_JOB_RETRIES
<1>1. \A s \in Slots :
        g_jobs'[s] = IF s \in Expired THEN AfterAttempt(g_jobs[s], "TIMEOUT")
                                      ELSE g_jobs[s]
  BY DEF CheckTimeouts
<1>2. \A s \in Slots :
        LET j == AfterAttempt(g_jobs[s], "TIMEOUT")
        IN  /\ g_jobs[s] \in Job
            /\ j \in Job /\ j.job_id = g_jobs[s].job_id
            /\ j.status = IF LastAttempt(g_jobs[s]) THEN "TIMEOUT" ELSE "PENDING"
            /\ j.retry_count = g_jobs[s].retry_count + 1
  BY AfterAttemptJob DEF JobInv, JobTypeOK, Statuses
<1>3. g_jobs' \in [Slots -> Job]
  BY <1>2 DEF CheckTimeouts
<1>4. Expired \subseteq Slots /\ Expired \subseteq InState({"ASSIGNED"})
  BY DEF Expired, InState
<1>5. \A s \in Expired :
        s \in Doomed <=> LastAttempt(g_jobs[s])
  BY DEF Doomed
<1> QED BY <1>1, <1>2, <1>3, <1>4, <1>5 DEF LastAttempt

\* The clock only changes how long running jobs have been running.
LEMMA TickJobs ==
  ASSUME JobInv, Tick
  PROVE  /\ g_jobs' \in [Slots -> Job]
         /\ \A s \in Slots : /\ g_jobs'[s].job_id = g_jobs[s].job_id
                             /\ g_jobs'[s].status = g_jobs[s].status
                             /\ g_jobs'[s].retry_count = g_jobs[s].retry_count
<1>1. ASSUME NEW r \in Job, r.elapsed <= JobTimeout
      PROVE  LET j == [r EXCEPT !.elapsed = @ + 1]
             IN  /\ j \in Job /\ j.job_id = r.job_id /\ j.status = r.status
                 /\ j.retry_count = r.retry_count
  <2>1. r.elapsed + 1 \in 0 .. JobTimeout + 1
    BY <1>1, JobAssumption DEF Job
  <2> QED BY <2>1 DEF Job
<1>2. g_jobs \in [Slots -> Job]
  BY DEF JobInv, JobTypeOK
<1>3. \A s \in Slots :
        \/ /\ g_jobs[s].elapsed <= JobTimeout
           /\ g_jobs'[s] = [g_jobs[s] EXCEPT !.elapsed = @ + 1]
        \/ g_jobs'[s] = g_jobs[s]
  BY DEF Tick
<1>4. ASSUME NEW s \in Slots
      PROVE  /\ g_jobs'[s] \in Job
             /\ g_jobs'[s].job_id = g_jobs[s].job_id
             /\ g_jobs'[s].status = g_jobs[s].status
             /\ g_jobs'[s].retry_count = g_jobs[s].retry_count
  BY <1>1, <1>2, <1>3
<1>5. DOMAIN g_jobs' = Slots /\ g_jobs' = [s \in Slots |-> g_jobs'[s]]
  BY DEF Tick
<1> QED BY <1>4, <1>5

-----------------------------------------------------------------------------
\* An update keeps the table in order.
LEMMA UpdateKeeps ==
  ASSUME JobInv, NEW slot \in InState(Statuses), NEW st, NEW n,
         Update(slot, st, n), g_next_job_id' = g_next_job_id
  PROVE  /\ SlotOrder'
         /\ \A s \in Slots :
              g_jobs'[s].job_id = 0 => g_jobs'[s].status = "PENDING"
<1>1. \A s \in Slots : g_jobs'[s].job_id = g_jobs[s].job_id
  BY DEF Update
<1>2. g_jobs[slot].job_id > 0 /\ g_jobs[slot].job_id \in Nat
  BY JobAssumption DEF InState, JobInv, JobTypeOK, Job
<1> QED BY <1>1, <1>2 DEF SlotOrder, Update, JobInv, Fresh

\* job_handler_submit keeps the table's invariant.
LEMMA SubmitInv ==
  ASSUME JobInv, Submit
  PROVE  JobInv'
<1>1. /\ g_next_job_id \in Slots /\ g_jobs[g_next_job_id].job_id = 0
      /\ g_jobs' \in [Slots -> Job]
      /\ g_jobs'[g_next_job_id].job_id = g_next_job_id
      /\ g_jobs'[g_next_job_id].status = "PENDING"
      /\ \A s \in Slots : s # g_next_job_id => g_jobs'[s] = g_jobs[s]
  BY SubmitSlot
<1>2. g_next_job_id' = g_next_job_id + 1
  BY DEF Submit
<1>3. g_next_job_id \in Nat /\ Slots \subseteq Nat /\ MaxJobs \in Nat
  BY <1>1, JobAssumption DEF Slots
<1>4. JobTypeOK'
  BY <1>1, <1>2, <1>3 DEF Submit, JobInv, JobTypeOK, Slots
<1>5. SlotOrder'
  <2> SUFFICES ASSUME NEW s \in Slots
               PROVE  g_jobs'[s].job_id = IF s < g_next_job_id + 1 THEN s ELSE 0
    BY <1>2 DEF SlotOrder
  <2>1. CASE s = g_next_job_id
    BY <1>1, <1>3, <2>1
  <2>2. CASE s # g_next_job_id
    <3>1. s < g_next_job_id + 1 <=> s < g_next_job_id
      BY <1>3, <2>2
    <3>2. g_jobs[s].job_id = IF s < g_next_job_id THEN s ELSE 0
      BY DEF JobInv, SlotOrder
    <3> QED BY <1>1, <2>2, <3>1, <3>2
  <2> QED BY <2>1, <2>2
<1>6. Fresh'
  <2>1. \A s \in Slots : g_jobs'[s].job_id = 0 => g_jobs'[s].status = "PENDING"
    BY <1>1 DEF JobInv, Fresh
  <2>2. \A h \in Handlers : sending[h] \in Nat /\ working[h] \in Nat
    BY JobAssumption DEF JobInv, JobTypeOK
  <2> QED BY <1>2, <1>3, <2>1, <2>2 DEF Submit, JobInv, Fresh
<1> QED BY <1>4, <1>5, <1>6 DEF JobInv

\* job_handler_assign keeps the table's invariant up to the send.
LEMMA AssignInv ==
  ASSUME JobInv, NEW h \in Handlers, Assign(h)
  PROVE  JobInv'
<1>1. PICK slot \in InState({"PENDING"}) :
        /\ Update(slot, "ASSIGNED", g_jobs[slot].retry_count)
        /\ sending' = [sending EXCEPT ![h] = g_jobs[slot].job_id]
  BY AssignUpdate
<1>2. slot \in InState(Statuses) /\ slot \in Slots
  BY DEF InState, Statuses
<1>3. g_jobs[slot].job_id \in 0 .. MaxJobs /\ g_jobs[slot].job_id < g_next_job_id
  <2>1. g_jobs[slot].job_id > 0 /\ g_jobs[slot] \in Job
    BY <1>2 DEF InState, JobInv, JobTypeOK
  <2>2. g_jobs[slot].job_id = IF slot < g_next_job_id THEN slot ELSE 0
    BY <1>2 DEF JobInv, SlotOrder
  <2> QED BY <2>1, <2>2 DEF Job
<1>4. JobTypeOK'
  BY <1>1, <1>3 DEF Update, Assign, JobInv, JobTypeOK
<1>5. Fresh'
  BY <1>1, <1>2, <1>3, UpdateKeeps DEF Assign, JobInv, Fresh, JobTypeOK
<1> QED BY <1>1, <1>2, <1>4, <1>5, UpdateKeeps DEF Assign, JobInv

\* A failed send keeps the table's invariant.
LEMMA SendFailedInv ==
  ASSUME JobInv, NEW h \in Handlers, SendFailed(h)
  PROVE  JobInv'
<1>1. PICK slot \in InState(Statuses) :
        Update(slot, "PENDING", g_jobs[slot].retry_count)
  BY SendFailedUpdate
<1>2. sending' \in [Handlers -> 0 .. MaxJobs]
  BY JobAssumption DEF SendFailed, JobInv, JobTypeOK
<1>3. send_failures' \in 0 .. MaxSendFailures
  BY JobAssumption DEF SendFailed, JobInv, JobTypeOK
<1>4. JobTypeOK'
  BY <1>1, <1>2, <1>3 DEF Update, SendFailed, JobInv, JobTypeOK
<1>5. \A k \in Handlers : sending'[k] < g_next_job_id
  BY JobAssumption DEF SendFailed, JobInv, JobTypeOK, Fresh
<1>6. Fresh'
  BY <1>1, <1>5, UpdateKeeps DEF SendFailed, JobInv, Fresh
<1> QED BY <1>1, <1>4, <1>6, UpdateKeeps DEF SendFailed, JobInv

\* A worker that stops working on its job, and nothing else, is harmless.
LEMMA WorkingInv ==
  ASSUME JobInv, UNCHANGED <<g_jobs, g_next_job_id, gauges, told, send_failures>>,
         sending' \in [Handlers -> 0 .. MaxJobs],
         working' \in [Handlers -> 0 .. MaxJobs],
         \A k \in Handlers : sending'[k] < g_next_job_id /\ working'[k] < g_next_job_id
  PROVE  JobInv'
<1>1. JobTypeOK'
  BY DEF JobInv, JobTypeOK, gauges
<1>2. SlotOrder' /\ Fresh'
  BY DEF JobInv, SlotOrder, Fresh
<1> QED BY <1>1, <1>2 DEF JobInv

\* A report by a worker keeps the table's invariant.
LEMMA ReportInv ==
  ASSUME JobInv, NEW h \in Handlers, ReportDone(h) \/ ReportFailed(h)
  PROVE  JobInv'
<1>1. /\ working' \in [Handlers -> 0 .. MaxJobs] /\ sending' = sending
      /\ \A k \in Handlers : sending[k] < g_next_job_id /\ working'[k] < g_next_job_id
      /\ working[h] \in 0 .. MaxJobs
  BY JobAssumption DEF ReportDone, ReportFailed, JobInv, JobTypeOK, Fresh
<1>2. CASE UNCHANGED <<g_jobs, g_next_job_id, gauges, told, send_failures>>
  BY <1>1, <1>2, WorkingInv DEF JobInv, JobTypeOK
<1>3. ASSUME Complete(working[h]) PROVE JobInv'
  <2>1. PICK slot \in InState({"ASSIGNED"}) :
          /\ Update(slot, "COMPLETED", g_jobs[slot].retry_count)
          /\ told' = [told EXCEPT ![slot] = @ \cup {"COMPLETED"}]
    BY <1>1, <1>3, CompleteUpdate
  <2>2. slot \in InState(Statuses)
    BY DEF InState, Statuses
  <2>3. JobTypeOK'
    BY <1>1, <1>3, <2>1 DEF Update, Complete, JobInv, JobTypeOK, Verdicts
  <2>4. Fresh'
    BY <1>1, <1>3, <2>1, <2>2, UpdateKeeps DEF Complete, Fresh
  <2> QED BY <1>3, <2>1, <2>2, <2>3, <2>4, UpdateKeeps DEF Complete, JobInv
<1>4. ASSUME Fail(working[h]) PROVE JobInv'
  <2>1. PICK slot \in InState({"ASSIGNED"}) :
          \/ /\ Update(slot, "FAILED", g_jobs[slot].retry_count + 1)
             /\ told' = [told EXCEPT ![slot] = @ \cup {"FAILED"}]
             /\ g_failed_jobs' = g_failed_jobs + 1
             /\ g_pending_jobs' = g_pending_jobs
          \/ /\ Update(slot, "PENDING", g_jobs[slot].retry_count + 1)
             /\ told' = told
             /\ g_failed_jobs' = g_failed_jobs
             /\ g_pending_jobs' = g_pending_jobs + 1
    BY <1>1, <1>4, FailUpdate
  <2>2. slot \in InState(Statuses)
    BY DEF InState, Statuses
  <2>3. /\ g_next_job_id' = g_next_job_id /\ send_failures' = send_failures
        /\ g_running_jobs' = g_running_jobs - 1
        /\ g_completed_jobs' = g_completed_jobs
    BY <1>4 DEF Fail
  <2>4. JobTypeOK'
    BY <1>1, <2>1, <2>3 DEF Update, JobInv, JobTypeOK, Verdicts
  <2>5. Fresh'
    BY <1>1, <2>1, <2>2, <2>3, UpdateKeeps DEF Fresh
  <2> QED BY <2>1, <2>2, <2>3, <2>4, <2>5, UpdateKeeps DEF JobInv
<1> QED BY <1>2, <1>3, <1>4 DEF ReportDone, ReportFailed

\* job_handler_check_timeouts keeps the table's invariant.
LEMMA CheckTimeoutsInv ==
  ASSUME JobInv, CheckTimeouts
  PROVE  JobInv'
<1>1. /\ g_jobs' \in [Slots -> Job]
      /\ \A s \in Slots : g_jobs'[s].job_id = g_jobs[s].job_id
      /\ \A s \in Slots \ Expired : g_jobs'[s] = g_jobs[s]
  BY CheckTimeoutsJobs
<1>2. Expired \in SUBSET Slots /\ Doomed \in SUBSET Slots
  BY DEF Expired, Doomed, InState
<1>3. /\ Cardinality(Expired) \in Nat /\ Cardinality(Expired \ Doomed) \in Nat
      /\ Cardinality(Doomed) \in Nat
  BY <1>2, SlotSetFinite
<1>4. told' \in [Slots -> SUBSET Verdicts]
  BY DEF CheckTimeouts, JobInv, JobTypeOK, Verdicts
<1>5. JobTypeOK'
  BY <1>1, <1>3, <1>4 DEF CheckTimeouts, JobInv, JobTypeOK
<1>6. \A s \in Expired : g_jobs[s].job_id > 0
  BY DEF Expired, InState
<1>7. \A s \in Slots : g_jobs'[s].job_id = 0 => g_jobs'[s].status = "PENDING"
  BY <1>1, <1>6 DEF JobInv, Fresh
<1>8. SlotOrder' /\ Fresh'
  BY <1>1, <1>7 DEF CheckTimeouts, JobInv, SlotOrder, Fresh
<1> QED BY <1>5, <1>8 DEF JobInv

\* Every step keeps the invariant of the job table.
LEMMA JobInvStep ==
  ASSUME JobInv, [JobNext]_jobVars
  PROVE  JobInv'
<1>1. CASE UNCHANGED jobVars
  BY <1>1 DEF jobVars, gauges, JobInv, JobTypeOK, SlotOrder, Fresh
<1>2. CASE Tick
  <2>1. JobTypeOK'
    BY <1>2, TickJobs DEF Tick, gauges, JobInv, JobTypeOK
  <2>2. SlotOrder' /\ Fresh'
    BY <1>2, TickJobs DEF Tick, JobInv, SlotOrder, Fresh
  <2> QED BY <2>1, <2>2 DEF JobInv
<1>3. ASSUME NEW h \in Handlers, SendJob(h) \/ Abandon(h)
      PROVE  JobInv'
  <2>1. /\ sending' \in [Handlers -> 0 .. MaxJobs]
        /\ working' \in [Handlers -> 0 .. MaxJobs]
    BY <1>3, JobAssumption DEF SendJob, Abandon, JobInv, JobTypeOK
  <2>2. \A k \in Handlers :
          sending'[k] < g_next_job_id /\ working'[k] < g_next_job_id
    BY <1>3, JobAssumption DEF SendJob, Abandon, JobInv, JobTypeOK, Fresh
  <2> QED BY <1>3, <2>1, <2>2, WorkingInv DEF SendJob, Abandon
<1>4. ASSUME NEW h \in Handlers, NEW k \in Handlers, Migrate(h, k)
      PROVE  JobInv'
  <2>1. /\ sending' \in [Handlers -> 0 .. MaxJobs]
        /\ working' \in [Handlers -> 0 .. MaxJobs]
    BY <1>4, JobAssumption DEF Migrate, JobInv, JobTypeOK
  <2>2. \A l \in Handlers :
          sending'[l] < g_next_job_id /\ working'[l] < g_next_job_id
    BY <1>4, JobAssumption DEF Migrate, JobInv, JobTypeOK, Fresh
  <2> QED BY <1>4, <2>1, <2>2, WorkingInv DEF Migrate
<1> QED BY <1>1, <1>2, <1>3, <1>4, SubmitInv, CheckTimeoutsInv, AssignInv,
           SendFailedInv, ReportInv
        DEF JobNext, HandlerStep, Request

\* job_handler_init establishes it.
LEMMA JobInitially == JobInit => JobInv
BY JobAssumption
   DEF JobInit, JobInv, JobTypeOK, SlotOrder, Fresh, Slots, FreeJob, Job, Statuses

\* The job table is well typed and a job id names one slot for ever, whatever
\* workers, sends and timeouts do.
THEOREM JobTableSafe == JobSpec => [](JobTypeOK /\ SlotOrder)
<1>1. JobInit => JobInv
  BY JobInitially
<1>2. JobInv /\ [JobNext]_jobVars => JobInv'
  BY JobInvStep
<1>3. JobInv => JobTypeOK /\ SlotOrder
  BY DEF JobInv
<1> QED BY <1>1, <1>2, <1>3, PTL DEF JobSpec

-----------------------------------------------------------------------------
(***************************************************************************)
(* The statistics, the attempts and the verdicts.                          *)
(***************************************************************************)
\* The number of jobs in one of the statuses of S.
Count(S) == Cardinality(InState(S))

\* Counts are natural numbers, before and after a step.
LEMMA CountType ==
  ASSUME NEW S
  PROVE  Count(S) \in Nat /\ Count(S)' \in Nat
<1>1. InState(S) \in SUBSET Slots /\ InState(S)' \in SUBSET Slots
  BY DEF InState
<1> QED BY <1>1, SlotSetFinite DEF Count

\* An update takes the job out of the count of its old status and into the
\* one of its new status.
LEMMA Recount ==
  ASSUME JobInv, NEW S, NEW slot \in InState(Statuses), NEW st, NEW n,
         Update(slot, st, n)
  PROVE  Count(S)' = Count(S) + (IF st \in S THEN 1 ELSE 0)
                              - (IF g_jobs[slot].status \in S THEN 1 ELSE 0)
<1>1. slot \in Slots /\ g_jobs'[slot].job_id > 0 /\ g_jobs[slot].job_id > 0
  BY DEF InState, Update
<1>2. IsFiniteSet(InState(S)) /\ IsFiniteSet(InState(S) \ {slot})
  <2>1. InState(S) \in SUBSET Slots /\ InState(S) \ {slot} \in SUBSET Slots
    BY DEF InState
  <2> QED BY <2>1, SlotSetFinite
<1>3. slot \in InState(S) <=> g_jobs[slot].status \in S
  BY <1>1 DEF InState
<1>4. Cardinality(InState(S) \ {slot})
        = Count(S) - (IF g_jobs[slot].status \in S THEN 1 ELSE 0)
  BY <1>2, <1>3, CountType, FS_RemoveElement DEF Count
<1>5. CASE st \in S
  <2>1. InState(S)' = (InState(S) \ {slot}) \cup {slot}
    BY <1>1, <1>5 DEF InState, Update
  <2>2. Count(S)' = Cardinality(InState(S) \ {slot}) + 1
    BY <1>2, <2>1, FS_AddElement DEF Count
  <2> QED BY <1>4, <1>5, <2>2, CountType
<1>6. CASE st \notin S
  <2>1. InState(S)' = InState(S) \ {slot}
    BY <1>1, <1>6 DEF InState, Update
  <2> QED BY <1>4, <1>6, <2>1, CountType DEF Count
<1> QED BY <1>5, <1>6

\* Moving one job between two statuses changes only the counts of the two.
LEMMA RecountAll ==
  ASSUME JobInv, NEW slot \in InState(Statuses), NEW st \in Statuses, NEW n,
         Update(slot, st, n)
  PROVE  LET old == g_jobs[slot].status
         IN  /\ old \in Statuses
             /\ Count({"PENDING"})' = Count({"PENDING"})
                  + (IF st = "PENDING" THEN 1 ELSE 0)
                  - (IF old = "PENDING" THEN 1 ELSE 0)
             /\ Count({"ASSIGNED"})' = Count({"ASSIGNED"})
                  + (IF st = "ASSIGNED" THEN 1 ELSE 0)
                  - (IF old = "ASSIGNED" THEN 1 ELSE 0)
             /\ Count({"COMPLETED"})' = Count({"COMPLETED"})
                  + (IF st = "COMPLETED" THEN 1 ELSE 0)
                  - (IF old = "COMPLETED" THEN 1 ELSE 0)
             /\ Count({"FAILED", "TIMEOUT"})' = Count({"FAILED", "TIMEOUT"})
                  + (IF st \in {"FAILED", "TIMEOUT"} THEN 1 ELSE 0)
                  - (IF old \in {"FAILED", "TIMEOUT"} THEN 1 ELSE 0)
<1>1. g_jobs[slot].status \in Statuses
  BY DEF InState
<1>2. \A x, y : x \in {y} <=> x = y
  OBVIOUS
<1>3. /\ Count({"PENDING"})' = Count({"PENDING"})
           + (IF st \in {"PENDING"} THEN 1 ELSE 0)
           - (IF g_jobs[slot].status \in {"PENDING"} THEN 1 ELSE 0)
      /\ Count({"ASSIGNED"})' = Count({"ASSIGNED"})
           + (IF st \in {"ASSIGNED"} THEN 1 ELSE 0)
           - (IF g_jobs[slot].status \in {"ASSIGNED"} THEN 1 ELSE 0)
      /\ Count({"COMPLETED"})' = Count({"COMPLETED"})
           + (IF st \in {"COMPLETED"} THEN 1 ELSE 0)
           - (IF g_jobs[slot].status \in {"COMPLETED"} THEN 1 ELSE 0)
      /\ Count({"FAILED", "TIMEOUT"})' = Count({"FAILED", "TIMEOUT"})
           + (IF st \in {"FAILED", "TIMEOUT"} THEN 1 ELSE 0)
           - (IF g_jobs[slot].status \in {"FAILED", "TIMEOUT"} THEN 1 ELSE 0)
  BY Recount
<1> QED BY <1>1, <1>2, <1>3

-----------------------------------------------------------------------------
\* GaugeDrift in terms of the four counts.
LEMMA DriftMeans ==
  GaugeDrift <=>
    /\ g_pending_jobs - Count({"PENDING"}) >= 0
    /\ g_pending_jobs - Count({"PENDING"}) <= send_failures
    /\ g_running_jobs - Count({"ASSIGNED"}) >= -send_failures
    /\ g_running_jobs - Count({"ASSIGNED"}) <= 0
    /\ g_completed_jobs - Count({"COMPLETED"}) >= 0
    /\ g_completed_jobs - Count({"COMPLETED"}) <= send_failures
    /\ g_failed_jobs - Count({"FAILED", "TIMEOUT"}) >= 0
    /\ g_failed_jobs - Count({"FAILED", "TIMEOUT"}) <= send_failures
BY DEF GaugeDrift, Off, Count

-----------------------------------------------------------------------------
\* What a step can be, as far as statistics and verdicts are concerned: nothing
\* happens; a job starts, is put back by a failed send, is completed, fails for
\* good or is to be tried again.
Quiet ==
  /\ UNCHANGED <<g_next_job_id, gauges, told, send_failures>>
  /\ \A s \in Slots : /\ g_jobs'[s].job_id = g_jobs[s].job_id
                      /\ g_jobs'[s].status = g_jobs[s].status
                      /\ g_jobs'[s].retry_count = g_jobs[s].retry_count

Started(slot) ==
  /\ slot \in InState({"PENDING"})
  /\ Update(slot, "ASSIGNED", g_jobs[slot].retry_count)
  /\ g_pending_jobs' = g_pending_jobs - 1
  /\ g_running_jobs' = g_running_jobs + 1
  /\ UNCHANGED <<g_next_job_id, g_completed_jobs, g_failed_jobs, told, send_failures>>

PutBack(slot) ==
  /\ slot \in InState(Statuses)
  /\ Update(slot, "PENDING", g_jobs[slot].retry_count)
  /\ g_pending_jobs' = g_pending_jobs + 1
  /\ g_running_jobs' = g_running_jobs - 1
  /\ send_failures' = send_failures + 1
  /\ UNCHANGED <<g_next_job_id, g_completed_jobs, g_failed_jobs, told>>

Completed(slot) ==
  /\ slot \in InState({"ASSIGNED"})
  /\ Update(slot, "COMPLETED", g_jobs[slot].retry_count)
  /\ told' = [told EXCEPT ![slot] = @ \cup {"COMPLETED"}]
  /\ g_running_jobs' = g_running_jobs - 1
  /\ g_completed_jobs' = g_completed_jobs + 1
  /\ UNCHANGED <<g_next_job_id, g_pending_jobs, g_failed_jobs, send_failures>>

GivenUp(slot) ==
  /\ slot \in InState({"ASSIGNED"})
  /\ Update(slot, "FAILED", g_jobs[slot].retry_count + 1)
  /\ told' = [told EXCEPT ![slot] = @ \cup {"FAILED"}]
  /\ g_running_jobs' = g_running_jobs - 1
  /\ g_failed_jobs' = g_failed_jobs + 1
  /\ UNCHANGED <<g_next_job_id, g_pending_jobs, g_completed_jobs, send_failures>>

Retried(slot) ==
  /\ slot \in InState({"ASSIGNED"})
  /\ g_jobs[slot].retry_count + 1 < MAX_JOB_RETRIES
  /\ Update(slot, "PENDING", g_jobs[slot].retry_count + 1)
  /\ g_running_jobs' = g_running_jobs - 1
  /\ g_pending_jobs' = g_pending_jobs + 1
  /\ UNCHANGED <<g_next_job_id, g_failed_jobs, g_completed_jobs, told, send_failures>>

\* Every step is one of these, a submission or a pass over the timeouts.
LEMMA StepKinds ==
  ASSUME JobInv, [JobNext]_jobVars
  PROVE  \/ Quiet
         \/ Submit
         \/ CheckTimeouts
         \/ \E slot \in Slots : \/ Started(slot) \/ PutBack(slot)
                                \/ Completed(slot) \/ GivenUp(slot)
                                \/ Retried(slot)
<1>1. CASE UNCHANGED jobVars
  BY <1>1 DEF jobVars, Quiet
<1>2. CASE Tick
  BY <1>2, TickJobs DEF Tick, Quiet
<1>3. ASSUME NEW h \in Handlers,
             SendJob(h) \/ Abandon(h) \/ \E k \in Handlers : Migrate(h, k)
      PROVE  Quiet
  BY <1>3 DEF SendJob, Abandon, Migrate, Quiet
<1>4. ASSUME NEW h \in Handlers, Assign(h)
      PROVE  \E slot \in Slots : Started(slot)
  <2>1. PICK slot \in InState({"PENDING"}) :
          Update(slot, "ASSIGNED", g_jobs[slot].retry_count)
    BY <1>4, AssignUpdate
  <2>2. Started(slot)
    BY <1>4, <2>1 DEF Assign, Started
  <2> QED BY <2>1, <2>2 DEF Update
<1>5. ASSUME NEW h \in Handlers, SendFailed(h)
      PROVE  \E slot \in Slots : PutBack(slot)
  <2>1. PICK slot \in InState(Statuses) :
          Update(slot, "PENDING", g_jobs[slot].retry_count)
    BY <1>5, SendFailedUpdate
  <2>2. PutBack(slot)
    BY <1>5, <2>1 DEF SendFailed, PutBack
  <2> QED BY <2>1, <2>2 DEF Update
<1>6. ASSUME NEW id \in 0 .. MaxJobs, Complete(id)
      PROVE  \E slot \in Slots : Completed(slot)
  <2>1. PICK slot \in InState({"ASSIGNED"}) :
          /\ Update(slot, "COMPLETED", g_jobs[slot].retry_count)
          /\ told' = [told EXCEPT ![slot] = @ \cup {"COMPLETED"}]
    BY <1>6, CompleteUpdate
  <2>2. Completed(slot)
    BY <1>6, <2>1 DEF Complete, Completed
  <2> QED BY <2>1, <2>2 DEF Update
<1>7. ASSUME NEW id \in 0 .. MaxJobs, Fail(id)
      PROVE  \E slot \in Slots : GivenUp(slot) \/ Retried(slot)
  <2>1. PICK slot \in InState({"ASSIGNED"}) :
          \/ /\ g_jobs[slot].retry_count + 1 >= MAX_JOB_RETRIES
             /\ Update(slot, "FAILED", g_jobs[slot].retry_count + 1)
             /\ told' = [told EXCEPT ![slot] = @ \cup {"FAILED"}]
             /\ g_failed_jobs' = g_failed_jobs + 1
             /\ g_pending_jobs' = g_pending_jobs
          \/ /\ g_jobs[slot].retry_count + 1 < MAX_JOB_RETRIES
             /\ Update(slot, "PENDING", g_jobs[slot].retry_count + 1)
             /\ told' = told
             /\ g_failed_jobs' = g_failed_jobs
             /\ g_pending_jobs' = g_pending_jobs + 1
    BY <1>7, FailUpdate
  <2>2. GivenUp(slot) \/ Retried(slot)
    BY <1>7, <2>1 DEF Fail, GivenUp, Retried
  <2> QED BY <2>1, <2>2 DEF Update
<1>8. ASSUME NEW h \in Handlers, ReportDone(h) \/ ReportFailed(h)
      PROVE  \/ Quiet
             \/ \E slot \in Slots : Completed(slot) \/ GivenUp(slot) \/ Retried(slot)
  <2>1. working[h] \in 0 .. MaxJobs
    BY DEF JobInv, JobTypeOK
  <2>2. \/ Complete(working[h])
        \/ Fail(working[h])
        \/ UNCHANGED <<g_jobs, g_next_job_id, gauges, told, send_failures>>
    BY <1>8 DEF ReportDone, ReportFailed
  <2>3. CASE UNCHANGED <<g_jobs, g_next_job_id, gauges, told, send_failures>>
    BY <2>3 DEF Quiet
  <2> QED BY <1>6, <1>7, <2>1, <2>2, <2>3
<1> QED BY <1>1, <1>2, <1>3, <1>4, <1>5, <1>8 DEF JobNext, HandlerStep, Request

-----------------------------------------------------------------------------
\* A pass over the timeouts moves the expired jobs, each to one other count.
LEMMA RecountTimeouts ==
  ASSUME JobInv, CheckTimeouts
  PROVE  /\ Count({"PENDING"})' = Count({"PENDING"}) + Cardinality(Expired \ Doomed)
         /\ Count({"ASSIGNED"})' = Count({"ASSIGNED"}) - Cardinality(Expired)
         /\ Count({"COMPLETED"})' = Count({"COMPLETED"})
         /\ Count({"FAILED", "TIMEOUT"})'
              = Count({"FAILED", "TIMEOUT"}) + Cardinality(Doomed)
         /\ Cardinality(Expired)
              = Cardinality(Doomed) + Cardinality(Expired \ Doomed)
         /\ Cardinality(Doomed) \in Nat /\ Cardinality(Expired \ Doomed) \in Nat
<1>1. /\ \A s \in Slots : g_jobs'[s].job_id = g_jobs[s].job_id
      /\ \A s \in Slots \ Expired : g_jobs'[s] = g_jobs[s]
      /\ \A s \in Expired : g_jobs'[s].status
                              = IF s \in Doomed THEN "TIMEOUT" ELSE "PENDING"
  BY CheckTimeoutsJobs
<1>2. /\ Expired \subseteq InState({"ASSIGNED"}) /\ Doomed \subseteq Expired
      /\ \A S : InState(S) \subseteq Slots
  BY DEF Expired, Doomed, InState
<1>3. \A T \in SUBSET Slots : IsFiniteSet(T) /\ Cardinality(T) \in Nat
  BY SlotSetFinite
<1>4. \A S, T \in SUBSET Slots :
        S \cap T = {} => Cardinality(S \cup T) = Cardinality(S) + Cardinality(T)
  <2> SUFFICES ASSUME NEW S \in SUBSET Slots, NEW T \in SUBSET Slots,
                      S \cap T = {}
               PROVE  Cardinality(S \cup T) = Cardinality(S) + Cardinality(T)
    OBVIOUS
  <2>1. /\ IsFiniteSet(S) /\ Cardinality(S) \in Nat
        /\ IsFiniteSet(T) /\ Cardinality(T) \in Nat
    BY <1>3
  <2>2. Cardinality(S \cup T)
          = Cardinality(S) + Cardinality(T) - Cardinality(S \cap T)
    BY <2>1, FS_Union
  <2>3. Cardinality(S \cap T) = 0
    BY FS_EmptySet
  <2> QED BY <2>1, <2>2, <2>3
<1>5. Expired \in SUBSET Slots /\ Doomed \in SUBSET Slots
      /\ Expired \ Doomed \in SUBSET Slots
  BY <1>2
<1>6. \A s \in Expired : g_jobs[s].job_id > 0 /\ g_jobs[s].status = "ASSIGNED"
  BY DEF Expired, InState
<1>7. Count({"PENDING"})' = Count({"PENDING"}) + Cardinality(Expired \ Doomed)
  <2>1. InState({"PENDING"})' = InState({"PENDING"}) \cup (Expired \ Doomed)
    BY <1>1, <1>5, <1>6 DEF InState
  <2>2. InState({"PENDING"}) \cap (Expired \ Doomed) = {}
    BY <1>6 DEF InState
  <2> QED BY <1>2, <1>4, <1>5, <2>1, <2>2 DEF Count
<1>8. Count({"FAILED", "TIMEOUT"})'
        = Count({"FAILED", "TIMEOUT"}) + Cardinality(Doomed)
  <2>1. InState({"FAILED", "TIMEOUT"})' = InState({"FAILED", "TIMEOUT"}) \cup Doomed
    BY <1>1, <1>2, <1>5, <1>6 DEF InState
  <2>2. InState({"FAILED", "TIMEOUT"}) \cap Doomed = {}
    BY <1>2, <1>6 DEF InState
  <2> QED BY <1>2, <1>4, <1>5, <2>1, <2>2 DEF Count
<1>9. Count({"COMPLETED"})' = Count({"COMPLETED"})
  <2>1. InState({"COMPLETED"})' = InState({"COMPLETED"})
    BY <1>1, <1>5, <1>6 DEF InState
  <2> QED BY <2>1 DEF Count
<1>10. Count({"ASSIGNED"}) = Count({"ASSIGNED"})' + Cardinality(Expired)
  <2>1. InState({"ASSIGNED"}) = InState({"ASSIGNED"})' \cup Expired
    BY <1>1, <1>2, <1>5, <1>6 DEF InState
  <2>2. InState({"ASSIGNED"})' \cap Expired = {}
    BY <1>1 DEF InState
  <2>3. InState({"ASSIGNED"})' \in SUBSET Slots
    BY DEF InState
  <2> QED BY <1>4, <1>5, <2>1, <2>2, <2>3 DEF Count
<1>11. Cardinality(Expired) = Cardinality(Doomed) + Cardinality(Expired \ Doomed)
  <2>1. Expired = Doomed \cup (Expired \ Doomed) /\ Doomed \cap (Expired \ Doomed) = {}
    BY <1>2
  <2> QED BY <1>4, <1>5, <2>1
<1> QED BY <1>3, <1>5, <1>7, <1>8, <1>9, <1>10, <1>11, CountType

-----------------------------------------------------------------------------
\* Every step keeps the sum of the four statistics.
LEMMA ConservedStep ==
  ASSUME JobInv, GaugesConserved, [JobNext]_jobVars
  PROVE  GaugesConserved'
<1>1. /\ g_pending_jobs \in Int /\ g_running_jobs \in Int
      /\ g_completed_jobs \in Int /\ g_failed_jobs \in Int
      /\ g_next_job_id \in Int
  BY JobAssumption DEF JobInv, JobTypeOK
<1>2. CASE Quiet
  BY <1>2 DEF Quiet, gauges, GaugesConserved
<1>3. CASE Submit
  BY <1>1, <1>3 DEF Submit, GaugesConserved
<1>4. CASE CheckTimeouts
  BY <1>1, <1>4, RecountTimeouts DEF CheckTimeouts, GaugesConserved
<1>5. ASSUME NEW slot \in Slots,
             \/ Started(slot) \/ PutBack(slot) \/ Completed(slot)
             \/ GivenUp(slot) \/ Retried(slot)
      PROVE  GaugesConserved'
  BY <1>1, <1>5
     DEF Started, PutBack, Completed, GivenUp, Retried, GaugesConserved
<1> QED BY <1>2, <1>3, <1>4, <1>5, StepKinds

\* Every step keeps the statistics close to the counts they stand for.
LEMMA DriftStep ==
  ASSUME JobInv, GaugeDrift, [JobNext]_jobVars
  PROVE  GaugeDrift'
<1> DEFINE P == Count({"PENDING"})
           A == Count({"ASSIGNED"})
           C == Count({"COMPLETED"})
           F == Count({"FAILED", "TIMEOUT"})
<1>1. /\ g_pending_jobs \in Int /\ g_running_jobs \in Int
      /\ g_completed_jobs \in Int /\ g_failed_jobs \in Int
      /\ send_failures \in Nat
      /\ P \in Nat /\ A \in Nat /\ C \in Nat /\ F \in Nat
  BY JobAssumption, CountType DEF JobInv, JobTypeOK
<1>2. /\ g_pending_jobs - P >= 0 /\ g_pending_jobs - P <= send_failures
      /\ g_running_jobs - A >= -send_failures /\ g_running_jobs - A <= 0
      /\ g_completed_jobs - C >= 0 /\ g_completed_jobs - C <= send_failures
      /\ g_failed_jobs - F >= 0 /\ g_failed_jobs - F <= send_failures
  BY DriftMeans
<1> SUFFICES
      /\ g_pending_jobs' - P' >= 0 /\ g_pending_jobs' - P' <= send_failures'
      /\ g_running_jobs' - A' >= -send_failures' /\ g_running_jobs' - A' <= 0
      /\ g_completed_jobs' - C' >= 0 /\ g_completed_jobs' - C' <= send_failures'
      /\ g_failed_jobs' - F' >= 0 /\ g_failed_jobs' - F' <= send_failures'
  BY DEF GaugeDrift, Off, Count
<1>3. CASE Quiet
  <2>1. \A S : InState(S)' = InState(S)
    BY <1>3 DEF Quiet, InState
  <2>2. P' = P /\ A' = A /\ C' = C /\ F' = F
    BY <2>1 DEF Count
  <2> QED BY <1>2, <1>3, <2>2 DEF Quiet, gauges
<1>4. CASE Submit
  <2>1. /\ g_next_job_id \in Slots /\ g_next_job_id \in Nat
        /\ g_next_job_id > 0 /\ g_jobs[g_next_job_id].job_id = 0
        /\ g_jobs'[g_next_job_id].job_id = g_next_job_id
        /\ g_jobs'[g_next_job_id].status = "PENDING"
        /\ \A s \in Slots : s # g_next_job_id => g_jobs'[s] = g_jobs[s]
    BY <1>4, SubmitSlot, JobAssumption DEF JobInv, JobTypeOK
  <2>2. /\ InState({"PENDING"})' = InState({"PENDING"}) \cup {g_next_job_id}
        /\ g_next_job_id \notin InState({"PENDING"})
    <3>1. g_next_job_id \in InState({"PENDING"})'
      BY <2>1 DEF InState
    <3>2. \A s \in Slots : s # g_next_job_id =>
            (s \in InState({"PENDING"})' <=> s \in InState({"PENDING"}))
      BY <2>1 DEF InState
    <3>3. g_next_job_id \notin InState({"PENDING"})
      BY <2>1 DEF InState
    <3>4. InState({"PENDING"}) \subseteq Slots /\ InState({"PENDING"})' \subseteq Slots
      BY DEF InState
    <3> QED BY <2>1, <3>1, <3>2, <3>3, <3>4
  <2>3. /\ InState({"ASSIGNED"})' = InState({"ASSIGNED"})
        /\ InState({"COMPLETED"})' = InState({"COMPLETED"})
        /\ InState({"FAILED", "TIMEOUT"})' = InState({"FAILED", "TIMEOUT"})
    <3>1. ASSUME NEW S, "PENDING" \notin S
          PROVE  InState(S)' = InState(S)
      <4>1. \A s \in Slots : s # g_next_job_id =>
              (s \in InState(S)' <=> s \in InState(S))
        BY <2>1 DEF InState
      <4>2. g_next_job_id \notin InState(S) /\ g_next_job_id \notin InState(S)'
        BY <2>1, <3>1 DEF InState
      <4>3. InState(S) \subseteq Slots /\ InState(S)' \subseteq Slots
        BY DEF InState
      <4> QED BY <4>1, <4>2, <4>3
    <3> QED BY <3>1
  <2>4. InState({"PENDING"}) \in SUBSET Slots
    BY DEF InState
  <2>5. P' = P + 1 /\ A' = A /\ C' = C /\ F' = F
    BY <2>2, <2>3, <2>4, SlotSetFinite, FS_AddElement DEF Count
  <2> HIDE DEF P, A, C, F
  <2> QED BY <1>1, <1>2, <1>4, <2>5 DEF Submit
<1>5. CASE CheckTimeouts
  <2>1. /\ P' = P + Cardinality(Expired \ Doomed)
        /\ A' = A - Cardinality(Expired)
        /\ C' = C
        /\ F' = F + Cardinality(Doomed)
        /\ Cardinality(Expired) = Cardinality(Doomed) + Cardinality(Expired \ Doomed)
        /\ Cardinality(Doomed) \in Nat /\ Cardinality(Expired \ Doomed) \in Nat
    BY <1>5, RecountTimeouts
  <2> HIDE DEF P, A, C, F
  <2> QED BY <1>1, <1>2, <1>5, <2>1 DEF CheckTimeouts
<1>6. ASSUME NEW slot \in Slots, Started(slot) PROVE GaugeDrift'
  <2>1. slot \in InState(Statuses) /\ g_jobs[slot].status = "PENDING"
    BY <1>6 DEF Started, InState, Statuses
  <2>2. P' = P - 1 /\ A' = A + 1 /\ C' = C /\ F' = F
    BY <1>1, <1>6, <2>1, RecountAll DEF Started, Statuses
  <2> HIDE DEF P, A, C, F
  <2>3. /\ g_pending_jobs' - P' = g_pending_jobs - P
        /\ g_running_jobs' - A' = g_running_jobs - A
        /\ g_completed_jobs' - C' = g_completed_jobs - C
        /\ g_failed_jobs' - F' = g_failed_jobs - F
        /\ send_failures' = send_failures
    BY <1>1, <1>6, <2>2 DEF Started
  <2> QED BY <1>2, <2>3 DEF GaugeDrift, Off, Count, P, A, C, F
<1>7. ASSUME NEW slot \in Slots, PutBack(slot) PROVE GaugeDrift'
  <2>1. /\ g_jobs[slot].status \in Statuses /\ slot \in InState(Statuses)
        /\ P' = P + 1 - (IF g_jobs[slot].status = "PENDING" THEN 1 ELSE 0)
        /\ A' = A - (IF g_jobs[slot].status = "ASSIGNED" THEN 1 ELSE 0)
        /\ C' = C - (IF g_jobs[slot].status = "COMPLETED" THEN 1 ELSE 0)
        /\ F' = F - (IF g_jobs[slot].status \in {"FAILED", "TIMEOUT"} THEN 1 ELSE 0)
    BY <1>1, <1>7, RecountAll DEF PutBack, Statuses
  <2> HIDE DEF P, A, C, F
  <2>2. /\ P' = P \/ P' = P + 1
        /\ A' = A \/ A' = A - 1
        /\ C' = C \/ C' = C - 1
        /\ F' = F \/ F' = F - 1
    BY <1>1, <2>1
  <2>3. /\ g_pending_jobs' - P' >= 0 /\ g_pending_jobs' - P' <= send_failures'
        /\ g_running_jobs' - A' >= -send_failures' /\ g_running_jobs' - A' <= 0
        /\ g_completed_jobs' - C' >= 0 /\ g_completed_jobs' - C' <= send_failures'
        /\ g_failed_jobs' - F' >= 0 /\ g_failed_jobs' - F' <= send_failures'
    BY <1>1, <1>2, <1>7, <2>2 DEF PutBack
  <2> QED BY <2>3 DEF GaugeDrift, Off, Count, P, A, C, F
<1>8. ASSUME NEW slot \in Slots,
             Completed(slot) \/ GivenUp(slot) \/ Retried(slot)
      PROVE  GaugeDrift'
  <2>1. slot \in InState(Statuses) /\ g_jobs[slot].status = "ASSIGNED"
    BY <1>8 DEF Completed, GivenUp, Retried, InState, Statuses
  <2>2. /\ Completed(slot) => P' = P /\ A' = A - 1 /\ C' = C + 1 /\ F' = F
        /\ GivenUp(slot) => P' = P /\ A' = A - 1 /\ C' = C /\ F' = F + 1
        /\ Retried(slot) => P' = P + 1 /\ A' = A - 1 /\ C' = C /\ F' = F
    BY <1>1, <2>1, RecountAll DEF Completed, GivenUp, Retried, Statuses
  <2> HIDE DEF P, A, C, F
  <2>3. /\ g_pending_jobs' - P' = g_pending_jobs - P
        /\ g_running_jobs' - A' = g_running_jobs - A
        /\ g_completed_jobs' - C' = g_completed_jobs - C
        /\ g_failed_jobs' - F' = g_failed_jobs - F
        /\ send_failures' = send_failures
    BY <1>1, <1>8, <2>2 DEF Completed, GivenUp, Retried
  <2> QED BY <1>2, <2>3 DEF GaugeDrift, Off, Count, P, A, C, F
<1> QED BY <1>3, <1>4, <1>5, <1>6, <1>7, <1>8, StepKinds DEF GaugeDrift, Off, Count

-----------------------------------------------------------------------------
\* A job that is not over has an attempt left, possibly one that a failed send
\* gave back to it.
AttemptsLeft ==
  \A s \in Slots :
    /\ g_jobs[s].retry_count <= MAX_JOB_RETRIES + send_failures
    /\ g_jobs[s].status \notin Terminal
         => g_jobs[s].retry_count < MAX_JOB_RETRIES + send_failures

\* Every step keeps it so.
LEMMA AttemptsStep ==
  ASSUME JobInv, AttemptsLeft, [JobNext]_jobVars
  PROVE  AttemptsLeft'
<1>1. /\ MAX_JOB_RETRIES \in Nat \ {0} /\ send_failures \in Nat
      /\ \A s \in Slots : /\ g_jobs[s].retry_count \in Nat
                          /\ g_jobs[s].status \in Statuses
  BY JobAssumption DEF JobInv, JobTypeOK, Job
<1>2. CASE Quiet
  BY <1>2 DEF Quiet, AttemptsLeft
<1>3. CASE Submit
  <2>1. /\ g_jobs'[g_next_job_id].retry_count = 0
        /\ \A s \in Slots : s # g_next_job_id => g_jobs'[s] = g_jobs[s]
        /\ send_failures' = send_failures
    BY <1>3, SubmitSlot DEF Submit
  <2> QED BY <1>1, <2>1 DEF AttemptsLeft
<1>4. CASE CheckTimeouts
  <2> SUFFICES ASSUME NEW s \in Slots
               PROVE  /\ g_jobs'[s].retry_count <= MAX_JOB_RETRIES + send_failures'
                      /\ g_jobs'[s].status \notin Terminal
                           => g_jobs'[s].retry_count < MAX_JOB_RETRIES + send_failures'
    BY DEF AttemptsLeft
  <2>1. send_failures' = send_failures
    BY <1>4 DEF CheckTimeouts
  <2>2. CASE s \in Expired
    <3>1. /\ g_jobs[s].status = "ASSIGNED"
          /\ g_jobs'[s].retry_count = g_jobs[s].retry_count + 1
          /\ g_jobs'[s].status = IF g_jobs[s].retry_count + 1 >= MAX_JOB_RETRIES
                                   THEN "TIMEOUT" ELSE "PENDING"
      BY <1>4, <2>2, CheckTimeoutsJobs DEF InState
    <3>2. g_jobs[s].retry_count < MAX_JOB_RETRIES + send_failures
      BY <3>1 DEF AttemptsLeft, Terminal
    <3> QED BY <1>1, <2>1, <3>1, <3>2 DEF Terminal
  <2>3. CASE s \notin Expired
    <3>1. g_jobs'[s] = g_jobs[s]
      BY <1>4, <2>3, CheckTimeoutsJobs
    <3> QED BY <2>1, <3>1 DEF AttemptsLeft
  <2> QED BY <2>2, <2>3
<1>5. ASSUME NEW slot \in Slots,
             \/ Started(slot) \/ PutBack(slot) \/ Completed(slot)
             \/ GivenUp(slot) \/ Retried(slot)
      PROVE  AttemptsLeft'
  <2>1. /\ \A s \in Slots : s # slot => g_jobs'[s] = g_jobs[s]
        /\ send_failures' = send_failures \/ send_failures' = send_failures + 1
    BY <1>5 DEF Started, PutBack, Completed, GivenUp, Retried, Update
  <2>2. /\ g_jobs'[slot].retry_count <= MAX_JOB_RETRIES + send_failures'
        /\ g_jobs'[slot].status \notin Terminal
             => g_jobs'[slot].retry_count < MAX_JOB_RETRIES + send_failures'
    <3>1. CASE Started(slot)
      BY <1>1, <3>1 DEF Started, Update, InState, AttemptsLeft, Terminal
    <3>2. CASE PutBack(slot)
      BY <1>1, <3>2 DEF PutBack, Update, AttemptsLeft
    <3>3. CASE Completed(slot)
      BY <1>1, <3>3 DEF Completed, Update, AttemptsLeft, Terminal
    <3>4. CASE GivenUp(slot)
      <4>1. g_jobs[slot].status = "ASSIGNED"
        BY <3>4 DEF GivenUp, InState
      <4>2. g_jobs[slot].retry_count < MAX_JOB_RETRIES + send_failures
        BY <4>1 DEF AttemptsLeft, Terminal
      <4> QED BY <1>1, <3>4, <4>2 DEF GivenUp, Update, Terminal
    <3>5. CASE Retried(slot)
      BY <1>1, <3>5 DEF Retried, Update
    <3> QED BY <1>5, <3>1, <3>2, <3>3, <3>4, <3>5
  <2>3. ASSUME NEW s \in Slots, s # slot
        PROVE  /\ g_jobs'[s].retry_count <= MAX_JOB_RETRIES + send_failures'
               /\ g_jobs'[s].status \notin Terminal
                    => g_jobs'[s].retry_count < MAX_JOB_RETRIES + send_failures'
    BY <1>1, <2>1, <2>3 DEF AttemptsLeft
  <2> QED BY <2>2, <2>3 DEF AttemptsLeft
<1> QED BY <1>2, <1>3, <1>4, <1>5, StepKinds

-----------------------------------------------------------------------------
\* What VerdictMatchesStatus says of one slot.
Agrees(verdicts, status) ==
  /\ "COMPLETED" \in verdicts <=> status = "COMPLETED"
  /\ "FAILED" \in verdicts <=> status \in {"FAILED", "TIMEOUT"}

\* Every step keeps verdicts and statuses in agreement until a send fails.
LEMMA VerdictStep ==
  ASSUME JobInv, VerdictMatchesStatus, [JobNext]_jobVars
  PROVE  VerdictMatchesStatus'
<1> SUFFICES ASSUME send_failures' = 0, NEW s \in Slots
             PROVE  Agrees(told'[s], g_jobs'[s].status)
  BY DEF VerdictMatchesStatus, Agrees
<1>1. send_failures \in Nat /\ told \in [Slots -> SUBSET Verdicts]
  BY JobAssumption DEF JobInv, JobTypeOK
<1>2. send_failures = 0 => Agrees(told[s], g_jobs[s].status)
  BY DEF VerdictMatchesStatus, Agrees
<1>3. CASE Quiet
  BY <1>2, <1>3 DEF Quiet
<1>4. CASE Submit
  <2>1. /\ g_next_job_id \in Slots /\ g_jobs[g_next_job_id].job_id = 0
        /\ g_jobs'[g_next_job_id].status = "PENDING"
        /\ s # g_next_job_id => g_jobs'[s] = g_jobs[s]
        /\ send_failures' = send_failures /\ told' = told
    BY <1>4, SubmitSlot DEF Submit
  <2>2. g_jobs[g_next_job_id].status = "PENDING"
    BY <2>1 DEF JobInv, Fresh
  <2> QED BY <1>2, <2>1, <2>2
<1>5. CASE CheckTimeouts
  <2>1. send_failures' = send_failures
    BY <1>5 DEF CheckTimeouts
  <2>2. told'[s] = IF s \in Doomed THEN told[s] \cup {"FAILED"} ELSE told[s]
    BY <1>5 DEF CheckTimeouts
  <2>3. CASE s \in Expired
    <3>1. /\ g_jobs[s].status = "ASSIGNED"
          /\ g_jobs'[s].status = IF s \in Doomed THEN "TIMEOUT" ELSE "PENDING"
      BY <1>5, <2>3, CheckTimeoutsJobs DEF InState
    <3> QED BY <1>2, <2>1, <2>2, <3>1 DEF Agrees
  <2>4. CASE s \notin Expired
    <3>1. g_jobs'[s] = g_jobs[s] /\ s \notin Doomed
      BY <1>5, <2>4, CheckTimeoutsJobs DEF Doomed
    <3> QED BY <1>2, <2>1, <2>2, <3>1
  <2> QED BY <2>3, <2>4
<1>6. ASSUME NEW slot \in Slots, PutBack(slot) PROVE FALSE
  BY <1>1, <1>6 DEF PutBack
<1>7. ASSUME NEW slot \in Slots,
             Started(slot) \/ Completed(slot) \/ GivenUp(slot) \/ Retried(slot)
      PROVE  Agrees(told'[s], g_jobs'[s].status)
  <2>1. /\ send_failures' = send_failures
        /\ s # slot => g_jobs'[s] = g_jobs[s] /\ told'[s] = told[s]
    BY <1>1, <1>7 DEF Started, Completed, GivenUp, Retried, Update
  <2>2. CASE s # slot
    BY <1>2, <2>1, <2>2
  <2>3. CASE s = slot
    <3>1. g_jobs[s].status \in {"PENDING", "ASSIGNED"}
      BY <1>7, <2>3 DEF Started, Completed, GivenUp, Retried, InState
    <3>2. "COMPLETED" \notin told[s] /\ "FAILED" \notin told[s]
      BY <1>2, <2>1, <3>1 DEF Agrees
    <3>3. CASE Started(slot) \/ Retried(slot)
      BY <2>3, <3>2, <3>3 DEF Started, Retried, Update, Agrees
    <3>4. CASE Completed(slot)
      BY <1>1, <2>3, <3>2, <3>4 DEF Completed, Update, Agrees
    <3>5. CASE GivenUp(slot)
      BY <1>1, <2>3, <3>2, <3>5 DEF GivenUp, Update, Agrees
    <3> QED BY <1>7, <3>3, <3>4, <3>5
  <2> QED BY <2>2, <2>3
<1> QED BY <1>3, <1>4, <1>5, <1>6, <1>7, StepKinds

-----------------------------------------------------------------------------
\* The invariant of the table as a theorem, for the theorems below.
LEMMA JobInvAlways == JobSpec => []JobInv
<1>1. JobInv /\ [JobNext]_jobVars => JobInv'
  BY JobInvStep
<1> QED BY <1>1, JobInitially, PTL DEF JobSpec

\* At the start no job exists and all statistics are zero.
LEMMA StatisticsInitially ==
  JobInit => GaugesConserved /\ GaugeDrift /\ AttemptsLeft /\ VerdictMatchesStatus
<1> SUFFICES ASSUME JobInit
             PROVE  GaugesConserved /\ GaugeDrift /\ AttemptsLeft /\ VerdictMatchesStatus
  OBVIOUS
<1>1. \A S : InState(S) = {}
  BY DEF JobInit, InState, FreeJob
<1>2. \A S : Cardinality(InState(S)) = 0
  BY <1>1, FS_EmptySet
<1>3. GaugeDrift
  BY <1>2 DEF JobInit, GaugeDrift, Off
<1>4. GaugesConserved
  BY DEF JobInit, GaugesConserved
<1>5. AttemptsLeft /\ VerdictMatchesStatus
  BY JobAssumption DEF JobInit, FreeJob, AttemptsLeft, VerdictMatchesStatus
<1> QED BY <1>3, <1>4, <1>5

\* The four statistics of job_handler_get_stats always add up to the number of
\* jobs submitted, even when failed sends race with reports and timeouts.
THEOREM StatisticsConserved == JobSpec => []GaugesConserved
<1>1. JobInv /\ GaugesConserved /\ [JobNext]_jobVars => GaugesConserved'
  BY ConservedStep
<1>2. JobInit => GaugesConserved
  BY StatisticsInitially
<1> QED BY <1>1, <1>2, JobInvAlways, PTL DEF JobSpec

\* Each statistic is off by at most one per failed send, always in the same
\* direction; without failed sends all four are exact.
THEOREM StatisticsDrift == JobSpec => []GaugeDrift
<1>1. JobInv /\ GaugeDrift /\ [JobNext]_jobVars => GaugeDrift'
  BY DriftStep
<1>2. JobInit => GaugeDrift
  BY StatisticsInitially
<1> QED BY <1>1, <1>2, JobInvAlways, PTL DEF JobSpec

\* A job is tried at most MAX_JOB_RETRIES times plus once per failed send.
THEOREM AttemptsAreBounded == JobSpec => []AttemptsBounded
<1>1. JobInv /\ AttemptsLeft /\ [JobNext]_jobVars => AttemptsLeft'
  BY AttemptsStep
<1>2. JobInit => AttemptsLeft
  BY StatisticsInitially
<1>3. AttemptsLeft => AttemptsBounded
  BY DEF AttemptsLeft, AttemptsBounded
<1> QED BY <1>1, <1>2, <1>3, JobInvAlways, PTL DEF JobSpec

\* As long as no send fails, what a client is told is the job's final status.
THEOREM VerdictsFinal == JobSpec => []VerdictMatchesStatus
<1>1. JobInv /\ VerdictMatchesStatus /\ [JobNext]_jobVars => VerdictMatchesStatus'
  BY VerdictStep
<1>2. JobInit => VerdictMatchesStatus
  BY StatisticsInitially
<1> QED BY <1>1, <1>2, JobInvAlways, PTL DEF JobSpec
=============================================================================
