----------------------------- MODULE RingBuffer -----------------------------
(***************************************************************************)
(* lib/src/ring_buffer.c: a circular array of pointers shared by threads,  *)
(* protected by one mutex and two condition variables.                     *)
(*                                                                         *)
(* A step is one critical section: from the moment a thread owns rb->mutex *)
(* to the moment it unlocks it or blocks in pthread_cond_(timed)wait.  A   *)
(* blocked thread that is signalled must own the mutex again before it     *)
(* re-tests its condition, so waking up and resuming are separate steps,   *)
(* and so are the expiry of a deadline and the return that reports it.     *)
(***************************************************************************)
EXTENDS Naturals, FiniteSets, Sequences

CONSTANTS
  Threads,    \* the callers of ring_buffer_push and ring_buffer_pop
  Elements,   \* the pointers that may be pushed
  Capacity,   \* rb->capacity
  None        \* a NULL pointer, and what malloc leaves in an unused slot

ASSUME RingAssumption ==
  /\ Capacity \in Nat \ {0}
  /\ IsFiniteSet(Threads)
  /\ None \notin Elements
  /\ "ok" \notin Elements

VARIABLES
  buffer,     \* rb->buffer
  size,       \* rb->size
  head,       \* rb->head
  tail,       \* rb->tail
  pc,         \* where each thread is
  call,       \* call[t]: the arguments of the pending operation of t
  last        \* the latest return: the caller and the value it got

vars == <<buffer, size, head, tail, pc, call, last>>

\* timeout_ms = 0, > 0 and < 0.
Modes == {"try", "timed", "forever"}

Slots == 0 .. Capacity - 1

\* "waitPush": blocked on not_full; "wakePush": signalled, needs the mutex;
\* "latePush": the deadline passed, needs the mutex.  Likewise for pop.
Places == {"idle", "waitPush", "wakePush", "latePush",
                   "waitPop", "wakePop", "latePop"}

NoCall == [mode |-> "try", element |-> None]

At(p) == {t \in Threads : pc[t] = p}

-----------------------------------------------------------------------------
\* ring_buffer_create: an empty ring; no caller has called anything yet.
Init ==
  /\ buffer = [i \in Slots |-> None]
  /\ size = 0 /\ head = 0 /\ tail = 0
  /\ pc = [t \in Threads |-> "idle"]
  /\ call = [t \in Threads |-> NoCall]
  /\ last = None

\* Thread t unlocks and returns the value v.
Return(t, v) ==
  /\ last' = <<t, v>>
  /\ call' = [call EXCEPT ![t] = NoCall]

\* Mutant: the signal is forgotten.
NoSignal(t, waiting, woken) == pc' = [pc EXCEPT ![t] = "idle"]

\* pthread_cond_signal: thread t is done, and one waiter, if any, wakes up.
SignalAndReturn(t, waiting, woken) ==
  IF At(waiting) = {}
    THEN pc' = [pc EXCEPT ![t] = "idle"]
    ELSE \E u \in At(waiting) : pc' = [pc EXCEPT ![t] = "idle", ![u] = woken]

\* Add the element, signal not_empty, unlock, return 0.
Enqueue(t, e) ==
  /\ buffer' = [buffer EXCEPT ![tail] = e]
  /\ tail' = (tail + 1) % Capacity
  /\ size' = size + 1
  /\ SignalAndReturn(t, "waitPop", "wakePop")
  /\ Return(t, "ok")
  /\ UNCHANGED head

\* Mutant: head is advanced before the element is read.
DequeueNext(t) ==
  /\ head' = (head + 1) % Capacity
  /\ size' = size - 1
  /\ SignalAndReturn(t, "waitPush", "wakePush")
  /\ Return(t, buffer[head'])
  /\ UNCHANGED <<buffer, tail>>

\* Remove the oldest element, signal not_full, unlock, return the element.
Dequeue(t) ==
  /\ head' = (head + 1) % Capacity
  /\ size' = size - 1
  /\ SignalAndReturn(t, "waitPush", "wakePush")
  /\ Return(t, buffer[head])
  /\ UNCHANGED <<buffer, tail>>

\* Unlock and return -1 (or NULL) with the ring untouched.
GiveUp(t) ==
  /\ pc' = [pc EXCEPT ![t] = "idle"]
  /\ Return(t, None)
  /\ UNCHANGED <<buffer, size, head, tail>>

\* pthread_cond_wait: release the mutex and block.
Block(t, place, mode, e) ==
  /\ pc' = [pc EXCEPT ![t] = place]
  /\ call' = [call EXCEPT ![t] = [mode |-> mode, element |-> e]]
  /\ UNCHANGED <<buffer, size, head, tail, last>>

-----------------------------------------------------------------------------
\* ring_buffer_push, from the lock to the first unlock or wait.  A timed push
\* also returns -1 when get_timeout_time fails.
Push(t, e, mode) ==
  /\ pc[t] = "idle"
  /\ \/ size < Capacity /\ Enqueue(t, e)
     \/ size = Capacity /\ mode \in {"try", "timed"} /\ GiveUp(t)
     \/ size = Capacity /\ mode \in {"timed", "forever"}
                        /\ Block(t, "waitPush", mode, e)

\* The loop around pthread_cond_(timed)wait in push, entered with result = 0.
ResumePush(t) ==
  /\ pc[t] = "wakePush"
  /\ \/ size < Capacity /\ Enqueue(t, call[t].element)
     \/ size = Capacity /\ Block(t, "waitPush", call[t].mode, call[t].element)

\* Mutant: the deadline is computed anew and the wait repeated.
ExpiredPushAgain(t) ==
  /\ pc[t] = "latePush"
  /\ Block(t, "waitPush", call[t].mode, call[t].element)

\* The wait returned ETIMEDOUT: push fails even if there is room by now.
ExpiredPush(t) == pc[t] = "latePush" /\ GiveUp(t)

\* ring_buffer_pop, from the lock to the first unlock or wait.
Pop(t, mode) ==
  /\ pc[t] = "idle"
  /\ \/ size > 0 /\ Dequeue(t)
     \/ size = 0 /\ mode \in {"try", "timed"} /\ GiveUp(t)
     \/ size = 0 /\ mode \in {"timed", "forever"}
                 /\ Block(t, "waitPop", mode, None)

\* The loop around pthread_cond_(timed)wait in pop, entered with result = 0.
ResumePop(t) ==
  /\ pc[t] = "wakePop"
  /\ \/ size > 0 /\ Dequeue(t)
     \/ size = 0 /\ Block(t, "waitPop", call[t].mode, None)

ExpiredPop(t) == pc[t] = "latePop" /\ GiveUp(t)

\* pthread_cond_timedwait reaches the deadline of get_timeout_time.
Expire(t) ==
  /\ call[t].mode = "timed"
  /\ \/ pc[t] = "waitPush" /\ pc' = [pc EXCEPT ![t] = "latePush"]
     \/ pc[t] = "waitPop" /\ pc' = [pc EXCEPT ![t] = "latePop"]
  /\ UNCHANGED <<buffer, size, head, tail, call, last>>

\* POSIX lets a wait return without a signal.
SpuriousWakeup(t) ==
  /\ \/ pc[t] = "waitPush" /\ pc' = [pc EXCEPT ![t] = "wakePush"]
     \/ pc[t] = "waitPop" /\ pc' = [pc EXCEPT ![t] = "wakePop"]
  /\ UNCHANGED <<buffer, size, head, tail, call, last>>

Resume(t) == ResumePush(t) \/ ExpiredPush(t) \/ ResumePop(t) \/ ExpiredPop(t)

Next ==
  \E t \in Threads :
    \/ \E e \in Elements, m \in Modes : Push(t, e, m)
    \/ \E m \in Modes : Pop(t, m)
    \/ ResumePush(t)
    \/ ExpiredPush(t)
    \/ ResumePop(t)
    \/ ExpiredPop(t)
    \/ Expire(t)
    \/ SpuriousWakeup(t)

Spec == Init /\ [][Next]_vars

\* A woken thread gets the mutex; the absolute deadline, computed once before
\* the loop, makes every wait after it time out, hence strong fairness.
Fairness ==
  \A t \in Threads : WF_vars(Resume(t)) /\ SF_vars(Expire(t))

FairSpec == Spec /\ Fairness

-----------------------------------------------------------------------------
\* The stored elements, oldest first, as the code finds them from head.
Contents == [i \in 1 .. size |-> buffer[(head + i - 1) % Capacity]]

\* Every variable ranges over the values the C types and the code allow.
TypeOK ==
  /\ buffer \in [Slots -> Elements \cup {None}]
  /\ size \in 0 .. Capacity
  /\ head \in Slots
  /\ tail \in Slots
  /\ pc \in [Threads -> Places]
  /\ call \in [Threads -> [mode : Modes, element : Elements \cup {None}]]
  /\ last \in {None} \cup (Threads \X (Elements \cup {None, "ok"}))

\* The three indices, which push and pop maintain separately, always agree:
\* tail is size slots after head, the size slots from head hold what was
\* pushed, and a thread blocked in push still carries its element.
RingInv ==
  /\ tail = (head + size) % Capacity
  /\ \A i \in 0 .. size - 1 : buffer[(head + i) % Capacity] \in Elements
  /\ \A t \in At("waitPush") \cup At("wakePush") : call[t].element \in Elements

\* No wake-up is lost although pthread_cond_signal wakes a single thread:
\* while some thread sleeps in pop there are never more elements than threads
\* already woken to fetch them, and likewise for free slots and push.
NoLostWakeup ==
  /\ At("waitPop") # {} => size <= Cardinality(At("wakePop"))
  /\ At("waitPush") # {} => Capacity - size <= Cardinality(At("wakePush"))

\* The ring with its mutex and condition variables implements the queue that
\* ring_buffer.h describes: nothing lost, duplicated or reordered, and a
\* failed operation leaves the contents alone.
Queue == INSTANCE BoundedQueue WITH queue <- Contents
ImplementsQueue == Queue!QueueSpec

\* A push or pop with a positive timeout returns, whatever other threads do.
TimedCallReturns ==
  \A t \in Threads :
    (pc[t] # "idle" /\ call[t].mode = "timed") ~> (pc[t] = "idle")

\* Elements do not sit in the ring while consumers sleep: the ring empties or
\* the last sleeping consumer wakes up.
SleepersServed ==
  (size > 0 /\ At("waitPop") # {}) ~> (size = 0 \/ At("waitPop") = {})
=============================================================================
