---------------------------- MODULE BoundedQueue ----------------------------
(***************************************************************************)
(* What ring_buffer.h promises its callers: a first-in first-out queue of  *)
(* at most Capacity elements on which every operation takes effect at one  *)
(* instant between its call and its return, or fails and changes nothing.  *)
(***************************************************************************)
EXTENDS Naturals, Sequences

CONSTANTS
  Threads,    \* the callers
  Elements,   \* the pointers that may be stored
  Capacity,   \* the maximum number of elements
  None        \* no return yet; the NULL or -1 of a failed operation

VARIABLES
  queue,      \* the stored elements, oldest first
  last        \* the latest return: the caller and the value it got

qvars == <<queue, last>>

\* The value 0 of a successful push.
Ok == "ok"

QueueInit ==
  /\ queue = <<>>
  /\ last = None

\* A push takes effect: there is room and the element becomes the newest.
Put(t, e) ==
  /\ Len(queue) < Capacity
  /\ queue' = Append(queue, e)
  /\ last' = <<t, Ok>>

\* A pop takes effect: the oldest element is handed to the caller.
Take(t) ==
  /\ queue # <<>>
  /\ queue' = Tail(queue)
  /\ last' = <<t, Head(queue)>>

\* A non-blocking or timed operation gives up, leaving the queue alone.
Refuse(t) ==
  /\ queue' = queue
  /\ last' = <<t, None>>

QueueNext ==
  \E t \in Threads :
    \/ \E e \in Elements : Put(t, e)
    \/ Take(t)
    \/ Refuse(t)

QueueSpec == QueueInit /\ [][QueueNext]_qvars
=============================================================================
