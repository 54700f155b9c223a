-------------------------- MODULE RingBuffer_proofs --------------------------
(***************************************************************************)
(* Proofs about RingBuffer, for every capacity, every set of threads and   *)
(* every set of elements.                                                  *)
(***************************************************************************)
EXTENDS RingBuffer, FiniteSetTheorems, SequenceTheorems, TLAPS

\* What % computes on the indices the ring uses.
LEMMA Wrap ==
  ASSUME NEW x \in 0 .. 2 * Capacity - 1
  PROVE  /\ x < Capacity => x % Capacity = x
         /\ x >= Capacity => x % Capacity = x - Capacity
         /\ x % Capacity \in Slots
BY RingAssumption DEF Slots

\* Advancing an index by one and by j commute with wrapping around.
LEMMA Shift ==
  ASSUME NEW x \in 0 .. Capacity - 1, NEW j \in 0 .. Capacity - 1
  PROVE  /\ (((x + 1) % Capacity) + j) % Capacity = (x + j + 1) % Capacity
         /\ (((x + j) % Capacity) + 1) % Capacity = (x + j + 1) % Capacity
<1>1. /\ x + 1 \in 0 .. 2 * Capacity - 1
      /\ x + j \in 0 .. 2 * Capacity - 1
      /\ x + j + 1 \in 0 .. 2 * Capacity - 1
  BY RingAssumption
<1>2. (((x + 1) % Capacity) + j) % Capacity = (x + j + 1) % Capacity
  <2>1. CASE x + 1 < Capacity
    <3>1. (x + 1) % Capacity = x + 1
      BY <1>1, <2>1, Wrap
    <3> QED BY <3>1, RingAssumption
  <2>2. CASE x + 1 >= Capacity
    <3>1. (x + 1) % Capacity = 0
      BY <1>1, <2>2, Wrap, RingAssumption
    <3>2. (x + j + 1) % Capacity = j
      BY <1>1, <2>2, Wrap, RingAssumption
    <3>3. j % Capacity = j
      BY Wrap, RingAssumption
    <3> QED BY <3>1, <3>2, <3>3, RingAssumption
  <2> QED BY <2>1, <2>2, RingAssumption
<1>3. (((x + j) % Capacity) + 1) % Capacity = (x + j + 1) % Capacity
  <2>1. CASE x + j < Capacity
    <3>1. (x + j) % Capacity = x + j
      BY <1>1, <2>1, Wrap
    <3> QED BY <3>1, RingAssumption
  <2>2. CASE x + j >= Capacity
    <3>1. (x + j) % Capacity = x + j - Capacity
      BY <1>1, <2>2, Wrap, RingAssumption
    <3>2. x + j - Capacity + 1 \in 0 .. Capacity - 1
      BY <2>2, RingAssumption
    <3>3. (x + j - Capacity + 1) % Capacity = x + j - Capacity + 1
      BY <3>2, Wrap, RingAssumption
    <3>4. (x + j + 1) % Capacity = x + j + 1 - Capacity
      BY <1>1, <2>2, Wrap, RingAssumption
    <3> QED BY <3>1, <3>3, <3>4, RingAssumption
  <2> QED BY <2>1, <2>2, RingAssumption
<1> QED BY <1>2, <1>3

-----------------------------------------------------------------------------
\* Waking up one waiter keeps every thread at a known place.
LEMMA SignalType ==
  ASSUME TypeOK, NEW t \in Threads, NEW waiting, NEW woken \in Places,
         SignalAndReturn(t, waiting, woken)
  PROVE  pc' \in [Threads -> Places]
BY DEF TypeOK, SignalAndReturn, At, Places

\* A successful push leaves the ring well typed and its indices in step.
LEMMA EnqueueInv ==
  ASSUME TypeOK, RingInv, NEW t \in Threads, NEW e \in Elements,
         size < Capacity, Enqueue(t, e)
  PROVE  /\ TypeOK'
         /\ tail' = (head' + size') % Capacity
         /\ \A i \in 0 .. size' - 1 : buffer'[(head' + i) % Capacity] \in Elements
<1>1. TypeOK'
  <2>1. tail' \in Slots
    BY RingAssumption DEF Enqueue, TypeOK, Slots
  <2>2. pc' \in [Threads -> Places]
    BY SignalType DEF Enqueue, Places
  <2>3. call' \in [Threads -> [mode : Modes, element : Elements \cup {None}]]
    BY DEF Enqueue, Return, TypeOK, NoCall, Modes
  <2>4. last' \in {None} \cup (Threads \X (Elements \cup {None, "ok"}))
    BY DEF Enqueue, Return
  <2>5. size' \in 0 .. Capacity /\ head' \in Slots
    BY RingAssumption DEF Enqueue, TypeOK
  <2>6. buffer' \in [Slots -> Elements \cup {None}]
    BY DEF Enqueue, TypeOK
  <2> QED BY <2>1, <2>2, <2>3, <2>4, <2>5, <2>6 DEF TypeOK
<1>2. tail' = (head' + size') % Capacity
  <2>1. head \in 0 .. Capacity - 1 /\ size \in 0 .. Capacity - 1
    BY RingAssumption DEF TypeOK, Slots
  <2>2. tail' = (((head + size) % Capacity) + 1) % Capacity
    BY DEF Enqueue, RingInv
  <2>3. head' + size' = head + size + 1
    BY <2>1 DEF Enqueue
  <2> QED BY <2>1, <2>2, <2>3, Shift
<1>3. \A i \in 0 .. size' - 1 : buffer'[(head' + i) % Capacity] \in Elements
  <2> SUFFICES ASSUME NEW i \in 0 .. size' - 1
               PROVE  buffer'[(head' + i) % Capacity] \in Elements
    OBVIOUS
  <2>1. /\ head' = head /\ size' = size + 1
        /\ buffer' = [buffer EXCEPT ![tail] = e]
    BY DEF Enqueue
  <2>2. head \in 0 .. Capacity - 1 /\ size \in 0 .. Capacity - 1 /\ i \in 0 .. size
    BY <2>1, RingAssumption DEF TypeOK, Slots
  <2>3. (head + i) % Capacity \in Slots
    BY <2>2, Wrap, RingAssumption
  <2>4. CASE i = size
    BY <2>1, <2>3, <2>4 DEF RingInv, TypeOK
  <2>5. CASE i # size
    <3>1. buffer[(head + i) % Capacity] \in Elements
      BY <2>2, <2>5 DEF RingInv
    <3> QED BY <2>1, <2>3, <3>1 DEF TypeOK
  <2> QED BY <2>4, <2>5
<1> QED BY <1>1, <1>2, <1>3

\* So does a successful pop, which returns a stored element.
LEMMA DequeueInv ==
  ASSUME TypeOK, RingInv, NEW t \in Threads, size > 0, Dequeue(t)
  PROVE  /\ TypeOK'
         /\ tail' = (head' + size') % Capacity
         /\ \A i \in 0 .. size' - 1 : buffer'[(head' + i) % Capacity] \in Elements
<1>0. /\ head \in 0 .. Capacity - 1 /\ size \in 1 .. Capacity
      /\ head' = (head + 1) % Capacity /\ size' = size - 1
      /\ tail' = tail /\ buffer' = buffer
  BY RingAssumption DEF TypeOK, Slots, Dequeue
<1>1. head' \in Slots
  BY <1>0, RingAssumption DEF Slots
<1>2. TypeOK'
  <2>1. pc' \in [Threads -> Places]
    BY SignalType DEF Dequeue, Places
  <2>2. call' \in [Threads -> [mode : Modes, element : Elements \cup {None}]]
    BY DEF Dequeue, Return, TypeOK, NoCall, Modes
  <2>3. buffer[head] \in Elements \cup {None}
    BY DEF TypeOK
  <2>4. last' \in {None} \cup (Threads \X (Elements \cup {None, "ok"}))
    BY <2>3 DEF Dequeue, Return
  <2>5. size' \in 0 .. Capacity
    BY <1>0, RingAssumption
  <2> QED BY <1>0, <1>1, <2>1, <2>2, <2>4, <2>5 DEF TypeOK
<1>3. \A j \in 0 .. Capacity - 1 :
        (((head + 1) % Capacity) + j) % Capacity = (head + j + 1) % Capacity
  BY <1>0, Shift
<1>4. tail' = (head' + size') % Capacity
  <2>1. size - 1 \in 0 .. Capacity - 1 /\ head + (size - 1) + 1 = head + size
    BY <1>0, RingAssumption
  <2> QED BY <1>0, <1>3, <2>1 DEF RingInv
<1>5. \A i \in 0 .. size' - 1 : buffer'[(head' + i) % Capacity] \in Elements
  <2> SUFFICES ASSUME NEW i \in 0 .. size' - 1
               PROVE  buffer'[(head' + i) % Capacity] \in Elements
    OBVIOUS
  <2>1. i \in 0 .. Capacity - 1 /\ i + 1 \in 0 .. size - 1 /\ head + i + 1 = head + (i + 1)
    BY <1>0, RingAssumption
  <2>2. buffer[(head + (i + 1)) % Capacity] \in Elements
    BY <2>1 DEF RingInv
  <2> QED BY <1>0, <1>3, <2>1, <2>2
<1> QED BY <1>2, <1>4, <1>5

-----------------------------------------------------------------------------
\* Blocking, giving up and waking up leave the ring alone.
LEMMA RingUntouched ==
  ASSUME RingInv, UNCHANGED <<buffer, size, head, tail>>
  PROVE  /\ tail' = (head' + size') % Capacity
         /\ \A i \in 0 .. size' - 1 : buffer'[(head' + i) % Capacity] \in Elements
BY DEF RingInv

\* Every blocked or woken push carries an element.
Carried == \A t \in At("waitPush") \cup At("wakePush") : call[t].element \in Elements

\* A thread that returns, and the one it wakes up, keep it so.
LEMMA CarriedReturn ==
  ASSUME TypeOK, Carried, NEW t \in Threads,
         call' = [call EXCEPT ![t] = NoCall],
         \/ pc' = [pc EXCEPT ![t] = "idle"]
         \/ SignalAndReturn(t, "waitPop", "wakePop")
         \/ SignalAndReturn(t, "waitPush", "wakePush")
  PROVE  Carried'
BY DEF TypeOK, Carried, SignalAndReturn, At, Places

\* Blocking in push or pop keeps the invariant.
LEMMA BlockInv ==
  ASSUME TypeOK, RingInv, NEW t \in Threads, NEW m \in Modes,
         NEW e \in Elements \cup {None}, NEW p \in {"waitPush", "waitPop"},
         p = "waitPush" => e \in Elements,
         Block(t, p, m, e)
  PROVE  TypeOK' /\ RingInv'
<1>1. TypeOK'
  BY DEF TypeOK, Block, Places
<1>2. Carried'
  BY DEF TypeOK, Block, RingInv, Carried, At
<1> QED BY <1>1, <1>2, RingUntouched DEF Block, RingInv, Carried

\* Returning without having touched the ring keeps the invariant.
LEMMA GiveUpInv ==
  ASSUME TypeOK, RingInv, NEW t \in Threads, GiveUp(t)
  PROVE  TypeOK' /\ RingInv'
<1>1. TypeOK'
  BY DEF TypeOK, GiveUp, Return, Places, NoCall, Modes
<1>2. Carried'
  BY CarriedReturn DEF GiveUp, Return, RingInv, Carried
<1> QED BY <1>1, <1>2, RingUntouched DEF GiveUp, RingInv, Carried

\* A successful push keeps the invariant.
LEMMA EnqueueKeeps ==
  ASSUME TypeOK, RingInv, NEW t \in Threads, NEW e \in Elements,
         size < Capacity, Enqueue(t, e)
  PROVE  TypeOK' /\ RingInv'
<1>1. Carried'
  BY CarriedReturn DEF Enqueue, Return, RingInv, Carried
<1> QED BY <1>1, EnqueueInv DEF RingInv, Carried

\* A successful pop keeps the invariant.
LEMMA DequeueKeeps ==
  ASSUME TypeOK, RingInv, NEW t \in Threads, size > 0, Dequeue(t)
  PROVE  TypeOK' /\ RingInv'
<1>1. Carried'
  BY CarriedReturn DEF Dequeue, Return, RingInv, Carried
<1> QED BY <1>1, DequeueInv DEF RingInv, Carried

\* Every critical section keeps the ring well typed and its indices in step.
LEMMA RingStep ==
  ASSUME TypeOK, RingInv, [Next]_vars
  PROVE  TypeOK' /\ RingInv'
<1>1. CASE UNCHANGED vars
  BY <1>1 DEF vars, TypeOK, RingInv, At
<1>2. ASSUME NEW t \in Threads, NEW e \in Elements, NEW m \in Modes,
             Push(t, e, m)
      PROVE  TypeOK' /\ RingInv'
  BY <1>2, EnqueueKeeps, GiveUpInv, BlockInv DEF Push
<1>3. ASSUME NEW t \in Threads, NEW m \in Modes, Pop(t, m)
      PROVE  TypeOK' /\ RingInv'
  BY <1>3, DequeueKeeps, GiveUpInv, BlockInv DEF Pop
<1>4. ASSUME NEW t \in Threads, ResumePush(t)
      PROVE  TypeOK' /\ RingInv'
  <2>1. call[t].element \in Elements /\ call[t].mode \in Modes
    BY <1>4 DEF ResumePush, RingInv, At, TypeOK
  <2> QED BY <1>4, <2>1, EnqueueKeeps, BlockInv DEF ResumePush
<1>5. ASSUME NEW t \in Threads, ResumePop(t)
      PROVE  TypeOK' /\ RingInv'
  <2>1. call[t].mode \in Modes
    BY DEF TypeOK
  <2> QED BY <1>5, <2>1, DequeueKeeps, BlockInv DEF ResumePop
<1>6. ASSUME NEW t \in Threads, ExpiredPush(t) \/ ExpiredPop(t)
      PROVE  TypeOK' /\ RingInv'
  BY <1>6, GiveUpInv DEF ExpiredPush, ExpiredPop
<1>7. ASSUME NEW t \in Threads, Expire(t) \/ SpuriousWakeup(t)
      PROVE  TypeOK' /\ RingInv'
  <2>1. TypeOK'
    BY <1>7 DEF Expire, SpuriousWakeup, TypeOK, Places
  <2>2. Carried'
    BY <1>7 DEF Expire, SpuriousWakeup, TypeOK, RingInv, Carried, At
  <2> QED BY <1>7, <2>1, <2>2, RingUntouched
          DEF Expire, SpuriousWakeup, RingInv, Carried
<1> QED BY <1>1, <1>2, <1>3, <1>4, <1>5, <1>6, <1>7 DEF Next

\* ring_buffer_create establishes the invariant.
LEMMA RingInitially == Init => TypeOK /\ RingInv
BY RingAssumption, Wrap DEF Init, TypeOK, RingInv, Slots, Places, NoCall, Modes, At

\* ring_buffer.c stays within its array and its three indices agree, whatever
\* the interleaving of pushes, pops, timeouts and wake-ups.
THEOREM RingSafe == Spec => [](TypeOK /\ RingInv)
<1>1. Init => TypeOK /\ RingInv
  BY RingInitially
<1>2. TypeOK /\ RingInv /\ [Next]_vars => (TypeOK /\ RingInv)'
  BY RingStep
<1> QED BY <1>1, <1>2, PTL DEF Spec

-----------------------------------------------------------------------------
\* There are finitely many threads at each place.
LEMMA AtFinite ==
  ASSUME NEW p
  PROVE  /\ IsFiniteSet(At(p)) /\ Cardinality(At(p)) \in Nat
         /\ IsFiniteSet(At(p)') /\ Cardinality(At(p)') \in Nat
<1>1. At(p) \in SUBSET Threads /\ At(p)' \in SUBSET Threads
  BY DEF At
<1>2. IsFiniteSet(At(p)) /\ IsFiniteSet(At(p)')
  BY <1>1, FS_Subset, RingAssumption
<1> QED BY <1>2, FS_CardinalityType

\* A successful push takes at most the caller from the woken producers and,
\* if a consumer sleeps, wakes one for the new element.
LEMMA EnqueueWakes ==
  ASSUME TypeOK, NoLostWakeup, NEW t \in Threads, NEW e \in Elements,
         pc[t] \in {"idle", "wakePush"}, size < Capacity, Enqueue(t, e)
  PROVE  NoLostWakeup'
<1>1. size' = size + 1 /\ size \in Nat /\ Capacity \in Nat
  BY RingAssumption DEF Enqueue, TypeOK
<1>2. At("waitPop")' # {} => size' <= Cardinality(At("wakePop")')
  <2>1. CASE At("waitPop") = {}
    <3>1. pc' = [pc EXCEPT ![t] = "idle"]
      BY <2>1 DEF Enqueue, SignalAndReturn
    <3>2. At("waitPop")' = {}
      BY <2>1, <3>1 DEF At, TypeOK
    <3> QED BY <3>2
  <2>2. CASE At("waitPop") # {}
    <3>1. PICK u \in At("waitPop") :
            pc' = [pc EXCEPT ![t] = "idle", ![u] = "wakePop"]
      BY <2>2 DEF Enqueue, SignalAndReturn
    <3>2. At("wakePop")' = At("wakePop") \cup {u} /\ u \notin At("wakePop")
      BY <3>1 DEF At, TypeOK
    <3>3. Cardinality(At("wakePop")') = Cardinality(At("wakePop")) + 1
      BY <3>2, AtFinite, FS_AddElement
    <3>4. size <= Cardinality(At("wakePop"))
      BY <2>2 DEF NoLostWakeup
    <3> QED BY <1>1, <3>3, <3>4, AtFinite
  <2> QED BY <2>1, <2>2
<1>3. At("waitPush")' # {} => Capacity - size' <= Cardinality(At("wakePush")')
  <2>1. /\ At("waitPush")' = At("waitPush")
        /\ At("wakePush")' = At("wakePush") \ {t}
    BY DEF Enqueue, SignalAndReturn, At, TypeOK
  <2>2. Cardinality(At("wakePush")') >= Cardinality(At("wakePush")) - 1
    BY <2>1, AtFinite, FS_RemoveElement
  <2>3. At("waitPush") # {} => Capacity - size <= Cardinality(At("wakePush"))
    BY DEF NoLostWakeup
  <2> QED BY <1>1, <2>1, <2>2, <2>3, AtFinite
<1> QED BY <1>2, <1>3 DEF NoLostWakeup

\* The same for a successful pop, with producers and free slots.
LEMMA DequeueWakes ==
  ASSUME TypeOK, NoLostWakeup, NEW t \in Threads,
         pc[t] \in {"idle", "wakePop"}, size > 0, Dequeue(t)
  PROVE  NoLostWakeup'
<1>1. size' = size - 1 /\ size \in Nat /\ Capacity \in Nat
  BY RingAssumption DEF Dequeue, TypeOK
<1>2. At("waitPush")' # {} => Capacity - size' <= Cardinality(At("wakePush")')
  <2>1. CASE At("waitPush") = {}
    <3>1. pc' = [pc EXCEPT ![t] = "idle"]
      BY <2>1 DEF Dequeue, SignalAndReturn
    <3>2. At("waitPush")' = {}
      BY <2>1, <3>1 DEF At, TypeOK
    <3> QED BY <3>2
  <2>2. CASE At("waitPush") # {}
    <3>1. PICK u \in At("waitPush") :
            pc' = [pc EXCEPT ![t] = "idle", ![u] = "wakePush"]
      BY <2>2 DEF Dequeue, SignalAndReturn
    <3>2. At("wakePush")' = At("wakePush") \cup {u} /\ u \notin At("wakePush")
      BY <3>1 DEF At, TypeOK
    <3>3. Cardinality(At("wakePush")') = Cardinality(At("wakePush")) + 1
      BY <3>2, AtFinite, FS_AddElement
    <3>4. Capacity - size <= Cardinality(At("wakePush"))
      BY <2>2 DEF NoLostWakeup
    <3> QED BY <1>1, <3>3, <3>4, AtFinite
  <2> QED BY <2>1, <2>2
<1>3. At("waitPop")' # {} => size' <= Cardinality(At("wakePop")')
  <2>1. /\ At("waitPop")' = At("waitPop")
        /\ At("wakePop")' = At("wakePop") \ {t}
    BY DEF Dequeue, SignalAndReturn, At, TypeOK
  <2>2. Cardinality(At("wakePop")') >= Cardinality(At("wakePop")) - 1
    BY <2>1, AtFinite, FS_RemoveElement
  <2>3. At("waitPop") # {} => size <= Cardinality(At("wakePop"))
    BY DEF NoLostWakeup
  <2> QED BY <1>1, <2>1, <2>2, <2>3, AtFinite
<1> QED BY <1>2, <1>3 DEF NoLostWakeup

\* A thread that returns empty-handed was not one of the woken ones.
LEMMA GiveUpWakes ==
  ASSUME TypeOK, NoLostWakeup, NEW t \in Threads,
         pc[t] \in {"idle", "latePush", "latePop"}, GiveUp(t)
  PROVE  NoLostWakeup'
<1>1. \A p \in Places : p \notin {"idle", "latePush", "latePop"}
                          => At(p)' = At(p)
  BY DEF GiveUp, At, TypeOK, Places
<1> QED BY <1>1 DEF GiveUp, NoLostWakeup, Places

\* A thread blocks in push only if the ring is full, so that no slot is free.
LEMMA BlockPushWakes ==
  ASSUME TypeOK, NoLostWakeup, NEW t \in Threads, NEW m, NEW e,
         pc[t] \in {"idle", "wakePush"}, size = Capacity,
         Block(t, "waitPush", m, e)
  PROVE  NoLostWakeup'
<1>1. size' = Capacity /\ Capacity - size' = 0 /\ size' = size
  BY RingAssumption DEF Block
<1>2. At("waitPop")' = At("waitPop") /\ At("wakePop")' = At("wakePop")
  BY DEF Block, At, TypeOK
<1> QED BY <1>1, <1>2, AtFinite DEF NoLostWakeup

\* A thread blocks in pop only if the ring is empty.
LEMMA BlockPopWakes ==
  ASSUME TypeOK, NoLostWakeup, NEW t \in Threads, NEW m, NEW e,
         pc[t] \in {"idle", "wakePop"}, size = 0,
         Block(t, "waitPop", m, e)
  PROVE  NoLostWakeup'
<1>1. size' = 0 /\ size' = size
  BY DEF Block
<1>2. At("waitPush")' = At("waitPush") /\ At("wakePush")' = At("wakePush")
  BY DEF Block, At, TypeOK
<1> QED BY <1>1, <1>2, AtFinite DEF NoLostWakeup

\* No critical section, expiry or spurious wake-up loses a wake-up.
LEMMA WakeupStep ==
  ASSUME TypeOK, RingInv, NoLostWakeup, [Next]_vars
  PROVE  NoLostWakeup'
<1>1. CASE UNCHANGED vars
  BY <1>1 DEF vars, NoLostWakeup, At
<1>2. ASSUME NEW t \in Threads, NEW e \in Elements, NEW m \in Modes,
             Push(t, e, m)
      PROVE  NoLostWakeup'
  BY <1>2, EnqueueWakes, GiveUpWakes, BlockPushWakes DEF Push
<1>3. ASSUME NEW t \in Threads, NEW m \in Modes, Pop(t, m)
      PROVE  NoLostWakeup'
  BY <1>3, DequeueWakes, GiveUpWakes, BlockPopWakes DEF Pop
<1>4. ASSUME NEW t \in Threads, ResumePush(t)
      PROVE  NoLostWakeup'
  <2>1. call[t].element \in Elements
    BY <1>4 DEF ResumePush, RingInv, At
  <2> QED BY <1>4, <2>1, EnqueueWakes, BlockPushWakes DEF ResumePush
<1>5. ASSUME NEW t \in Threads, ResumePop(t)
      PROVE  NoLostWakeup'
  BY <1>5, DequeueWakes, BlockPopWakes DEF ResumePop
<1>6. ASSUME NEW t \in Threads, ExpiredPush(t) \/ ExpiredPop(t)
      PROVE  NoLostWakeup'
  BY <1>6, GiveUpWakes DEF ExpiredPush, ExpiredPop
<1>7. ASSUME NEW t \in Threads, Expire(t)
      PROVE  NoLostWakeup'
  <2>1. /\ At("waitPush")' \subseteq At("waitPush")
        /\ At("waitPop")' \subseteq At("waitPop")
        /\ At("wakePush")' = At("wakePush")
        /\ At("wakePop")' = At("wakePop")
    BY <1>7 DEF Expire, At, TypeOK
  <2> QED BY <1>7, <2>1 DEF Expire, NoLostWakeup
<1>8. ASSUME NEW t \in Threads, SpuriousWakeup(t)
      PROVE  NoLostWakeup'
  <2>1. /\ At("waitPush")' \subseteq At("waitPush")
        /\ At("waitPop")' \subseteq At("waitPop")
        /\ At("wakePush") \in SUBSET At("wakePush")'
        /\ At("wakePop") \in SUBSET At("wakePop")'
    BY <1>8 DEF SpuriousWakeup, At, TypeOK
  <2>2. /\ Cardinality(At("wakePush")) <= Cardinality(At("wakePush")')
        /\ Cardinality(At("wakePop")) <= Cardinality(At("wakePop")')
    BY <2>1, AtFinite, FS_Subset
  <2>3. size' = size /\ size \in Nat /\ Capacity \in Nat
    BY <1>8, RingAssumption DEF SpuriousWakeup, TypeOK
  <2> QED BY <2>1, <2>2, <2>3, AtFinite DEF NoLostWakeup
<1> QED BY <1>1, <1>2, <1>3, <1>4, <1>5, <1>6, <1>7, <1>8 DEF Next

\* One pthread_cond_signal per stored or removed element is enough: no thread
\* sleeps while there is more for it than the threads already woken can take.
THEOREM NoWakeupLost == Spec => []NoLostWakeup
<1>1. Init => NoLostWakeup
  BY DEF Init, NoLostWakeup, At
<1>2. TypeOK /\ RingInv /\ NoLostWakeup /\ [Next]_vars => NoLostWakeup'
  BY WakeupStep
<1> QED BY <1>1, <1>2, RingSafe, PTL DEF Spec

-----------------------------------------------------------------------------
(***************************************************************************)
(* The ring buffer implements the bounded queue of its header.             *)
(***************************************************************************)
\* Two different offsets from head are two different slots.
LEMMA SlotsDiffer ==
  ASSUME NEW x \in 0 .. Capacity - 1,
         NEW i \in 0 .. Capacity - 1, NEW j \in 0 .. Capacity - 1, i # j
  PROVE  (x + i) % Capacity # (x + j) % Capacity
<1>1. /\ x + i \in 0 .. 2 * Capacity - 1
      /\ x + j \in 0 .. 2 * Capacity - 1
  BY RingAssumption
<1>2. (x + i) % Capacity = x + i \/ (x + i) % Capacity = x + i - Capacity
  BY <1>1, Wrap, RingAssumption
<1>3. (x + j) % Capacity = x + j \/ (x + j) % Capacity = x + j - Capacity
  BY <1>1, Wrap, RingAssumption
<1> QED BY <1>2, <1>3, RingAssumption

\* The elements read from slot h on are a sequence of the expected length.
LEMMA ReadFrom ==
  ASSUME NEW n \in Nat, NEW h \in Int, NEW b,
         \A i \in 0 .. n - 1 : b[(h + i) % Capacity] \in Elements
  PROVE  LET c == [i \in 1 .. n |-> b[(h + i - 1) % Capacity]]
         IN  /\ c \in Seq(Elements) /\ Len(c) = n
             /\ \A i \in 1 .. n : c[i] = b[(h + i - 1) % Capacity]
<1> DEFINE c == [i \in 1 .. n |-> b[(h + i - 1) % Capacity]]
<1>1. ASSUME NEW i \in 1 .. n
      PROVE  b[(h + i - 1) % Capacity] \in Elements
  <2>1. i - 1 \in 0 .. n - 1 /\ h + i - 1 = h + (i - 1)
    OBVIOUS
  <2> QED BY <2>1
<1>2. c \in [1 .. n -> Elements]
  BY <1>1
<1>3. \A i \in 1 .. n : c[i] = b[(h + i - 1) % Capacity]
  OBVIOUS
<1> HIDE DEF c
<1>4. c \in Seq(Elements)
  BY <1>2
<1>5. Len(c) = n
  BY <1>2, <1>4, LenProperties
<1> QED BY <1>3, <1>4, <1>5 DEF c

\* The contents are a sequence of elements as long as the ring's size.
LEMMA ContentsSeq ==
  ASSUME TypeOK, RingInv
  PROVE  /\ Contents \in Seq(Elements)
         /\ Len(Contents) = size
         /\ \A i \in 1 .. size : Contents[i] = buffer[(head + i - 1) % Capacity]
<1>1. size \in Nat /\ head \in Int
  BY RingAssumption DEF TypeOK, Slots
<1> QED BY <1>1, ReadFrom DEF Contents, RingInv

\* The same of the contents after a step.
LEMMA ContentsSeqAfter ==
  ASSUME TypeOK', RingInv'
  PROVE  /\ Contents' \in Seq(Elements)
         /\ Len(Contents') = size'
         /\ \A i \in 1 .. size' :
              Contents'[i] = buffer'[(head' + i - 1) % Capacity]
<1>1. size' \in Nat /\ head' \in Int
  BY RingAssumption DEF TypeOK, Slots
<1> QED BY <1>1, ReadFrom DEF Contents, RingInv

\* A successful push is a Put.
LEMMA EnqueueIsPut ==
  ASSUME TypeOK, RingInv, NEW t \in Threads, NEW e \in Elements,
         size < Capacity, Enqueue(t, e)
  PROVE  Queue!Put(t, e)
<1>1. TypeOK' /\ RingInv'
  BY EnqueueKeeps
<1>2. /\ Contents \in Seq(Elements) /\ Len(Contents) = size
      /\ \A i \in 1 .. size : Contents[i] = buffer[(head + i - 1) % Capacity]
  BY ContentsSeq
<1>3. /\ Contents' \in Seq(Elements) /\ Len(Contents') = size'
      /\ \A i \in 1 .. size' :
           Contents'[i] = buffer'[(head' + i - 1) % Capacity]
  BY <1>1, ContentsSeqAfter
<1>4. /\ size' = size + 1 /\ head' = head
      /\ buffer' = [buffer EXCEPT ![tail] = e]
      /\ tail = (head + size) % Capacity /\ tail \in Slots
      /\ buffer \in [Slots -> Elements \cup {None}]
      /\ head \in 0 .. Capacity - 1 /\ size \in 0 .. Capacity - 1
  BY RingAssumption DEF Enqueue, RingInv, TypeOK, Slots
<1>5. \A i \in 1 .. size : Contents'[i] = Contents[i]
  <2> SUFFICES ASSUME NEW i \in 1 .. size
               PROVE  Contents'[i] = Contents[i]
    OBVIOUS
  <2>1. i - 1 \in 0 .. Capacity - 1 /\ i - 1 # size /\ head + i - 1 = head + (i - 1)
    BY <1>4, RingAssumption
  <2>2. (head + (i - 1)) % Capacity # tail
    BY <1>4, <2>1, SlotsDiffer
  <2>3. (head + (i - 1)) % Capacity \in Slots
    BY <1>4, <2>1, Wrap, RingAssumption
  <2>4. i \in 1 .. size'
    BY <1>4
  <2> QED BY <1>2, <1>3, <1>4, <2>1, <2>2, <2>3, <2>4
<1>6. Contents'[size + 1] = e
  <2>1. size + 1 \in 1 .. size' /\ head + (size + 1) - 1 = head + size
    BY <1>4
  <2> QED BY <1>3, <1>4, <2>1
<1>7. Contents' = Append(Contents, e)
  <2>1. /\ Append(Contents, e) \in Seq(Elements)
        /\ Len(Append(Contents, e)) = size + 1
        /\ \A i \in 1 .. size : Append(Contents, e)[i] = Contents[i]
        /\ Append(Contents, e)[size + 1] = e
    BY <1>2, AppendProperties
  <2>2. \A i \in 1 .. Len(Contents') : Contents'[i] = Append(Contents, e)[i]
    BY <1>3, <1>4, <1>5, <1>6, <2>1
  <2> QED BY <1>3, <1>4, <2>1, <2>2, SeqEqual
<1> QED BY <1>2, <1>7 DEF Queue!Put, Queue!Ok, Enqueue, Return

\* A successful pop is a Take.
LEMMA DequeueIsTake ==
  ASSUME TypeOK, RingInv, NEW t \in Threads, size > 0, Dequeue(t)
  PROVE  Queue!Take(t)
<1>1. TypeOK' /\ RingInv'
  BY DequeueKeeps
<1>2. /\ Contents \in Seq(Elements) /\ Len(Contents) = size
      /\ \A i \in 1 .. size : Contents[i] = buffer[(head + i - 1) % Capacity]
  BY ContentsSeq
<1>3. /\ Contents' \in Seq(Elements) /\ Len(Contents') = size'
      /\ \A i \in 1 .. size' :
           Contents'[i] = buffer'[(head' + i - 1) % Capacity]
  BY <1>1, ContentsSeqAfter
<1>4. /\ size' = size - 1 /\ head' = (head + 1) % Capacity
      /\ buffer' = buffer
      /\ head \in 0 .. Capacity - 1 /\ size \in 1 .. Capacity
  BY RingAssumption DEF Dequeue, TypeOK, Slots
<1>5. Contents # <<>>
  BY <1>2, <1>4, EmptySeq
<1>6. Head(Contents) = buffer[head]
  <2>1. 1 \in 1 .. size /\ head + 1 - 1 = head /\ head % Capacity = head
    BY <1>4, Wrap, RingAssumption
  <2>2. Contents[1] = buffer[head]
    BY <1>2, <2>1
  <2> QED BY <1>2, <1>5, <2>2
<1>7. \A i \in 1 .. size' : Contents'[i] = Contents[i + 1]
  <2> SUFFICES ASSUME NEW i \in 1 .. size'
               PROVE  Contents'[i] = Contents[i + 1]
    OBVIOUS
  <2>1. /\ i - 1 \in 0 .. Capacity - 1
        /\ i + 1 \in 1 .. size
        /\ head + (i - 1) + 1 = head + (i + 1) - 1
    BY <1>4, RingAssumption
  <2>2. (((head + 1) % Capacity) + (i - 1)) % Capacity
          = (head + (i - 1) + 1) % Capacity
    BY <1>4, <2>1, Shift
  <2>3. head' + i - 1 = ((head + 1) % Capacity) + (i - 1)
    BY <1>4, RingAssumption
  <2>4. Contents'[i] = buffer[(head' + i - 1) % Capacity]
    BY <1>3, <1>4
  <2>5. Contents[i + 1] = buffer[(head + (i + 1) - 1) % Capacity]
    BY <1>2, <2>1
  <2> QED BY <2>1, <2>2, <2>3, <2>4, <2>5
<1>8. Contents' = Tail(Contents)
  <2>1. /\ Tail(Contents) \in Seq(Elements)
        /\ Len(Tail(Contents)) = size - 1
        /\ \A i \in 1 .. size - 1 : Tail(Contents)[i] = Contents[i + 1]
    BY <1>2, <1>5, HeadTailProperties
  <2>2. \A i \in 1 .. Len(Contents') : Contents'[i] = Tail(Contents)[i]
    BY <1>3, <1>4, <1>7, <2>1
  <2> QED BY <1>3, <1>4, <2>1, <2>2, SeqEqual
<1> QED BY <1>5, <1>6, <1>8 DEF Queue!Take, Dequeue, Return

\* Every step of the ring is a step of the queue or leaves it alone.
LEMMA QueueStep ==
  ASSUME TypeOK, RingInv, [Next]_vars
  PROVE  [Queue!QueueNext]_Queue!qvars
<1> DEFINE Same == Contents' = Contents
<1>1. ASSUME UNCHANGED <<buffer, size, head, tail>> PROVE Same
  BY <1>1 DEF Contents
<1>2. ASSUME NEW t \in Threads, GiveUp(t) PROVE Queue!Refuse(t)
  BY <1>2, <1>1 DEF GiveUp, Return, Queue!Refuse
<1>3. ASSUME UNCHANGED <<buffer, size, head, tail>>, last' = last
      PROVE  UNCHANGED Queue!qvars
  BY <1>1, <1>3 DEF Queue!qvars
<1>4. CASE UNCHANGED vars
  BY <1>3, <1>4 DEF vars
<1>5. ASSUME NEW t \in Threads, NEW e \in Elements, NEW m \in Modes,
             Push(t, e, m)
      PROVE  [Queue!QueueNext]_Queue!qvars
  BY <1>2, <1>3, <1>5, EnqueueIsPut DEF Push, Block, Queue!QueueNext
<1>6. ASSUME NEW t \in Threads, NEW m \in Modes, Pop(t, m)
      PROVE  [Queue!QueueNext]_Queue!qvars
  BY <1>2, <1>3, <1>6, DequeueIsTake DEF Pop, Block, Queue!QueueNext
<1>7. ASSUME NEW t \in Threads, ResumePush(t)
      PROVE  [Queue!QueueNext]_Queue!qvars
  <2>1. call[t].element \in Elements
    BY <1>7 DEF ResumePush, RingInv, At
  <2> QED BY <1>3, <1>7, <2>1, EnqueueIsPut DEF ResumePush, Block, Queue!QueueNext
<1>8. ASSUME NEW t \in Threads, ResumePop(t)
      PROVE  [Queue!QueueNext]_Queue!qvars
  BY <1>3, <1>8, DequeueIsTake DEF ResumePop, Block, Queue!QueueNext
<1>9. ASSUME NEW t \in Threads, ExpiredPush(t) \/ ExpiredPop(t)
      PROVE  [Queue!QueueNext]_Queue!qvars
  BY <1>2, <1>9 DEF ExpiredPush, ExpiredPop, Queue!QueueNext
<1>10. ASSUME NEW t \in Threads, Expire(t) \/ SpuriousWakeup(t)
       PROVE  [Queue!QueueNext]_Queue!qvars
  BY <1>3, <1>10 DEF Expire, SpuriousWakeup
<1> QED BY <1>4, <1>5, <1>6, <1>7, <1>8, <1>9, <1>10 DEF Next

\* ring_buffer.c implements the FIFO queue of ring_buffer.h: under any
\* interleaving nothing is lost, duplicated or reordered, and an operation
\* that reports failure has changed nothing.
THEOREM RingImplementsQueue == Spec => ImplementsQueue
<1>1. Init => Queue!QueueInit
  <2> SUFFICES ASSUME Init PROVE Queue!QueueInit
    OBVIOUS
  <2>1. TypeOK /\ RingInv /\ size = 0
    BY RingInitially DEF Init
  <2>2. Contents = <<>>
    BY <2>1, ContentsSeq, EmptySeq
  <2> QED BY <2>2 DEF Init, Queue!QueueInit
<1>2. TypeOK /\ RingInv /\ [Next]_vars => [Queue!QueueNext]_Queue!qvars
  BY QueueStep
<1> QED BY <1>1, <1>2, RingSafe, PTL DEF Spec, ImplementsQueue, Queue!QueueSpec
=============================================================================
