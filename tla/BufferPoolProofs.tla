-------------------------- MODULE BufferPoolProofs --------------------------
(***************************************************************************)
(* Proofs about BufferPool, for any workers and any number of buffers.     *)
(***************************************************************************)
EXTENDS BufferPool, FiniteSetTheorems, TLAPS

\* A thread has a buffer in its hands exactly between two accesses.
Hands ==
  /\ \A t \in Threads : buffer[t] # None <=> pc[t] \in {"count", "enqueue"}
  /\ \A t \in Threads : pc[t] \in {"initialize", "alloc"} => t = Main

\* BufferInOnePlace, by quantifiers.
Places ==
  /\ \A b \in Buffers :
       b \in fresh \/ b \in mQueue \/ b \in lent \/ \E t \in Threads : buffer[t] = b
  /\ \A b \in Buffers : ~ (b \in fresh /\ b \in mQueue)
  /\ \A b \in Buffers : ~ (b \in fresh /\ b \in lent)
  /\ \A b \in Buffers : ~ (b \in mQueue /\ b \in lent)
  /\ \A t \in Threads : buffer[t] \notin fresh \cup mQueue \cup lent
  /\ \A t, u \in Threads : buffer[t] # None /\ buffer[t] = buffer[u] => t = u

\* HandedOutEmpty, and what makes it so: only a session's buffer is written.
Clean == written \subseteq lent

IInv == TypeOK /\ Hands /\ Places /\ Clean /\ CountsAccount

-----------------------------------------------------------------------------
\* There are finitely many threads.
LEMMA ThreadsFinite == IsFiniteSet(Threads)
BY ThreadAssumption, FS_Union, FS_Singleton DEF Threads

\* The inductive invariant holds for the empty pool.
LEMMA InitIInv == Init => IInv
<1> SUFFICES ASSUME Init PROVE IInv
  OBVIOUS
<1> USE BufferAssumption, ThreadAssumption
<1>1. TypeOK
  BY DEF Init, TypeOK, Steps
<1>2. Hands
  BY DEF Init, Hands
<1>3. Places /\ Clean
  BY DEF Init, Places, Clean
<1>4. CountsAccount
  <2>1. lent = {} /\ Buffers \ fresh = {} /\ Releasing = {} /\ Counting = 0
    BY DEF Init, Releasing, Counting, Threads
  <2> QED
    BY <2>1, FS_EmptySet DEF Init, CountsAccount
<1> QED
  BY <1>1, <1>2, <1>3, <1>4 DEF IInv

\* A buffer that is passed on comes from a thread's hands or from the queue.
LEMMA TypeStep == TypeOK /\ Hands /\ [Next]_vars => TypeOK'
<1> SUFFICES ASSUME TypeOK, Hands, [Next]_vars PROVE TypeOK'
  OBVIOUS
<1> USE DEF TypeOK, Steps, Goto, counts, places, locals
<1>1. CASE InitializeEnqueue
  BY <1>1 DEF InitializeEnqueue
<1>2. CASE InitializeCount
  <2>1. (IF fresh = {} THEN "idle" ELSE "initialize") \in Steps
    OBVIOUS
  <2>2. pc' \in [Threads -> Steps]
    BY <1>2, <2>1 DEF InitializeCount
  <2> QED
    BY <1>2, <2>2 DEF InitializeCount
<1>3. ASSUME NEW t \in Workers, Acquire(t)
      PROVE  TypeOK'
  BY <1>3 DEF Acquire
<1>4. ASSUME NEW t \in Workers, LoadAllocCount(t)
      PROVE  TypeOK'
  BY <1>4 DEF LoadAllocCount
<1>5. ASSUME NEW t \in Workers, LoadUseCount(t)
      PROVE  TypeOK'
  BY <1>5 DEF LoadUseCount
<1>6. ASSUME NEW t \in Workers, Refuse(t) \/ Admit(t)
      PROVE  TypeOK'
  BY <1>6 DEF Refuse, Admit, Loaded
<1>7. ASSUME NEW t \in Workers, Take(t)
      PROVE  TypeOK'
  BY <1>7 DEF Take
<1>8. ASSUME NEW t \in Workers, AcquireCount(t)
      PROVE  TypeOK'
  BY <1>8 DEF AcquireCount, Hands, Threads
<1>9. ASSUME NEW t \in Threads, NEW b \in Buffers, ReleaseReset(t, b)
      PROVE  TypeOK'
  BY <1>9 DEF ReleaseReset
<1>10. ASSUME NEW t \in Threads, ReleaseEnqueue(t)
      PROVE  TypeOK'
  BY <1>10 DEF ReleaseEnqueue, Hands
<1>11. ASSUME NEW t \in Threads, ReleaseCount(t)
      PROVE  TypeOK'
  BY <1>11 DEF ReleaseCount
<1>12. ASSUME NEW b \in Buffers, Write(b)
      PROVE  TypeOK'
  BY <1>12 DEF Write
<1>13. CASE UNCHANGED vars
  BY <1>13 DEF vars
<1>14. ASSUME NEW t \in Workers, Acquire(t) \/ AcquireStep(t)
       PROVE  TypeOK'
  BY <1>3, <1>4, <1>5, <1>6, <1>7, <1>8, <1>14 DEF AcquireStep
<1>15. ASSUME NEW t \in Threads,
              ReleaseStep(t) \/ \E b \in Buffers : ReleaseReset(t, b)
       PROVE  TypeOK'
  BY <1>9, <1>10, <1>11, <1>15 DEF ReleaseStep
<1> QED
  BY <1>1, <1>2, <1>12, <1>13, <1>14, <1>15 DEF Next

\* A step takes a buffer up and enters "count" or "enqueue", or puts it down
\* and leaves it.
LEMMA HandsStep == TypeOK /\ Hands /\ [Next]_vars => Hands'
<1> SUFFICES ASSUME TypeOK, Hands, [Next]_vars PROVE Hands'
  OBVIOUS
<1> USE BufferAssumption, ThreadAssumption DEF TypeOK, Goto, counts, places, locals, Threads, Hands
<1>1. CASE InitializeEnqueue
  BY <1>1 DEF InitializeEnqueue
<1>2. CASE InitializeCount
  BY <1>2 DEF InitializeCount
<1>3. ASSUME NEW t \in Workers, Acquire(t)
      PROVE  Hands'
  BY <1>3 DEF Acquire
<1>4. ASSUME NEW t \in Workers, LoadAllocCount(t)
      PROVE  Hands'
  BY <1>4 DEF LoadAllocCount
<1>5. ASSUME NEW t \in Workers, LoadUseCount(t)
      PROVE  Hands'
  BY <1>5 DEF LoadUseCount
<1>6. ASSUME NEW t \in Workers, Refuse(t) \/ Admit(t)
      PROVE  Hands'
  BY <1>6 DEF Refuse, Admit, Loaded
<1>7. ASSUME NEW t \in Workers, Take(t)
      PROVE  Hands'
  BY <1>7 DEF Take
<1>8. ASSUME NEW t \in Workers, AcquireCount(t)
      PROVE  Hands'
  BY <1>8 DEF AcquireCount, Hands, Threads
<1>9. ASSUME NEW t \in Threads, NEW b \in Buffers, ReleaseReset(t, b)
      PROVE  Hands'
  BY <1>9 DEF ReleaseReset
<1>10. ASSUME NEW t \in Threads, ReleaseEnqueue(t)
      PROVE  Hands'
  BY <1>10 DEF ReleaseEnqueue, Hands
<1>11. ASSUME NEW t \in Threads, ReleaseCount(t)
      PROVE  Hands'
  BY <1>11 DEF ReleaseCount
<1>12. ASSUME NEW b \in Buffers, Write(b)
      PROVE  Hands'
  BY <1>12 DEF Write
<1>13. CASE UNCHANGED vars
  BY <1>13 DEF vars
<1>14. ASSUME NEW t \in Workers, Acquire(t) \/ AcquireStep(t)
       PROVE  Hands'
  BY <1>3, <1>4, <1>5, <1>6, <1>7, <1>8, <1>14 DEF AcquireStep
<1>15. ASSUME NEW t \in Threads,
              ReleaseStep(t) \/ \E b \in Buffers : ReleaseReset(t, b)
       PROVE  Hands'
  BY <1>9, <1>10, <1>11, <1>15 DEF ReleaseStep
<1> QED
  BY <1>1, <1>2, <1>12, <1>13, <1>14, <1>15 DEF Next

\* Every step that moves a buffer takes it from one place and puts it in one.
LEMMA PlacesStep == TypeOK /\ Hands /\ Places /\ [Next]_vars => Places'
<1> SUFFICES ASSUME TypeOK, Hands, Places, [Next]_vars PROVE Places'
  OBVIOUS
<1> USE BufferAssumption, ThreadAssumption DEF TypeOK, Goto, counts, places, locals, Threads, Hands, Places
<1>1. CASE InitializeEnqueue
  BY <1>1 DEF InitializeEnqueue
<1>2. CASE InitializeCount
  BY <1>2 DEF InitializeCount
<1>3. ASSUME NEW t \in Workers, Acquire(t)
      PROVE  Places'
  BY <1>3 DEF Acquire
<1>4. ASSUME NEW t \in Workers, LoadAllocCount(t)
      PROVE  Places'
  BY <1>4 DEF LoadAllocCount
<1>5. ASSUME NEW t \in Workers, LoadUseCount(t)
      PROVE  Places'
  BY <1>5 DEF LoadUseCount
<1>6. ASSUME NEW t \in Workers, Refuse(t) \/ Admit(t)
      PROVE  Places'
  BY <1>6 DEF Refuse, Admit, Loaded
<1>7. ASSUME NEW t \in Workers, Take(t)
      PROVE  Places'
  BY <1>7 DEF Take
<1>8. ASSUME NEW t \in Workers, AcquireCount(t)
      PROVE  Places'
  BY <1>8 DEF AcquireCount, Hands, Threads
<1>9. ASSUME NEW t \in Threads, NEW b \in Buffers, ReleaseReset(t, b)
      PROVE  Places'
  BY <1>9 DEF ReleaseReset
<1>10. ASSUME NEW t \in Threads, ReleaseEnqueue(t)
      PROVE  Places'
  BY <1>10 DEF ReleaseEnqueue, Hands
<1>11. ASSUME NEW t \in Threads, ReleaseCount(t)
      PROVE  Places'
  BY <1>11 DEF ReleaseCount
<1>12. ASSUME NEW b \in Buffers, Write(b)
      PROVE  Places'
  BY <1>12 DEF Write
<1>13. CASE UNCHANGED vars
  BY <1>13 DEF vars
<1>14. ASSUME NEW t \in Workers, Acquire(t) \/ AcquireStep(t)
       PROVE  Places'
  BY <1>3, <1>4, <1>5, <1>6, <1>7, <1>8, <1>14 DEF AcquireStep
<1>15. ASSUME NEW t \in Threads,
              ReleaseStep(t) \/ \E b \in Buffers : ReleaseReset(t, b)
       PROVE  Places'
  BY <1>9, <1>10, <1>11, <1>15 DEF ReleaseStep
<1> QED
  BY <1>1, <1>2, <1>12, <1>13, <1>14, <1>15 DEF Next

\* A buffer is written only while a session has it, and reset when it goes.
LEMMA CleanStep == TypeOK /\ Places /\ Clean /\ [Next]_vars => Clean'
<1> SUFFICES ASSUME TypeOK, Places, Clean, [Next]_vars PROVE Clean'
  OBVIOUS
<1> USE BufferAssumption, ThreadAssumption DEF TypeOK, Goto, counts, places, locals, Threads, Places, Clean
<1>1. CASE InitializeEnqueue
  BY <1>1 DEF InitializeEnqueue
<1>2. CASE InitializeCount
  BY <1>2 DEF InitializeCount
<1>3. ASSUME NEW t \in Workers, Acquire(t)
      PROVE  Clean'
  BY <1>3 DEF Acquire
<1>4. ASSUME NEW t \in Workers, LoadAllocCount(t)
      PROVE  Clean'
  BY <1>4 DEF LoadAllocCount
<1>5. ASSUME NEW t \in Workers, LoadUseCount(t)
      PROVE  Clean'
  BY <1>5 DEF LoadUseCount
<1>6. ASSUME NEW t \in Workers, Refuse(t) \/ Admit(t)
      PROVE  Clean'
  BY <1>6 DEF Refuse, Admit, Loaded
<1>7. ASSUME NEW t \in Workers, Take(t)
      PROVE  Clean'
  BY <1>7 DEF Take
<1>8. ASSUME NEW t \in Workers, AcquireCount(t)
      PROVE  Clean'
  BY <1>8 DEF AcquireCount, Hands, Threads
<1>9. ASSUME NEW t \in Threads, NEW b \in Buffers, ReleaseReset(t, b)
      PROVE  Clean'
  BY <1>9 DEF ReleaseReset
<1>10. ASSUME NEW t \in Threads, ReleaseEnqueue(t)
      PROVE  Clean'
  BY <1>10 DEF ReleaseEnqueue, Hands
<1>11. ASSUME NEW t \in Threads, ReleaseCount(t)
      PROVE  Clean'
  BY <1>11 DEF ReleaseCount
<1>12. ASSUME NEW b \in Buffers, Write(b)
      PROVE  Clean'
  BY <1>12 DEF Write
<1>13. CASE UNCHANGED vars
  BY <1>13 DEF vars
<1>14. ASSUME NEW t \in Workers, Acquire(t) \/ AcquireStep(t)
       PROVE  Clean'
  BY <1>3, <1>4, <1>5, <1>6, <1>7, <1>8, <1>14 DEF AcquireStep
<1>15. ASSUME NEW t \in Threads,
              ReleaseStep(t) \/ \E b \in Buffers : ReleaseReset(t, b)
       PROVE  Clean'
  BY <1>9, <1>10, <1>11, <1>15 DEF ReleaseStep
<1> QED
  BY <1>1, <1>2, <1>12, <1>13, <1>14, <1>15 DEF Next

\* The parts that the counts speak of are finite.
LEMMA PartsFinite ==
  ASSUME TypeOK
  PROVE  /\ IsFiniteSet(lent) /\ IsFiniteSet(Releasing)
         /\ IsFiniteSet(Buffers \ fresh)
         /\ Cardinality(lent) \in Int /\ Cardinality(Releasing) \in Int
         /\ Cardinality(Buffers \ fresh) \in Int
<1>1. IsFiniteSet(lent) /\ IsFiniteSet(Buffers \ fresh)
  BY BufferAssumption, FS_Subset DEF TypeOK
<1>2. IsFiniteSet(Releasing)
  BY ThreadsFinite, FS_Subset DEF Releasing
<1> QED
  BY <1>1, <1>2, FS_CardinalityType

\* The steps that leave alone what CountsAccount counts.
LEMMA SameCounts ==
  ASSUME CountsAccount, UNCHANGED <<counts, fresh, lent>>,
         Releasing' = Releasing, Counting' = Counting
  PROVE  CountsAccount'
BY DEF CountsAccount, counts

\* Each step adds to or takes from a count what it adds to or takes from the
\* set the count stands for.
LEMMA CountsStep ==
  TypeOK /\ Hands /\ Places /\ CountsAccount /\ [Next]_vars => CountsAccount'
<1> SUFFICES ASSUME TypeOK, Hands, Places, CountsAccount, [Next]_vars
             PROVE  CountsAccount'
  OBVIOUS
<1> USE ThreadAssumption DEF Goto, counts, places, locals
<1>1. CASE InitializeEnqueue
  <2>1. PICK b \in fresh : fresh' = fresh \ {b} /\ mQueue' = mQueue \cup {b}
    BY <1>1 DEF InitializeEnqueue
  <2>2. Buffers \ fresh' = (Buffers \ fresh) \cup {b} /\ b \notin Buffers \ fresh
    BY <2>1 DEF TypeOK
  <2>3. Cardinality(Buffers \ fresh') = Cardinality(Buffers \ fresh) + 1
    BY <2>2, PartsFinite, FS_AddElement
  <2>4. Releasing' = Releasing /\ Counting = 0 /\ Counting' = 1
    BY <1>1 DEF InitializeEnqueue, Releasing, Counting, TypeOK, Threads
  <2> QED
    BY <1>1, <2>3, <2>4, PartsFinite DEF InitializeEnqueue, CountsAccount
<1>2. CASE InitializeCount
  <2>1. Releasing' = Releasing /\ Counting = 1 /\ Counting' = 0
    BY <1>2 DEF InitializeCount, Releasing, Counting, TypeOK, Threads
  <2> QED
    BY <1>2, <2>1, PartsFinite DEF InitializeCount, CountsAccount
<1>3. ASSUME NEW t \in Workers,
             Acquire(t) \/ LoadAllocCount(t) \/ LoadUseCount(t)
               \/ Refuse(t) \/ Admit(t) \/ Take(t)
      PROVE  CountsAccount'
  <2>1. Releasing' = Releasing
    BY <1>3 DEF Acquire, LoadAllocCount, LoadUseCount, Loaded, Refuse, Admit,
                Take, Releasing, TypeOK
  <2>2. Counting' = Counting /\ UNCHANGED <<counts, fresh, lent>>
    BY <1>3 DEF Acquire, LoadAllocCount, LoadUseCount, Refuse, Admit, Take,
                Counting, TypeOK, Threads
  <2> QED
    BY <2>1, <2>2, SameCounts
<1>4. ASSUME NEW t \in Workers, AcquireCount(t)
      PROVE  CountsAccount'
  <2>1. buffer[t] \notin lent
    BY DEF Places, Threads
  <2>2. Cardinality(lent') = Cardinality(lent) + 1
    BY <1>4, <2>1, PartsFinite, FS_AddElement DEF AcquireCount
  <2>3. Releasing' = Releasing /\ Counting' = Counting
    BY <1>4 DEF AcquireCount, Releasing, Counting, TypeOK, Threads
  <2> QED
    BY <1>4, <2>2, <2>3, PartsFinite DEF AcquireCount, CountsAccount
<1>5. ASSUME NEW t \in Threads, NEW b \in Buffers, ReleaseReset(t, b)
      PROVE  CountsAccount'
  <2>1. Cardinality(lent') = Cardinality(lent) - 1
    BY <1>5, PartsFinite, FS_RemoveElement DEF ReleaseReset
  <2>2. Releasing' = Releasing \cup {t} /\ t \notin Releasing
    BY <1>5 DEF ReleaseReset, Releasing, TypeOK
  <2>3. Cardinality(Releasing') = Cardinality(Releasing) + 1
    BY <2>2, PartsFinite, FS_AddElement
  <2>4. Counting' = Counting
    BY <1>5 DEF ReleaseReset, Counting, TypeOK, Threads
  <2> QED
    BY <1>5, <2>1, <2>3, <2>4, PartsFinite DEF ReleaseReset, CountsAccount
<1>6. ASSUME NEW t \in Threads, ReleaseEnqueue(t)
      PROVE  CountsAccount'
  <2>1. Releasing' = Releasing /\ Counting' = Counting
    BY <1>6 DEF ReleaseEnqueue, Releasing, Counting, TypeOK, Threads
  <2> QED
    BY <1>6, <2>1, SameCounts DEF ReleaseEnqueue
<1>7. ASSUME NEW t \in Threads, ReleaseCount(t)
      PROVE  CountsAccount'
  <2>1. Releasing' = Releasing \ {t} /\ t \in Releasing
    BY <1>7 DEF ReleaseCount, Releasing, TypeOK
  <2>2. Cardinality(Releasing') = Cardinality(Releasing) - 1
    BY <2>1, PartsFinite, FS_RemoveElement
  <2>3. Counting' = Counting
    BY <1>7 DEF ReleaseCount, Counting, TypeOK, Threads
  <2> QED
    BY <1>7, <2>2, <2>3, PartsFinite DEF ReleaseCount, CountsAccount
<1>8. ASSUME NEW b \in Buffers, Write(b)
      PROVE  CountsAccount'
  BY <1>8, SameCounts DEF Write, Releasing, Counting
<1>9. CASE UNCHANGED vars
  BY <1>9, SameCounts DEF vars, Releasing, Counting
<1>10. ASSUME NEW t \in Workers, Acquire(t) \/ AcquireStep(t)
       PROVE  CountsAccount'
  BY <1>3, <1>4, <1>10 DEF AcquireStep
<1>11. ASSUME NEW t \in Threads,
              ReleaseStep(t) \/ \E b \in Buffers : ReleaseReset(t, b)
       PROVE  CountsAccount'
  BY <1>5, <1>6, <1>7, <1>11 DEF ReleaseStep
<1> QED
  BY <1>1, <1>2, <1>8, <1>9, <1>10, <1>11 DEF Next

-----------------------------------------------------------------------------
\* The inductive invariant holds in every reachable state.
THEOREM Invariance == Spec => []IInv
<1>1. IInv /\ [Next]_vars => IInv'
  BY TypeStep, HandsStep, PlacesStep, CleanStep, CountsStep DEF IInv
<1> QED
  BY InitIInv, <1>1, PTL DEF Spec

\* The pool's variables keep their types: what a session holds is a buffer.
THEOREM TypeCorrect == Spec => []TypeOK
<1>1. IInv => TypeOK
  BY DEF IInv
<1> QED
  BY Invariance, <1>1, PTL

\* No buffer is handed out twice, and none is lost, whatever the counts say.
THEOREM OnePlace == Spec => []BufferInOnePlace
<1>1. IInv => BufferInOnePlace
  <2> SUFFICES ASSUME IInv PROVE BufferInOnePlace
    OBVIOUS
  <2>1. InHand \subseteq Buffers
    BY DEF IInv, TypeOK, InHand
  <2>2. Buffers \subseteq fresh \cup mQueue \cup lent \cup InHand
    BY BufferAssumption DEF IInv, Places, InHand
  <2>3. InHand \cap (fresh \cup mQueue \cup lent) = {}
    BY DEF IInv, Places, InHand
  <2>4. fresh \cap mQueue = {} /\ fresh \cap lent = {} /\ mQueue \cap lent = {}
    BY DEF IInv, Places, TypeOK
  <2> QED
    BY <2>1, <2>2, <2>3, <2>4 DEF IInv, Places, TypeOK, BufferInOnePlace
<1> QED
  BY Invariance, <1>1, PTL

\* The counts are wrong by no more than the threads that are between the queue
\* and a count.
THEOREM CountsCorrect == Spec => []CountsAccount
<1>1. IInv => CountsAccount
  BY DEF IInv
<1> QED
  BY Invariance, <1>1, PTL

\* A session's buffer starts empty.
THEOREM StartsEmpty == Spec => []HandedOutEmpty
<1>1. IInv => HandedOutEmpty
  BY DEF IInv, Clean, Places, TypeOK, HandedOutEmpty
<1> QED
  BY Invariance, <1>1, PTL
=============================================================================
