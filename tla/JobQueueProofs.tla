--------------------------- MODULE JobQueueProofs ---------------------------
(***************************************************************************)
(* Proofs about JobQueue, for any threads, queues and jobs.                *)
(***************************************************************************)
EXTENDS JobQueue, FiniteSetTheorems, TLAPS

\* What Push and Execute know about their own thread.
Shape ==
  \A t \in Threads :
    /\ phase[t] = "out" <=> LCurrentJobQueue[t] = None
    /\ pushQueue[t] # None => phase[t] \in {"out", "job"}
    /\ pushQueue[t] # None <=> pushJob[t] # None \/ first[t] = TRUE
    /\ pushQueue[t] # None /\ phase[t] = "out" => at[t] = "io"
    /\ phase[t] \in {"out", "check"} => jobs[t] = {}
    /\ phase[t] = "job" => current[t] \in jobs[t] \ finished
    /\ phase[t] # "job" => current[t] = None

\* Where a job is: with one pusher, then in its queue, then in the vector of
\* the thread executing that queue, and run in the end.
Place ==
  /\ \A t \in Threads : pushJob[t] # None => home[pushJob[t]] = None
  /\ \A t, u \in Threads : pushJob[t] = pushJob[u] /\ pushJob[t] # None => t = u
  /\ \A q \in Queues : \A j \in mJobQueue[q] :
       /\ home[j] = q
       /\ j \notin finished
       /\ \A t \in Threads : j \notin jobs[t]
  /\ \A t \in Threads : \A j \in jobs[t] :
       home[j] = LCurrentJobQueue[t] /\ home[j] \in Queues
  /\ \A j \in finished : home[j] \in Queues
  /\ \A j \in Jobs : home[j] \in Queues =>
       \/ j \in mJobQueue[home[j]]
       \/ j \in finished
       \/ \E t \in Threads : j \in jobs[t]

\* The jobs of one poster stay in order on their way through a queue.
Order ==
  /\ \A j \in Jobs : \A k \in prior[j] : home[k] = home[j] /\ home[k] \in Queues
  /\ \A t \in Threads : \A j \in jobs[t] : prior[j] \subseteq finished \cup jobs[t]

\* SerialExecution and ScheduledIffCounted, by quantifiers over threads.
Holds(t, q) == Executing(t, q) \/ Scheduling(t, q)

Token ==
  \A q \in Queues :
    /\ \A t, u \in Threads : Holds(t, q) /\ Holds(u, q) => t = u
    /\ \A t \in Threads : ~ (Executing(t, q) /\ Scheduling(t, q))
    /\ \A t \in Threads : Holds(t, q) => mJobQueues[q] = 0
    /\ mJobQueues[q] <= 1
    /\ mJobCount[q] = 0 => mJobQueues[q] = 0 /\ \A t \in Threads : ~ Holds(t, q)
    /\ mJobCount[q] # 0 => mJobQueues[q] = 1 \/ \E t \in Threads : Holds(t, q)

IInv == TypeOK /\ Shape /\ Place /\ Order /\ Token /\ CountMatchesJobs

-----------------------------------------------------------------------------
\* The batch of a thread is finite, so is the set of jobs a queue owes.
LEMMA SubsetsOfJobs ==
  ASSUME NEW S \in SUBSET Jobs
  PROVE  IsFiniteSet(S) /\ Cardinality(S) \in Nat
BY JobsAssumption, FS_Subset, FS_CardinalityType

\* Numbers that differ have a difference that is not 0.
LEMMA NonzeroDifference ==
  ASSUME NEW a \in Nat, NEW b \in Nat, a # b
  PROVE  a - b # 0
OBVIOUS

\* Workers and main are threads.
LEMMA LoopThreadsAreThreads == LoopThreads \subseteq Threads /\ Main \in Threads
BY DEF Threads, LoopThreads

\* Two threads never hold the same job: they would execute the same queue.
LEMMA DisjointBatches ==
  ASSUME TypeOK, Place, Token, NEW t \in Threads, NEW u \in Threads,
         NEW j \in jobs[t], j \in jobs[u]
  PROVE  t = u
BY DEF TypeOK, Place, Token, Holds, Executing

\* Every step keeps the variables in their types.
LEMMA TypeStep == TypeOK /\ Shape /\ [Next]_vars => TypeOK'
<1> SUFFICES ASSUME TypeOK, Shape, [Next]_vars PROVE TypeOK'
  OBVIOUS
<1> USE LoopThreadsAreThreads, NoneAssumption, SliceAssumption
    DEF TypeOK, pushVars, history
<1>1. ASSUME NEW t \in Threads, NEW q \in Queues, NEW j \in Jobs, PushCount(t, q, j)
     PROVE  TypeOK'
  BY <1>1 DEF FirstJob, PushCount, InUserCode, Fresh
<1>2. ASSUME NEW t \in Threads, PushEnqueue(t)
     PROVE  TypeOK'
  BY <1>2 DEF PushEnqueue
<1>3. ASSUME NEW t \in Threads, PushExecute(t)
     PROVE  TypeOK'
  BY <1>3 DEF PushExecute, MustSchedule, StartExecute, PushReturn
<1>4. ASSUME NEW t \in Threads, PushGlobal(t)
     PROVE  TypeOK'
  BY <1>4 DEF PushGlobal, MustSchedule, PushReturn, Shape
<1>5. ASSUME NEW t \in LoopThreads, Drain(t)
     PROVE  TypeOK'
  BY <1>5 DEF Oldest, Drain, Shape
<1>6. ASSUME NEW t \in LoopThreads, DrainEnd(t)
     PROVE  TypeOK'
  BY <1>6 DEF DrainEnd
<1>7. ASSUME NEW t \in LoopThreads, RunJob(t)
     PROVE  TypeOK'
  BY <1>7 DEF Oldest, RunJob
<1>8. ASSUME NEW t \in LoopThreads, JobReturn(t)
     PROVE  TypeOK'
  BY <1>8 DEF JobReturn, Shape
<1>9. ASSUME NEW t \in LoopThreads, ExecuteDone(t)
     PROVE  TypeOK'
  <2>1. Cardinality(jobs[t]) \in Nat
    BY SubsetsOfJobs
  <2> QED
    BY <1>9, <2>1 DEF FetchSub, NoJobLeft, ExecuteDone, SubtractJobs, Shape
<1>10. ASSUME NEW t \in LoopThreads, ExecuteMore(t)
     PROVE  TypeOK'
  <2>1. Cardinality(jobs[t]) \in Nat
    BY SubsetsOfJobs
  <2> QED
    BY <1>10, <2>1 DEF FetchSub, NoJobLeft, ExecuteMore, SubtractJobs, Shape
<1>11. ASSUME NEW t \in LoopThreads, ExecuteYield(t)
     PROVE  TypeOK'
  BY <1>11 DEF ExecuteYield, Shape
<1>12. ASSUME NEW t \in LoopThreads, ExecuteAgain(t)
     PROVE  TypeOK'
  BY <1>12 DEF ExecuteAgain
<1>13. ASSUME NEW t \in LoopThreads, EnterGlobalJobs(t)
     PROVE  TypeOK'
  BY <1>13 DEF EnterGlobalJobs
<1>14. ASSUME NEW t \in LoopThreads, NEW q \in Queues, PopGlobal(t, q)
     PROVE  TypeOK'
  BY <1>14 DEF PopGlobal, StartExecute
<1>15. ASSUME NEW t \in LoopThreads, LeaveGlobalJobs(t)
     PROVE  TypeOK'
  BY <1>15 DEF NewSlice, LeaveGlobalJobs
<1>16. CASE Tick
  BY <1>16 DEF Tick
<1>17. CASE UNCHANGED vars
  BY <1>17 DEF vars, pushVars, history
<1> QED
  BY <1>1, <1>2, <1>3, <1>4, <1>5, <1>6, <1>7, <1>8, <1>9, <1>10, <1>11, <1>12, <1>13, <1>14, <1>15, <1>16, <1>17
  DEF Next, PushStep, ExecuteStep, LoopStep

\* Every step keeps the program counters and locals of a thread consistent.
LEMMA ShapeStep == TypeOK /\ Shape /\ Place /\ Token /\ [Next]_vars => Shape'
<1> SUFFICES ASSUME TypeOK, Shape, Place, Token, [Next]_vars PROVE Shape'
  OBVIOUS
<1> USE LoopThreadsAreThreads, NoneAssumption
    DEF TypeOK, Shape, pushVars, history
<1>1. ASSUME NEW t \in Threads, NEW q \in Queues, NEW j \in Jobs, PushCount(t, q, j)
     PROVE  Shape'
  BY <1>1 DEF FirstJob, PushCount, InUserCode, Fresh
<1>2. ASSUME NEW t \in Threads, PushEnqueue(t)
     PROVE  Shape'
  BY <1>2 DEF PushEnqueue
<1>3. ASSUME NEW t \in Threads, PushExecute(t)
     PROVE  Shape'
  BY <1>3 DEF PushExecute, MustSchedule, StartExecute, PushReturn
<1>4. ASSUME NEW t \in Threads, PushGlobal(t)
     PROVE  Shape'
  BY <1>4 DEF PushGlobal, MustSchedule, PushReturn
<1>5. ASSUME NEW t \in LoopThreads, Drain(t)
     PROVE  Shape'
  BY <1>5 DEF Oldest, Drain
<1>6. ASSUME NEW t \in LoopThreads, DrainEnd(t)
     PROVE  Shape'
  BY <1>6 DEF DrainEnd
<1>7. ASSUME NEW t \in LoopThreads, RunJob(t)
     PROVE  Shape'
  BY <1>7 DEF Oldest, RunJob
<1>8. ASSUME NEW t \in LoopThreads, JobReturn(t)
     PROVE  Shape'
  BY <1>8, DisjointBatches DEF JobReturn
<1>9. ASSUME NEW t \in LoopThreads, ExecuteDone(t)
     PROVE  Shape'
  BY <1>9 DEF FetchSub, NoJobLeft, ExecuteDone, SubtractJobs
<1>10. ASSUME NEW t \in LoopThreads, ExecuteMore(t)
     PROVE  Shape'
  BY <1>10 DEF FetchSub, NoJobLeft, ExecuteMore, SubtractJobs
<1>11. ASSUME NEW t \in LoopThreads, ExecuteYield(t)
     PROVE  Shape'
  BY <1>11 DEF ExecuteYield
<1>12. ASSUME NEW t \in LoopThreads, ExecuteAgain(t)
     PROVE  Shape'
  BY <1>12 DEF ExecuteAgain
<1>13. ASSUME NEW t \in LoopThreads, EnterGlobalJobs(t)
     PROVE  Shape'
  BY <1>13 DEF EnterGlobalJobs
<1>14. ASSUME NEW t \in LoopThreads, NEW q \in Queues, PopGlobal(t, q)
     PROVE  Shape'
  BY <1>14 DEF PopGlobal, StartExecute
<1>15. ASSUME NEW t \in LoopThreads, LeaveGlobalJobs(t)
     PROVE  Shape'
  BY <1>15 DEF NewSlice, LeaveGlobalJobs
<1>16. CASE Tick
  BY <1>16 DEF Tick
<1>17. CASE UNCHANGED vars
  BY <1>17 DEF vars, pushVars, history
<1> QED
  BY <1>1, <1>2, <1>3, <1>4, <1>5, <1>6, <1>7, <1>8, <1>9, <1>10, <1>11, <1>12, <1>13, <1>14, <1>15, <1>16, <1>17
  DEF Next, PushStep, ExecuteStep, LoopStep

\* Every step keeps a job in exactly one place.
LEMMA PlaceStep == TypeOK /\ Shape /\ Place /\ Token /\ [Next]_vars => Place'
<1> SUFFICES ASSUME TypeOK, Shape, Place, Token, [Next]_vars PROVE Place'
  OBVIOUS
<1> USE LoopThreadsAreThreads, NoneAssumption
    DEF TypeOK, Shape, Place, pushVars, history
<1>1. ASSUME NEW t \in Threads, NEW q \in Queues, NEW j \in Jobs, PushCount(t, q, j)
     PROVE  Place'
  BY <1>1 DEF FirstJob, PushCount, InUserCode, Fresh
<1>2. ASSUME NEW t \in Threads, PushEnqueue(t)
     PROVE  Place'
  BY <1>2 DEF PushEnqueue
<1>3. ASSUME NEW t \in Threads, PushExecute(t)
     PROVE  Place'
  BY <1>3 DEF PushExecute, MustSchedule, StartExecute, PushReturn
<1>4. ASSUME NEW t \in Threads, PushGlobal(t)
     PROVE  Place'
  BY <1>4 DEF PushGlobal, MustSchedule, PushReturn
<1>5. ASSUME NEW t \in LoopThreads, Drain(t)
     PROVE  Place'
  BY <1>5 DEF Oldest, Drain
<1>6. ASSUME NEW t \in LoopThreads, DrainEnd(t)
     PROVE  Place'
  BY <1>6 DEF DrainEnd
<1>7. ASSUME NEW t \in LoopThreads, RunJob(t)
     PROVE  Place'
  BY <1>7 DEF Oldest, RunJob
<1>8. ASSUME NEW t \in LoopThreads, JobReturn(t)
     PROVE  Place'
  BY <1>8 DEF JobReturn
<1>9. ASSUME NEW t \in LoopThreads, ExecuteDone(t)
     PROVE  Place'
  BY <1>9 DEF FetchSub, NoJobLeft, ExecuteDone, SubtractJobs
<1>10. ASSUME NEW t \in LoopThreads, ExecuteMore(t)
     PROVE  Place'
  BY <1>10 DEF FetchSub, NoJobLeft, ExecuteMore, SubtractJobs
<1>11. ASSUME NEW t \in LoopThreads, ExecuteYield(t)
     PROVE  Place'
  BY <1>11 DEF ExecuteYield
<1>12. ASSUME NEW t \in LoopThreads, ExecuteAgain(t)
     PROVE  Place'
  BY <1>12 DEF ExecuteAgain
<1>13. ASSUME NEW t \in LoopThreads, EnterGlobalJobs(t)
     PROVE  Place'
  BY <1>13 DEF EnterGlobalJobs
<1>14. ASSUME NEW t \in LoopThreads, NEW q \in Queues, PopGlobal(t, q)
     PROVE  Place'
  BY <1>14 DEF PopGlobal, StartExecute
<1>15. ASSUME NEW t \in LoopThreads, LeaveGlobalJobs(t)
     PROVE  Place'
  BY <1>15 DEF NewSlice, LeaveGlobalJobs
<1>16. CASE Tick
  BY <1>16 DEF Tick
<1>17. CASE UNCHANGED vars
  BY <1>17 DEF vars, pushVars, history
<1> QED
  BY <1>1, <1>2, <1>3, <1>4, <1>5, <1>6, <1>7, <1>8, <1>9, <1>10, <1>11, <1>12, <1>13, <1>14, <1>15, <1>16, <1>17
  DEF Next, PushStep, ExecuteStep, LoopStep

\* Every step keeps the jobs of one poster in order.
LEMMA OrderStep ==
  TypeOK /\ Shape /\ Place /\ Order /\ Token /\ [Next]_vars => Order'
<1> SUFFICES ASSUME TypeOK, Shape, Place, Order, Token, [Next]_vars
             PROVE  Order'
  OBVIOUS
<1> USE LoopThreadsAreThreads, NoneAssumption
    DEF TypeOK, Shape, Place, Order, pushVars, history
<1>1. ASSUME NEW t \in Threads, NEW q \in Queues, NEW j \in Jobs, PushCount(t, q, j)
     PROVE  Order'
  BY <1>1 DEF FirstJob, PushCount, InUserCode, Fresh
<1>2. ASSUME NEW t \in Threads, PushEnqueue(t)
     PROVE  Order'
  BY <1>2 DEF PushEnqueue
<1>3. ASSUME NEW t \in Threads, PushExecute(t)
     PROVE  Order'
  BY <1>3 DEF PushExecute, MustSchedule, StartExecute, PushReturn
<1>4. ASSUME NEW t \in Threads, PushGlobal(t)
     PROVE  Order'
  BY <1>4 DEF PushGlobal, MustSchedule, PushReturn
<1>5. ASSUME NEW t \in LoopThreads, Drain(t)
     PROVE  Order'
  <2> DEFINE q == LCurrentJobQueue[t]
  <2>1. PICK j \in mJobQueue[q] :
           /\ prior[j] \cap mJobQueue[q] = {}
           /\ jobs' = [jobs EXCEPT ![t] = @ \cup {j}]
    BY <1>5 DEF Oldest, Drain
  <2>2. UNCHANGED <<prior, home, finished>>
    BY <1>5 DEF Oldest, Drain
  <2>3. q \in Queues /\ j \in Jobs /\ home[j] = q
    BY <1>5 DEF Oldest, Drain
  <2>4. ASSUME NEW k \in prior[j], NEW u \in Threads, k \in jobs[u]
        PROVE  u = t
    BY <2>3, <2>4 DEF Token, Holds, Executing
  <2>5. prior[j] \subseteq finished \cup jobs[t]
    BY <2>1, <2>3, <2>4
  <2> QED
    BY <2>1, <2>2, <2>3, <2>5
<1>6. ASSUME NEW t \in LoopThreads, DrainEnd(t)
     PROVE  Order'
  BY <1>6 DEF DrainEnd
<1>7. ASSUME NEW t \in LoopThreads, RunJob(t)
     PROVE  Order'
  BY <1>7 DEF Oldest, RunJob
<1>8. ASSUME NEW t \in LoopThreads, JobReturn(t)
     PROVE  Order'
  BY <1>8 DEF JobReturn
<1>9. ASSUME NEW t \in LoopThreads, ExecuteDone(t)
     PROVE  Order'
  BY <1>9 DEF FetchSub, NoJobLeft, ExecuteDone, SubtractJobs
<1>10. ASSUME NEW t \in LoopThreads, ExecuteMore(t)
     PROVE  Order'
  BY <1>10 DEF FetchSub, NoJobLeft, ExecuteMore, SubtractJobs
<1>11. ASSUME NEW t \in LoopThreads, ExecuteYield(t)
     PROVE  Order'
  BY <1>11 DEF ExecuteYield
<1>12. ASSUME NEW t \in LoopThreads, ExecuteAgain(t)
     PROVE  Order'
  BY <1>12 DEF ExecuteAgain
<1>13. ASSUME NEW t \in LoopThreads, EnterGlobalJobs(t)
     PROVE  Order'
  BY <1>13 DEF EnterGlobalJobs
<1>14. ASSUME NEW t \in LoopThreads, NEW q \in Queues, PopGlobal(t, q)
     PROVE  Order'
  BY <1>14 DEF PopGlobal, StartExecute
<1>15. ASSUME NEW t \in LoopThreads, LeaveGlobalJobs(t)
     PROVE  Order'
  BY <1>15 DEF NewSlice, LeaveGlobalJobs
<1>16. CASE Tick
  BY <1>16 DEF Tick
<1>17. CASE UNCHANGED vars
  BY <1>17 DEF vars, pushVars, history
<1> QED
  BY <1>1, <1>2, <1>3, <1>4, <1>5, <1>6, <1>7, <1>8, <1>9, <1>10, <1>11, <1>12, <1>13, <1>14, <1>15, <1>16, <1>17
  DEF Next, PushStep, ExecuteStep, LoopStep

\* Every step keeps one token per counted queue.
LEMMA TokenStep ==
  /\ TypeOK /\ Shape /\ Token /\ mJobCount \in [Queues -> Nat]
  /\ [Next]_vars
  => Token'
<1> SUFFICES ASSUME TypeOK, Shape, Token, mJobCount \in [Queues -> Nat], [Next]_vars
             PROVE  Token'
  OBVIOUS
<1> USE LoopThreadsAreThreads, NoneAssumption
    DEF TypeOK, Shape, Token, Holds, Executing, Scheduling, pushVars, history
<1>1. ASSUME NEW t \in Threads, NEW q \in Queues, NEW j \in Jobs, PushCount(t, q, j)
     PROVE  Token'
  <2>1. /\ pushQueue[t] = None
        /\ first[t] = FALSE
        /\ mJobCount' = [mJobCount EXCEPT ![q] = @ + 1]
        /\ pushQueue' = [pushQueue EXCEPT ![t] = q]
        /\ first' = [first EXCEPT ![t] = (mJobCount[q] = 0)]
        /\ UNCHANGED <<mJobQueues, LCurrentJobQueue>>
    BY <1>1 DEF FirstJob, PushCount, InUserCode
  <2>2. ASSUME NEW r \in Queues, NEW u \in Threads
        PROVE  (Holds(u, r))' <=> \/ Holds(u, r)
                                  \/ u = t /\ r = q /\ mJobCount[q] = 0
    <3>1. Executing(u, r)' <=> Executing(u, r)
      BY <2>1
    <3>2. CASE u = t
      <4>1. Scheduling(t, r) = FALSE
        BY <2>1, Zenon
      <4>2. pushQueue'[t] = q /\ first'[t] = (mJobCount[q] = 0)
        BY <2>1
      <4>3. Scheduling(t, r)' <=> (r = q /\ mJobCount[q] = 0)
        BY <4>2, Zenon
      <4> QED
        BY <3>1, <3>2, <4>1, <4>3 DEF Holds
    <3>3. CASE u # t
      BY <2>1, <3>1, <3>3
    <3> QED
      BY <3>2, <3>3
  <2>3. mJobCount'[q] # 0 /\ \A r \in Queues \ {q} : mJobCount'[r] = mJobCount[r]
    BY <2>1
  <2>4. ASSUME NEW u \in Threads
        PROVE  (Executing(u, q) /\ mJobCount[q] = 0) = FALSE
    OBVIOUS
  <2> QED
    BY <2>1, <2>2, <2>3, <2>4
<1>2. ASSUME NEW t \in Threads, PushEnqueue(t)
     PROVE  Token'
  BY <1>2 DEF PushEnqueue
<1>3. ASSUME NEW t \in Threads, PushExecute(t)
     PROVE  Token'
  BY <1>3 DEF PushExecute, MustSchedule, StartExecute, PushReturn
<1>4. ASSUME NEW t \in Threads, PushGlobal(t)
     PROVE  Token'
  BY <1>4 DEF PushGlobal, MustSchedule, PushReturn
<1>5. ASSUME NEW t \in LoopThreads, Drain(t)
     PROVE  Token'
  BY <1>5 DEF Oldest, Drain
<1>6. ASSUME NEW t \in LoopThreads, DrainEnd(t)
     PROVE  Token'
  BY <1>6 DEF DrainEnd
<1>7. ASSUME NEW t \in LoopThreads, RunJob(t)
     PROVE  Token'
  BY <1>7 DEF Oldest, RunJob
<1>8. ASSUME NEW t \in LoopThreads, JobReturn(t)
     PROVE  Token'
  BY <1>8 DEF JobReturn
<1>9. ASSUME NEW t \in LoopThreads, ExecuteDone(t)
     PROVE  Token'
  BY <1>9 DEF FetchSub, NoJobLeft, ExecuteDone, SubtractJobs
<1>10. ASSUME NEW t \in LoopThreads, ExecuteMore(t)
     PROVE  Token'
  <2>1. Cardinality(jobs[t]) \in Nat
    BY SubsetsOfJobs
  <2>2. mJobCount' = [mJobCount EXCEPT
                        ![LCurrentJobQueue[t]] = @ - Cardinality(jobs[t])]
    BY <1>10 DEF FetchSub, NoJobLeft, ExecuteMore, SubtractJobs
  <2>3. mJobCount[LCurrentJobQueue[t]] # Cardinality(jobs[t])
    BY <1>10 DEF FetchSub, NoJobLeft, ExecuteMore
  <2>4. LCurrentJobQueue[t] \in Queues
    BY <1>10 DEF FetchSub, NoJobLeft, ExecuteMore, SubtractJobs
  <2>5. ASSUME NEW r \in Queues, mJobCount'[r] = 0
        PROVE  mJobCount[r] = 0 /\ r # LCurrentJobQueue[t]
    <3> DEFINE n == Cardinality(jobs[t])
    <3>1. n \in Nat /\ mJobCount[LCurrentJobQueue[t]] \in Nat
      BY <2>1, <2>4
    <3>2. mJobCount'[LCurrentJobQueue[t]] = mJobCount[LCurrentJobQueue[t]] - n
      BY <2>2, <2>4
    <3>3. mJobCount[LCurrentJobQueue[t]] # n
      BY <2>3
    <3> HIDE DEF TypeOK, Shape, Token
    <3>4. mJobCount[LCurrentJobQueue[t]] - n # 0
      BY <3>1, <3>3, NonzeroDifference
    <3>5. mJobCount'[LCurrentJobQueue[t]] # 0
      BY <3>2, <3>4
    <3> QED
      BY <2>2, <2>5, <3>5
  <2>6. \A r \in Queues : mJobCount[r] = 0 => r # LCurrentJobQueue[t]
    BY <2>4
  <2>7. \A r \in Queues : mJobCount'[r] = 0 <=> mJobCount[r] = 0
    BY <2>2, <2>4, <2>5, <2>6
  <2>8. UNCHANGED <<mJobQueues, LCurrentJobQueue, pushQueue, first>>
    BY <1>10 DEF FetchSub, NoJobLeft, ExecuteMore
  <2> QED
    BY <2>7, <2>8
<1>11. ASSUME NEW t \in LoopThreads, ExecuteYield(t)
     PROVE  Token'
  BY <1>11 DEF ExecuteYield
<1>12. ASSUME NEW t \in LoopThreads, ExecuteAgain(t)
     PROVE  Token'
  BY <1>12 DEF ExecuteAgain
<1>13. ASSUME NEW t \in LoopThreads, EnterGlobalJobs(t)
     PROVE  Token'
  BY <1>13 DEF EnterGlobalJobs
<1>14. ASSUME NEW t \in LoopThreads, NEW q \in Queues, PopGlobal(t, q)
     PROVE  Token'
  BY <1>14 DEF PopGlobal, StartExecute
<1>15. ASSUME NEW t \in LoopThreads, LeaveGlobalJobs(t)
     PROVE  Token'
  BY <1>15 DEF NewSlice, LeaveGlobalJobs
<1>16. CASE Tick
  BY <1>16 DEF Tick
<1>17. CASE UNCHANGED vars
  BY <1>17 DEF vars, pushVars, history
<1> QED
  BY <1>1, <1>2, <1>3, <1>4, <1>5, <1>6, <1>7, <1>8, <1>9, <1>10, <1>11, <1>12, <1>13, <1>14, <1>15, <1>16, <1>17
  DEF Next, PushStep, ExecuteStep, LoopStep

\* What a queue owes is finite, so its count is a natural number.
LEMMA OwedFinite ==
  ASSUME NEW q \in Queues
  PROVE  /\ Owed(q) \subseteq Jobs
         /\ IsFiniteSet(Owed(q))
         /\ Cardinality(Owed(q)) \in Nat
<1>1. Owed(q) \subseteq Jobs
  BY DEF Owed
<1> QED
  BY <1>1, SubsetsOfJobs

\* A count that matches its jobs is never negative.
LEMMA CountNatural ==
  ASSUME TypeOK, CountMatchesJobs
  PROVE  mJobCount \in [Queues -> Nat]
BY OwedFinite DEF TypeOK, CountMatchesJobs

\* A step that moves no job and no count keeps the balance.
LEMMA SameOwed ==
  ASSUME CountMatchesJobs, UNCHANGED mJobCount,
         \A r \in Queues : Owed(r)' = Owed(r)
  PROVE  CountMatchesJobs'
BY DEF CountMatchesJobs

\* fetch_sub(jobCount) takes off exactly the jobs of the vector.
LEMMA SubtractOwed ==
  ASSUME TypeOK, Shape, Place, Token, CountMatchesJobs,
         NEW t \in LoopThreads, SubtractJobs(t),
         \A u \in Threads \ {t} : LCurrentJobQueue'[u] = LCurrentJobQueue[u],
         UNCHANGED <<mJobQueue, pushVars>>
  PROVE  CountMatchesJobs'
<1>0. t \in Threads
  BY LoopThreadsAreThreads
<1>1. PICK q \in Queues : LCurrentJobQueue[t] = q
  BY <1>0 DEF Shape, TypeOK, SubtractJobs
<1>2. jobs' = [jobs EXCEPT ![t] = {}]
  BY DEF FetchSub, SubtractJobs
<1>3. jobs[t] \subseteq Owed(q)
  BY <1>0, <1>1 DEF Owed, TypeOK
<1>4. \A j \in jobs[t] : /\ j \notin mJobQueue[q]
                         /\ \A u \in Threads : pushJob[u] # j
                         /\ \A u \in Threads \ {t} : j \notin jobs[u]
  BY <1>0, <1>1, DisjointBatches, NoneAssumption DEF Place, TypeOK
<1>5. Owed(q)' = Owed(q) \ jobs[t]
  BY <1>0, <1>1, <1>2, <1>4 DEF Owed, TypeOK, pushVars
<1>6. ASSUME NEW r \in Queues \ {q}
      PROVE  Owed(r)' = Owed(r)
  BY <1>0, <1>1, <1>2, <1>6 DEF Owed, TypeOK, pushVars
<1>7. Cardinality(Owed(q)') = Cardinality(Owed(q)) - Cardinality(jobs[t])
  <2>1. Owed(q) \cap jobs[t] = jobs[t]
    BY <1>3
  <2>2. Cardinality(Owed(q) \ jobs[t])
          = Cardinality(Owed(q)) - Cardinality(Owed(q) \cap jobs[t])
    BY OwedFinite, FS_Difference
  <2> QED
    BY <1>5, <2>1, <2>2, Zenon
<1>8. mJobCount'[q] = mJobCount[q] - Cardinality(jobs[t])
  BY <1>0, <1>1 DEF FetchSub, SubtractJobs, TypeOK
<1>9. \A r \in Queues \ {q} : mJobCount'[r] = mJobCount[r]
  BY <1>0, <1>1 DEF FetchSub, SubtractJobs, TypeOK
<1> QED
  BY <1>0, <1>1, <1>6, <1>7, <1>8, <1>9 DEF CountMatchesJobs

\* Every step keeps mJobCount equal to the number of jobs owed.
LEMMA CountStep ==
  TypeOK /\ Shape /\ Place /\ Token /\ CountMatchesJobs /\ [Next]_vars
  => CountMatchesJobs'
<1> SUFFICES ASSUME TypeOK, Shape, Place, Token, CountMatchesJobs, [Next]_vars
             PROVE  CountMatchesJobs'
  OBVIOUS
<1> USE LoopThreadsAreThreads, NoneAssumption
<1>1. ASSUME NEW t \in Threads, NEW q \in Queues, NEW j \in Jobs, PushCount(t, q, j)
     PROVE  CountMatchesJobs'
  <2>1. /\ pushQueue[t] = None
        /\ Fresh(j)
        /\ mJobCount' = [mJobCount EXCEPT ![q] = @ + 1]
        /\ pushQueue' = [pushQueue EXCEPT ![t] = q]
        /\ pushJob' = [pushJob EXCEPT ![t] = j]
        /\ UNCHANGED <<mJobQueue, LCurrentJobQueue, jobs>>
    BY <1>1 DEF FirstJob, PushCount, InUserCode
  <2>2. j \notin Owed(q)
    BY <2>1 DEF Owed, Fresh, TypeOK, Place
  <2>3. Owed(q)' = Owed(q) \cup {j}
    BY <2>1 DEF Owed, TypeOK
  <2>4. \A r \in Queues \ {q} : Owed(r)' = Owed(r)
    BY <2>1 DEF Owed, TypeOK
  <2>5. Cardinality(Owed(q)') = Cardinality(Owed(q)) + 1
    BY <2>2, <2>3, OwedFinite, FS_AddElement
  <2>6. mJobCount'[q] = mJobCount[q] + 1
        /\ \A r \in Queues \ {q} : mJobCount'[r] = mJobCount[r]
    BY <2>1 DEF TypeOK
  <2> QED
    BY <2>4, <2>5, <2>6 DEF CountMatchesJobs
<1>2. ASSUME NEW t \in Threads, PushEnqueue(t)
     PROVE  CountMatchesJobs'
  BY <1>2, SameOwed DEF PushEnqueue, Owed, TypeOK, Shape, pushVars, history
<1>3. ASSUME NEW t \in Threads, PushExecute(t)
     PROVE  CountMatchesJobs'
  BY <1>3, SameOwed DEF PushExecute, MustSchedule, StartExecute, PushReturn, Owed, TypeOK, Shape, pushVars, history
<1>4. ASSUME NEW t \in Threads, PushGlobal(t)
     PROVE  CountMatchesJobs'
  BY <1>4, SameOwed DEF PushGlobal, MustSchedule, PushReturn, Owed, TypeOK, Shape, pushVars, history
<1>5. ASSUME NEW t \in LoopThreads, Drain(t)
     PROVE  CountMatchesJobs'
  BY <1>5, SameOwed DEF Oldest, Drain, Owed, TypeOK, Shape, pushVars, history
<1>6. ASSUME NEW t \in LoopThreads, DrainEnd(t)
     PROVE  CountMatchesJobs'
  BY <1>6, SameOwed DEF DrainEnd, Owed, TypeOK, Shape, pushVars, history
<1>7. ASSUME NEW t \in LoopThreads, RunJob(t)
     PROVE  CountMatchesJobs'
  BY <1>7, SameOwed DEF Oldest, RunJob, Owed, TypeOK, Shape, pushVars, history
<1>8. ASSUME NEW t \in LoopThreads, JobReturn(t)
     PROVE  CountMatchesJobs'
  BY <1>8, SameOwed DEF JobReturn, Owed, TypeOK, Shape, pushVars, history
<1>9. ASSUME NEW t \in LoopThreads, ExecuteDone(t)
     PROVE  CountMatchesJobs'
  BY <1>9, SubtractOwed DEF FetchSub, NoJobLeft, ExecuteDone, SubtractJobs, TypeOK
<1>10. ASSUME NEW t \in LoopThreads, ExecuteMore(t)
     PROVE  CountMatchesJobs'
  BY <1>10, SubtractOwed DEF FetchSub, NoJobLeft, ExecuteMore, SubtractJobs, TypeOK
<1>11. ASSUME NEW t \in LoopThreads, ExecuteYield(t)
     PROVE  CountMatchesJobs'
  BY <1>11, SameOwed DEF ExecuteYield, Owed, TypeOK, Shape, pushVars, history
<1>12. ASSUME NEW t \in LoopThreads, ExecuteAgain(t)
     PROVE  CountMatchesJobs'
  BY <1>12, SameOwed DEF ExecuteAgain, Owed, TypeOK, Shape, pushVars, history
<1>13. ASSUME NEW t \in LoopThreads, EnterGlobalJobs(t)
     PROVE  CountMatchesJobs'
  BY <1>13, SameOwed DEF EnterGlobalJobs, Owed, TypeOK, Shape, pushVars, history
<1>14. ASSUME NEW t \in LoopThreads, NEW q \in Queues, PopGlobal(t, q)
     PROVE  CountMatchesJobs'
  BY <1>14, SameOwed DEF PopGlobal, StartExecute, Owed, TypeOK, Shape, pushVars, history
<1>15. ASSUME NEW t \in LoopThreads, LeaveGlobalJobs(t)
     PROVE  CountMatchesJobs'
  BY <1>15, SameOwed DEF NewSlice, LeaveGlobalJobs, Owed, TypeOK, Shape, pushVars, history
<1>16. CASE Tick
  BY <1>16, SameOwed DEF Tick, Owed, TypeOK, Shape, pushVars, history
<1>17. CASE UNCHANGED vars
  BY <1>17, SameOwed DEF vars, pushVars, history, Owed
<1> QED
  BY <1>1, <1>2, <1>3, <1>4, <1>5, <1>6, <1>7, <1>8, <1>9, <1>10, <1>11, <1>12, <1>13, <1>14, <1>15, <1>16, <1>17
  DEF Next, PushStep, ExecuteStep, LoopStep

-----------------------------------------------------------------------------
\* The inductive invariant holds before the first job.
LEMMA InitIInv == Init => IInv
<1> SUFFICES ASSUME Init PROVE IInv
  OBVIOUS
<1>1. TypeOK
  BY DEF Init, TypeOK
<1>2. Shape /\ Place /\ Order
  BY NoneAssumption DEF Init, Shape, Place, Order
<1>3. Token
  BY NoneAssumption DEF Init, Token, Holds, Executing, Scheduling
<1>4. ASSUME NEW q \in Queues
      PROVE  mJobCount[q] = Cardinality(Owed(q))
  <2>1. Owed(q) = {}
    BY NoneAssumption DEF Init, Owed
  <2> QED
    BY <2>1, FS_EmptySet DEF Init
<1> QED
  BY <1>1, <1>2, <1>3, <1>4 DEF IInv, CountMatchesJobs

\* The inductive invariant holds in every reachable state.
THEOREM Invariance == Spec => []IInv
<1>1. IInv /\ [Next]_vars => IInv'
  BY TypeStep, ShapeStep, PlaceStep, OrderStep, TokenStep, CountStep, CountNatural
  DEF IInv
<1> QED
  BY InitIInv, <1>1, PTL DEF Spec

\* The variables of the job system keep their types.
THEOREM TypeCorrect == Spec => []TypeOK
<1>1. IInv => TypeOK
  BY DEF IInv
<1> QED
  BY Invariance, <1>1, PTL

\* One thread at a time answers for a queue, and then the GlobalQueue does not
\* hold it: Execute is never entered twice for one queue.
THEOREM Serial == Spec => []SerialExecution
<1>1. IInv => SerialExecution
  <2> SUFFICES ASSUME IInv, NEW q \in Queues
               PROVE  /\ \A t, u \in Holders(q) : t = u
                      /\ \A t \in Threads : ~ (Executing(t, q) /\ Scheduling(t, q))
                      /\ mJobQueues[q] <= (IF Holders(q) = {} THEN 1 ELSE 0)
    BY DEF SerialExecution
  <2>1. \A t \in Holders(q) : t \in Threads /\ Holds(t, q)
    BY DEF Holders, Holds
  <2>2. mJobQueues[q] \in Nat
    BY DEF IInv, TypeOK
  <2> QED
    BY <2>1, <2>2 DEF IInv, Token
<1> QED
  BY Invariance, <1>1, PTL

\* A queue that owes jobs is on the GlobalQueue or in the hands of a thread:
\* no interleaving of Push and Execute strands a job.
THEOREM Scheduled == Spec => []ScheduledIffCounted
<1>1. IInv => ScheduledIffCounted
  <2> SUFFICES ASSUME IInv, NEW q \in Queues
               PROVE  mJobCount[q] = 0 <=> Holders(q) = {} /\ mJobQueues[q] = 0
    BY DEF ScheduledIffCounted
  <2>1. Holders(q) = {} <=> \A t \in Threads : ~ Holds(t, q)
    BY DEF Holders, Holds
  <2> QED
    BY <2>1 DEF IInv, Token
<1> QED
  BY Invariance, <1>1, PTL

\* mJobCount counts the jobs owed.
THEOREM CountCorrect == Spec => []CountMatchesJobs
<1>1. IInv => CountMatchesJobs
  BY DEF IInv
<1> QED
  BY Invariance, <1>1, PTL

-----------------------------------------------------------------------------
\* Enqueue, start and return of a job are the steps of the serial executor;
\* every other step leaves it alone.
LEMMA StepRefines == IInv /\ [Next]_vars => [Abstract!Next]_(Abstract!vars)
<1> SUFFICES ASSUME IInv, [Next]_vars
             PROVE  Abstract!Next \/ UNCHANGED Abstract!vars
  OBVIOUS
<1> USE LoopThreadsAreThreads, NoneAssumption
<1>1. ASSUME NEW t \in Threads, NEW q \in Queues, NEW j \in Jobs, PushCount(t, q, j)
     PROVE  UNCHANGED Abstract!vars
  BY <1>1 DEF FirstJob, PushCount, history, Abstract!vars, Running
<1>2. ASSUME NEW t \in Threads, PushEnqueue(t)
     PROVE  Abstract!Next
  <2>1. Abstract!Post(t, pushQueue[t], pushJob[t])
    <3>1. UNCHANGED <<Running, finished>>
      BY <1>2 DEF PushEnqueue, Running
    <3> QED
      BY <1>2, <3>1 DEF PushEnqueue, IInv, Place, Abstract!Post
  <2>2. pushQueue[t] \in Queues /\ pushJob[t] \in Jobs
    BY <1>2 DEF PushEnqueue, IInv, TypeOK, Shape
  <2> QED
    BY <2>1, <2>2 DEF Abstract!Next
<1>3. ASSUME NEW t \in Threads, PushExecute(t)
     PROVE  UNCHANGED Abstract!vars
  BY <1>3 DEF PushExecute, MustSchedule, StartExecute, PushReturn, history, Abstract!vars, Running
<1>4. ASSUME NEW t \in Threads, PushGlobal(t)
     PROVE  UNCHANGED Abstract!vars
  BY <1>4 DEF PushGlobal, MustSchedule, PushReturn, history, Abstract!vars, Running
<1>5. ASSUME NEW t \in LoopThreads, Drain(t)
     PROVE  UNCHANGED Abstract!vars
  BY <1>5 DEF Oldest, Drain, history, Abstract!vars, Running
<1>6. ASSUME NEW t \in LoopThreads, DrainEnd(t)
     PROVE  UNCHANGED Abstract!vars
  BY <1>6 DEF DrainEnd, history, Abstract!vars, Running
<1>7. ASSUME NEW t \in LoopThreads, RunJob(t)
     PROVE  Abstract!Next
  <2>1. PICK j \in jobs[t] \ finished :
           /\ prior[j] \cap (jobs[t] \ finished) = {}
           /\ current' = [current EXCEPT ![t] = j]
    BY <1>7 DEF Oldest, RunJob
  <2>2. j \in Jobs /\ j # None /\ home[j] \in Queues /\ home[j] = LCurrentJobQueue[t]
    BY <2>1 DEF IInv, TypeOK, Place
  <2>3. current[t] = None
    BY <1>7 DEF Oldest, RunJob, IInv, Shape
  <2>4. Running' = Running \cup {j}
    BY <2>1, <2>2, <2>3 DEF Running, IInv, TypeOK
  <2>5. ASSUME NEW k \in Running
        PROVE  home[k] # home[j] /\ k # j
    <3>1. PICK u \in Threads : k = current[u] /\ k # None
      BY DEF Running
    <3>2. k \in jobs[u] /\ u # t
      BY <2>3, <3>1 DEF IInv, Shape
    <3> QED
      BY <2>2, <3>2 DEF IInv, Place, Token, Holds, Executing
  <2>6. prior[j] \subseteq finished
    BY <2>1 DEF IInv, Order
  <2>7. UNCHANGED <<home, by, prior, finished>>
    BY <1>7 DEF Oldest, RunJob, history
  <2>8. Abstract!Start(j)
    BY <2>1, <2>2, <2>4, <2>5, <2>6, <2>7 DEF Abstract!Start, Abstract!MayStart
  <2> QED
    BY <2>2, <2>8 DEF Abstract!Next
<1>8. ASSUME NEW t \in LoopThreads, JobReturn(t)
     PROVE  Abstract!Next
  <2> DEFINE j == current[t]
  <2>1. j \in jobs[t] /\ j \in Jobs /\ j # None
    BY <1>8 DEF JobReturn, IInv, TypeOK, Shape
  <2>2. \A u \in Threads \ {t} : current[u] # j
    BY <2>1, DisjointBatches DEF IInv, Shape
  <2>3. current' = [current EXCEPT ![t] = None] /\ finished' = finished \cup {j}
        /\ UNCHANGED <<home, by, prior>>
    BY <1>8 DEF JobReturn, history
  <2>4. Running' = Running \ {current[t]}
    BY <2>1, <2>2, <2>3 DEF Running, IInv, TypeOK
  <2>5. Abstract!Finish(current[t])
    BY <2>1, <2>3, <2>4 DEF Abstract!Finish, Running
  <2> QED
    BY <2>1, <2>5 DEF Abstract!Next
<1>9. ASSUME NEW t \in LoopThreads, ExecuteDone(t)
     PROVE  UNCHANGED Abstract!vars
  BY <1>9 DEF FetchSub, NoJobLeft, ExecuteDone, SubtractJobs, history, Abstract!vars, Running
<1>10. ASSUME NEW t \in LoopThreads, ExecuteMore(t)
     PROVE  UNCHANGED Abstract!vars
  BY <1>10 DEF FetchSub, NoJobLeft, ExecuteMore, SubtractJobs, history, Abstract!vars, Running
<1>11. ASSUME NEW t \in LoopThreads, ExecuteYield(t)
     PROVE  UNCHANGED Abstract!vars
  BY <1>11 DEF ExecuteYield, history, Abstract!vars, Running
<1>12. ASSUME NEW t \in LoopThreads, ExecuteAgain(t)
     PROVE  UNCHANGED Abstract!vars
  BY <1>12 DEF ExecuteAgain, history, Abstract!vars, Running
<1>13. ASSUME NEW t \in LoopThreads, EnterGlobalJobs(t)
     PROVE  UNCHANGED Abstract!vars
  BY <1>13 DEF EnterGlobalJobs, history, Abstract!vars, Running
<1>14. ASSUME NEW t \in LoopThreads, NEW q \in Queues, PopGlobal(t, q)
     PROVE  UNCHANGED Abstract!vars
  BY <1>14 DEF PopGlobal, StartExecute, history, Abstract!vars, Running
<1>15. ASSUME NEW t \in LoopThreads, LeaveGlobalJobs(t)
     PROVE  UNCHANGED Abstract!vars
  BY <1>15 DEF NewSlice, LeaveGlobalJobs, history, Abstract!vars, Running
<1>16. CASE Tick
  BY <1>16 DEF Tick, history, Abstract!vars, Running
<1>17. CASE UNCHANGED vars
  BY <1>17 DEF vars, history, Abstract!vars, Running
<1> QED
  BY <1>1, <1>2, <1>3, <1>4, <1>5, <1>6, <1>7, <1>8, <1>9, <1>10, <1>11, <1>12, <1>13, <1>14, <1>15, <1>16, <1>17
  DEF Next, PushStep, ExecuteStep, LoopStep

\* JobQueue implements the serial executor: a job runs once, alone in its
\* queue, and after what its poster posted to the queue before it.
THEOREM Refinement == Spec => ImplementsSerialExecutor
<1>1. Init => Abstract!Init
  BY NoneAssumption DEF Init, Abstract!Init, Running
<1> QED
  BY Invariance, <1>1, StepRefines, PTL DEF Spec, ImplementsSerialExecutor, Abstract!Spec

-----------------------------------------------------------------------------
\* The types of SerialExecutor's variables, that only posted jobs run, and that
\* what is prior to a job was posted where it was, by the same thread.
Posted ==
  /\ home \in [Jobs -> Queues \cup {None}]
  /\ by \in [Jobs -> Threads \cup {None}]
  /\ prior \in [Jobs -> SUBSET Jobs]
  /\ Running \subseteq Jobs /\ finished \subseteq Jobs
  /\ \A j \in Running \cup finished : home[j] # None
  /\ \A j \in Jobs : \A k \in prior[j] : home[k] # None /\ home[j] # None /\ k # j

\* Promise is kept by every step of the serial executor.
LEMMA PromiseStep ==
  Posted /\ Abstract!Promise /\ [Abstract!Next]_(Abstract!vars) => Posted' /\ Abstract!Promise'
<1> SUFFICES ASSUME Posted, Abstract!Promise, [Abstract!Next]_(Abstract!vars)
             PROVE  Posted' /\ Abstract!Promise'
  OBVIOUS
<1> USE NoneAssumption
<1>1. ASSUME NEW t \in Threads, NEW q \in Queues, NEW j \in Jobs, Abstract!Post(t, q, j)
      PROVE  Posted' /\ Abstract!Promise'
  <2>1. /\ home[j] = None /\ q # None
        /\ home' = [home EXCEPT ![j] = q] /\ by' = [by EXCEPT ![j] = t]
        /\ prior' = [prior EXCEPT ![j] = {k \in Jobs : home[k] = q /\ by[k] = t}]
        /\ Running' = Running /\ finished' = finished
    BY <1>1 DEF Abstract!Post
  <2>2. j \notin Running \cup finished /\ \A k \in Jobs : j \notin prior[k]
    BY <2>1 DEF Posted
  <2>3. Posted'
    BY <2>1, <2>2 DEF Posted
  <2>4. /\ home'[j] = q /\ by'[j] = t
        /\ prior'[j] = {k \in Jobs : home[k] = q /\ by[k] = t} /\ j \notin prior'[j]
        /\ \A k \in Jobs \ {j} : home'[k] = home[k] /\ by'[k] = by[k] /\ prior'[k] = prior[k]
    BY <2>1 DEF Posted
  <2> QED
    BY <2>1, <2>2, <2>3, <2>4 DEF Posted, Abstract!Promise
<1>2. ASSUME NEW j \in Jobs, Abstract!Start(j)
      PROVE  Posted' /\ Abstract!Promise'
  BY <1>2 DEF Abstract!Start, Abstract!MayStart, Posted, Abstract!Promise
<1>3. ASSUME NEW j \in Jobs, Abstract!Finish(j)
      PROVE  Posted' /\ Abstract!Promise'
  BY <1>3 DEF Abstract!Finish, Posted, Abstract!Promise
<1>4. CASE UNCHANGED Abstract!vars
  BY <1>4 DEF Abstract!vars, Posted, Abstract!Promise
<1> QED
  BY <1>1, <1>2, <1>3, <1>4 DEF Abstract!Next

\* What a caller of Push relies on, in terms of states: the jobs of a queue never run
\* together, and a job runs after all that its thread pushed to the queue before.
THEOREM PromiseKept == Spec => []Abstract!Promise
<1>1. Abstract!Init => Posted /\ Abstract!Promise
  BY DEF Abstract!Init, Posted, Abstract!Promise
<1> QED
  BY Refinement, PromiseStep, <1>1, PTL DEF ImplementsSerialExecutor, Abstract!Spec
=============================================================================
