------------------------------ MODULE JobQueue ------------------------------
(***************************************************************************)
(* The job system of ServerCore: JobQueue::Push and JobQueue::Execute, the *)
(* GlobalQueue of runnable job queues, ThreadManager::DoGlobalJobs, the    *)
(* loops of the main thread and of the network workers, and the database   *)
(* threads that post a response with pushOnly.                             *)
(*                                                                         *)
(* Every access to an atomic or to a moodycamel::ConcurrentQueue is a step *)
(* of its own; thread-local code is joined to the access it follows.       *)
(***************************************************************************)
EXTENDS Integers, FiniteSets

CONSTANTS Main,       \* the thread that runs ServerApp::Update
          Workers,    \* the threads of ServerApp::InitWorkerThread
          DBThreads,  \* the threads of DBLoadBalancer::Launch
          Queues,     \* the JobQueue objects
          Jobs,       \* the jobs the application posts
          None,       \* nullptr
          BULK,       \* BULK_DEQUEUE_JOB_COUNT
          SLICE       \* the 64 ms main gives itself, in clock steps

LoopThreads == {Main} \cup Workers
Threads == LoopThreads \cup DBThreads

ASSUME NoneAssumption == None \notin Queues \cup Jobs \cup Threads
ASSUME MainAssumption == Main \notin Workers
ASSUME JobsAssumption == IsFiniteSet(Jobs)
ASSUME BulkAssumption == BULK \in Nat \ {0}
ASSUME SliceAssumption == SLICE \in Nat

VARIABLES
  mJobCount,         \* [Queues -> Int], the atomic of each JobQueue
  mJobQueue,         \* [Queues -> SUBSET Jobs], the jobs enqueued
  mJobQueues,        \* [Queues -> Nat], how often a queue is on GlobalQueue
  LCurrentJobQueue,  \* per thread: the queue it executes
  left,              \* per thread: LEndTickCount - GetTick64()
  at,                \* per thread: "io" or "jobs", the call of its loop
  phase,             \* per thread: where it is in Execute
  jobs,              \* per thread: the local vector of Execute
  current,           \* per thread: the job whose callback is on its stack
  pushQueue,         \* per thread: the queue of the Push in progress
  pushJob,           \* per thread: its job, until line 8 enqueues it
  first,             \* per thread: prevCount == 0 in that Push
  home, by, prior,   \* history: as in SerialExecutor
  finished           \* history: the jobs that have run

pushVars == <<pushQueue, pushJob, first>>
history == <<home, by, prior>>
vars == <<mJobCount, mJobQueue, mJobQueues, LCurrentJobQueue, left, at, phase,
          jobs, current, pushVars, history, finished>>

TypeOK ==
  /\ mJobCount \in [Queues -> Int]
  /\ mJobQueue \in [Queues -> SUBSET Jobs]
  /\ mJobQueues \in [Queues -> Nat]
  /\ LCurrentJobQueue \in [Threads -> Queues \cup {None}]
  /\ left \in [Threads -> Int]
  /\ at \in [Threads -> {"io", "jobs"}]
  /\ phase \in [Threads -> {"out", "drain", "run", "job", "check"}]
  /\ jobs \in [Threads -> SUBSET Jobs]
  /\ current \in [Threads -> Jobs \cup {None}]
  /\ pushQueue \in [Threads -> Queues \cup {None}]
  /\ pushJob \in [Threads -> Jobs \cup {None}]
  /\ first \in [Threads -> BOOLEAN]
  /\ home \in [Jobs -> Queues \cup {None}]
  /\ by \in [Jobs -> Threads \cup {None}]
  /\ prior \in [Jobs -> SUBSET Jobs]
  /\ finished \in SUBSET Jobs

\* LEndTickCount starts at 0, long before the first tick the clock shows.
Init ==
  /\ mJobCount = [q \in Queues |-> 0]
  /\ mJobQueue = [q \in Queues |-> {}]
  /\ mJobQueues = [q \in Queues |-> 0]
  /\ LCurrentJobQueue = [t \in Threads |-> None]
  /\ left = [t \in Threads |-> -1]
  /\ at = [t \in Threads |-> "io"]
  /\ phase = [t \in Threads |-> "out"]
  /\ jobs = [t \in Threads |-> {}]
  /\ current = [t \in Threads |-> None]
  /\ pushQueue = [t \in Threads |-> None]
  /\ pushJob = [t \in Threads |-> None]
  /\ first = [t \in Threads |-> FALSE]
  /\ home = [j \in Jobs |-> None]
  /\ by = [j \in Jobs |-> None]
  /\ prior = [j \in Jobs |-> {}]
  /\ finished = {}

-----------------------------------------------------------------------------
(* JobQueue::Push *)

\* Application code runs, and may post, while the thread dispatches network
\* completions or due timers, and inside the callback of a job.
InUserCode(t) ==
  /\ pushQueue[t] = None
  /\ \/ phase[t] = "out" /\ at[t] = "io"
     \/ phase[t] = "job"

Fresh(j) == home[j] = None /\ \A t \in Threads : pushJob[t] # j

\* A variant in which the pusher of a second job answers for the queue too.
SecondJobToo(prevCount) == prevCount <= 1

\* Line 11: the pusher that found the count at 0 answers for the queue.
FirstJob(prevCount) == prevCount = 0

\* Line 7: prevCount = mJobCount.fetch_add(1).
PushCount(t, q, j) ==
  /\ InUserCode(t)
  /\ Fresh(j)
  /\ mJobCount' = [mJobCount EXCEPT ![q] = @ + 1]
  /\ pushQueue' = [pushQueue EXCEPT ![t] = q]
  /\ pushJob' = [pushJob EXCEPT ![t] = j]
  /\ first' = [first EXCEPT ![t] = FirstJob(mJobCount[q])]
  /\ UNCHANGED <<mJobQueue, mJobQueues, LCurrentJobQueue, left, at, phase,
                 jobs, current, history, finished>>

\* Line 8: mJobQueue.enqueue(job).  A Push that was not the first returns.
PushEnqueue(t) ==
  LET q == pushQueue[t]
      j == pushJob[t]
  IN  /\ j # None
      /\ mJobQueue' = [mJobQueue EXCEPT ![q] = @ \cup {j}]
      /\ pushJob' = [pushJob EXCEPT ![t] = None]
      /\ pushQueue' = [pushQueue EXCEPT ![t] = IF first[t] THEN q ELSE None]
      /\ home' = [home EXCEPT ![j] = q]
      /\ by' = [by EXCEPT ![j] = t]
      /\ prior' = [prior EXCEPT ![j] = {k \in Jobs : home[k] = q /\ by[k] = t}]
      /\ UNCHANGED <<mJobCount, mJobQueues, LCurrentJobQueue, left, at, phase,
                     jobs, current, first, finished>>

\* The first pusher has enqueued its job and must see that the queue is run.
MustSchedule(t) == first[t] /\ pushJob[t] = None

PushReturn(t) ==
  /\ pushQueue' = [pushQueue EXCEPT ![t] = None]
  /\ first' = [first EXCEPT ![t] = FALSE]

StartExecute(t, q) ==
  /\ LCurrentJobQueue' = [LCurrentJobQueue EXCEPT ![t] = q]
  /\ phase' = [phase EXCEPT ![t] = "drain"]

\* Lines 14-17: no queue on this thread's stack, so it executes this one.
\* ProcessDBWorking passes pushOnly, nothing else does.
PushExecute(t) ==
  /\ MustSchedule(t)
  /\ LCurrentJobQueue[t] = None
  /\ t \notin DBThreads
  /\ StartExecute(t, pushQueue[t])
  /\ PushReturn(t)
  /\ UNCHANGED <<mJobCount, mJobQueue, mJobQueues, left, at, jobs, current,
                 pushJob, history, finished>>

\* Lines 18-22: hand the queue to the GlobalQueue.
PushGlobal(t) ==
  /\ MustSchedule(t)
  /\ LCurrentJobQueue[t] # None \/ t \in DBThreads
  /\ mJobQueues' = [mJobQueues EXCEPT ![pushQueue[t]] = @ + 1]
  /\ PushReturn(t)
  /\ UNCHANGED <<mJobCount, mJobQueue, LCurrentJobQueue, left, at, phase, jobs,
                 current, pushJob, history, finished>>

-----------------------------------------------------------------------------
(* JobQueue::Execute *)

\* A variant for a queue that does not keep the order of one thread.
Unordered(S) == S

\* The jobs of S that no thread enqueued after another one of S.
Oldest(S) == {j \in S : prior[j] \cap S = {}}

\* Lines 32-33.  try_dequeue_bulk takes the jobs one by one, oldest first
\* within what one thread enqueued, the threads' streams in any order.
Drain(t) ==
  LET q == LCurrentJobQueue[t]
  IN  /\ phase[t] = "drain"
      /\ Cardinality(jobs[t]) < BULK
      /\ \E j \in Oldest(mJobQueue[q]) :
           /\ mJobQueue' = [mJobQueue EXCEPT ![q] = @ \ {j}]
           /\ jobs' = [jobs EXCEPT ![t] = @ \cup {j}]
      /\ UNCHANGED <<mJobCount, mJobQueues, LCurrentJobQueue, left, at, phase,
                     current, pushVars, history, finished>>

\* The bulk dequeue returns: the vector is full, the queue looks empty, or an
\* enqueue at the same time made it miss what is there.
DrainEnd(t) ==
  /\ phase[t] = "drain"
  /\ phase' = [phase EXCEPT ![t] = "run"]
  /\ UNCHANGED <<mJobCount, mJobQueue, mJobQueues, LCurrentJobQueue, left, at,
                 jobs, current, pushVars, history, finished>>

\* Lines 35-36: the next job of the vector, whose order is the dequeue order.
RunJob(t) ==
  /\ phase[t] = "run"
  /\ \E j \in Oldest(jobs[t] \ finished) :
       current' = [current EXCEPT ![t] = j]
  /\ phase' = [phase EXCEPT ![t] = "job"]
  /\ UNCHANGED <<mJobCount, mJobQueue, mJobQueues, LCurrentJobQueue, left, at,
                 jobs, pushVars, history, finished>>

JobReturn(t) ==
  /\ phase[t] = "job"
  /\ pushQueue[t] = None
  /\ finished' = finished \cup {current[t]}
  /\ current' = [current EXCEPT ![t] = None]
  /\ phase' = [phase EXCEPT ![t] = "run"]
  /\ UNCHANGED <<mJobCount, mJobQueue, mJobQueues, LCurrentJobQueue, left, at,
                 jobs, pushVars, history>>

\* A variant that stores 0 when the batch is done.
ResetCount(q, n) == mJobCount' = [mJobCount EXCEPT ![q] = 0]

\* Line 39: fetch_sub(jobCount), and what it returned.
FetchSub(q, n) == mJobCount' = [mJobCount EXCEPT ![q] = @ - n]

\* A variant that looks at the queue, not at what fetch_sub returned.
QueueLooksEmpty(q, n) == mJobQueue[q] = {}

\* What fetch_sub returned equals the batch's size.
NoJobLeft(q, n) == mJobCount[q] = n

\* All jobs of the vector have run; it goes out of scope.
SubtractJobs(t) ==
  /\ phase[t] = "run"
  /\ jobs[t] \subseteq finished
  /\ FetchSub(LCurrentJobQueue[t], Cardinality(jobs[t]))
  /\ jobs' = [jobs EXCEPT ![t] = {}]

\* Lines 39-43: the fetch_sub returned jobCount, no job is left.
ExecuteDone(t) ==
  /\ SubtractJobs(t)
  /\ NoJobLeft(LCurrentJobQueue[t], Cardinality(jobs[t]))
  /\ LCurrentJobQueue' = [LCurrentJobQueue EXCEPT ![t] = None]
  /\ phase' = [phase EXCEPT ![t] = "out"]
  /\ UNCHANGED <<mJobQueue, mJobQueues, left, at, current, pushVars, history,
                 finished>>

ExecuteMore(t) ==
  /\ SubtractJobs(t)
  /\ ~ NoJobLeft(LCurrentJobQueue[t], Cardinality(jobs[t]))
  /\ phase' = [phase EXCEPT ![t] = "check"]
  /\ UNCHANGED <<mJobQueue, mJobQueues, LCurrentJobQueue, left, at, current,
                 pushVars, history, finished>>

\* Lines 45-51: now >= LEndTickCount, give the queue back.
ExecuteYield(t) ==
  /\ phase[t] = "check"
  /\ left[t] <= 0
  /\ mJobQueues' = [mJobQueues EXCEPT ![LCurrentJobQueue[t]] = @ + 1]
  /\ LCurrentJobQueue' = [LCurrentJobQueue EXCEPT ![t] = None]
  /\ phase' = [phase EXCEPT ![t] = "out"]
  /\ UNCHANGED <<mJobCount, mJobQueue, left, at, jobs, current, pushVars,
                 history, finished>>

ExecuteAgain(t) ==
  /\ phase[t] = "check"
  /\ left[t] > 0
  /\ phase' = [phase EXCEPT ![t] = "drain"]
  /\ UNCHANGED <<mJobCount, mJobQueue, mJobQueues, LCurrentJobQueue, left, at,
                 jobs, current, pushVars, history, finished>>

-----------------------------------------------------------------------------
(* The loops: dispatch and timers, then ThreadManager::DoGlobalJobs *)

\* ProcessDispatch and DistributeJobs have returned.
EnterGlobalJobs(t) ==
  /\ at[t] = "io"
  /\ phase[t] = "out"
  /\ pushQueue[t] = None
  /\ at' = [at EXCEPT ![t] = "jobs"]
  /\ UNCHANGED <<mJobCount, mJobQueue, mJobQueues, LCurrentJobQueue, left,
                 phase, jobs, current, pushVars, history, finished>>

\* now > LEndTickCount ends DoGlobalJobs; otherwise GlobalQueue::Pop, Execute.
PopGlobal(t, q) ==
  /\ at[t] = "jobs"
  /\ phase[t] = "out"
  /\ left[t] >= 0
  /\ mJobQueues[q] > 0
  /\ mJobQueues' = [mJobQueues EXCEPT ![q] = @ - 1]
  /\ StartExecute(t, q)
  /\ UNCHANGED <<mJobCount, mJobQueue, left, at, jobs, current, pushVars,
                 history, finished>>

\* A variant that sets the slice only once, at the start.
OldSlice(t) == UNCHANGED left

\* ServerApp.cpp:41, LEndTickCount = GetTick64() + 64.
NewSlice(t) == left' = IF t = Main THEN [left EXCEPT ![t] = SLICE] ELSE left

\* Only the main loop sets LEndTickCount, at its top.
LeaveGlobalJobs(t) ==
  /\ at[t] = "jobs"
  /\ phase[t] = "out"
  /\ left[t] < 0 \/ \A q \in Queues : mJobQueues[q] = 0
  /\ at' = [at EXCEPT ![t] = "io"]
  /\ NewSlice(t)
  /\ UNCHANGED <<mJobCount, mJobQueue, mJobQueues, LCurrentJobQueue, phase,
                 jobs, current, pushVars, history, finished>>

\* The clock: -1 stands for every deadline that has passed.
Tick ==
  /\ left[Main] >= 0
  /\ left' = [left EXCEPT ![Main] = @ - 1]
  /\ UNCHANGED <<mJobCount, mJobQueue, mJobQueues, LCurrentJobQueue, at, phase,
                 jobs, current, pushVars, history, finished>>

-----------------------------------------------------------------------------
PushStep(t) == PushEnqueue(t) \/ PushExecute(t) \/ PushGlobal(t)

ExecuteStep(t) ==
  \/ Drain(t) \/ DrainEnd(t) \/ RunJob(t)
  \/ ExecuteDone(t) \/ ExecuteMore(t) \/ ExecuteYield(t) \/ ExecuteAgain(t)

LoopStep(t) == EnterGlobalJobs(t) \/ LeaveGlobalJobs(t)

Next ==
  \/ \E t \in Threads, q \in Queues, j \in Jobs : PushCount(t, q, j)
  \/ \E t \in Threads : PushStep(t)
  \/ \E t \in LoopThreads : ExecuteStep(t) \/ JobReturn(t) \/ LoopStep(t)
  \/ \E t \in LoopThreads, q \in Queues : PopGlobal(t, q)
  \/ Tick

Spec == Init /\ [][Next]_vars

\* What a loop thread does until it is back in its loop: at any time one of these
\* is its next step, or it may take a queue from the GlobalQueue.
ThreadStep(t) == PushStep(t) \/ ExecuteStep(t) \/ JobReturn(t) \/ LoopStep(t)

(***************************************************************************)
(* A started Push, Execute or loop iteration goes on and the callbacks of  *)
(* jobs return: the scheduler runs every thread, the moodycamel operations *)
(* are lock-free.  A bulk dequeue may fall short, but one that main tries  *)
(* again and again finds a job whose enqueue has ended (a worker gives the *)
(* queue to main after one batch).  PopGlobal needs strong fairness, too:  *)
(* the slice of main may run out again and again before it pops, but each  *)
(* loop iteration starts a new one.  Which queue it pops is left open.     *)
(* The last conjunct assumes that the due timers do not use up the slice   *)
(* of main before DoGlobalJobs in every single iteration.                  *)
(***************************************************************************)
ThreadFairness ==
  /\ \A t \in LoopThreads : WF_vars(ThreadStep(t))
  /\ SF_vars(Drain(Main))
  /\ SF_vars(\E q \in Queues : PopGlobal(Main, q))
  /\ SF_vars(left[Main] >= 0 /\ EnterGlobalJobs(Main))

-----------------------------------------------------------------------------
(* Correctness *)

Executing(t, q) == LCurrentJobQueue[t] = q
Scheduling(t, q) == first[t] /\ pushQueue[t] = q

\* The threads that answer for queue q: they execute it, or made its count
\* leave 0 and have not yet executed it or handed it over.
Holders(q) == {t \in Threads : Executing(t, q) \/ Scheduling(t, q)}

\* A queue is executed by at most one thread and, while one answers for it,
\* is not on the GlobalQueue, where a second thread would find it; it is
\* there at most once.  (Push lines 7-22, Execute lines 39-51.)
SerialExecution ==
  \A q \in Queues :
    /\ \A t, u \in Holders(q) : t = u
    /\ \A t \in Threads : ~ (Executing(t, q) /\ Scheduling(t, q))
    /\ mJobQueues[q] <= (IF Holders(q) = {} THEN 1 ELSE 0)

\* No job is stranded: a queue with a count above 0 has a holder or is on the
\* GlobalQueue; one with count 0 has neither, so the next Push must schedule.
ScheduledIffCounted ==
  \A q \in Queues :
    mJobCount[q] = 0 <=> Holders(q) = {} /\ mJobQueues[q] = 0

\* The jobs mJobCount stands for: counted by a Push in progress, enqueued, or
\* in the vector of an Execute that has not subtracted them yet.
Owed(q) ==
  {j \in Jobs :
     \/ j \in mJobQueue[q]
     \/ \E t \in Threads : \/ pushQueue[t] = q /\ pushJob[t] = j
                           \/ LCurrentJobQueue[t] = q /\ j \in jobs[t]}

\* mJobCount counts exactly the jobs owed, whatever the interleaving of the
\* separate count and queue updates of Push and Execute.
CountMatchesJobs == \A q \in Queues : mJobCount[q] = Cardinality(Owed(q))

Running == {current[t] : t \in Threads} \ {None}

Abstract == INSTANCE SerialExecutor WITH running <- Running

\* Every behaviour of the job system is one of a serial executor: a job runs
\* once, alone in its queue, after what its poster posted there before.
ImplementsSerialExecutor == Abstract!Spec
=============================================================================
