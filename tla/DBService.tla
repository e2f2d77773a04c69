----------------------------- MODULE DBService ------------------------------
(***************************************************************************)
(* The database threads, composed with the job system.  A thread that runs *)
(* application code hands a request to the DBService of its WorkID; the    *)
(* database thread of that service handles it and pushes its response, a   *)
(* job, to the JobQueue that owns the request.                             *)
(***************************************************************************)
EXTENDS JobQueue, Sequences

CONSTANTS BULK_DB,     \* BULK_DEQUEUE_DB_COUNT
          Owners       \* the queues that ask: rooms (ClientPacketHandler.cpp:28)

ASSUME BulkDBAssumption == BULK_DB \in Nat \ {0}
ASSUME OwnersAssumption == Owners \subseteq Queues
ASSUME DBThreadsAssumption == DBThreads \cap LoopThreads = {}

VARIABLES
  mQueueCount,         \* [DBThreads -> Int], the atomic of each DBService
  mDBQueue,            \* its queue: one stream per thread that enqueues
  asking,              \* per loop thread: the request counted, not enqueued yet
  owner,               \* per request: DBData::Owner, None if it wants no response
  service,             \* per request: GetDBService(WorkID)
  dbPhase,             \* per database thread: where it is in Execute
  dbJobs,              \* per database thread: the local vector, its unhandled part
  taken,               \* per database thread: jobCount, the vector's length
  asker, earlier,      \* history, per request: its thread, and that thread's
                       \* earlier requests to the same service
  handled              \* history: the requests handled

requestVars == <<mQueueCount, mDBQueue, asking, owner, service, asker, earlier>>
dbVars == <<requestVars, dbPhase, dbJobs, taken, handled>>

\* Requests are named by the job that answers them.
Asked == {j \in Jobs : asker[j] # None}

DBTypeOK ==
  /\ mQueueCount \in [DBThreads -> Nat]
  /\ mDBQueue \in [DBThreads -> [LoopThreads -> Seq(Asked)]]
  /\ asking \in [LoopThreads -> Asked \cup {None}]
  /\ owner \in [Jobs -> Owners \cup {None}]
  /\ service \in [Jobs -> DBThreads \cup {None}] /\ \A j \in Asked : service[j] # None
  /\ dbPhase \in [DBThreads -> {"out", "fill", "handle"}]
  /\ dbJobs \in [DBThreads -> Seq(Asked)]
  /\ taken \in [DBThreads -> 0 .. BULK_DB]
  /\ asker \in [Jobs -> LoopThreads \cup {None}]
  /\ earlier \in [Jobs -> SUBSET Asked]
  /\ handled \subseteq Asked

DBInit ==
  /\ Init
  /\ mQueueCount = [d \in DBThreads |-> 0]
  /\ mDBQueue = [d \in DBThreads |-> [t \in LoopThreads |-> <<>>]]
  /\ asking = [t \in LoopThreads |-> None]
  /\ owner = [j \in Jobs |-> None] /\ service = [j \in Jobs |-> None]
  /\ dbPhase = [d \in DBThreads |-> "out"]
  /\ dbJobs = [d \in DBThreads |-> <<>>]
  /\ taken = [d \in DBThreads |-> 0]
  /\ asker = [j \in Jobs |-> None] /\ earlier = [j \in Jobs |-> {}]
  /\ handled = {}

-----------------------------------------------------------------------------
(* DBService::Push, called from application code *)

\* Line 26: the request is counted by the service that GetDBService finds for its
\* WorkID (DBLoadBalancer.cpp:28-33, 71-74).  The WorkID is the caller's choice at
\* every request, and so is the owner: any service may meet any owner.
Ask(t, j, d) ==
  /\ InUserCode(t) /\ asking[t] = None
  /\ Fresh(j) /\ j \notin Asked
  /\ mQueueCount' = [mQueueCount EXCEPT ![d] = @ + 1]
  /\ asking' = [asking EXCEPT ![t] = j]
  /\ \E q \in Owners \cup {None} : owner' = [owner EXCEPT ![j] = q]
  /\ service' = [service EXCEPT ![j] = d]
  /\ asker' = [asker EXCEPT ![j] = t]
  /\ earlier' = [earlier EXCEPT ![j] = {k \in Asked : asker[k] = t /\ service[k] = d}]
  /\ UNCHANGED <<vars, mDBQueue, dbPhase, dbJobs, taken, handled>>

\* Line 27: mDBQueue.enqueue.
AskEnqueue(t) ==
  /\ asking[t] # None
  /\ mDBQueue' = [mDBQueue EXCEPT ![service[asking[t]]][t] = Append(@, asking[t])]
  /\ asking' = [asking EXCEPT ![t] = None]
  /\ UNCHANGED <<vars, mQueueCount, owner, service, asker, earlier, dbPhase, dbJobs,
                 taken, handled>>

-----------------------------------------------------------------------------
(* DBService::Execute, which the service's thread calls again and again *)

\* Line 35: the count is not 0.
Begin(d) ==
  /\ dbPhase[d] = "out" /\ mQueueCount[d] # 0
  /\ dbPhase' = [dbPhase EXCEPT ![d] = "fill"]
  /\ UNCHANGED <<vars, requestVars, dbJobs, taken, handled>>

\* A variant: the latest request of a stream comes first.
TakeLast(d) ==
  /\ dbPhase[d] = "fill" /\ taken[d] < BULK_DB
  /\ \E t \in LoopThreads :
       LET stream == mDBQueue[d][t]
           n == Len(stream)
       IN  /\ n > 0
           /\ dbJobs' = [dbJobs EXCEPT ![d] = Append(@, stream[n])]
           /\ mDBQueue' = [mDBQueue EXCEPT ![d][t] = SubSeq(stream, 1, n - 1)]
  /\ taken' = [taken EXCEPT ![d] = @ + 1]
  /\ UNCHANGED <<vars, mQueueCount, asking, owner, service, asker, earlier,
                 dbPhase, handled>>

\* Line 39: the requests are dequeued one by one, each stream in its order.
Take(d) ==
  /\ dbPhase[d] = "fill" /\ taken[d] < BULK_DB
  /\ \E t \in LoopThreads :
       /\ mDBQueue[d][t] # <<>>
       /\ dbJobs' = [dbJobs EXCEPT ![d] = Append(@, Head(mDBQueue[d][t]))]
       /\ mDBQueue' = [mDBQueue EXCEPT ![d][t] = Tail(@)]
  /\ taken' = [taken EXCEPT ![d] = @ + 1]
  /\ UNCHANGED <<vars, mQueueCount, asking, owner, service, asker, earlier,
                 dbPhase, handled>>

\* try_dequeue_bulk returns: the vector is full, the queue looks empty, or an enqueue
\* at the same time made it miss what is there.
Filled(d) ==
  /\ dbPhase[d] = "fill"
  /\ dbPhase' = [dbPhase EXCEPT ![d] = "handle"]
  /\ UNCHANGED <<vars, requestVars, dbJobs, taken, handled>>

\* A variant: a request stays in the vector after it was handled.
RestOf(s) == s

\* Lines 41-46: what is left of the vector.
Rest(s) == Tail(s)

\* Lines 43-45, ProcessDBWorking: whether or not the database failed, the response
\* is pushed if the request has an owner; PushEnqueue and PushGlobal go on with it.
HandleData(d) ==
  /\ dbPhase[d] = "handle" /\ pushQueue[d] = None /\ dbJobs[d] # <<>>
  /\ LET j == Head(dbJobs[d]) IN
       /\ IF owner[j] = None THEN UNCHANGED vars ELSE PushCount(d, owner[j], j)
       /\ handled' = handled \cup {j}
  /\ dbJobs' = [dbJobs EXCEPT ![d] = Rest(@)]
  /\ UNCHANGED <<requestVars, dbPhase, taken>>

\* A variant: what was taken is all there was.
RemainingNone(d) == 0

\* Line 48: fetch_sub(jobCount).
Remaining(d) == mQueueCount[d] - taken[d]

\* All requests of the vector are handled.  Execute returns or starts again: in
\* either case line 35 is next.
Subtract(d) ==
  /\ dbPhase[d] = "handle" /\ pushQueue[d] = None /\ dbJobs[d] = <<>>
  /\ mQueueCount' = [mQueueCount EXCEPT ![d] = Remaining(d)]
  /\ taken' = [taken EXCEPT ![d] = 0]
  /\ dbPhase' = [dbPhase EXCEPT ![d] = "out"]
  /\ UNCHANGED <<vars, mDBQueue, asking, owner, service, asker, earlier, dbJobs,
                 handled>>

-----------------------------------------------------------------------------
DBStep(d) == Begin(d) \/ Take(d) \/ Filled(d) \/ HandleData(d) \/ Subtract(d)

\* The job system's steps, by threads that are not inside DBService::Push; what
\* a database thread pushes is a response.
JobStep ==
  \/ \E t \in LoopThreads :
       /\ asking[t] = None
       /\ \/ \E q \in Queues, j \in Jobs \ Asked : PushCount(t, q, j)
          \/ ExecuteStep(t) \/ JobReturn(t) \/ LoopStep(t)
          \/ \E q \in Queues : PopGlobal(t, q)
  \/ \E t \in Threads : PushStep(t)
  \/ Tick

DBNext ==
  \/ JobStep /\ UNCHANGED dbVars
  \/ \E t \in LoopThreads : AskEnqueue(t) \/ \E j \in Jobs, d \in DBThreads : Ask(t, j, d)
  \/ \E d \in DBThreads : DBStep(d)

DBSpec == DBInit /\ [][DBNext]_<<vars, dbVars>>

\* The job system's fairness, by which a thread inside DBService::Push goes on, too (it
\* has a ThreadStep to take afterwards); a database thread runs, and a dequeue tried
\* again and again finds a request whose enqueue has ended.
FairDBSpec ==
  /\ DBSpec /\ ThreadFairness
  /\ \A d \in DBThreads :
       WF_<<vars, dbVars>>(DBStep(d) \/ (PushStep(d) /\ UNCHANGED dbVars))
  /\ SF_<<vars, dbVars>>(\E d \in DBThreads : Take(d))

-----------------------------------------------------------------------------
(* Correctness *)

Stream(s) == {s[i] : i \in 1 .. Len(s)}

\* How many requests service d has to answer for.
Requests(d) == {j \in Asked : service[j] = d}

Waiting(d) ==
  Stream(dbJobs[d]) \cup
  (UNION {Stream(mDBQueue[d][t]) : t \in LoopThreads}) \cup
  {j \in Asked : \E t \in LoopThreads : service[j] = d /\ asking[t] = j}

\* A request is with its service until it is handled, and handled once.
HandledOnce ==
  \A d \in DBThreads :
    /\ Waiting(d) = Requests(d) \ handled
    /\ \A s \in {dbJobs[d]} \cup {mDBQueue[d][t] : t \in LoopThreads} :
         Len(s) = Cardinality(Stream(s))

\* mQueueCount is right whatever is counted, enqueued and dequeued meanwhile: a
\* database thread that finds it 0 leaves no request behind.
RequestsCounted ==
  \A d \in DBThreads :
    mQueueCount[d] - taken[d] = Cardinality(Waiting(d) \ Stream(dbJobs[d]))

\* Two requests that one thread makes of one service for one owner are answered in that
\* order: through the service's queue, the database thread's pushes and the job queue.
\* Different WorkIDs may have different services, and then there is no order.
AnswersInOrder ==
  \A j, k \in Jobs :
    /\ j \in earlier[k] /\ owner[j] = owner[k] /\ owner[k] # None
    /\ k \in finished \cup Running
    => j \in finished

\* Every job that is posted runs, and so does the response of every request that
\* has an owner, while main, workers and database threads hand the same queues to
\* each other; a request without an owner is handled.
EveryJobRuns ==
  \A j \in Jobs :
    []<>(j \in Asked \/ ~ Fresh(j)
           => j \in finished \/ (j \in handled /\ owner[j] = None))
=============================================================================
