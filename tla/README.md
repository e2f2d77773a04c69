# TLA+ models of the RIO server core

This directory models `src/Server/ServerCore` and `src/Server/ServerApp`, a
multi-threaded network server on Windows Registered I/O (RIO): worker threads
share an I/O completion port, sessions send through lock-free queues, and the
application's objects are job queues whose jobs any thread may execute. The
models follow the compiled variant: `VERSION_RIO` is defined (`pch.h:11`), so the
`#else` branches of `NetworkSession.cpp` are not modelled.

Contents: [components](#components) ·
[modules](#modules-and-their-correspondence-to-the-code) · [runs](#what-the-runs-show) ·
[findings](#where-the-code-does-not-do-what-it-says) · [proofs](#what-is-proved) ·
[fairness](#fairness) · [limits](#what-is-not-modelled) · [plan](#plan)

## Components

Everything under `*/Include/*`, `*/google/*` and `*.pb.*` is vendored or generated
(protobuf, Poco, mimalloc, ...): more than 99% of the lines in the repository. Its own
code is about 4100 lines, 3600 of them in `src/Server/ServerCore`.

| component | files | state | operations | talks to |
|---|---|---|---|---|
| Job queues and thread loops | `JobQueue`, `GlobalQueue`, `ThreadManager`, `ServerApp` | `mJobQueue`, `mJobCount`, the `GlobalQueue`, thread-locals `LCurrentJobQueue`, `LEndTickCount` | `Push`, `Execute`, `DoGlobalJobs`, the loops of main and the workers | every component that calls `DoAsync` |
| Job timer | `JobTimer` | `mTimerQueue`, `mIsDistributing` | `Reserve`, `Distribute` | called by every loop; pushes into job queues |
| Session send path | `NetworkSession`, `NetworkBuffer` | `mSendQueue`, `mPacketCount`, `mSendRegistered`, `mSendBuffer`, `mRioSendContext` | `Send`, `RegisterSend`, `ProcessSend` | RIO; any thread sends, any worker completes |
| Session life cycle | `NetworkSession`, `Listener`, `Service` | `mIsConnected`, the buffers, `mRioRQ`, contexts that own the session, `mSessions` | `ProcessAccept`, `ProcessConnect`, `RegisterRecv`, `ProcessRecv`, `Disconnect`, `ProcessDisconnect`, the destructor | service, client manager, rooms, buffer pools |
| Chat rooms, client sessions | `ChatRoom*`, `ClientSession*` | `mSessionList`, `_sessions`, `mRoomID` | `Enter`, `Leave`, `OnConnected`, `OnDisconnected` | a room is a `JobQueue` |
| Registered buffer pool | `RegisteredBufferPool.h` | `mQueue`, `mAllocCount`, `mUseCount` | `Initialize`, `Acquire`, `Release` | sessions |
| Receive path and framing | `NetworkBuffer`, `PacketSession`, `PacketHandler` | `mRecvBuffer` | `RegisterRecv`, `ProcessRecv`, `OnRecv`, `OnWrite`, `OnRead`, `Clean` | RIO, completion dispatch, the application's handlers |
| Completion dispatch | `IocpHandler`, `Service::Dispatch` | the RIO completion queues and their notification | `ProcessDispatch`, `Dispatch`, `RIONotify` | everything with a pending request |
| Packet buffers | `Packet`, `PacketChunk`, `PacketManager` | the thread's chunk, `mPacketChunks`, `mUsedSize`, `mIsOpen` | `MakePacketBuffer`, `Open`, `Close`, `Push`, `Pop`, `Reset` | send path, object pool |
| Object pool | `ObjectPool.h` | `mPool`, `mAllocCount`, `mLock` | `New`, `Acquire`, `Release`, `Reserve` | nearly everything |
| Database workers | `DBService`, `DBLoadBalancer`, `DBHandler` | request queue and count per worker | `Push`, `Execute`, the response | job queues (`pushOnly`) |
| Logging, configuration, statistics | `LogManager`, `ServerConfig`, ... | | | |
| Dummy client | `dummy_client` | | | a load generator |

What is hard here: nearly all of the state is reached by several threads through
*separate* atomics and lock-free queues, so every correctness argument is about
what happens between two accesses. In short, what makes each component correct:

- **Job queues**: the jobs of a queue run one at a time, once, and in the order
  in which a thread posted them; no job is stranded between the count, the queue and
  the hand-over through the `GlobalQueue`.
- **Timer**: one distributor at a time; no item lost, doubled, early, or held back.
- **Send path**: one thread at a time fills the buffer and posts the request; a
  set `mSendRegistered` always has somebody behind it; the bytes of a request are
  its packets; the context keeps the session alive while, and only while, it must.
- **Life cycle**: a session is released once; a connected one listens unless RIO has refused its
  receive; its buffers stay with it while RIO may write to them; one that is disconnected
  leaves the service, the manager, its room, and memory.
- **Buffer pool**: no buffer shared or lost; `Acquire` says no when it is empty.
- **Receive path**: the handlers get the packets of the peer's stream, whole, in order and
  once, however the network cuts it and whichever workers dispatch; a completion is
  never left in its queue; a receive that completes with 0 bytes ends the session.
- **Packet buffers**: packets that wait to be sent share no byte; a chunk is recycled once, and
  not while anybody refers to it.
- **Database workers**: a request is handled once, and one thread's requests to one service for
  one owner are answered in order; none is left behind by a count that is read as 0.

The hazards are listed line by line in `PROJECT.json`, each with the properties
that would catch it.

## Modules and their correspondence to the code

One step of a model is one access to an atomic, a lock-free queue or a locked
container; thread-local code is joined to the access it follows. Every thread has a
`pc` (in `JobQueue`: `at`, `phase` and the pending `Push`) that names its next access. A
moodycamel queue keeps the order of one producer only, and is modelled so.

| module | models | remarks |
|---|---|---|
| `SerialExecutor` | what a `JobQueue` promises | abstract specification: `Post`, `Start`, `Finish` |
| `JobQueue` | `Push`, `Execute`, `DoGlobalJobs`, loops | `left[t]` is `LEndTickCount - GetTick64()`; a worker's is never positive, as the code never sets it; a database thread pushes with `pushOnly` |
| `TimerService` | what the timer promises | abstract specification: `Reserve`, `Fire`, `GiveUp`; nothing of the order of due jobs (finding 3) |
| `JobTimer` | `Reserve`, `Distribute` | `Top` is the item `try_pop` yields under `operator<`; owners may expire |
| `SendStream` | what the send path promises | abstract specification: `Send`, and batches that are transmitted or refused in turn |
| `SessionSend` | `Send`, `RegisterSend`, `ProcessSend` and the RIO request | a packet has size 1; buffer positions are kept, so refused requests and `Clean` move bytes as in the code |
| `SessionLife` | accept to destructor, managers, rooms | uses `SerialExecutor` for the rooms (composition); `Acquire` may return `nullptr`, `RIOReceive` and `DisconnectEx` may fail |
| `BufferPool` | `RegisteredBufferPool` | the two loads of `GetFreeCount` are separate steps in either order |
| `PacketStream` | what the receive path promises | abstract specification: a stream of bytes, cut into packets |
| `Receive` | RIO's completion queue and notification, `ProcessDispatch`, `Dispatch`, `ProcessRecv`, `OnRecv`, `NetworkBuffer` | a cell of a buffer holds the number of its byte in the stream |
| `PacketBuffers` | `MakePacketBuffer`, `PacketManager`, `PacketChunk`, `Packet`, `ObjectPool<Packet>` | a `shared_ptr` is modelled by who holds one; the last one that goes calls the deleter |
| `DBService` | `DBService`, `DBLoadBalancer`, `DBData`, with `JobQueue` | extends `JobQueue`: the composition of both; a request is named by the job that answers it, and goes to any service, as its `WorkID` says |
| `MC*` | values of constants, symmetry for TLC | |
| `*Proofs` | theorems | extend the component's module and `TLAPS` |

`PROJECT.json` (`map`) gives the lines of every definition. How the modules fit
together:

```
 SerialExecutor <--implements-- JobQueue <--EXTENDS-- DBService
       ^                        (PROPERTY ImplementsSerialExecutor, of the composition)
       | INSTANCE (rooms)
 SessionLife ---- Acquire may fail at any time: BufferPool
             ---- a reply may be under way:     SessionSend
 TimerService <--implements-- JobTimer             (PROPERTY ImplementsTimerService)
 JobTimer ---- Push may run the job inline:     JobQueue
 SendStream <--implements-- SessionSend            (PROPERTY ImplementsSendStream)
 PacketStream <--implements-- Receive              (PROPERTY ImplementsPacketStream)
 PacketBuffers ---- Drop is what becomes of a packet in SessionSend
```

Choices worth knowing when diffing model and code:

- `SessionSend`: plain memory (buffer, context) is written in the step of the next
  atomic access; `SingleSender` is what makes that sound. Its constant `WARN` is the
  limit line 466 really compares with; the log line 468 names `KICK_SENDQUEUE_SIZE`.
  `refused` is a history variable: what a failing `RIOSend` has dropped is in no other place.
- Each abstract specification also has a `Promise`, the same said of states: it is what a
  caller relies on, and it is proved of the code's model (`PromiseKept`).
- `SessionLife`: `RIOReceive` may fail on any session (lines 264-270): `HandleError` does
  nothing, so the session stays connected with nothing pending. `DisconnectEx` may fail at once
  (line 234): the session stays in the service for ever. The history variables `recvRefused` and
  `disconnectRefused` keep the sessions to which this has happened (`refused` in `Receive`), and
  the properties except those and no others. A worker that posts to an idle room executes
  it inside `DoAsync` (`JobQueue.cpp:11-17`); one that finds the room busy goes on.
  `executor` says who executes a room. A worker leaves after the batch its own job is in,
  which `BULK_DEQUEUE_JOB_COUNT` (1000) makes the first, and hands what is left to main, because
  its `LEndTickCount` is 0. A worker may run jobs of its room until it leaves: one posted after
  its dequeue is main's, which has the room while the worker is still on its way out of `Execute`.
  `OnWrite` and `OnRead` of `ProcessRecv` cannot fail (RIO received at most
  `FreeSize`, and `OnRecv` returns at most what it was given), so lines 428-440 have no step
  of their own. A full receive buffer asks for 0 bytes, which is one way into
  `ProcessRecvZero`. `CreateRIORQFails` contains the `Disconnect` of line 97.
- `Receive`: all sessions share one completion queue, for `CreateRIORQ` asks for the queue of
  session ID 0 (`NetworkSession.cpp:90`). The parsing steps of one `OnRecv` are separate
  steps so that `given` grows as in `PacketStream`; what a header reads as where no packet
  begins is arbitrary. The invariant `StreamKept` then shows that this never happens.
  `PacketSession.cpp:23-29` takes `header.size` as it comes. A packet of the model is what its
  header says, 0 included, and has no lower bound: `OnRecv` waits for the header, then
  takes `header.size` bytes, so the next header may overlap the packet's own. After a size of 0
  `OnRecv` calls `OnRecvPacket` at the same place for ever: the worker never leaves `parse`
  (`Hangs`), and the rest of its batch waits with it. `given` records the repeated call once.
  `memcpy` with overlapping ranges does what the VC++ runtime does (`MoveToFront`).
- `PacketBuffers`: a refused packet ends the program, because `MakePacketBuffer` writes
  through the null pointer (`PacketHandler.h:44`). The ten attempts of `Pop` are one step;
  chunks and packets are handed out by `malloc` while the model has any.
- `DBService`: `Execute` and `Launch` both go on at line 35, whether the loop ends by the
  `return` of line 49 or by that of line 36. A failing statement is caught and logged
  and the response pushed all the same (`GameDBHandler.cpp:62-80`), so success and failure
  are one step. `owner = None` is a request without response.
- `JobQueue` and `DBService`: `try_dequeue_bulk` may return fewer items than the queue holds, even
  none, when another thread enqueues meanwhile; `DrainEnd` and `Filled` may come at any time, and
  `Pop` in `PacketBuffers` may miss a chunk. `SessionSend` ends a batch when it is full
  or every stream is empty: a packet enqueued behind the dequeue's back at a stream it has passed
  is taken for one enqueued after it. Nothing is lost by that, since until the pump's next step
  nobody reads what that sender writes: the pump subtracts without looking at the count, the
  flag is set either way, and senders do not wait for each other.
- `BufferPool`: `Exhausted` is *equality*. `GetFreeCount` returns a `size_t`, so
  `<= 0` holds for 0 only.
- A definition whose comment begins "A variant" is not part of a specification. It is
  a plausible bug: put in the place of the definition after it, it makes TLC refute a
  property of the passing run (`mutants` in `PROJECT.json` has the pairs).

## What the runs show

Passing runs (TLC explores the whole state space of the instance):

| run | instance | distinct states | shows |
|---|---|---|---|
| `dbservice` | main, a worker, 2 database threads, 2 queues of which one is a room that asks, 2 jobs or requests, batches of 2, slice 1 | 222 624 | of the job system: `SerialExecution`, `ScheduledIffCounted`, `CountMatchesJobs`, refinement of `SerialExecutor`; of the database workers: `HandledOnce`, `RequestsCounted`, `AnswersInOrder`; of both: `EveryJobRuns` |
| `sessionsend` | 3 threads, 3 packets, batch 2, buffer 2, limit 2, refused requests | 604 692 | `SingleSender`, `FlagHasOwner`, `InFlightIntact`, `ContextHeld`, `SendOrder`, `CountAccounts`, refinement of `SendStream`, `PumpSettles` |
| `jobtimer` | 2 threads, 2 timers, delays 0 and 1, clock to 2 | 77 360 | `OneDistributor`, `ItemInOnePlace`, `FiresOnceAndNotEarly`, refinement of `TimerService`, `EveryTimerFires` |
| `sessionlife` | 2 threads, 2 sessions through one accept context, one room, failing request queues, `RIOReceive` and `DisconnectEx` | 435 083 | `ReleasedOnce`, `Watched`, `Departing`, `BuffersHeld`, `DepartureCompletes` |
| `bufferpool` | main and 2 workers, 2 buffers | 61 338 | `BufferInOnePlace`, `CountsAccount`, `HandedOutEmpty` |
| `receive` | 2 workers, 2 sessions, 2 packets each, buffer of 5 cells, header of 2, batches of 2 | 543 548 | `OneReceive`, `CompletionsAnnounced`, `StreamKept`, `RoomForPacket`, refinement of `PacketStream`, `EveryPacketHandled`, `ZeroBytesCloses` |
| `packets` | 2 threads, 3 chunks of 3, 3 packet objects, sizes 1, 2 and 4 | 462 545 | `PacketsDisjoint`, `ChunkInOnePlace`, `PacketInOnePlace`, `RefusedWithReason` |

No run checks a type invariant: the types of all modules are proved (below).

Why the bounds are enough to be interesting:

- *Job queues and database.* Two queues make a job push into another queue, which an executor
  hands over instead of nesting; a second job of one queue makes an executor go round, and
  a queue be pushed to while it is on the `GlobalQueue`. Either job may be the answer to a
  request, so the same run has jobs of the application, answers, and both against each other.
  Two services let a thread ask both for one owner. One step of time is enough for a slice to end
  anywhere. One of the queues owns requests (`Owners`), as a room would, and the other, like
  `TimerJobQueue`, none. Two jobs are few, but the safety properties of this run are all proved
  for any number; what the instance has to be large enough for is `EveryJobRuns`, and there a job
  can be stranded by one other.
- *Send path.* Two senders and the worker with the completion are the three
  parties of every race there is. The third packet overflows the buffer of two or
  reaches the kick limit; a refused request leaves bytes before `mWritePos`.
- *Timer.* Two timers of which either may be due first, with two distributors.
- *Life cycle.* Two threads are what it takes for `OnDisconnected` to overtake
  `OnConnected`; the second session keeps the first one's threads busy. The number of
  sessions is a bound of the model only: the code has none (`Service.cpp:57`).
- *Buffer pool.* Two workers and two buffers let a worker be admitted by old counts
  while another takes the last buffer, and main enqueue without having counted.
- *Receive path.* One stream begins with a packet of 2 or 3 cells, a bare header or not
  a multiple of one, followed by one that exceeds the buffer or fills it; the other has bare headers,
  or a header that says 1 and then one that says 0; bytes arrive in pieces of every size, so headers
  and packets are cut everywhere. A second session and a second worker are what it takes for
  completions to wait while a batch is processed, and for one worker to hang without the other.
- *Packet buffers.* Three chunks let each thread replace its chunk while the packets of
  the one before are still to be sent by either thread; sizes that leave room, fill the
  chunk together, and never fit.

All the safety properties and refinements of these runs are also proved without bounds
(below), so their small sizes matter for the liveness properties and the refuted ones.

`CHECK_DEADLOCK FALSE` is given where the instance runs out of work: all packets sent or received,
all sessions gone, every worker in `Acquire` on an empty pool, the program ended by a
refused packet. `DBService` with its `JobQueue`, and `JobTimer`, loop for ever and are checked
for deadlock.

## Where the code does not do what it says

Each of these is a run with `expect: violation` that checks one property; the trace
TLC prints is the scenario.

1. **A packet is stranded in the send queue** (`sessionsend_stranded`,
   `EveryPacketLeaves`). `ProcessSend` reads `mPacketCount` at line 472 and clears
   `mSendRegistered` at 473; a `Send` between the two counts its packet, finds the flag set
   and leaves. Nobody sends the packet until the next `Send`.
2. **An empty request closes a healthy session** (`sessionsend_empty`,
   `ZeroBytesMeansDeadLink`). `Send` enqueues (line 28), counts (29), then exchanges the flag (30).
   The pump may take and transmit the packet before it is counted, find the count at most 0
   at line 472 and clear the flag. The late exchange then finds the flag clear and registers with
   an empty queue: a request of no bytes, whose completion `ProcessSend` takes for a dead link.
   (The count itself never exceeds what is queued, by `CountAccounts`.)
3. **The latest timer is looked at first** (`jobtimer_order`, `StopsWhenNoneIsDue`).
   `TimerItem::operator<` is the wrong way round for `concurrent_priority_queue`, so one far
   timer holds back every due one. (`EveryTimerFires` holds nevertheless in the model:
   once the clock has passed *all* timers, all of them fire.)
4. **A departed session stays in its room** (`sessionlife_room`, `DepartedLeavesRoom`).
   `Enter` and `Leave` are posted by different threads, whose order a `JobQueue` does not
   keep. An idle room runs `Enter` before `OnConnected` returns; but if another worker executes the
   room, for a session that leaves it, `Enter` waits in its thread's stream and the room is
   handed to main. The session, connected meanwhile, may close; `Leave` goes into another stream,
   and main may take that stream first. The room then keeps the dead session and its two
   registered buffers for ever.
5. **Workers spin in an empty buffer pool** (`bufferpool_spin`, `AcquireReturns`). A buffer
   is in the queue before it is counted, so the free count can fall below 0, which as a
   `size_t` admits everybody. When all workers spin, nobody is left to release a buffer.

Observed, and not stated as a finding:

- Workers never set `LEndTickCount`, so `DoGlobalJobs` sends them away
  (`ThreadManager.cpp:37`): only main serves the `GlobalQueue`. A queue handed over so that "a
  thread with time to spare" executes it (`JobQueue.cpp:20`) waits for main, even if main is
  in a long job. `JobQueue` models this, and `EveryJobRuns` needs that jobs return.
- A serialization that fails leaves its chunk open (`PacketHandler.h:50`), and the thread's next
  packet ends the program. `RefusedWithReason` says that nothing else has this effect,
  apart from a packet larger than a chunk.
- A header of size 0 keeps the worker in `OnRecv` for ever (`PacketSession.cpp:23-29` does not
  look at what the peer sends), with the packets of its batch. `EveryPacketHandled` excepts this
  and nothing else.
- A refused `RIOReceive` leaves a connected session that nobody watches any more
  (`NetworkSession.cpp:265-270`), and a refused `DisconnectEx` leaves a closed one in the service
  (line 234). `Watched` and `Departing` say that these are the only ones.
- When the request queue cannot be created, `CreateRIORQ` disconnects the session (line 97) and
  `ProcessConnect` goes on: another thread may erase the session from the manager's set before
  `OnConnected` inserts it, and post its `Leave` before its `Enter`. It stays in the set for ever.
  `Departing` excepts these sessions from what it says of the manager.
- After "SendBuffer Over" the closed session's own send
  context refers to it (`NetworkSession.cpp:299`, 313) and nothing clears it, so it is never
  destroyed. `ContextHeld` says that this is the only way a reference outlives its request.

## What is proved

With `tlapm`, for every value of the constants that satisfies the named assumptions of the
modules (finite sets of threads, jobs or buffers, `None` outside of them, positive batch
and buffer sizes). Each `IInv` is proved by `Init => IInv` and
`IInv /\ [Next]_vars => IInv'`, one lemma for each of its parts, one step for each action.

- **`JobQueueProofs`**: `TypeOK`, `SerialExecution`, `ScheduledIffCounted`,
  `CountMatchesJobs`, and `ImplementsSerialExecutor`: every step maps to a step of
  `SerialExecutor` or a stutter. The published invariants are not inductive: that the executor is
  alone rests on *Token* (a queue whose count left 0 has exactly one holder: a thread
  that executes it or is about to schedule it, or its place on the `GlobalQueue`),
  that on `CountMatchesJobs` (what `fetch_sub` returns tells whether a job is left) and on
  *Place* (a job is with its pusher, in its queue, in one batch, or finished), and the
  refinement on *Order* (the jobs its poster posted before it are in the batch with it, or
  finished). From the refinement alone follows `SerialExecutor`'s `Promise`. *Shape* ties
  the threads' control variables together.
- **`SessionSendProofs`**: `TypeOK`, `SingleSender`, `FlagHasOwner`, `InFlightIntact`,
  `ContextHeld`, `SendOrder`, `CountAccounts`, and `ImplementsSendStream`.
  *Single* couples `mSendRegistered`, the pumping thread and the request;
  *Region* says where in the buffer the batch lies at each step of the pump, which is
  what `InFlightIntact` needs after refused requests; *Held* follows the dispatcher.
  On these rests a second invariant. *Queues* says that a thread's queue holds the last packets it
  sent, so all that it sent before has been taken; *NoGap*, that what has been transmitted or
  refused leaves no gap before any packet; *Transit*, that the packets taken and not gone
  are exactly those of one batch, wherever it is (with the pumping thread, in a request, or
  none), and that each of them is the next of its thread. `SendOrder`, which compares
  positions in `wire`, is kept because a batch is appended in turn. A session that the pump
  has closed has lost its batch, and *Transit* then asks for nothing: it never sends again.
  *Counted* says how far `mPacketCount` is from what is queued, by the cardinality of the
  places in the queues and of the threads between `enqueue` and the count (the threads are
  finite). Only there may the count be below what is queued.
- **`JobTimerProofs`**: `TypeOK`, `OneDistributor`, `ItemInOnePlace`,
  `FiresOnceAndNotEarly`, and `ImplementsTimerService`. *Ripe* and *Settled* say of the items a
  distributor has taken that they are due and which of them it has pushed; *Decided*, for the
  refinement, that it deletes an item only after it pushed the job or found no owner.
- **`SessionLifeProofs`**: `TypeOK`, `ReleasedOnce`, `Watched`, `Departing`, `BuffersHeld`.
  *Unshared* (a session in an accept context or in `ProcessConnect` is with nobody else) and
  *Leaving* (one `ProcessDisconnect`, pending or running, and only for a disconnected session in
  `mSessions`) carry the argument. *Early* (until its first receive nobody disconnects a session that
  has its request queue) and *Managed* give the manager's part of `Departing`. For `BuffersHeld`,
  *InUse* says that who is about to post a
  receive has seen the buffer, and *Gone* that no step begins at a destroyed session.
- **`BufferPoolProofs`**: `TypeOK`, `BufferInOnePlace`, `CountsAccount`,
  `HandedOutEmpty`. *Places* is `BufferInOnePlace` with what each `pc` has in hand.
- **`ReceiveProofs`**: `TypeOK`, `OneReceive`, `CompletionsAnnounced`, `StreamKept`,
  `RoomForPacket`, and `ImplementsPacketStream`, for any sizes of packets, 0 included.
  `StreamKept` speaks of sessions whose request is with RIO; *Data* says where the bytes are in
  every state in between: of a completion in the queue or with a worker, that its bytes follow
  the unread ones; of a session that is parsed, that what `OnRecv` has handled is what `given`
  says. *Unique* (each session's receive is in one place) keeps other workers away from the
  buffer meanwhile. The refinement follows: at `processLen` there is always the first byte of
  the next packet.
- **`PacketBuffersProofs`**: `TypeOK`, `PacketsDisjoint`, `ChunkInOnePlace`,
  `PacketInOnePlace`, `RefusedWithReason`. *Used* (a closed packet ends before `mUsedSize`, and
  the open one begins there) gives the disjointness within a chunk; *OwnChunk* and *FreeAlone* (a chunk
  on its way back or in the queue has no holder) that nobody resets it under a packet;
  *Opened* that an open chunk has its thread writing or failed.
- **`DBServiceProofs`**: `DBTypeOK`, `HandledOnce`, `RequestsCounted`, `AnswersInOrder`, and
  `JobSystemInside`, that the composition implements `JobQueue`'s specification, which carries
  over all that `JobQueueProofs` proves. *Distinct* (a request is in one place), *Ahead*
  (earlier requests of its asker to its service are ahead of it or handled) and *PushedInOrder*
  (then their answers are `prior` to its answer in the job queue) lead to `AnswersInOrder` by
  *Order* of the job queue.

`PromiseKept` in `JobQueueProofs`, `SessionSendProofs`, `JobTimerProofs` and `ReceiveProofs` is the
`Promise` of the abstract specification that the module implements. It follows from the refinement,
by induction on the abstract steps, save for `SendStream`, where *NoGap* and `SendOrder` give most
of it.

Only model-checked: liveness (`EveryJobRuns`, `PumpSettles`, `EveryTimerFires`,
`DepartureCompletes`, `EveryPacketHandled`, `ZeroBytesCloses`), since fairness and `ENABLED` are
beyond the prover, and the refuted properties, which are about one trace each.

## Fairness

- `JobQueue`: every thread takes its next step (the operating system schedules it). Strong
  fairness for main taking jobs from a queue and some queue from the `GlobalQueue` (a dequeue visits
  all producers' streams, and misses what is being enqueued, but not for ever) and for main
  entering `DoGlobalJobs` with time left in its slice: main renews its slice in every turn of
  its loop (`ServerApp.cpp:41`), so it does not always arrive there too late. Jobs return: that
  too is a step of their thread.
- `DBService`: the same for the database threads, steps of a `Push` included; and while
  there are always requests, some database thread takes one some time (strong: a dequeue may fall
  short while others enqueue, not for ever).
- `Receive`: workers run, some idle worker is woken by a queued notification, handlers return.
  Nothing is asked of the peers or of RIO: a request may never complete, one for 0 bytes
  included. That is why `EveryPacketHandled` speaks of packets that have arrived, and
  `ZeroBytesCloses` of completions that are in the queue; the latter excepts sessions whose
  worker hangs.
- `SessionSend`: threads run, a posted request completes, some worker dequeues the
  completion. No fairness for senders: nobody need ever send again.
- `JobTimer`: each thread finishes what it has begun, and the clock advances. Each
  thread distributes again and again (`ServerApp.cpp:42`, 81).
- `SessionLife`: threads run, inside the rooms they execute too; the completion of
  `DisconnectEx` is taken up some time even if the threads always find other work, for the
  completion port is a FIFO queue (strong).
- `BufferPool`: threads run, and a worker that is free again and again drops
  the last reference to any given session some time. That is generous, and
  `AcquireReturns` fails all the same.

## What is not modelled

Vendored and generated code. Contents of messages, logging, configuration, statistics,
SQL and drawing, the dummy client. The client side (`ConnectService`, `RegisterConnect`) is not
used by the server, nor is anything under the `#else` of `VERSION_RIO` (`CustomBuffer`). Failing
immediate calls of `CreateSession` and `AcceptEx`. What the program does after dereferencing
a null `mSendBuffer` (a session that acquired only its receive buffer, `NetworkSession.cpp:300`)
is undefined and has no step: `SessionLife` replies only with a send buffer. `ObjectPool::Reserve`
and its unlocked count (`ObjectPool.h:65`): nothing reads the count. Connecting and reconnecting
to the database, which delay its thread. The database workers are modelled although nothing starts
them at this commit: `ServerApp.cpp:19-35` and the calls that would ask them
(`ClientPacketHandler.cpp:25-30`) are commented out; the classes themselves are complete. A
failing RIO completion queue (`RIO_CORRUPT_CQ`) and a failing
`RIONotify` (its result is ignored): RIO is assumed to work. Nothing is persisted, so there is
no crash recovery. Shutdown is not modelled: the loops never end.

## Plan

Done, in this order: `JobQueue` with `SerialExecutor` (the heart of the concurrency),
`SessionSend`, `JobTimer`, `SessionLife` over `SerialExecutor`, `BufferPool`, `Receive` with
`PacketStream`, `PacketBuffers`, and `DBService` over `JobQueue`, with their runs and proofs; then
`SendStream` and `TimerService`, their refinements, and the proofs of all safety properties.

Left, by importance:

1. `SessionSend` under the completion queue of `Receive`. `SessionSend` lets any idle worker take the
   completion of a request, once, which is what `CompletionsAnnounced` and the dequeueing steps of
   `Receive` provide; the composition would state it.
2. `PacketBuffers` with the send queue of `SessionSend` for its `Drop`.
3. A specification of what `SessionLife` promises to the service (a session is added, leaves and
   is destroyed, in this order), and of `BufferPool` to the sessions, with their refinements.

## Running it

`tlc -config DBService.cfg DBService` (and so on, as listed in `PROJECT.json`) and
`tlapm JobQueueProofs.tla`. The longest run takes about three minutes on two cores, the longest
proofs (`ReceiveProofs`, `SessionSendProofs`, `DBServiceProofs`) two to four; the refuted runs stop
within seconds.
