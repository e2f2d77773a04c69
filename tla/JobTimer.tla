------------------------------ MODULE JobTimer ------------------------------
(***************************************************************************)
(* The timer of ServerCore: JobTimer::Reserve, called by application code  *)
(* through JobQueue::DoTimer, and JobTimer::Distribute, called by the loop *)
(* of the main thread and of every worker.                                 *)
(*                                                                         *)
(* Every access to the clock, to mIsDistributing and to mTimerQueue is a   *)
(* step of its own.  A due job is handed to the Push of its queue, which   *)
(* may run application code on the distributing thread: here that code may *)
(* reserve further timers; what else Push does is in module JobQueue.      *)
(***************************************************************************)
EXTENDS Integers, Sequences

CONSTANTS Threads,  \* the threads whose loop calls DistributeJobs
          Items,    \* the TimerItems, each reserved at most once
          Delays,   \* the values of tickAfter
          MAXTICK,  \* bound: the last tick of the clock and of any timer
          None      \* no item

ASSUME NoneAssumption == None \notin Items
ASSUME DelaysAssumption == Delays \subseteq Nat
ASSUME ClockAssumption == MAXTICK \in Nat

VARIABLES
  tick64,           \* PocoTimeUtil::GetTick64()
  mTimerQueue,      \* the concurrent_priority_queue, a set of items
  mIsDistributing,  \* the atomic_bool
  executeTick,      \* per item, once it is reserved
  jobData,          \* per item: its JobData is "none", "live" or "deleted"
  expired,          \* the items whose owner, a weak_ptr, has expired
  pc,               \* per thread: the access Distribute makes next
  now,              \* per thread: the argument of Distribute
  timerItem,        \* per thread: an item that was popped and was not due
  items,            \* per thread: the vector of due items
  reserving,        \* per thread: the item of the Reserve in progress
  pushed            \* history: the items whose job went to Push, in order

vars == <<tick64, mTimerQueue, mIsDistributing, executeTick, jobData, expired,
          pc, now, timerItem, items, reserving, pushed>>

TypeOK ==
  /\ tick64 \in Nat
  /\ mTimerQueue \in SUBSET Items
  /\ mIsDistributing \in BOOLEAN
  /\ executeTick \in [Items -> Nat]
  /\ jobData \in [Items -> {"none", "live", "deleted"}]
  /\ expired \in SUBSET Items
  /\ pc \in [Threads -> {"loop", "exchange", "pop", "pushback", "deliver",
                         "push", "delete"}]
  /\ now \in [Threads -> Nat]
  /\ timerItem \in [Threads -> Items \cup {None}]
  /\ items \in [Threads -> Seq(Items)]
  /\ reserving \in [Threads -> Items \cup {None}]
  /\ pushed \in Seq(Items)

Init ==
  /\ tick64 = 0
  /\ mTimerQueue = {}
  /\ mIsDistributing = FALSE
  /\ executeTick = [i \in Items |-> 0]
  /\ jobData = [i \in Items |-> "none"]
  /\ expired = {}
  /\ pc = [t \in Threads |-> "loop"]
  /\ now = [t \in Threads |-> 0]
  /\ timerItem = [t \in Threads |-> None]
  /\ items = [t \in Threads |-> <<>>]
  /\ reserving = [t \in Threads |-> None]
  /\ pushed = <<>>

Goto(t, step) == pc' = [pc EXCEPT ![t] = step]

-----------------------------------------------------------------------------
(* Reserve *)

\* Application code runs while the thread dispatches network completions or
\* jobs of its loop, and inside the Push of a due job.
InUserCode(t) == pc[t] \in {"loop", "push"} /\ reserving[t] = None

\* Lines 7-8: the clock is read, the JobData allocated.
ReserveTick(t, i, tickAfter) ==
  /\ InUserCode(t)
  /\ jobData[i] = "none"
  /\ tick64 + tickAfter <= MAXTICK
  /\ executeTick' = [executeTick EXCEPT ![i] = tick64 + tickAfter]
  /\ jobData' = [jobData EXCEPT ![i] = "live"]
  /\ reserving' = [reserving EXCEPT ![t] = i]
  /\ UNCHANGED <<tick64, mTimerQueue, mIsDistributing, expired, pc, now,
                 timerItem, items, pushed>>

\* Line 10.
ReservePush(t) ==
  /\ reserving[t] # None
  /\ mTimerQueue' = mTimerQueue \cup {reserving[t]}
  /\ reserving' = [reserving EXCEPT ![t] = None]
  /\ UNCHANGED <<tick64, mIsDistributing, executeTick, jobData, expired, pc,
                 now, timerItem, items, pushed>>

-----------------------------------------------------------------------------
(* Distribute *)

\* ThreadManager::DistributeJobs reads the clock before it calls Distribute.
ReadNow(t) ==
  /\ pc[t] = "loop"
  /\ reserving[t] = None
  /\ now' = [now EXCEPT ![t] = tick64]
  /\ Goto(t, "exchange")
  /\ UNCHANGED <<tick64, mTimerQueue, mIsDistributing, executeTick, jobData,
                 expired, timerItem, items, reserving, pushed>>

\* A variant that ignores what the exchange returned.
EnterAlways(t) ==
  /\ pc[t] = "exchange"
  /\ mIsDistributing' = TRUE
  /\ Goto(t, "pop")
  /\ UNCHANGED <<tick64, mTimerQueue, executeTick, jobData, expired, now,
                 timerItem, items, reserving, pushed>>

\* Lines 16-17: one thread at a time.
Enter(t) ==
  /\ pc[t] = "exchange"
  /\ mIsDistributing' = TRUE
  /\ Goto(t, IF mIsDistributing THEN "loop" ELSE "pop")
  /\ UNCHANGED <<tick64, mTimerQueue, executeTick, jobData, expired, now,
                 timerItem, items, reserving, pushed>>

\* The queue is built with the default comparison, operator< on executeTick:
\* try_pop takes an item no other item is later than.
Top(S) == {i \in S : \A k \in S : executeTick[k] <= executeTick[i]}

\* Line 25; the variant is one tick early.
DueOneTickEarly(t, i) == now[t] + 1 >= executeTick[i]
Due(t, i) == now[t] >= executeTick[i]

\* Lines 23 and 30.
PopDue(t) ==
  /\ pc[t] = "pop"
  /\ \E i \in Top(mTimerQueue) :
       /\ Due(t, i)
       /\ mTimerQueue' = mTimerQueue \ {i}
       /\ items' = [items EXCEPT ![t] = Append(@, i)]
  /\ UNCHANGED <<tick64, mIsDistributing, executeTick, jobData, expired, pc,
                 now, timerItem, reserving, pushed>>

\* Lines 23 and 25: the popped item is not due.
PopEarly(t) ==
  /\ pc[t] = "pop"
  /\ \E i \in Top(mTimerQueue) :
       /\ ~ Due(t, i)
       /\ mTimerQueue' = mTimerQueue \ {i}
       /\ timerItem' = [timerItem EXCEPT ![t] = i]
  /\ Goto(t, "pushback")
  /\ UNCHANGED <<tick64, mIsDistributing, executeTick, jobData, expired, now,
                 items, reserving, pushed>>

\* Line 23: try_pop finds the queue empty.
PopNothing(t) ==
  /\ pc[t] = "pop"
  /\ mTimerQueue = {}
  /\ Goto(t, "deliver")
  /\ UNCHANGED <<tick64, mTimerQueue, mIsDistributing, executeTick, jobData,
                 expired, now, timerItem, items, reserving, pushed>>

\* A variant that forgets the item it popped too early.
DropEarly(t) ==
  /\ pc[t] = "pushback"
  /\ timerItem' = [timerItem EXCEPT ![t] = None]
  /\ Goto(t, "deliver")
  /\ UNCHANGED <<tick64, mTimerQueue, mIsDistributing, executeTick, jobData,
                 expired, now, items, reserving, pushed>>

\* Lines 27-28.
PushBack(t) ==
  /\ pc[t] = "pushback"
  /\ mTimerQueue' = mTimerQueue \cup {timerItem[t]}
  /\ timerItem' = [timerItem EXCEPT ![t] = None]
  /\ Goto(t, "deliver")
  /\ UNCHANGED <<tick64, mIsDistributing, executeTick, jobData, expired, now,
                 items, reserving, pushed>>

\* A variant that does not ask whether the owner still exists.
DeliverAnyway(t) ==
  /\ pc[t] = "deliver"
  /\ items[t] # <<>>
  /\ Goto(t, "push")
  /\ pushed' = Append(pushed, Head(items[t]))
  /\ UNCHANGED <<tick64, mTimerQueue, mIsDistributing, executeTick, jobData,
                 expired, now, timerItem, items, reserving>>

\* Lines 34-37: the owner is locked and gets its job, unless it has expired.
Deliver(t) ==
  /\ pc[t] = "deliver"
  /\ items[t] # <<>>
  /\ IF Head(items[t]) \in expired
     THEN Goto(t, "delete") /\ UNCHANGED pushed
     ELSE Goto(t, "push") /\ pushed' = Append(pushed, Head(items[t]))
  /\ UNCHANGED <<tick64, mTimerQueue, mIsDistributing, executeTick, jobData,
                 expired, now, timerItem, items, reserving>>

\* The Push of the job, and what it executed, returns.
PushReturns(t) ==
  /\ pc[t] = "push"
  /\ reserving[t] = None
  /\ Goto(t, "delete")
  /\ UNCHANGED <<tick64, mTimerQueue, mIsDistributing, executeTick, jobData,
                 expired, now, timerItem, items, reserving, pushed>>

\* Line 38.
Delete(t) ==
  /\ pc[t] = "delete"
  /\ jobData' = [jobData EXCEPT ![Head(items[t])] = "deleted"]
  /\ items' = [items EXCEPT ![t] = Tail(@)]
  /\ Goto(t, "deliver")
  /\ UNCHANGED <<tick64, mTimerQueue, mIsDistributing, executeTick, expired,
                 now, timerItem, reserving, pushed>>

\* A variant that leaves mIsDistributing set.
FinishLocked(t) ==
  /\ pc[t] = "deliver"
  /\ items[t] = <<>>
  /\ Goto(t, "loop")
  /\ UNCHANGED <<tick64, mTimerQueue, mIsDistributing, executeTick, jobData,
                 expired, now, timerItem, items, reserving, pushed>>

\* Line 42.
Finish(t) ==
  /\ pc[t] = "deliver"
  /\ items[t] = <<>>
  /\ mIsDistributing' = FALSE
  /\ Goto(t, "loop")
  /\ UNCHANGED <<tick64, mTimerQueue, executeTick, jobData, expired, now,
                 timerItem, items, reserving, pushed>>

-----------------------------------------------------------------------------
(* The clock, and the code that drops the last reference to a queue. *)

Tick ==
  /\ tick64 < MAXTICK
  /\ tick64' = tick64 + 1
  /\ UNCHANGED <<mTimerQueue, mIsDistributing, executeTick, jobData, expired,
                 pc, now, timerItem, items, reserving, pushed>>

\* Not while some Push of line 37 holds the locked owner.
OwnerExpires(i) ==
  /\ jobData[i] = "live"
  /\ i \notin expired
  /\ \A t \in Threads : pc[t] = "push" => Head(items[t]) # i
  /\ expired' = expired \cup {i}
  /\ UNCHANGED <<tick64, mTimerQueue, mIsDistributing, executeTick, jobData,
                 pc, now, timerItem, items, reserving, pushed>>

-----------------------------------------------------------------------------
DistributeStep(t) ==
  \/ ReadNow(t) \/ Enter(t) \/ PopDue(t) \/ PopEarly(t) \/ PopNothing(t)
  \/ PushBack(t) \/ Deliver(t) \/ PushReturns(t) \/ Delete(t) \/ Finish(t)

Next ==
  \/ \E t \in Threads, i \in Items, d \in Delays : ReserveTick(t, i, d)
  \/ \E t \in Threads : ReservePush(t) \/ DistributeStep(t)
  \/ Tick
  \/ \E i \in Items : OwnerExpires(i)

Spec == Init /\ [][Next]_vars

(***************************************************************************)
(* Every thread comes through its loop again and again, the jobs that run  *)
(* inside Push return, and time passes up to its bound.                    *)
(***************************************************************************)
FairSpec ==
  /\ Spec
  /\ \A t \in Threads : WF_vars(ReservePush(t)) /\ WF_vars(DistributeStep(t))
  /\ WF_vars(Tick)

-----------------------------------------------------------------------------
(* Correctness *)

Distributing == {t \in Threads : pc[t] \in {"pop", "pushback", "deliver", "push", "delete"}}

\* The comment at JobTimer.cpp:15: one thread at a time is between the
\* exchange and the store, and the flag is set exactly while one is.
OneDistributor ==
  /\ \A t, u \in Distributing : t = u
  /\ mIsDistributing <=> Distributing # {}

\* The threads that hold item i outside the queue.
Holders(i) ==
  {t \in Threads : \/ reserving[t] = i
                   \/ timerItem[t] = i
                   \/ \E k \in 1..Len(items[t]) : items[t][k] = i}

HeldOnce(t) ==
  \A k \in 1..Len(items[t]) :
    /\ items[t][k] \notin {reserving[t], timerItem[t]}
    /\ \A m \in 1..Len(items[t]) : items[t][k] = items[t][m] => k = m

\* A reserved item is neither lost nor duplicated on its way through Reserve,
\* the queue, the item put back and the vector: until its JobData is deleted
\* it is in exactly one of these places, afterwards in none.  In particular
\* Deliver and Delete never touch a JobData that has gone back to the pool.
ItemInOnePlace ==
  /\ \A t \in Threads : HeldOnce(t)
  /\ \A i \in Items :
       IF jobData[i] = "live"
       THEN IF i \in mTimerQueue
            THEN Holders(i) = {} ELSE \E t \in Threads : Holders(i) = {t}
       ELSE i \notin mTimerQueue /\ Holders(i) = {}

\* A job goes to its queue at most once and never before its time, however
\* stale the time is that the distributing thread works with.
FiresOnceAndNotEarly ==
  /\ \A k, m \in 1..Len(pushed) : pushed[k] = pushed[m] => k = m
  /\ \A k \in 1..Len(pushed) : executeTick[pushed[k]] <= tick64

Fired == {pushed[k] : k \in 1..Len(pushed)}

\* What the callers of Reserve see is TimerService; above all, a timer is given up
\* only when its job was pushed or its owner is gone.
Service == INSTANCE TimerService WITH fired <- Fired
ImplementsTimerService == Service!Spec

\* Every timer fires, or its owner is gone, once the clock has passed it and
\* every timer behind it.
EveryTimerFires == \A i \in Items : jobData[i] = "live" ~> jobData[i] = "deleted"

-----------------------------------------------------------------------------
(* What the repository says of the timer and the code does not do. *)

\* JobTimer.h:31-33: a reserved job is processed after its time.  A pass that
\* stops at an item that is not due must leave none that is due; the time
\* order of the same container in LogManager.h:24-27 has it so.
StopsWhenNoneIsDue ==
  [][\A t \in Threads :
       timerItem[t] = None /\ timerItem'[t] # None
         => \A i \in mTimerQueue : ~ Due(t, i)]_vars
=============================================================================
