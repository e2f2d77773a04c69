----------------------------- MODULE BufferPool -----------------------------
(***************************************************************************)
(* RegisteredBufferPool: a lock-free queue of registered buffers and two   *)
(* atomic counts, which Acquire compares before it dequeues.  Initialize   *)
(* fills the pool on the main thread while the workers already accept      *)
(* connections (ServerApp.cpp:22-25).  The workers acquire, for the        *)
(* sessions they connect; whichever thread drops the last reference to a   *)
(* session releases its buffer.                                            *)
(*                                                                         *)
(* One step is one access to the queue or to a count.                      *)
(***************************************************************************)
EXTENDS Integers, FiniteSets

CONSTANTS Main, Workers,  \* the threads
          Buffers,        \* the buffers of one pool, mSize of them
          None            \* no buffer, no value

ASSUME ThreadAssumption == Main \notin Workers /\ IsFiniteSet(Workers)
ASSUME BufferAssumption == IsFiniteSet(Buffers) /\ None \notin Buffers
ASSUME NoneAssumption == None \notin Int

Threads == Workers \cup {Main}

VARIABLES
  mQueue,       \* the buffers in it; a dequeue may find any of them
  mAllocCount, mUseCount,
  fresh,        \* the buffers Initialize has not enqueued yet
  lent,         \* the buffers a session holds
  written,      \* the buffers whose mReadPos and mWritePos a session has moved
  pc,           \* per thread: what it does next
  alloc, use,   \* per thread: the counts GetFreeCount has loaded, or None
  buffer        \* per thread: pNetBuff of Acquire, obj of Release

counts == <<mAllocCount, mUseCount>>
places == <<mQueue, fresh, lent, written>>
locals == <<alloc, use, buffer>>
vars == <<counts, places, pc, locals>>

Steps == {"idle", "initialize", "alloc", "check", "take", "count",
          "enqueue", "uncount"}

TypeOK ==
  /\ mAllocCount \in Int /\ mUseCount \in Int
  /\ mQueue \subseteq Buffers /\ fresh \subseteq Buffers
  /\ lent \subseteq Buffers /\ written \subseteq Buffers
  /\ pc \in [Threads -> Steps]
  /\ alloc \in [Threads -> Int \cup {None}]
  /\ use \in [Threads -> Int \cup {None}]
  /\ buffer \in [Threads -> Buffers \cup {None}]

Init ==
  /\ mQueue = {} /\ mAllocCount = 0 /\ mUseCount = 0
  /\ fresh = Buffers /\ lent = {} /\ written = {}
  /\ pc = [t \in Threads |-> IF t = Main THEN "initialize" ELSE "idle"]
  /\ alloc = [t \in Threads |-> None]
  /\ use = [t \in Threads |-> None]
  /\ buffer = [t \in Threads |-> None]

Goto(t, step) == pc' = [pc EXCEPT ![t] = step]

-----------------------------------------------------------------------------
(* Initialize *)

InitializeEnqueue ==
  /\ pc[Main] = "initialize"
  /\ \E b \in fresh : /\ fresh' = fresh \ {b}
                      /\ mQueue' = mQueue \cup {b}
  /\ Goto(Main, "alloc")
  /\ UNCHANGED <<counts, lent, written, locals>>

InitializeCount ==
  /\ pc[Main] = "alloc"
  /\ mAllocCount' = mAllocCount + 1
  /\ Goto(Main, IF fresh = {} THEN "idle" ELSE "initialize")
  /\ UNCHANGED <<mUseCount, places, locals>>

-----------------------------------------------------------------------------
(* Acquire *)

Acquire(t) ==
  /\ pc[t] = "idle"
  /\ alloc' = [alloc EXCEPT ![t] = None]
  /\ use' = [use EXCEPT ![t] = None]
  /\ Goto(t, "check")
  /\ UNCHANGED <<counts, places, buffer>>

\* The compiler may load the operands of line 88 in either order.
LoadAllocCount(t) ==
  /\ pc[t] = "check"
  /\ alloc[t] = None
  /\ alloc' = [alloc EXCEPT ![t] = mAllocCount]
  /\ UNCHANGED <<counts, places, pc, use, buffer>>

LoadUseCount(t) ==
  /\ pc[t] = "check"
  /\ use[t] = None
  /\ use' = [use EXCEPT ![t] = mUseCount]
  /\ UNCHANGED <<counts, places, pc, alloc, buffer>>

Loaded(t) == pc[t] = "check" /\ alloc[t] # None /\ use[t] # None

\* GetFreeCount returns a size_t: less than 0 is a very large number, and
\* "<= 0" is "= 0".
Exhausted(t) == alloc[t] = use[t]

\* Acquire returns nullptr.
Refuse(t) ==
  /\ Loaded(t)
  /\ Exhausted(t)
  /\ Goto(t, "idle")
  /\ UNCHANGED <<counts, places, locals>>

Admit(t) ==
  /\ Loaded(t)
  /\ ~ Exhausted(t)
  /\ Goto(t, "take")
  /\ UNCHANGED <<counts, places, locals>>

\* A variant that looks at a buffer and leaves it in the queue.
TakePeek(t) ==
  /\ pc[t] = "take"
  /\ \E b \in mQueue : buffer' = [buffer EXCEPT ![t] = b]
  /\ Goto(t, "count")
  /\ UNCHANGED <<counts, places, alloc, use>>

\* The last turn of the loop of line 127; with an empty queue it spins.
Take(t) ==
  /\ pc[t] = "take"
  /\ \E b \in mQueue : /\ mQueue' = mQueue \ {b}
                       /\ buffer' = [buffer EXCEPT ![t] = b]
  /\ Goto(t, "count")
  /\ UNCHANGED <<counts, fresh, lent, written, alloc, use>>

\* Lines 128-139: the session has the buffer.
AcquireCount(t) ==
  /\ pc[t] = "count"
  /\ mUseCount' = mUseCount + 1
  /\ lent' = lent \cup {buffer[t]}
  /\ buffer' = [buffer EXCEPT ![t] = None]
  /\ Goto(t, "idle")
  /\ UNCHANGED <<mAllocCount, mQueue, fresh, written, alloc, use>>

\* The session receives or sends.
Write(b) ==
  /\ b \in lent \ written
  /\ written' = written \cup {b}
  /\ UNCHANGED <<counts, mQueue, fresh, lent, pc, locals>>

-----------------------------------------------------------------------------
(* Release, the deleter of the shared_ptr *)

\* A variant that does not reset the positions.
ReleaseAsIs(t, b) ==
  /\ pc[t] = "idle"
  /\ b \in lent
  /\ lent' = lent \ {b}
  /\ buffer' = [buffer EXCEPT ![t] = b]
  /\ Goto(t, "enqueue")
  /\ UNCHANGED <<counts, mQueue, fresh, written, alloc, use>>

\* NetworkBuffer::Reset.
ReleaseReset(t, b) ==
  /\ pc[t] = "idle"
  /\ b \in lent
  /\ lent' = lent \ {b}
  /\ written' = written \ {b}
  /\ buffer' = [buffer EXCEPT ![t] = b]
  /\ Goto(t, "enqueue")
  /\ UNCHANGED <<counts, mQueue, fresh, alloc, use>>

\* A variant that never lowers the count.
ReleaseEnqueueOnly(t) ==
  /\ pc[t] = "enqueue"
  /\ mQueue' = mQueue \cup {buffer[t]}
  /\ buffer' = [buffer EXCEPT ![t] = None]
  /\ Goto(t, "idle")
  /\ UNCHANGED <<counts, fresh, lent, written, alloc, use>>

ReleaseEnqueue(t) ==
  /\ pc[t] = "enqueue"
  /\ mQueue' = mQueue \cup {buffer[t]}
  /\ buffer' = [buffer EXCEPT ![t] = None]
  /\ Goto(t, "uncount")
  /\ UNCHANGED <<counts, fresh, lent, written, alloc, use>>

ReleaseCount(t) ==
  /\ pc[t] = "uncount"
  /\ mUseCount' = mUseCount - 1
  /\ Goto(t, "idle")
  /\ UNCHANGED <<mAllocCount, places, locals>>

-----------------------------------------------------------------------------
AcquireStep(t) ==
  \/ LoadAllocCount(t) \/ LoadUseCount(t) \/ Refuse(t) \/ Admit(t)
  \/ Take(t) \/ AcquireCount(t)

ReleaseStep(t) == ReleaseEnqueue(t) \/ ReleaseCount(t)

Next ==
  \/ InitializeEnqueue \/ InitializeCount
  \/ \E w \in Workers : Acquire(w) \/ AcquireStep(w)
  \/ \E t \in Threads : ReleaseStep(t) \/ \E b \in Buffers : ReleaseReset(t, b)
  \/ \E b \in Buffers : Write(b)

Spec == Init /\ [][Next]_vars

\* The threads run, and every session ends some time: a worker that is free
\* again and again drops the last reference to it.
FairSpec ==
  /\ Spec
  /\ WF_vars(InitializeEnqueue \/ InitializeCount)
  /\ \A w \in Workers : WF_vars(AcquireStep(w))
  /\ \A t \in Threads : WF_vars(ReleaseStep(t))
  /\ \A b \in Buffers : SF_vars(\E w \in Workers : ReleaseReset(w, b))

-----------------------------------------------------------------------------
(* Correctness *)

InHand == {buffer[t] : t \in Threads} \ {None}

\* A buffer is in one place: not yet in the pool, in the queue, with a session,
\* or in the hands of one thread in Acquire or Release.  No two sessions share
\* one, and none is lost.
BufferInOnePlace ==
  /\ Buffers = fresh \cup mQueue \cup lent \cup InHand
  /\ fresh \cap mQueue = {} /\ fresh \cap lent = {} /\ mQueue \cap lent = {}
  /\ InHand \cap (fresh \cup mQueue \cup lent) = {}
  /\ \A t, u \in Threads : buffer[t] # None /\ buffer[t] = buffer[u] => t = u

Releasing == {t \in Threads : pc[t] \in {"enqueue", "uncount"}}
Counting == IF pc[Main] = "alloc" THEN 1 ELSE 0

\* The counts are right up to the threads that are between the queue and the
\* count: mUseCount covers the sessions' buffers and those being released, a
\* buffer in the queue may be one of them; mAllocCount lags by one.
CountsAccount ==
  /\ mUseCount = Cardinality(lent) + Cardinality(Releasing)
  /\ mAllocCount = Cardinality(Buffers \ fresh) - Counting

\* A session gets a buffer with both positions at 0: what the session before
\* it left unread is not taken for its own.
HandedOutEmpty ==
  /\ mQueue \cap written = {}
  /\ \A t \in Threads : pc[t] = "count" => buffer[t] \notin written

-----------------------------------------------------------------------------
(* What the code does not do. *)

\* README.md:11-13 has the registered buffers used again by every Recv and Send
\* request: a worker that was admitted gets a buffer, and does not spin in
\* Acquire for ever, if the sessions that have one end.
AcquireReturns == \A w \in Workers : pc[w] = "take" ~> pc[w] # "take"
=============================================================================
