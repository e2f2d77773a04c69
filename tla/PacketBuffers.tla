---------------------------- MODULE PacketBuffers ----------------------------
(***************************************************************************)
(* Where the bytes of outgoing packets live.  MakePacketBuffer opens a     *)
(* packet in the chunk of its thread (LPacketChunk), writes and closes it; *)
(* the packet then waits in a send queue until whichever thread has copied *)
(* it drops the last reference.  A chunk is kept by its thread and by its  *)
(* packets, and goes back to PacketManager when the last of them lets go.  *)
(* Packet objects come from ObjectPool<Packet>, under its lock.            *)
(***************************************************************************)
EXTENDS Integers, FiniteSets

CONSTANTS Threads, None,
          Chunks,   \* the chunks mi_malloc can give (bound of the model)
          Packets,  \* the Packet objects it can give (bound of the model)
          CHUNK,    \* PACKET_CHUNK_SIZE
          SIZES     \* the sizes of packets, header included

ASSUME SizeAssumption == CHUNK \in Nat /\ SIZES \subseteq Nat \ {0}
ASSUME NoneAssumption == None \notin Threads \cup Chunks \cup Packets
ASSUME PacketAssumption == IsFiniteSet(Packets)

VARIABLES
  mPacketChunks,         \* PacketManager's queue; a dequeue may find any of it
  chunks,                \* the chunks allocated so far
  mIsOpen, mUsedSize,    \* per chunk
  LPacketChunk,          \* per thread
  popped,                \* per thread: what Pop returned, not yet assigned
  pushing,               \* per thread: the chunk its PushGlobal is to enqueue
  pc, size,              \* per thread: where it is, the packetSize it asked for
  packet,                \* per thread: the packet it makes or destroys
  owner, from, mAllocSize,  \* per packet: mOwnerChunk, mBuffer, its size
  sent,                  \* the packets the send queues refer to
  mPool, mAllocCount, mLock,  \* ObjectPool<Packet>; who holds its lock
  failed                 \* history: the threads whose serialization failed

chunkVars == <<mIsOpen, mUsedSize>>
packetVars == <<owner, from, mAllocSize>>
pool == <<mPool, mAllocCount, mLock>>
vars == <<mPacketChunks, chunks, chunkVars, LPacketChunk, popped, pushing, pc, size,
          packet, packetVars, sent, pool, failed>>

TypeOK ==
  /\ mPacketChunks \subseteq chunks /\ chunks \subseteq Chunks
  /\ mIsOpen \in [Chunks -> BOOLEAN] /\ mUsedSize \in [Chunks -> 0 .. CHUNK]
  /\ LPacketChunk \in [Threads -> chunks \cup {None}]
  /\ popped \in [Threads -> chunks \cup {None}]
  /\ pushing \in [Threads -> chunks \cup {None}]
  /\ pc \in [Threads -> {"idle", "open", "assign", "chunk", "write", "drop",
                         "release", "refused"}]
  /\ size \in [Threads -> SIZES \cup {0}]
  /\ packet \in [Threads -> Packets \cup {None}]
  /\ owner \in [Packets -> chunks \cup {None}]
  /\ from \in [Packets -> 0 .. CHUNK] /\ mAllocSize \in [Packets -> SIZES \cup {0}]
  /\ sent \subseteq Packets /\ mPool \subseteq Packets
  /\ mAllocCount \in Nat /\ mLock \in Threads \cup {None}
  /\ failed \subseteq Threads

Init ==
  /\ mPacketChunks = {} /\ chunks = {}
  /\ mIsOpen = [c \in Chunks |-> FALSE] /\ mUsedSize = [c \in Chunks |-> 0]
  /\ LPacketChunk = [t \in Threads |-> None]
  /\ popped = [t \in Threads |-> None] /\ pushing = [t \in Threads |-> None]
  /\ pc = [t \in Threads |-> "idle"] /\ size = [t \in Threads |-> 0]
  /\ packet = [t \in Threads |-> None]
  /\ owner = [p \in Packets |-> None]
  /\ from = [p \in Packets |-> 0] /\ mAllocSize = [p \in Packets |-> 0]
  /\ sent = {} /\ mPool = {} /\ mAllocCount = 0 /\ mLock = None
  /\ failed = {}

At(t, step) == pc[t] = step /\ pushing[t] = None
Goto(t, step) == pc' = [pc EXCEPT ![t] = step]

FreeSize(c) == CHUNK - mUsedSize[c]

\* The packets that exist.
Live == {p \in Packets : owner[p] # None}

\* A variant: only the threads keep a chunk, its packets do not.
UnsharedByThreads(c, t, q) ==
  \A u \in Threads : popped[u] # c /\ (u # t => LPacketChunk[u] # c)

\* A reference to c is dropped, by thread t for packet q (or None): if it was the last
\* one, the deleter of the shared_ptr is PushGlobal.
Unshared(c, t, q) ==
  /\ \A u \in Threads \ {t} : LPacketChunk[u] # c
  /\ \A u \in Threads : popped[u] # c
  /\ \A p \in Packets \ {q} : owner[p] # c

-----------------------------------------------------------------------------
(* MakePacketBuffer, PacketManager::Open *)

MakePacketBuffer(t) ==
  /\ At(t, "idle")
  /\ \E n \in SIZES : size' = [size EXCEPT ![t] = n]
  /\ Goto(t, "open")
  /\ UNCHANGED <<mPacketChunks, chunks, chunkVars, LPacketChunk, popped, pushing,
                 packet, packetVars, sent, pool, failed>>

\* A variant: a thread takes a chunk once, and does not ask for its room.
NeedsFirstChunk(t) == LPacketChunk[t] = None

\* Lines 7 and 19: the thread has no chunk, or its chunk no room.
NeedsChunk(t) ==
  LET c == LPacketChunk[t] IN
    c # None => ~ mIsOpen[c] /\ FreeSize(c) < size[t]

\* Pop: a chunk from the queue or, when try_dequeue fails, a new one.  It may fail on
\* a queue with chunks, while another thread enqueues one.
Pop(t) ==
  /\ At(t, "open") /\ NeedsChunk(t)
  /\ \/ \E c \in mPacketChunks :
          /\ mPacketChunks' = mPacketChunks \ {c}
          /\ popped' = [popped EXCEPT ![t] = c]
          /\ UNCHANGED <<chunks, chunkVars>>
     \/ \E c \in Chunks \ chunks :
          /\ chunks' = chunks \cup {c}
          /\ popped' = [popped EXCEPT ![t] = c]
          /\ mIsOpen' = [mIsOpen EXCEPT ![c] = FALSE]
          /\ mUsedSize' = [mUsedSize EXCEPT ![c] = 0]
          /\ UNCHANGED mPacketChunks
  /\ Goto(t, "assign")
  /\ UNCHANGED <<LPacketChunk, pushing, size, packet, packetVars, sent, pool, failed>>

Reset(c) ==
  /\ mIsOpen' = [mIsOpen EXCEPT ![c] = FALSE]
  /\ mUsedSize' = [mUsedSize EXCEPT ![c] = 0]

\* A variant: the chunk before is let go of without its deleter.
AssignOverOld(t) ==
  /\ At(t, "assign")
  /\ LPacketChunk' = [LPacketChunk EXCEPT ![t] = popped[t]]
  /\ popped' = [popped EXCEPT ![t] = None]
  /\ Reset(popped[t])
  /\ Goto(t, IF LPacketChunk[t] = None THEN "open" ELSE "chunk")
  /\ UNCHANGED <<mPacketChunks, chunks, pushing, size, packet, packetVars, sent, pool,
                 failed>>

\* LPacketChunk = Pop(), which lets go of the chunk before, and Reset.
Assign(t) ==
  LET old == LPacketChunk[t] IN
    /\ At(t, "assign")
    /\ LPacketChunk' = [LPacketChunk EXCEPT ![t] = popped[t]]
    /\ popped' = [popped EXCEPT ![t] = None]
    /\ pushing' = [pushing EXCEPT ![t] =
                     IF old # None /\ Unshared(old, t, None) THEN old ELSE None]
    /\ Reset(popped[t])
    /\ Goto(t, IF old = None THEN "open" ELSE "chunk")
    /\ UNCHANGED <<mPacketChunks, chunks, size, packet, packetVars, sent, pool, failed>>

\* The thread is at LPacketChunk->Open.
Opening(t) == At(t, "chunk") \/ (At(t, "open") /\ ~ NeedsChunk(t))

\* PacketChunk::Open, with the Packet that ObjectPool::New constructs.
OpenPacket(t) ==
  LET c == LPacketChunk[t] IN
    /\ Opening(t) /\ ~ mIsOpen[c] /\ size[t] <= FreeSize(c)
    /\ mLock = None
    /\ \E p \in IF mPool # {} THEN mPool ELSE
                Packets \ (Live \cup {packet[u] : u \in Threads}) :
         /\ packet' = [packet EXCEPT ![t] = p]
         /\ owner' = [owner EXCEPT ![p] = c]
         /\ from' = [from EXCEPT ![p] = mUsedSize[c]]
         /\ mAllocSize' = [mAllocSize EXCEPT ![p] = size[t]]
         /\ mPool' = mPool \ {p}
    /\ mAllocCount' = IF mPool = {} THEN mAllocCount + 1 ELSE mAllocCount
    /\ mIsOpen' = [mIsOpen EXCEPT ![c] = TRUE]
    /\ Goto(t, "write")
    /\ UNCHANGED <<mPacketChunks, chunks, mUsedSize, LPacketChunk, popped, pushing,
                   size, sent, mLock, failed>>

\* Open returns nullptr, which MakePacketBuffer dereferences: the program ends.
OpenRefused(t) ==
  LET c == LPacketChunk[t] IN
    /\ Opening(t) /\ (mIsOpen[c] \/ size[t] > FreeSize(c))
    /\ Goto(t, "refused")
    /\ UNCHANGED <<mPacketChunks, chunks, chunkVars, LPacketChunk, popped, pushing,
                   size, packet, packetVars, sent, pool, failed>>

\* Packet::Close, PacketChunk::Close, and Send takes the packet.
ClosePacket(t) ==
  LET c == owner[packet[t]] IN
    /\ At(t, "write")
    /\ mIsOpen' = [mIsOpen EXCEPT ![c] = FALSE]
    /\ mUsedSize' = [mUsedSize EXCEPT ![c] = @ + size[t]]
    /\ sent' = sent \cup {packet[t]}
    /\ packet' = [packet EXCEPT ![t] = None]
    /\ size' = [size EXCEPT ![t] = 0]
    /\ Goto(t, "idle")
    /\ UNCHANGED <<mPacketChunks, chunks, LPacketChunk, popped, pushing, packetVars,
                   pool, failed>>

\* SerializeToArray fails: nullptr is returned, and the packet goes unclosed.
SerializeFails(t) ==
  /\ At(t, "write")
  /\ failed' = failed \cup {t}
  /\ size' = [size EXCEPT ![t] = 0]
  /\ Goto(t, "drop")
  /\ UNCHANGED <<mPacketChunks, chunks, chunkVars, LPacketChunk, popped, pushing,
                 packet, packetVars, sent, pool>>

-----------------------------------------------------------------------------
(* The last reference to a packet goes: ObjectPool<Packet>::Release *)

\* A variant: the packet stays in the queue it was copied from.
DropFromFront(t) ==
  /\ At(t, "idle")
  /\ \E p \in sent : packet' = [packet EXCEPT ![t] = p]
  /\ Goto(t, "drop")
  /\ UNCHANGED <<mPacketChunks, chunks, chunkVars, LPacketChunk, popped, pushing,
                 size, packetVars, sent, pool, failed>>

\* Some thread has copied the packet into a send buffer, or its session is gone.
Drop(t) ==
  /\ At(t, "idle")
  /\ \E p \in sent : /\ packet' = [packet EXCEPT ![t] = p]
                     /\ sent' = sent \ {p}
  /\ Goto(t, "drop")
  /\ UNCHANGED <<mPacketChunks, chunks, chunkVars, LPacketChunk, popped, pushing,
                 size, packetVars, pool, failed>>

\* Under the lock: ~Packet lets go of the chunk.
DestroyPacket(t) ==
  LET p == packet[t] IN
    /\ At(t, "drop") /\ mLock = None
    /\ mLock' = t
    /\ owner' = [owner EXCEPT ![p] = None]
    /\ from' = [from EXCEPT ![p] = 0]
    /\ mAllocSize' = [mAllocSize EXCEPT ![p] = 0]
    /\ pushing' = [pushing EXCEPT ![t] =
          IF LPacketChunk[t] # owner[p] /\ Unshared(owner[p], t, p)
          THEN owner[p] ELSE None]
    /\ Goto(t, "release")
    /\ UNCHANGED <<mPacketChunks, chunks, chunkVars, LPacketChunk, popped, size,
                   packet, sent, mPool, mAllocCount, failed>>

PushGlobal(t) ==
  /\ pushing[t] # None
  /\ mPacketChunks' = mPacketChunks \cup {pushing[t]}
  /\ pushing' = [pushing EXCEPT ![t] = None]
  /\ UNCHANGED <<chunks, chunkVars, LPacketChunk, popped, pc, size, packet,
                 packetVars, sent, pool, failed>>

\* The object goes back to the pool, and the lock is released.
ReleasePacket(t) ==
  /\ At(t, "release")
  /\ mPool' = mPool \cup {packet[t]}
  /\ mLock' = None
  /\ packet' = [packet EXCEPT ![t] = None]
  /\ Goto(t, "idle")
  /\ UNCHANGED <<mPacketChunks, chunks, chunkVars, LPacketChunk, popped, pushing,
                 size, packetVars, sent, mAllocCount, failed>>

-----------------------------------------------------------------------------
Crashed == \E t \in Threads : pc[t] = "refused"

Step(t) ==
  \/ Pop(t) \/ Assign(t) \/ OpenPacket(t) \/ OpenRefused(t)
  \/ ClosePacket(t) \/ SerializeFails(t)
  \/ DestroyPacket(t) \/ PushGlobal(t) \/ ReleasePacket(t)

Next ==
  /\ ~ Crashed
  /\ \E t \in Threads : MakePacketBuffer(t) \/ Drop(t) \/ Step(t)

Spec == Init /\ [][Next]_vars

-----------------------------------------------------------------------------
(* Correctness *)

\* Bytes of a chunk belong to one packet: whoever serializes into a packet
\* writes over no other packet that is still to be sent.
PacketsDisjoint ==
  \A p, q \in Live :
    /\ from[p] + mAllocSize[p] <= CHUNK
    /\ p # q /\ owner[p] = owner[q] =>
         from[p] + mAllocSize[p] <= from[q] \/ from[q] + mAllocSize[q] <= from[p]

Held(c) ==
  \/ \E t \in Threads : LPacketChunk[t] = c \/ popped[t] = c
  \/ \E p \in Packets : owner[p] = c

\* A chunk is referred to, or on its way back to the queue, or in it, and only
\* one of these; one thread at a time opens packets in it.
ChunkInOnePlace ==
  \A c \in chunks :
    LET returning == {t \in Threads : pushing[t] = c} IN
      /\ Held(c) \/ returning # {} \/ c \in mPacketChunks
      /\ Held(c) => returning = {} /\ c \notin mPacketChunks
      /\ returning # {} => c \notin mPacketChunks
      /\ \A t, u \in returning : t = u
      /\ \A t, u \in Threads :
           LPacketChunk[t] = c /\ (LPacketChunk[u] = c \/ popped[u] = c) => t = u

\* A packet object is in the pool, or exists for one holder; the pool's count
\* is right.
PacketInOnePlace ==
  LET InHand == {packet[t] : t \in Threads} \ {None} IN
    /\ mPool \cap (sent \cup InHand) = {} /\ sent \cap InHand = {}
    /\ \A t, u \in Threads : packet[t] # None /\ packet[t] = packet[u] => t = u
    /\ sent \subseteq Live /\ Live \subseteq sent \cup InHand
    /\ mAllocCount = Cardinality(mPool \cup sent \cup InHand)

\* A thread can always make a packet that fits a chunk, unless one of its own
\* serializations failed before: that leaves its chunk open for ever.
RefusedWithReason ==
  \A t \in Threads : pc[t] = "refused" => t \in failed \/ size[t] > CHUNK
=============================================================================
