------------------------ MODULE PacketBuffersProofs -------------------------
(***************************************************************************)
(* Proofs about PacketBuffers, for any threads, chunks, packets and sizes. *)
(***************************************************************************)
EXTENDS PacketBuffers, FiniteSetTheorems, TLAPS

\* What a thread has in its hands tells where it is.
Hands ==
  \A t \in Threads :
    /\ pc[t] = "assign" <=> popped[t] # None
    /\ pc[t] \in {"write", "drop", "release"} <=> packet[t] # None
    /\ packet[t] # None => (owner[packet[t]] = None <=> pc[t] = "release")
    /\ pc[t] \in {"open", "assign", "chunk", "write"} => size[t] \in SIZES

\* A chunk that a thread has popped is nobody else's, and is not on its way back.
PoppedAlone ==
  \A t \in Threads : popped[t] # None =>
    /\ \A u \in Threads : /\ LPacketChunk[u] # popped[t] /\ pushing[u] # popped[t]
                          /\ popped[u] = popped[t] => t = u
    /\ \A p \in Packets : owner[p] # popped[t]
    /\ popped[t] \notin mPacketChunks

\* The chunk a thread opens packets in is its own.
OwnChunk ==
  \A t, u \in Threads :
    LPacketChunk[t] # None /\ LPacketChunk[t] = LPacketChunk[u] => t = u

\* A chunk on its way to the queue, or in it, is referred to by nobody.
FreeAlone ==
  /\ \A t \in Threads : pushing[t] # None =>
       /\ \A u \in Threads : /\ LPacketChunk[u] # pushing[t]
                             /\ pushing[u] = pushing[t] => t = u
       /\ \A p \in Packets : owner[p] # pushing[t]
       /\ pushing[t] \notin mPacketChunks
  /\ \A c \in mPacketChunks :
       /\ \A u \in Threads : LPacketChunk[u] # c
       /\ \A p \in Packets : owner[p] # c

\* No chunk is forgotten.
NoneLost ==
  \A c \in chunks : Held(c) \/ c \in mPacketChunks \/ \E t \in Threads : pushing[t] = c

\* The packet a thread writes is the last of its chunk, and the only open one.
Writing ==
  \A t \in Threads : pc[t] = "write" =>
    /\ owner[packet[t]] = LPacketChunk[t] /\ mIsOpen[LPacketChunk[t]] = TRUE
    /\ from[packet[t]] = mUsedSize[LPacketChunk[t]] /\ mAllocSize[packet[t]] = size[t]
    /\ mUsedSize[LPacketChunk[t]] + size[t] <= CHUNK
    /\ \A q \in Packets \ {packet[t]} :
         owner[q] = LPacketChunk[t] =>
           from[q] + mAllocSize[q] <= mUsedSize[LPacketChunk[t]]

\* A thread's chunk is open while it writes, and after a serialization failed; one
\* that was just assigned is empty.
Opened ==
  \A t \in Threads :
    /\ LPacketChunk[t] # None /\ mIsOpen[LPacketChunk[t]] = TRUE =>
         pc[t] = "write" \/ t \in failed
    /\ pc[t] = "chunk" => LPacketChunk[t] # None
    /\ pc[t] = "chunk" => mIsOpen[LPacketChunk[t]] = FALSE
    /\ pc[t] = "chunk" => mUsedSize[LPacketChunk[t]] = 0

\* The packets of a chunk that is not open lie in its used part.
Used ==
  \A p \in Packets : owner[p] # None =>
    /\ from[p] + mAllocSize[p] <= CHUNK
    /\ mIsOpen[owner[p]] = FALSE => from[p] + mAllocSize[p] <= mUsedSize[owner[p]]

\* PacketInOnePlace without the count, by quantifiers.
Places ==
  /\ \A p \in mPool : p \notin sent /\ owner[p] = None
  /\ \A t \in Threads : packet[t] \notin mPool \cup sent
  /\ \A t, u \in Threads : packet[t] # None /\ packet[t] = packet[u] => t = u
  /\ \A p \in sent : owner[p] # None
  /\ \A p \in Packets : owner[p] # None => p \in sent \/ \E t \in Threads : packet[t] = p

\* The objects the pool has allocated.
Objects == mPool \cup sent \cup ({packet[t] : t \in Threads} \ {None})

Counted == mAllocCount = Cardinality(Objects)

IInv ==
  /\ TypeOK /\ Hands /\ PoppedAlone /\ OwnChunk /\ FreeAlone /\ NoneLost
  /\ Writing /\ Opened /\ Used /\ PacketsDisjoint /\ Places /\ Counted
  /\ RefusedWithReason

-----------------------------------------------------------------------------
\* What OpenPacket does to the packet p it takes from the pool, or constructs.
Opens(t, p) ==
  LET c == LPacketChunk[t] IN
    /\ pc[t] \in {"open", "chunk"} /\ pushing[t] = None
    /\ c \in chunks /\ c # None /\ mIsOpen[c] = FALSE /\ size[t] <= CHUNK - mUsedSize[c]
    /\ p \in Packets /\ owner[p] = None /\ p \notin sent
    /\ \A u \in Threads : packet[u] # p
    /\ packet' = [packet EXCEPT ![t] = p]
    /\ owner' = [owner EXCEPT ![p] = c]
    /\ from' = [from EXCEPT ![p] = mUsedSize[c]]
    /\ mAllocSize' = [mAllocSize EXCEPT ![p] = size[t]]
    /\ mPool' = mPool \ {p}
    /\ \/ p \in mPool /\ mAllocCount' = mAllocCount
       \/ mPool = {} /\ mAllocCount' = mAllocCount + 1
    /\ mIsOpen' = [mIsOpen EXCEPT ![c] = TRUE]
    /\ pc' = [pc EXCEPT ![t] = "write"]
    /\ UNCHANGED <<mPacketChunks, chunks, mUsedSize, LPacketChunk, popped, pushing,
                   size, sent, mLock, failed>>

\* Places and sizes are numbers.
LEMMA Numbers ==
  ASSUME TypeOK
  PROVE  \A p \in Packets : from[p] \in Nat /\ mAllocSize[p] \in Nat
<1>1. ASSUME NEW p \in Packets PROVE from[p] \in Nat
  BY DEF TypeOK
<1>2. ASSUME NEW p \in Packets PROVE mAllocSize[p] \in Nat
  <2>1. mAllocSize[p] \in SIZES \cup {0}
    BY DEF TypeOK
  <2>2. CASE mAllocSize[p] \in SIZES
    BY <2>2, SizeAssumption
  <2>3. CASE mAllocSize[p] = 0
    BY <2>3
  <2> QED
    BY <2>1, <2>2, <2>3
<1> QED
  BY <1>1, <1>2

\* OpenPacket is Opens for some packet.
LEMMA OpenPacketOpens ==
  ASSUME TypeOK, Opened, Places, NEW t \in Threads, OpenPacket(t)
  PROVE  \E p \in Packets : Opens(t, p)
<1> USE NoneAssumption DEF TypeOK, At
<1>1. /\ pc[t] \in {"open", "chunk"} /\ pushing[t] = None
      /\ LPacketChunk[t] \in chunks /\ LPacketChunk[t] # None
  BY DEF OpenPacket, Opening, NeedsChunk, Opened
<1>2. /\ mIsOpen[LPacketChunk[t]] = FALSE
      /\ size[t] <= CHUNK - mUsedSize[LPacketChunk[t]]
  BY DEF OpenPacket, FreeSize
<1>3. CASE mPool # {}
  <2>1. PICK p \in mPool :
          /\ packet' = [packet EXCEPT ![t] = p]
          /\ owner' = [owner EXCEPT ![p] = LPacketChunk[t]]
          /\ from' = [from EXCEPT ![p] = mUsedSize[LPacketChunk[t]]]
          /\ mAllocSize' = [mAllocSize EXCEPT ![p] = size[t]]
          /\ mPool' = mPool \ {p}
    BY <1>3 DEF OpenPacket
  <2>2. /\ p \in Packets /\ owner[p] = None /\ p \notin sent
        /\ \A u \in Threads : packet[u] # p
    BY DEF Places
  <2> QED
    BY <1>1, <1>2, <1>3, <2>1, <2>2 DEF Opens, OpenPacket, Goto
<1>4. CASE mPool = {}
  <2>1. PICK p \in Packets \ (Live \cup {packet[u] : u \in Threads}) :
          /\ packet' = [packet EXCEPT ![t] = p]
          /\ owner' = [owner EXCEPT ![p] = LPacketChunk[t]]
          /\ from' = [from EXCEPT ![p] = mUsedSize[LPacketChunk[t]]]
          /\ mAllocSize' = [mAllocSize EXCEPT ![p] = size[t]]
          /\ mPool' = mPool \ {p}
    BY <1>4 DEF OpenPacket
  <2>2. /\ p \in Packets /\ owner[p] = None /\ p \notin sent
        /\ \A u \in Threads : packet[u] # p
    BY <2>1 DEF Places, Live
  <2> QED
    BY <1>1, <1>2, <1>4, <2>1, <2>2 DEF Opens, OpenPacket, Goto
<1> QED
  BY <1>3, <1>4

\* A thread that writes has a packet, in its own chunk.
LEMMA Writer ==
  ASSUME TypeOK, Hands, Writing
  PROVE  \A t \in Threads : pc[t] = "write" =>
           /\ packet[t] \in Packets /\ packet[t] # None
           /\ LPacketChunk[t] \in chunks /\ LPacketChunk[t] # None
           /\ owner[packet[t]] = LPacketChunk[t]
BY NoneAssumption DEF TypeOK, Hands, Writing

\* A chunk's used size stays within the chunk because a packet is opened only where
\* it fits.
LEMMA TypeStep ==
  TypeOK /\ Hands /\ Writing /\ Opened /\ Places /\ [Next]_vars
    => TypeOK'
<1> SUFFICES ASSUME TypeOK, Hands, Writing, Opened, Places, [Next]_vars
             PROVE  TypeOK'
  OBVIOUS
<1> USE NoneAssumption, SizeAssumption
    DEF TypeOK, At, Goto, chunkVars, packetVars, pool
<1>1. ASSUME NEW t \in Threads, MakePacketBuffer(t) PROVE TypeOK'
  BY <1>1 DEF MakePacketBuffer
<1>2. ASSUME NEW t \in Threads, Pop(t) PROVE TypeOK'
  <2>1. CASE chunks' = chunks
    BY <1>2, <2>1 DEF Pop
  <2>2. CASE chunks' # chunks
    <3>1. PICK c \in Chunks \ chunks :
            /\ chunks' = chunks \cup {c} /\ popped' = [popped EXCEPT ![t] = c]
            /\ mIsOpen' = [mIsOpen EXCEPT ![c] = FALSE]
            /\ mUsedSize' = [mUsedSize EXCEPT ![c] = 0]
            /\ mPacketChunks' = mPacketChunks
      BY <1>2, <2>2 DEF Pop
    <3>2. /\ LPacketChunk \in [Threads -> chunks' \cup {None}]
          /\ popped' \in [Threads -> chunks' \cup {None}]
          /\ pushing \in [Threads -> chunks' \cup {None}]
          /\ owner \in [Packets -> chunks' \cup {None}]
      BY <3>1
    <3>3. /\ mPacketChunks' \subseteq chunks' /\ chunks' \subseteq Chunks
          /\ mIsOpen' \in [Chunks -> BOOLEAN] /\ mUsedSize' \in [Chunks -> 0..CHUNK]
      BY <3>1
    <3>4. /\ pc' = [pc EXCEPT ![t] = "assign"]
          /\ UNCHANGED <<LPacketChunk, pushing, size, packet, packetVars, sent, pool, failed>>
      BY <1>2 DEF Pop
    <3> QED
      BY <3>2, <3>3, <3>4
  <2> QED
    BY <2>1, <2>2
<1>3. ASSUME NEW t \in Threads, Assign(t) PROVE TypeOK'
  <2>1. popped[t] \in chunks
    BY <1>3 DEF Assign, Hands
  <2>2. CASE LPacketChunk[t] = None
    BY <1>3, <2>1, <2>2 DEF Assign, Reset
  <2>3. CASE LPacketChunk[t] # None
    BY <1>3, <2>1, <2>3 DEF Assign, Reset
  <2> QED
    BY <2>2, <2>3
<1>4. ASSUME NEW t \in Threads, OpenPacket(t) PROVE TypeOK'
  <2>1. PICK p \in Packets : Opens(t, p)
    BY <1>4, OpenPacketOpens
  <2> QED
    BY <2>1, <1>4 DEF Opens, Hands
<1>5. ASSUME NEW t \in Threads, OpenRefused(t) PROVE TypeOK'
  BY <1>5 DEF OpenRefused, Opening, NeedsChunk, FreeSize
<1>6. ASSUME NEW t \in Threads, ClosePacket(t) PROVE TypeOK'
  <2>1. /\ owner[packet[t]] = LPacketChunk[t] /\ LPacketChunk[t] \in chunks
        /\ packet[t] \in Packets
    BY <1>6, Writer DEF ClosePacket
  <2>2. size[t] \in Nat /\ mUsedSize[LPacketChunk[t]] + size[t] <= CHUNK
    BY <1>6 DEF ClosePacket, Writing, Hands
  <2>3. mUsedSize[LPacketChunk[t]] + size[t] \in 0 .. CHUNK
    BY <2>1, <2>2
  <2> QED
    BY <1>6, <2>1, <2>3 DEF ClosePacket
<1>7. ASSUME NEW t \in Threads, SerializeFails(t) PROVE TypeOK'
  BY <1>7 DEF SerializeFails
<1>8. ASSUME NEW t \in Threads, Drop(t) PROVE TypeOK'
  BY <1>8 DEF Drop
<1>9. ASSUME NEW t \in Threads, DestroyPacket(t) PROVE TypeOK'
  <2>1. packet[t] \in Packets /\ owner[packet[t]] \in chunks
    BY <1>9 DEF DestroyPacket, Hands
  <2> QED
    BY <1>9, <2>1 DEF DestroyPacket
<1>10. ASSUME NEW t \in Threads, PushGlobal(t) PROVE TypeOK'
  BY <1>10 DEF PushGlobal
<1>11. ASSUME NEW t \in Threads, ReleasePacket(t) PROVE TypeOK'
  <2>1. packet[t] \in Packets
    BY <1>11 DEF ReleasePacket, Hands
  <2> QED
    BY <1>11, <2>1 DEF ReleasePacket
<1>12. CASE UNCHANGED vars
  BY <1>12 DEF vars
<1> QED
  BY <1>1, <1>2, <1>3, <1>4, <1>5, <1>6, <1>7, <1>8, <1>9, <1>10, <1>11, <1>12 DEF Next, Step

\* A packet in a thread's hands is destroyed by that thread only.
LEMMA HandsStep ==
  TypeOK /\ Hands /\ Opened /\ Places /\ [Next]_vars
    => Hands'
<1> SUFFICES ASSUME TypeOK, Hands, Opened, Places, [Next]_vars
             PROVE  Hands'
  OBVIOUS
<1> USE NoneAssumption, SizeAssumption
    DEF TypeOK, Hands, At, Goto, chunkVars, packetVars, pool
<1>1. ASSUME NEW t \in Threads, MakePacketBuffer(t) PROVE Hands'
  BY <1>1 DEF MakePacketBuffer
<1>2. ASSUME NEW t \in Threads, Pop(t) PROVE Hands'
  BY <1>2 DEF Pop, NeedsChunk
<1>3. ASSUME NEW t \in Threads, Assign(t) PROVE Hands'
  BY <1>3 DEF Assign, Unshared, Reset
<1>4. ASSUME NEW t \in Threads, OpenPacket(t) PROVE Hands'
  <2>1. PICK p \in Packets : Opens(t, p)
    BY <1>4, OpenPacketOpens
  <2> QED
    BY <2>1 DEF Opens
<1>5. ASSUME NEW t \in Threads, OpenRefused(t) PROVE Hands'
  BY <1>5 DEF OpenRefused, Opening, NeedsChunk, FreeSize
<1>6. ASSUME NEW t \in Threads, ClosePacket(t) PROVE Hands'
  BY <1>6 DEF ClosePacket
<1>7. ASSUME NEW t \in Threads, SerializeFails(t) PROVE Hands'
  BY <1>7 DEF SerializeFails
<1>8. ASSUME NEW t \in Threads, Drop(t) PROVE Hands'
  <2>1. PICK p \in sent : packet' = [packet EXCEPT ![t] = p]
    BY <1>8 DEF Drop
  <2>2. p \in Packets /\ p # None /\ owner[p] # None
    BY <2>1 DEF Places
  <2> QED
    BY <1>8, <2>1, <2>2 DEF Drop, Hands
<1>9. ASSUME NEW t \in Threads, DestroyPacket(t) PROVE Hands'
  <2>1. packet[t] \in Packets /\ pc[t] = "drop"
    BY <1>9 DEF DestroyPacket, Hands
  <2>2. \A u \in Threads \ {t} : packet[u] # packet[t]
    BY <2>1 DEF Places
  <2> QED
    BY <1>9, <2>1, <2>2 DEF DestroyPacket, Hands
<1>10. ASSUME NEW t \in Threads, PushGlobal(t) PROVE Hands'
  BY <1>10 DEF PushGlobal
<1>11. ASSUME NEW t \in Threads, ReleasePacket(t) PROVE Hands'
  BY <1>11 DEF ReleasePacket
<1>12. CASE UNCHANGED vars
  BY <1>12 DEF vars
<1> QED
  BY <1>1, <1>2, <1>3, <1>4, <1>5, <1>6, <1>7, <1>8, <1>9, <1>10, <1>11, <1>12 DEF Next, Step

\* A chunk comes from the queue, where nobody refers to it, or is new.
LEMMA PoppedStep ==
  TypeOK /\ Hands /\ Opened /\ Places /\ PoppedAlone /\ FreeAlone /\ [Next]_vars
    => PoppedAlone'
<1> SUFFICES ASSUME TypeOK, Hands, Opened, Places, PoppedAlone, FreeAlone, [Next]_vars
             PROVE  PoppedAlone'
  OBVIOUS
<1> USE NoneAssumption, SizeAssumption
    DEF TypeOK, PoppedAlone, At, Goto, chunkVars, packetVars, pool
<1>1. ASSUME NEW t \in Threads, MakePacketBuffer(t) PROVE PoppedAlone'
  BY <1>1 DEF MakePacketBuffer
<1>2. ASSUME NEW t \in Threads, Pop(t) PROVE PoppedAlone'
  <2>1. CASE chunks' = chunks
    BY <1>2, <2>1 DEF Pop, FreeAlone
  <2>2. CASE chunks' # chunks
    <3>1. PICK c \in Chunks \ chunks :
            popped' = [popped EXCEPT ![t] = c] /\ mPacketChunks' = mPacketChunks
      BY <1>2, <2>2 DEF Pop
    <3>2. \A u \in Threads : LPacketChunk[u] # c /\ pushing[u] # c /\ popped[u] # c
      OBVIOUS
    <3> QED
      BY <1>2, <2>2, <3>1, <3>2 DEF Pop
  <2> QED
    BY <2>1, <2>2
<1>3. ASSUME NEW t \in Threads, Assign(t) PROVE PoppedAlone'
  BY <1>3 DEF Assign, Unshared, Reset
<1>4. ASSUME NEW t \in Threads, OpenPacket(t) PROVE PoppedAlone'
  <2>1. PICK p \in Packets : Opens(t, p)
    BY <1>4, OpenPacketOpens
  <2> QED
    BY <2>1 DEF Opens
<1>5. ASSUME NEW t \in Threads, OpenRefused(t) PROVE PoppedAlone'
  BY <1>5 DEF OpenRefused, Opening, NeedsChunk, FreeSize
<1>6. ASSUME NEW t \in Threads, ClosePacket(t) PROVE PoppedAlone'
  BY <1>6 DEF ClosePacket
<1>7. ASSUME NEW t \in Threads, SerializeFails(t) PROVE PoppedAlone'
  BY <1>7 DEF SerializeFails
<1>8. ASSUME NEW t \in Threads, Drop(t) PROVE PoppedAlone'
  BY <1>8 DEF Drop
<1>9. ASSUME NEW t \in Threads, DestroyPacket(t) PROVE PoppedAlone'
  BY <1>9 DEF DestroyPacket, Unshared
<1>10. ASSUME NEW t \in Threads, PushGlobal(t) PROVE PoppedAlone'
  BY <1>10 DEF PushGlobal
<1>11. ASSUME NEW t \in Threads, ReleasePacket(t) PROVE PoppedAlone'
  BY <1>11 DEF ReleasePacket
<1>12. CASE UNCHANGED vars
  BY <1>12 DEF vars
<1> QED
  BY <1>1, <1>2, <1>3, <1>4, <1>5, <1>6, <1>7, <1>8, <1>9, <1>10, <1>11, <1>12 DEF Next, Step

\* Only a popped chunk is assigned.
LEMMA OwnStep ==
  TypeOK /\ Hands /\ PoppedAlone /\ OwnChunk /\ [Next]_vars
    => OwnChunk'
<1> SUFFICES ASSUME TypeOK, Hands, PoppedAlone, OwnChunk, [Next]_vars
             PROVE  OwnChunk'
  OBVIOUS
<1> USE NoneAssumption, SizeAssumption
    DEF TypeOK, Hands, PoppedAlone, OwnChunk, At, Goto, chunkVars, packetVars, pool
<1>1. ASSUME NEW t \in Threads, MakePacketBuffer(t) PROVE OwnChunk'
  BY <1>1 DEF MakePacketBuffer
<1>2. ASSUME NEW t \in Threads, Pop(t) PROVE OwnChunk'
  BY <1>2 DEF Pop, NeedsChunk
<1>3. ASSUME NEW t \in Threads, Assign(t) PROVE OwnChunk'
  BY <1>3 DEF Assign, Unshared, Reset
<1>4. ASSUME NEW t \in Threads, OpenPacket(t) PROVE OwnChunk'
  BY <1>4 DEF OpenPacket, Opening, NeedsChunk, Live, FreeSize
<1>5. ASSUME NEW t \in Threads, OpenRefused(t) PROVE OwnChunk'
  BY <1>5 DEF OpenRefused, Opening, NeedsChunk, FreeSize
<1>6. ASSUME NEW t \in Threads, ClosePacket(t) PROVE OwnChunk'
  BY <1>6 DEF ClosePacket
<1>7. ASSUME NEW t \in Threads, SerializeFails(t) PROVE OwnChunk'
  BY <1>7 DEF SerializeFails
<1>8. ASSUME NEW t \in Threads, Drop(t) PROVE OwnChunk'
  BY <1>8 DEF Drop
<1>9. ASSUME NEW t \in Threads, DestroyPacket(t) PROVE OwnChunk'
  BY <1>9 DEF DestroyPacket, Unshared
<1>10. ASSUME NEW t \in Threads, PushGlobal(t) PROVE OwnChunk'
  BY <1>10 DEF PushGlobal
<1>11. ASSUME NEW t \in Threads, ReleasePacket(t) PROVE OwnChunk'
  BY <1>11 DEF ReleasePacket
<1>12. CASE UNCHANGED vars
  BY <1>12 DEF vars
<1> QED
  BY <1>1, <1>2, <1>3, <1>4, <1>5, <1>6, <1>7, <1>8, <1>9, <1>10, <1>11, <1>12 DEF Next, Step

\* The deleter runs for the last reference: nobody finds the chunk afterwards.
LEMMA FreeStep ==
  TypeOK /\ Hands /\ Opened /\ Places /\ PoppedAlone /\ OwnChunk /\ FreeAlone /\ [Next]_vars
    => FreeAlone'
<1> SUFFICES ASSUME TypeOK, Hands, Opened, Places, PoppedAlone, OwnChunk, FreeAlone, [Next]_vars
             PROVE  FreeAlone'
  OBVIOUS
<1> USE NoneAssumption, SizeAssumption
    DEF TypeOK, FreeAlone, At, Goto, chunkVars, packetVars, pool
<1>1. ASSUME NEW t \in Threads, MakePacketBuffer(t) PROVE FreeAlone'
  BY <1>1 DEF MakePacketBuffer
<1>2. ASSUME NEW t \in Threads, Pop(t) PROVE FreeAlone'
  BY <1>2 DEF Pop, NeedsChunk
<1>3. ASSUME NEW t \in Threads, Assign(t) PROVE FreeAlone'
  <2>1. popped[t] \in chunks /\ popped[t] # None
    BY <1>3 DEF Assign, Hands
  <2>2. CASE pushing'[t] = None
    BY <1>3, <2>1, <2>2 DEF Assign, PoppedAlone
  <2>3. CASE pushing'[t] # None
    <3>1. /\ pushing'[t] = LPacketChunk[t] /\ LPacketChunk[t] # None
          /\ Unshared(LPacketChunk[t], t, None)
      BY <1>3, <2>3 DEF Assign
    <3> QED
      BY <1>3, <2>1, <3>1 DEF Assign, PoppedAlone, Unshared
  <2> QED
    BY <2>2, <2>3
<1>4. ASSUME NEW t \in Threads, OpenPacket(t) PROVE FreeAlone'
  <2>1. PICK p \in Packets : Opens(t, p)
    BY <1>4, OpenPacketOpens
  <2> QED
    BY <2>1 DEF Opens
<1>5. ASSUME NEW t \in Threads, OpenRefused(t) PROVE FreeAlone'
  BY <1>5 DEF OpenRefused, Opening, NeedsChunk, FreeSize
<1>6. ASSUME NEW t \in Threads, ClosePacket(t) PROVE FreeAlone'
  BY <1>6 DEF ClosePacket
<1>7. ASSUME NEW t \in Threads, SerializeFails(t) PROVE FreeAlone'
  BY <1>7 DEF SerializeFails
<1>8. ASSUME NEW t \in Threads, Drop(t) PROVE FreeAlone'
  BY <1>8 DEF Drop
<1>9. ASSUME NEW t \in Threads, DestroyPacket(t) PROVE FreeAlone'
  <2>1. packet[t] \in Packets /\ owner[packet[t]] \in chunks
    BY <1>9 DEF DestroyPacket, Hands
  <2>2. CASE pushing'[t] = None
    BY <1>9, <2>1, <2>2 DEF DestroyPacket
  <2>3. CASE pushing'[t] # None
    <3>1. /\ pushing'[t] = owner[packet[t]] /\ LPacketChunk[t] # owner[packet[t]]
          /\ Unshared(owner[packet[t]], t, packet[t])
      BY <1>9, <2>3 DEF DestroyPacket
    <3> QED
      BY <1>9, <2>1, <3>1 DEF DestroyPacket, Unshared
  <2> QED
    BY <2>2, <2>3
<1>10. ASSUME NEW t \in Threads, PushGlobal(t) PROVE FreeAlone'
  BY <1>10 DEF PushGlobal
<1>11. ASSUME NEW t \in Threads, ReleasePacket(t) PROVE FreeAlone'
  BY <1>11 DEF ReleasePacket
<1>12. CASE UNCHANGED vars
  BY <1>12 DEF vars
<1> QED
  BY <1>1, <1>2, <1>3, <1>4, <1>5, <1>6, <1>7, <1>8, <1>9, <1>10, <1>11, <1>12 DEF Next, Step

\* Whoever lets go of a chunk last pushes it.
LEMMA LostStep ==
  TypeOK /\ Hands /\ Opened /\ Places /\ NoneLost /\ [Next]_vars
    => NoneLost'
<1> SUFFICES ASSUME TypeOK, Hands, Opened, Places, NoneLost, [Next]_vars
             PROVE  NoneLost'
  OBVIOUS
<1> USE NoneAssumption, SizeAssumption
    DEF TypeOK, Hands, NoneLost, Held, At, Goto, chunkVars, packetVars, pool
<1>1. ASSUME NEW t \in Threads, MakePacketBuffer(t) PROVE NoneLost'
  BY <1>1 DEF MakePacketBuffer
<1>2. ASSUME NEW t \in Threads, Pop(t) PROVE NoneLost'
  BY <1>2 DEF Pop, NeedsChunk
<1>3. ASSUME NEW t \in Threads, Assign(t) PROVE NoneLost'
  BY <1>3 DEF Assign, Unshared, Reset
<1>4. ASSUME NEW t \in Threads, OpenPacket(t) PROVE NoneLost'
  <2>1. PICK p \in Packets : Opens(t, p)
    BY <1>4, OpenPacketOpens
  <2>2. \A c \in chunks : Held(c) => Held(c)'
    BY <2>1 DEF Opens, Held
  <2> QED
    BY <2>1 DEF Opens, Held
<1>5. ASSUME NEW t \in Threads, OpenRefused(t) PROVE NoneLost'
  BY <1>5 DEF OpenRefused, Opening, NeedsChunk, FreeSize
<1>6. ASSUME NEW t \in Threads, ClosePacket(t) PROVE NoneLost'
  BY <1>6 DEF ClosePacket
<1>7. ASSUME NEW t \in Threads, SerializeFails(t) PROVE NoneLost'
  BY <1>7 DEF SerializeFails
<1>8. ASSUME NEW t \in Threads, Drop(t) PROVE NoneLost'
  BY <1>8 DEF Drop
<1>9. ASSUME NEW t \in Threads, DestroyPacket(t) PROVE NoneLost'
  BY <1>9 DEF DestroyPacket, Unshared
<1>10. ASSUME NEW t \in Threads, PushGlobal(t) PROVE NoneLost'
  BY <1>10 DEF PushGlobal
<1>11. ASSUME NEW t \in Threads, ReleasePacket(t) PROVE NoneLost'
  BY <1>11 DEF ReleasePacket
<1>12. CASE UNCHANGED vars
  BY <1>12 DEF vars
<1> QED
  BY <1>1, <1>2, <1>3, <1>4, <1>5, <1>6, <1>7, <1>8, <1>9, <1>10, <1>11, <1>12 DEF Next, Step

\* A packet is opened at the end of the used part, and its chunk takes no other until it
\* is closed or dropped.
LEMMA WritingStep ==
  TypeOK /\ Hands /\ Opened /\ Places /\ PoppedAlone /\ OwnChunk /\ Used /\ Writing /\ [Next]_vars
    => Writing'
<1> SUFFICES ASSUME TypeOK, Hands, Opened, Places, PoppedAlone, OwnChunk, Used, Writing, [Next]_vars
             PROVE  Writing'
  OBVIOUS
<1> USE NoneAssumption, SizeAssumption
    DEF TypeOK, Writing, At, Goto, chunkVars, packetVars, pool
<1>1. ASSUME NEW t \in Threads, MakePacketBuffer(t) PROVE Writing'
  BY <1>1 DEF MakePacketBuffer
<1>2. ASSUME NEW t \in Threads, Pop(t) PROVE Writing'
  <2>1. \A u \in Threads : pc[u] = "write" => LPacketChunk[u] \in chunks
    BY Writer
  <2>2. \A c \in chunks : mIsOpen'[c] = mIsOpen[c] /\ mUsedSize'[c] = mUsedSize[c]
    BY <1>2 DEF Pop
  <2>3. \A u \in Threads : pc[u] = "write" =>
          /\ mIsOpen'[LPacketChunk[u]] = mIsOpen[LPacketChunk[u]]
          /\ mUsedSize'[LPacketChunk[u]] = mUsedSize[LPacketChunk[u]]
    BY <2>1, <2>2
  <2> QED
    BY <1>2, <2>3 DEF Pop
<1>3. ASSUME NEW t \in Threads, Assign(t) PROVE Writing'
  <2>1. /\ popped[t] \in chunks /\ popped[t] # None
        /\ \A u \in Threads : LPacketChunk[u] # popped[t]
    BY <1>3 DEF Assign, Hands, PoppedAlone
  <2>2. \A u \in Threads \ {t} : pc[u] = "write" =>
          /\ mIsOpen'[LPacketChunk[u]] = mIsOpen[LPacketChunk[u]]
          /\ mUsedSize'[LPacketChunk[u]] = mUsedSize[LPacketChunk[u]]
    <3>1. /\ LPacketChunk' = [LPacketChunk EXCEPT ![t] = popped[t]]
          /\ mIsOpen' = [mIsOpen EXCEPT ![popped[t]] = FALSE]
          /\ mUsedSize' = [mUsedSize EXCEPT ![popped[t]] = 0]
      BY <1>3 DEF Assign, Reset
    <3>2. ASSUME NEW u \in Threads \ {t}, pc[u] = "write"
          PROVE  /\ mIsOpen'[LPacketChunk[u]] = mIsOpen[LPacketChunk[u]]
                 /\ mUsedSize'[LPacketChunk[u]] = mUsedSize[LPacketChunk[u]]
      <4>1. LPacketChunk[u] \in chunks /\ LPacketChunk[u] # popped[t]
        BY <2>1, <3>2, Writer
      <4> QED
        BY <3>1, <4>1 DEF TypeOK
    <3> QED
      BY <3>2
  <2> QED
    BY <1>3, <2>2 DEF Assign
<1>4. ASSUME NEW t \in Threads, OpenPacket(t) PROVE Writing'
  <2>1. PICK p \in Packets : Opens(t, p)
    BY <1>4, OpenPacketOpens
  <2>2. ASSUME NEW u \in Threads \ {t}, pc[u] = "write"
        PROVE  LPacketChunk[u] # LPacketChunk[t] /\ packet[u] # p /\ packet[u] \in Packets
    BY <2>1, <2>2, Writer DEF Opens, OwnChunk
  <2>3. size[t] \in Nat
    BY <1>4, <2>1 DEF Opens, Hands
  <2>4. \A q \in Packets \ {p} : owner[q] = LPacketChunk[t] =>
          from[q] + mAllocSize[q] <= mUsedSize[LPacketChunk[t]]
    BY <2>1 DEF Opens, Used
  <2> QED
    BY <2>1, <2>2, <2>3, <2>4 DEF Opens
<1>5. ASSUME NEW t \in Threads, OpenRefused(t) PROVE Writing'
  BY <1>5 DEF OpenRefused, Opening, NeedsChunk, FreeSize
<1>6. ASSUME NEW t \in Threads, ClosePacket(t) PROVE Writing'
  <2>1. \A u \in Threads \ {t} : pc[u] = "write" =>
          LPacketChunk[u] # LPacketChunk[t] /\ packet[u] # packet[t]
    <3>1. LPacketChunk[t] # None /\ packet[t] # None
      BY <1>6, Writer DEF ClosePacket
    <3> QED
      BY <3>1 DEF OwnChunk, Places
  <2> QED
    BY <1>6, <2>1, Writer DEF ClosePacket
<1>7. ASSUME NEW t \in Threads, SerializeFails(t) PROVE Writing'
  BY <1>7 DEF SerializeFails
<1>8. ASSUME NEW t \in Threads, Drop(t) PROVE Writing'
  BY <1>8 DEF Drop
<1>9. ASSUME NEW t \in Threads, DestroyPacket(t) PROVE Writing'
  <2>1. packet[t] \in Packets /\ packet[t] # None
    BY <1>9 DEF DestroyPacket, Hands
  <2>2. \A u \in Threads \ {t} : packet[u] # packet[t]
    BY <2>1 DEF Places
  <2>3. ASSUME NEW u \in Threads, pc'[u] = "write"
        PROVE  /\ pc[u] = "write" /\ u # t
               /\ packet[u] \in Packets /\ LPacketChunk[u] # None
    BY <1>9, <2>3, Writer DEF DestroyPacket
  <2> QED
    BY <1>9, <2>1, <2>2, <2>3 DEF DestroyPacket
<1>10. ASSUME NEW t \in Threads, PushGlobal(t) PROVE Writing'
  BY <1>10 DEF PushGlobal
<1>11. ASSUME NEW t \in Threads, ReleasePacket(t) PROVE Writing'
  BY <1>11 DEF ReleasePacket
<1>12. CASE UNCHANGED vars
  BY <1>12 DEF vars
<1> QED
  BY <1>1, <1>2, <1>3, <1>4, <1>5, <1>6, <1>7, <1>8, <1>9, <1>10, <1>11, <1>12 DEF Next, Step

\* A chunk is reset only by the thread that popped it.
LEMMA OpenedStep ==
  TypeOK /\ Hands /\ Places /\ PoppedAlone /\ OwnChunk /\ Writing /\ Opened /\ [Next]_vars
    => Opened'
<1> SUFFICES ASSUME TypeOK, Hands, Places, PoppedAlone, OwnChunk, Writing, Opened, [Next]_vars
             PROVE  Opened'
  OBVIOUS
<1> USE NoneAssumption, SizeAssumption
    DEF TypeOK, Opened, At, Goto, chunkVars, packetVars, pool
<1>1. ASSUME NEW t \in Threads, MakePacketBuffer(t) PROVE Opened'
  BY <1>1 DEF MakePacketBuffer
<1>2. ASSUME NEW t \in Threads, Pop(t) PROVE Opened'
  BY <1>2 DEF Pop, NeedsChunk
<1>3. ASSUME NEW t \in Threads, Assign(t) PROVE Opened'
  <2>1. /\ popped[t] \in chunks /\ popped[t] # None
        /\ \A u \in Threads : LPacketChunk[u] # popped[t]
    BY <1>3 DEF Assign, Hands, PoppedAlone
  <2> QED
    BY <1>3, <2>1 DEF Assign, Reset
<1>4. ASSUME NEW t \in Threads, OpenPacket(t) PROVE Opened'
  <2>1. PICK p \in Packets : Opens(t, p)
    BY <1>4, OpenPacketOpens
  <2> QED
    BY <2>1 DEF Opens, OwnChunk
<1>5. ASSUME NEW t \in Threads, OpenRefused(t) PROVE Opened'
  BY <1>5 DEF OpenRefused, Opening, NeedsChunk, FreeSize
<1>6. ASSUME NEW t \in Threads, ClosePacket(t) PROVE Opened'
  <2>1. /\ owner[packet[t]] = LPacketChunk[t] /\ LPacketChunk[t] # None
        /\ \A u \in Threads \ {t} : LPacketChunk[u] # LPacketChunk[t]
    BY <1>6, Writer DEF ClosePacket, OwnChunk
  <2> QED
    BY <1>6, <2>1 DEF ClosePacket
<1>7. ASSUME NEW t \in Threads, SerializeFails(t) PROVE Opened'
  BY <1>7 DEF SerializeFails
<1>8. ASSUME NEW t \in Threads, Drop(t) PROVE Opened'
  BY <1>8 DEF Drop
<1>9. ASSUME NEW t \in Threads, DestroyPacket(t) PROVE Opened'
  BY <1>9 DEF DestroyPacket, Unshared
<1>10. ASSUME NEW t \in Threads, PushGlobal(t) PROVE Opened'
  BY <1>10 DEF PushGlobal
<1>11. ASSUME NEW t \in Threads, ReleasePacket(t) PROVE Opened'
  BY <1>11 DEF ReleasePacket
<1>12. CASE UNCHANGED vars
  BY <1>12 DEF vars
<1> QED
  BY <1>1, <1>2, <1>3, <1>4, <1>5, <1>6, <1>7, <1>8, <1>9, <1>10, <1>11, <1>12 DEF Next, Step

\* Closing a packet adds to the used part what the packet was given.
LEMMA UsedStep ==
  TypeOK /\ Hands /\ Opened /\ Places /\ PoppedAlone /\ Writing /\ Used /\ [Next]_vars
    => Used'
<1> SUFFICES ASSUME TypeOK, Hands, Opened, Places, PoppedAlone, Writing, Used, [Next]_vars
             PROVE  Used'
  OBVIOUS
<1> USE NoneAssumption, SizeAssumption
    DEF TypeOK, Used, At, Goto, chunkVars, packetVars, pool
<1>1. ASSUME NEW t \in Threads, MakePacketBuffer(t) PROVE Used'
  BY <1>1 DEF MakePacketBuffer
<1>2. ASSUME NEW t \in Threads, Pop(t) PROVE Used'
  BY <1>2 DEF Pop, NeedsChunk
<1>3. ASSUME NEW t \in Threads, Assign(t) PROVE Used'
  <2>1. popped[t] \in chunks /\ \A p \in Packets : owner[p] # popped[t]
    BY <1>3 DEF Assign, Hands, PoppedAlone
  <2> QED
    BY <1>3, <2>1 DEF Assign, Reset
<1>4. ASSUME NEW t \in Threads, OpenPacket(t) PROVE Used'
  <2>1. PICK p \in Packets : Opens(t, p)
    BY <1>4, OpenPacketOpens
  <2>2. size[t] \in Nat
    BY <1>4, <2>1 DEF Opens, Hands
  <2>3. mUsedSize[LPacketChunk[t]] \in Nat /\ size[t] <= CHUNK - mUsedSize[LPacketChunk[t]]
    BY <2>1 DEF Opens
  <2>4. mUsedSize[LPacketChunk[t]] + size[t] <= CHUNK
    BY <2>2, <2>3
  <2> QED
    BY <2>1, <2>2, <2>3, <2>4 DEF Opens
<1>5. ASSUME NEW t \in Threads, OpenRefused(t) PROVE Used'
  BY <1>5 DEF OpenRefused, Opening, NeedsChunk, FreeSize
<1>6. ASSUME NEW t \in Threads, ClosePacket(t) PROVE Used'
  <2>1. /\ owner[packet[t]] = LPacketChunk[t] /\ LPacketChunk[t] \in chunks
        /\ packet[t] \in Packets
    BY <1>6, Writer DEF ClosePacket
  <2>2. /\ size[t] \in Nat
        /\ from[packet[t]] = mUsedSize[LPacketChunk[t]] /\ mAllocSize[packet[t]] = size[t]
        /\ \A q \in Packets \ {packet[t]} : owner[q] = LPacketChunk[t] =>
             from[q] + mAllocSize[q] <= mUsedSize[LPacketChunk[t]]
    BY <1>6 DEF ClosePacket, Hands, Writing
  <2>3. /\ mUsedSize'[LPacketChunk[t]] = mUsedSize[LPacketChunk[t]] + size[t]
        /\ \A c \in Chunks \ {LPacketChunk[t]} :
             mUsedSize'[c] = mUsedSize[c] /\ mIsOpen'[c] = mIsOpen[c]
        /\ UNCHANGED packetVars
    BY <1>6, <2>1 DEF ClosePacket
  <2>4. \A q \in Packets : owner[q] = LPacketChunk[t] =>
          from[q] + mAllocSize[q] <= mUsedSize'[LPacketChunk[t]]
    <3>1. mUsedSize[LPacketChunk[t]] \in Nat
      BY <2>1
    <3>2. from[packet[t]] + mAllocSize[packet[t]] <= mUsedSize'[LPacketChunk[t]]
      BY <2>2, <2>3, <3>1
    <3>3. ASSUME NEW q \in Packets \ {packet[t]}, owner[q] = LPacketChunk[t]
          PROVE  from[q] + mAllocSize[q] <= mUsedSize'[LPacketChunk[t]]
      <4>1. from[q] \in Nat /\ mAllocSize[q] \in Nat
        BY Numbers
      <4>2. from[q] + mAllocSize[q] <= mUsedSize[LPacketChunk[t]]
        BY <2>2, <3>3
      <4> QED
        BY <2>2, <2>3, <3>1, <4>1, <4>2
    <3> QED
      BY <3>2, <3>3
  <2> QED
    BY <2>3, <2>4
<1>7. ASSUME NEW t \in Threads, SerializeFails(t) PROVE Used'
  BY <1>7 DEF SerializeFails
<1>8. ASSUME NEW t \in Threads, Drop(t) PROVE Used'
  BY <1>8 DEF Drop
<1>9. ASSUME NEW t \in Threads, DestroyPacket(t) PROVE Used'
  BY <1>9 DEF DestroyPacket, Unshared
<1>10. ASSUME NEW t \in Threads, PushGlobal(t) PROVE Used'
  BY <1>10 DEF PushGlobal
<1>11. ASSUME NEW t \in Threads, ReleasePacket(t) PROVE Used'
  BY <1>11 DEF ReleasePacket
<1>12. CASE UNCHANGED vars
  BY <1>12 DEF vars
<1> QED
  BY <1>1, <1>2, <1>3, <1>4, <1>5, <1>6, <1>7, <1>8, <1>9, <1>10, <1>11, <1>12 DEF Next, Step

\* A new packet begins where the others of its chunk have ended.
LEMMA DisjointStep ==
  TypeOK /\ Hands /\ Opened /\ Places /\ Used /\ PacketsDisjoint /\ [Next]_vars
    => PacketsDisjoint'
<1> SUFFICES ASSUME TypeOK, Hands, Opened, Places, Used, PacketsDisjoint, [Next]_vars
             PROVE  PacketsDisjoint'
  OBVIOUS
<1> USE NoneAssumption, SizeAssumption
    DEF TypeOK, PacketsDisjoint, Live, At, Goto, chunkVars, packetVars, pool
<1>1. ASSUME NEW t \in Threads, MakePacketBuffer(t) PROVE PacketsDisjoint'
  BY <1>1 DEF MakePacketBuffer
<1>2. ASSUME NEW t \in Threads, Pop(t) PROVE PacketsDisjoint'
  BY <1>2 DEF Pop, NeedsChunk
<1>3. ASSUME NEW t \in Threads, Assign(t) PROVE PacketsDisjoint'
  BY <1>3 DEF Assign, Unshared, Reset
<1>4. ASSUME NEW t \in Threads, OpenPacket(t) PROVE PacketsDisjoint'
  <2>1. PICK p \in Packets : Opens(t, p)
    BY <1>4, OpenPacketOpens
  <2>2. size[t] \in Nat
    BY <1>4, <2>1 DEF Opens, Hands
  <2>3. mUsedSize[LPacketChunk[t]] \in Nat /\ size[t] <= CHUNK - mUsedSize[LPacketChunk[t]]
    BY <2>1 DEF Opens
  <2>4. mUsedSize[LPacketChunk[t]] + size[t] <= CHUNK
    BY <2>2, <2>3
  <2>5. \A q \in Packets : owner[q] = LPacketChunk[t] =>
          from[q] + mAllocSize[q] <= mUsedSize[LPacketChunk[t]]
    BY <2>1 DEF Opens, Used
  <2> QED
    BY <2>1, <2>2, <2>3, <2>4, <2>5 DEF Opens
<1>5. ASSUME NEW t \in Threads, OpenRefused(t) PROVE PacketsDisjoint'
  BY <1>5 DEF OpenRefused, Opening, NeedsChunk, FreeSize
<1>6. ASSUME NEW t \in Threads, ClosePacket(t) PROVE PacketsDisjoint'
  BY <1>6 DEF ClosePacket
<1>7. ASSUME NEW t \in Threads, SerializeFails(t) PROVE PacketsDisjoint'
  BY <1>7 DEF SerializeFails
<1>8. ASSUME NEW t \in Threads, Drop(t) PROVE PacketsDisjoint'
  BY <1>8 DEF Drop
<1>9. ASSUME NEW t \in Threads, DestroyPacket(t) PROVE PacketsDisjoint'
  BY <1>9 DEF DestroyPacket, Unshared
<1>10. ASSUME NEW t \in Threads, PushGlobal(t) PROVE PacketsDisjoint'
  BY <1>10 DEF PushGlobal
<1>11. ASSUME NEW t \in Threads, ReleasePacket(t) PROVE PacketsDisjoint'
  BY <1>11 DEF ReleasePacket
<1>12. CASE UNCHANGED vars
  BY <1>12 DEF vars
<1> QED
  BY <1>1, <1>2, <1>3, <1>4, <1>5, <1>6, <1>7, <1>8, <1>9, <1>10, <1>11, <1>12 DEF Next, Step

\* A packet object passes from the pool to a hand, a queue, a hand and the pool.
LEMMA PlacesStep ==
  TypeOK /\ Hands /\ Opened /\ Places /\ [Next]_vars
    => Places'
<1> SUFFICES ASSUME TypeOK, Hands, Opened, Places, [Next]_vars
             PROVE  Places'
  OBVIOUS
<1> USE NoneAssumption, SizeAssumption
    DEF TypeOK, Hands, Places, At, Goto, chunkVars, packetVars, pool
<1>1. ASSUME NEW t \in Threads, MakePacketBuffer(t) PROVE Places'
  BY <1>1 DEF MakePacketBuffer
<1>2. ASSUME NEW t \in Threads, Pop(t) PROVE Places'
  BY <1>2 DEF Pop, NeedsChunk
<1>3. ASSUME NEW t \in Threads, Assign(t) PROVE Places'
  BY <1>3 DEF Assign, Unshared, Reset
<1>4. ASSUME NEW t \in Threads, OpenPacket(t) PROVE Places'
  <2>1. PICK p \in Packets : Opens(t, p)
    BY <1>4, OpenPacketOpens
  <2> QED
    BY <2>1 DEF Opens
<1>5. ASSUME NEW t \in Threads, OpenRefused(t) PROVE Places'
  BY <1>5 DEF OpenRefused, Opening, NeedsChunk, FreeSize
<1>6. ASSUME NEW t \in Threads, ClosePacket(t) PROVE Places'
  BY <1>6 DEF ClosePacket
<1>7. ASSUME NEW t \in Threads, SerializeFails(t) PROVE Places'
  BY <1>7 DEF SerializeFails
<1>8. ASSUME NEW t \in Threads, Drop(t) PROVE Places'
  BY <1>8 DEF Drop
<1>9. ASSUME NEW t \in Threads, DestroyPacket(t) PROVE Places'
  BY <1>9 DEF DestroyPacket, Unshared
<1>10. ASSUME NEW t \in Threads, PushGlobal(t) PROVE Places'
  BY <1>10 DEF PushGlobal
<1>11. ASSUME NEW t \in Threads, ReleasePacket(t) PROVE Places'
  BY <1>11 DEF ReleasePacket
<1>12. CASE UNCHANGED vars
  BY <1>12 DEF vars
<1> QED
  BY <1>1, <1>2, <1>3, <1>4, <1>5, <1>6, <1>7, <1>8, <1>9, <1>10, <1>11, <1>12 DEF Next, Step

\* A chunk that was just reset refuses only what does not fit a chunk; any other was
\* asked for its room before, so that only an open one refuses.
LEMMA RefusedStep ==
  TypeOK /\ Opened /\ Places /\ RefusedWithReason /\ [Next]_vars
    => RefusedWithReason'
<1> SUFFICES ASSUME TypeOK, Opened, Places, RefusedWithReason, [Next]_vars
             PROVE  RefusedWithReason'
  OBVIOUS
<1> USE NoneAssumption, SizeAssumption
    DEF TypeOK, RefusedWithReason, At, Goto, chunkVars, packetVars, pool
<1>1. ASSUME NEW t \in Threads, MakePacketBuffer(t) PROVE RefusedWithReason'
  BY <1>1 DEF MakePacketBuffer
<1>2. ASSUME NEW t \in Threads, Pop(t) PROVE RefusedWithReason'
  BY <1>2 DEF Pop, NeedsChunk
<1>3. ASSUME NEW t \in Threads, Assign(t) PROVE RefusedWithReason'
  BY <1>3 DEF Assign, Unshared, Reset
<1>4. ASSUME NEW t \in Threads, OpenPacket(t) PROVE RefusedWithReason'
  <2>1. pc' = [pc EXCEPT ![t] = "write"] /\ UNCHANGED <<size, failed>>
    BY <1>4 DEF OpenPacket
  <2> QED
    BY <2>1
<1>5. ASSUME NEW t \in Threads, OpenRefused(t) PROVE RefusedWithReason'
  <2>1. pc' = [pc EXCEPT ![t] = "refused"] /\ UNCHANGED <<size, failed>>
    BY <1>5 DEF OpenRefused
  <2>2. CASE pc[t] = "chunk" /\ mIsOpen[LPacketChunk[t]] = FALSE
    <3>1. size[t] > CHUNK - mUsedSize[LPacketChunk[t]] /\ mUsedSize[LPacketChunk[t]] = 0
      BY <1>5, <2>2 DEF OpenRefused, FreeSize, Opened
    <3> QED
      BY <2>1, <3>1
  <2>3. CASE mIsOpen[LPacketChunk[t]] = TRUE
    <3>1. LPacketChunk[t] # None /\ pc[t] # "write"
      BY <1>5 DEF OpenRefused, Opening, NeedsChunk, Opened
    <3> QED
      BY <2>1, <2>3, <3>1 DEF Opened
  <2>4. CASE pc[t] # "chunk" /\ mIsOpen[LPacketChunk[t]] = FALSE
    BY <1>5, <2>4 DEF OpenRefused, Opening, NeedsChunk, FreeSize
  <2> QED
    <3>1. LPacketChunk[t] \in Chunks
      BY <1>5 DEF OpenRefused, Opening, NeedsChunk, Opened
    <3> QED
      BY <2>2, <2>3, <2>4, <3>1
<1>6. ASSUME NEW t \in Threads, ClosePacket(t) PROVE RefusedWithReason'
  BY <1>6 DEF ClosePacket
<1>7. ASSUME NEW t \in Threads, SerializeFails(t) PROVE RefusedWithReason'
  BY <1>7 DEF SerializeFails
<1>8. ASSUME NEW t \in Threads, Drop(t) PROVE RefusedWithReason'
  BY <1>8 DEF Drop
<1>9. ASSUME NEW t \in Threads, DestroyPacket(t) PROVE RefusedWithReason'
  BY <1>9 DEF DestroyPacket, Unshared
<1>10. ASSUME NEW t \in Threads, PushGlobal(t) PROVE RefusedWithReason'
  BY <1>10 DEF PushGlobal
<1>11. ASSUME NEW t \in Threads, ReleasePacket(t) PROVE RefusedWithReason'
  BY <1>11 DEF ReleasePacket
<1>12. CASE UNCHANGED vars
  BY <1>12 DEF vars
<1> QED
  BY <1>1, <1>2, <1>3, <1>4, <1>5, <1>6, <1>7, <1>8, <1>9, <1>10, <1>11, <1>12 DEF Next, Step

\* The objects in the pool, in a queue and in a hand are finitely many packets.
LEMMA ObjectsFinite ==
  ASSUME TypeOK
  PROVE  Objects \subseteq Packets /\ IsFiniteSet(Objects) /\ Cardinality(Objects) \in Nat
<1>1. Objects \subseteq Packets
  BY DEF TypeOK, Objects
<1> QED
  BY <1>1, PacketAssumption, FS_Subset, FS_CardinalityType

\* An object moves between the pool, the queues and the hands; only a new one is counted.
LEMMA CountedStep ==
  TypeOK /\ Hands /\ Opened /\ Places /\ Counted /\ [Next]_vars => Counted'
<1> SUFFICES ASSUME TypeOK, Hands, Opened, Places, Counted, [Next]_vars
             PROVE  Counted'
  OBVIOUS
<1> USE NoneAssumption DEF TypeOK, At, Goto, chunkVars, packetVars, pool
<1>1. ASSUME Objects' = Objects, mAllocCount' = mAllocCount PROVE Counted'
  BY <1>1 DEF Counted
<1>2. ASSUME UNCHANGED <<mPool, sent, packet, mAllocCount>> PROVE Counted'
  BY <1>1, <1>2 DEF Objects
<1>3. ASSUME NEW t \in Threads,
             \/ MakePacketBuffer(t) \/ Pop(t) \/ Assign(t) \/ OpenRefused(t)
             \/ SerializeFails(t) \/ DestroyPacket(t) \/ PushGlobal(t)
      PROVE  Counted'
  BY <1>2, <1>3 DEF MakePacketBuffer, Pop, Assign, OpenRefused, SerializeFails,
                    DestroyPacket, PushGlobal
<1>4. ASSUME NEW t \in Threads, OpenPacket(t) PROVE Counted'
  <2>1. PICK p \in Packets : Opens(t, p)
    BY <1>4, OpenPacketOpens
  <2>2. packet[t] = None
    BY <2>1 DEF Opens, Hands
  <2>3. /\ packet' = [packet EXCEPT ![t] = p] /\ mPool' = mPool \ {p} /\ sent' = sent
        /\ \/ p \in mPool /\ mAllocCount' = mAllocCount
           \/ mPool = {} /\ mAllocCount' = mAllocCount + 1
        /\ p # None /\ p \notin sent /\ \A u \in Threads : packet[u] # p
    BY <2>1 DEF Opens
  <2> DEFINE InHand == {packet[u] : u \in Threads} \ {None}
  <2>4. InHand' = InHand \cup {p} /\ p \notin InHand
    BY <2>2, <2>3
  <2>5. Objects = mPool \cup sent \cup InHand /\ Objects' = mPool' \cup sent' \cup InHand'
    BY DEF Objects
  <2> HIDE DEF InHand
  <2>7. CASE p \in mPool /\ mAllocCount' = mAllocCount
    BY <1>1, <2>3, <2>4, <2>5, <2>7
  <2>6. CASE mPool = {} /\ mAllocCount' = mAllocCount + 1
    <3>1. Objects' = Objects \cup {p} /\ p \notin Objects
      BY <2>3, <2>4, <2>5, <2>6
    <3>2. Cardinality(Objects') = Cardinality(Objects) + 1
      BY <3>1, ObjectsFinite, FS_AddElement
    <3> QED
      BY <2>6, <3>2 DEF Counted
  <2> QED
    BY <2>3, <2>6, <2>7
<1>5. ASSUME NEW t \in Threads, ClosePacket(t) \/ ReleasePacket(t) PROVE Counted'
  <2>1. packet[t] # None /\ packet' = [packet EXCEPT ![t] = None]
    BY <1>5 DEF ClosePacket, ReleasePacket, Hands
  <2>2. {packet'[u] : u \in Threads} \ {None} =
          ({packet[u] : u \in Threads} \ {None}) \ {packet[t]}
    BY <2>1 DEF Places
  <2> QED
    BY <1>1, <1>5, <2>1, <2>2 DEF ClosePacket, ReleasePacket, Objects
<1>6. ASSUME NEW t \in Threads, Drop(t) PROVE Counted'
  <2>1. PICK p \in sent : packet' = [packet EXCEPT ![t] = p] /\ sent' = sent \ {p}
    BY <1>6 DEF Drop
  <2>2. packet[t] = None /\ p # None
    BY <1>6, <2>1 DEF Drop, Hands
  <2>3. {packet'[u] : u \in Threads} \ {None} =
          ({packet[u] : u \in Threads} \ {None}) \cup {p}
    BY <2>1, <2>2
  <2> QED
    BY <1>1, <1>6, <2>1, <2>3, SMTT(30) DEF Drop, Objects
<1>7. CASE UNCHANGED vars
  BY <1>2, <1>7 DEF vars
<1> QED
  BY <1>3, <1>4, <1>5, <1>6, <1>7 DEF Next, Step

\* Nothing is allocated at first.
LEMMA InitIInv == Init => IInv
<1> SUFFICES ASSUME Init PROVE IInv
  OBVIOUS
<1> USE NoneAssumption, SizeAssumption DEF Init
<1>1. TypeOK /\ Hands /\ Places
  BY DEF TypeOK, Hands, Places
<1>2. PoppedAlone /\ OwnChunk /\ FreeAlone /\ NoneLost
  BY DEF PoppedAlone, OwnChunk, FreeAlone, NoneLost
<1>3. Writing /\ Opened /\ Used /\ PacketsDisjoint /\ RefusedWithReason
  BY DEF Writing, Opened, Used, PacketsDisjoint, Live, RefusedWithReason
<1>4. Objects = {}
  BY DEF Objects
<1>5. Counted
  BY <1>4, FS_EmptySet DEF Counted
<1> QED
  BY <1>1, <1>2, <1>3, <1>5 DEF IInv

-----------------------------------------------------------------------------
\* The inductive invariant holds in every reachable state.
THEOREM Invariance == Spec => []IInv
<1>1. IInv /\ [Next]_vars => IInv'
  BY TypeStep, HandsStep, PoppedStep, OwnStep, FreeStep, LostStep, WritingStep,
     OpenedStep, UsedStep, DisjointStep, PlacesStep, CountedStep, RefusedStep DEF IInv
<1> QED
  BY InitIInv, <1>1, PTL DEF Spec

\* Chunks, packets and the pool keep their types: no chunk is filled over its size.
THEOREM TypeCorrect == Spec => []TypeOK
<1>1. IInv => TypeOK
  BY DEF IInv
<1> QED
  BY Invariance, <1>1, PTL

\* No packet is written over the bytes of another one that still has to be sent, however
\* the threads fill, hand back and take over chunks.
THEOREM NoOverlap == Spec => []PacketsDisjoint
<1>1. IInv => PacketsDisjoint
  BY DEF IInv
<1> QED
  BY Invariance, <1>1, PTL

\* A chunk goes back to the queue once, when nobody refers to it any more, and none
\* is lost.
THEOREM OneChunkPlace == Spec => []ChunkInOnePlace
<1>1. IInv => ChunkInOnePlace
  <2> SUFFICES ASSUME IInv, NEW c \in chunks
               PROVE  /\ Held(c) \/ (\E t \in Threads : pushing[t] = c) \/ c \in mPacketChunks
                      /\ Held(c) => (\A t \in Threads : pushing[t] # c) /\ c \notin mPacketChunks
                      /\ (\E t \in Threads : pushing[t] = c) => c \notin mPacketChunks
                      /\ \A t, u \in Threads : pushing[t] = c /\ pushing[u] = c => t = u
                      /\ \A t, u \in Threads :
                           LPacketChunk[t] = c /\ (LPacketChunk[u] = c \/ popped[u] = c) => t = u
    BY DEF ChunkInOnePlace
  <2>1. c # None
    BY NoneAssumption DEF IInv, TypeOK
  <2>2. Held(c) \/ (\E t \in Threads : pushing[t] = c) \/ c \in mPacketChunks
    BY DEF IInv, NoneLost
  <2>3. Held(c) => (\A t \in Threads : pushing[t] # c) /\ c \notin mPacketChunks
    BY <2>1 DEF IInv, Held, PoppedAlone, FreeAlone
  <2>4. (\E t \in Threads : pushing[t] = c) => c \notin mPacketChunks
    BY <2>1 DEF IInv, FreeAlone
  <2>5. \A t, u \in Threads : pushing[t] = c /\ pushing[u] = c => t = u
    BY <2>1 DEF IInv, FreeAlone
  <2>6. \A t, u \in Threads :
          LPacketChunk[t] = c /\ (LPacketChunk[u] = c \/ popped[u] = c) => t = u
    BY <2>1 DEF IInv, OwnChunk, PoppedAlone
  <2> QED
    BY <2>2, <2>3, <2>4, <2>5, <2>6
<1> QED
  BY Invariance, <1>1, PTL

\* A packet object is not handed out twice and not lost, and the pool counts it once.
THEOREM OnePacketPlace == Spec => []PacketInOnePlace
<1>1. IInv => PacketInOnePlace
  <2> SUFFICES ASSUME IInv PROVE PacketInOnePlace
    OBVIOUS
  <2> DEFINE InHand == {packet[t] : t \in Threads} \ {None}
  <2>1. mPool \cap (sent \cup InHand) = {} /\ sent \cap InHand = {}
    BY DEF IInv, Places
  <2>2. \A t, u \in Threads : packet[t] # None /\ packet[t] = packet[u] => t = u
    BY DEF IInv, Places
  <2>3. sent \subseteq Live /\ Live \subseteq sent \cup InHand
    BY NoneAssumption DEF IInv, TypeOK, Places, Live
  <2>4. mAllocCount = Cardinality(mPool \cup sent \cup InHand)
    BY DEF IInv, Counted, Objects
  <2> QED
    BY <2>1, <2>2, <2>3, <2>4 DEF PacketInOnePlace
<1> QED
  BY Invariance, <1>1, PTL

\* A packet that fits a chunk is refused only to a thread whose serialization failed.
THEOREM RefusedForReason == Spec => []RefusedWithReason
<1>1. IInv => RefusedWithReason
  BY DEF IInv
<1> QED
  BY Invariance, <1>1, PTL
=============================================================================
