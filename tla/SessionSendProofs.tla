-------------------------- MODULE SessionSendProofs --------------------------
(***************************************************************************)
(* Proofs about SessionSend, for any threads, packets, capacity and limits.*)
(***************************************************************************)
EXTENDS SessionSend, SequenceTheorems, FiniteSetTheorems, TLAPS

\* SingleSender, by quantifiers over threads.
Pumps(t) == pc[t] \in PumpSteps

Single ==
  /\ \A t, u \in Threads : Pumps(t) /\ Pumps(u) => t = u
  /\ \A t \in Threads : Pumps(t) => rio = "none" /\ mSendRegistered = TRUE
  /\ rio # "none" => mSendRegistered = TRUE

\* The flag is never left set on a session that is up.
Owned ==
  mSendRegistered = TRUE /\ mIsConnected = TRUE
  => rio # "none" \/ \E t \in Threads : Pumps(t)

\* Where the bytes of the batch lie, from the dequeue to the completion.
Region ==
  /\ mReadPos <= Len(buffer)
  /\ \A t \in Threads : pc[t] = "fill" => offset = Len(buffer) /\ length = 0
  /\ \A t \in Threads : pc[t] \in {"subtract", "post"} =>
       /\ offset + length = Len(buffer)
       /\ SubSeq(buffer, offset + 1, offset + length) = swapList[t]
  /\ InFlightIntact

\* Where the context's dispatcher stands between the pump's steps.
Held ==
  /\ rio # "none" => mDispatcher = "self"
  /\ \A t \in Threads :
       /\ pc[t] \in {"fill", "subtract", "post"} => mDispatcher = "self"
       /\ pc[t] \in {"check", "limit", "kick", "empty", "release"} =>
            mDispatcher = "null"
  /\ mDispatcher = "self" =>
       \/ rio # "none"
       \/ \E t \in Threads : Pumps(t)
       \/ mIsConnected = FALSE /\ mSendRegistered = TRUE

Arguments == \A t \in Threads : pc[t] = "enqueue" => packet[t] \in Packets

IInv == TypeOK /\ Arguments /\ Single /\ Owned /\ Held /\ Region

-----------------------------------------------------------------------------
(* The order of the packets, and their number *)

\* A thread's packets are new when it sends them, and each is sent once.
Fresh ==
  /\ \A t, u \in Threads : \A i \in 1..Len(sent[t]), k \in 1..Len(sent[u]) :
       sent[t][i] = sent[u][k] => t = u /\ i = k
  /\ \A t, u \in Threads : packet[t] # None =>
       /\ packet[t] \notin Stream!Elements(sent[u])
       /\ packet[t] = packet[u] => t = u

\* How many of its packets have left a thread's queue; the others are in it.
Taken(t) == Len(sent[t]) - Len(mSendQueue[t])

Queues ==
  \A t \in Threads :
    /\ Len(mSendQueue[t]) <= Len(sent[t])
    /\ \A n \in 1..Len(mSendQueue[t]) : mSendQueue[t][n] = sent[t][Taken(t) + n]

\* The packets that have been transmitted or refused leave no gap.
Left == Stream!Elements(wire) \cup refused

NoGap ==
  /\ \A e \in Left : \E t \in Threads : \E i \in 1..Taken(t) : e = sent[t][i]
  /\ \A t \in Threads : \A i \in 1..Len(sent[t]) :
       sent[t][i] \in Left => \A j \in 1..i - 1 : sent[t][j] \in Left

\* The packets that are taken and have not left are those of batch, in turn.
TakenOut(batch) ==
  /\ Len(batch) <= BULK
  /\ Stream!InTurn(batch)
  /\ \A n \in 1..Len(batch) : \E t \in Threads : \E i \in 1..Taken(t) :
       batch[n] = sent[t][i]
  /\ \A t \in Threads : \A j \in 1..Taken(t) :
       sent[t][j] \in Left \cup Stream!Elements(batch)

\* The pump is with a thread that has a batch.
Batching(t) == pc[t] \in {"fill", "subtract", "post"}

Emptied == \A t \in Threads : ~ Batching(t) => swapList[t] = <<>>

\* The session has been closed in the hands of the pump: nothing is sent again.
Dead == rio = "none" /\ mSendRegistered = TRUE /\ \A t \in Threads : ~ Pumps(t)

\* The batch on its way: with a thread, with RIO, or none.
InTransit(batch) ==
  \/ \E t \in Threads : Batching(t) /\ batch = swapList[t]
  \/ rio = "posted" /\ batch = posted
  \/ /\ rio \in {"none", "sent"} /\ ~ Dead /\ \A t \in Threads : ~ Batching(t)
     /\ batch = <<>>

Transit == \A batch \in Seq(Packets) : InTransit(batch) => TakenOut(batch)

Order == Fresh /\ Queues /\ NoGap /\ Emptied /\ Transit /\ SendOrder

\* mPacketCount, by the thread that has a batch not subtracted yet, if any.
Uncounted == {t \in Threads : pc[t] = "count"}

Ahead == mPacketCount + Cardinality(Uncounted) - Cardinality(Places(mSendQueue))

Counted ==
  /\ IsFiniteSet(Places(mSendQueue))
  /\ mIsConnected = TRUE =>
       /\ \A t \in Threads : pc[t] \in {"fill", "subtract"} => Ahead = Len(swapList[t])
       /\ (\A t \in Threads : pc[t] \notin {"fill", "subtract"}) => Ahead = 0

-----------------------------------------------------------------------------
\* A part of a sequence of packets is one, of the length of its range.
LEMMA PacketSubSeq ==
  ASSUME NEW s \in Seq(Packets), NEW m \in Nat \ {0}, NEW n \in Nat, n <= Len(s)
  PROVE  /\ SubSeq(s, m, n) \in Seq(Packets)
         /\ Len(SubSeq(s, m, n)) = IF m <= n THEN n - m + 1 ELSE 0
<1>1. \A i \in m..n : s[i] \in Packets
  BY ElementOfSeq, LenProperties
<1> QED
  BY <1>1, SubSeqProperties

\* The end of a concatenation is its second part.
LEMMA EndOfConcat ==
  ASSUME NEW s \in Seq(Packets), NEW u \in Seq(Packets)
  PROVE  SubSeq(s \o u, Len(s) + 1, Len(s) + Len(u)) = u
<1>1. Len(s) \in Nat /\ Len(u) \in Nat
  BY LenProperties
<1>2. CASE u = <<>>
  BY <1>1, <1>2, EmptySeq, SubSeqEmpty
<1>3. CASE u # <<>>
  <2>1. Len(u) \in Nat \ {0}
    BY <1>3, EmptySeq
  <2>2. SubSeq(s \o u, Len(s) + 1, Len(s) + Len(u)) = SubSeq(u, 1, Len(u))
    BY <1>1, <2>1, SubSeqOfConcat2
  <2> QED
    BY <2>2, SubSeqFull
<1> QED
  BY <1>2, <1>3

\* An overflowing batch fills the buffer up.
LEMMA OverflowContext ==
  ASSUME ContextOK, QueuesOK, Region, NEW t \in Threads, CopyOverflows(t)
  PROVE  /\ buffer' \in Seq(Packets)
         /\ Len(buffer') = CAP
         /\ length' \in 0..CAP
<1> DEFINE room == CAP - Len(buffer)
           part == SubSeq(swapList[t], 1, room)
<1>1. /\ buffer' = buffer \o part
      /\ length' = length + room
      /\ length = 0
      /\ ~ (Len(swapList[t]) <= room)
  BY DEF CopyOverflows, DequeueEnds, Fits, Region
<1>2. /\ Len(buffer) \in Nat
      /\ Len(buffer) = CAP - room
      /\ room \in 0..CAP
  BY LenProperties, CapAssumption DEF ContextOK
<1>3. Len(swapList[t]) \in Nat
  BY LenProperties DEF QueuesOK
<1> HIDE DEF room
<1>4. part \in Seq(Packets) /\ Len(part) = room
  <2>1. room \in Nat /\ room <= Len(swapList[t])
    BY <1>1, <1>2, <1>3, CapAssumption
  <2>2. part \in Seq(Packets) /\ Len(part) = IF 1 <= room THEN room - 1 + 1 ELSE 0
    BY <2>1, PacketSubSeq DEF QueuesOK
  <2> QED
    BY <2>1, <2>2
<1> HIDE DEF part
<1>5. buffer' \in Seq(Packets) /\ Len(buffer') = Len(buffer) + room
  BY <1>1, <1>4, ConcatProperties DEF ContextOK
<1> QED
  BY <1>1, <1>2, <1>5, CapAssumption

\* OnRead and Clean leave a buffer within its capacity, read up to its end at
\* most.
LEMMA CleanContext ==
  ASSUME ContextOK, mReadPos <= Len(buffer), NEW n \in Nat, OnReadClean(n)
  PROVE  /\ buffer' \in Seq(Packets)
         /\ Len(buffer') <= CAP
         /\ mReadPos' \in 0..CAP
         /\ mReadPos' <= Len(buffer')
<1> DEFINE read == IF n > Len(buffer) - mReadPos THEN mReadPos ELSE mReadPos + n
           data == SubSeq(buffer, read + 1, Len(buffer))
<1>1. Len(buffer) \in Nat /\ read \in Nat /\ read <= Len(buffer)
  BY LenProperties DEF ContextOK
<1>2. \/ buffer' = data /\ mReadPos' = 0
      \/ buffer' = buffer /\ mReadPos' = read
  BY DEF OnReadClean
<1> HIDE DEF read
<1>3. data \in Seq(Packets) /\ Len(data) = Len(buffer) - read
  <2>1. read + 1 \in Nat \ {0}
    BY <1>1
  <2>2. /\ data \in Seq(Packets)
        /\ Len(data) = IF read + 1 <= Len(buffer)
                       THEN Len(buffer) - (read + 1) + 1 ELSE 0
    BY <1>1, <2>1, PacketSubSeq DEF ContextOK
  <2> QED
    BY <1>1, <2>2
<1> HIDE DEF data
<1>4. CASE buffer' = data /\ mReadPos' = 0
  BY <1>1, <1>3, <1>4, CapAssumption DEF ContextOK
<1>5. CASE buffer' = buffer /\ mReadPos' = read
  BY <1>1, <1>5, CapAssumption DEF ContextOK
<1> QED
  BY <1>2, <1>4, <1>5

\* Every step keeps the variables in their types.
LEMMA TypeStep == TypeOK /\ Arguments /\ Region /\ [Next]_vars => TypeOK'
<1> SUFFICES ASSUME TypeOK, Arguments, Region, [Next]_vars PROVE TypeOK'
  OBVIOUS
<1> USE CapAssumption DEF TypeOK
<1>1. ASSUME NEW t \in Threads, NEW p \in Packets, SendCheck(t, p)
     PROVE  TypeOK'
  <2>1. ControlOK'
    BY <1>1 DEF SendCheck, ControlOK, SendSteps, PumpSteps, Goto
  <2>2. AtomicsOK' /\ ContextOK' /\ QueuesOK'
    BY <1>1 DEF SendCheck, bufferVars, history, AtomicsOK, ContextOK, QueuesOK
  <2> QED
    BY <2>1, <2>2
<1>2. ASSUME NEW t \in Threads, SendEnqueue(t)
     PROVE  TypeOK'
  <2>1. QueuesOK'
    BY <1>2, AppendProperties DEF SendEnqueue, QueuesOK, Arguments
  <2>2. ControlOK'
    BY <1>2 DEF SendEnqueue, ControlOK, SendSteps, PumpSteps, Goto
  <2>3. AtomicsOK' /\ ContextOK'
    BY <1>2 DEF SendEnqueue, bufferVars, history, AtomicsOK, ContextOK
  <2> QED
    BY <2>1, <2>2, <2>3
<1>3. ASSUME NEW t \in Threads, SendCount(t)
     PROVE  TypeOK'
  <2>1. AtomicsOK'
    BY <1>3 DEF SendCount, AtomicsOK
  <2>2. ControlOK'
    BY <1>3 DEF SendCount, ControlOK, SendSteps, PumpSteps, Goto
  <2>3. ContextOK' /\ QueuesOK'
    BY <1>3 DEF SendCount, bufferVars, history, ContextOK, QueuesOK
  <2> QED
    BY <2>1, <2>2, <2>3
<1>4. ASSUME NEW t \in Threads, SendExchange(t)
     PROVE  TypeOK'
  <2>1. AtomicsOK'
    BY <1>4 DEF SendExchange, AtomicsOK
  <2>2. ControlOK'
    BY <1>4 DEF SendExchange, ControlOK, SendSteps, PumpSteps, Goto
  <2>3. ContextOK' /\ QueuesOK'
    BY <1>4 DEF SendExchange, bufferVars, history, ContextOK, QueuesOK
  <2> QED
    BY <2>1, <2>2, <2>3
<1>5. ASSUME NEW t \in Threads, RegisterClosed(t)
     PROVE  TypeOK'
  <2>1. ControlOK'
    BY <1>5 DEF RegisterClosed, ControlOK, SendSteps, PumpSteps, Goto
  <2>2. AtomicsOK' /\ ContextOK' /\ QueuesOK'
    BY <1>5 DEF RegisterClosed, bufferVars, history, AtomicsOK, ContextOK, QueuesOK
  <2> QED
    BY <2>1, <2>2
<1>6. ASSUME NEW t \in Threads, RegisterSend(t)
     PROVE  TypeOK'
  <2>1. ContextOK'
    BY <1>6 DEF WriteOffset, RegisterSend, ContextOK
  <2>2. ControlOK'
    BY <1>6 DEF WriteOffset, RegisterSend, ControlOK, SendSteps, PumpSteps, Goto
  <2>3. AtomicsOK' /\ QueuesOK'
    BY <1>6 DEF WriteOffset, RegisterSend, bufferVars, history, AtomicsOK, QueuesOK
  <2> QED
    BY <2>1, <2>2, <2>3
<1>7. ASSUME NEW t \in Threads, Dequeue(t)
     PROVE  TypeOK'
  <2>1. QueuesOK'
    <3>1. PICK u \in Threads :
             /\ mSendQueue[u] # <<>>
             /\ swapList' = [swapList EXCEPT ![t] = Append(@, Head(mSendQueue[u]))]
             /\ mSendQueue' = [mSendQueue EXCEPT ![u] = Tail(@)]
      BY <1>7 DEF Dequeue
    <3>2. Head(mSendQueue[u]) \in Packets /\ Tail(mSendQueue[u]) \in Seq(Packets)
      BY <3>1, HeadTailProperties DEF QueuesOK
    <3>3. Append(swapList[t], Head(mSendQueue[u])) \in Seq(Packets)
      BY <3>2, AppendProperties DEF QueuesOK
    <3> QED
      BY <1>7, <3>1, <3>2, <3>3 DEF Dequeue, QueuesOK, history
  <2>2. AtomicsOK' /\ ContextOK' /\ ControlOK'
    BY <1>7 DEF Dequeue, bufferVars, history, AtomicsOK, ContextOK, ControlOK
  <2> QED
    BY <2>1, <2>2
<1>8. ASSUME NEW t \in Threads, CopyPackets(t)
     PROVE  TypeOK'
  <2>1. ContextOK'
    <3>1. /\ buffer' \in Seq(Packets)
          /\ Len(buffer') = Len(buffer) + Len(swapList[t])
      BY <1>8, ConcatProperties DEF CopyPackets, ContextOK, QueuesOK
    <3>2. Len(swapList[t]) \in Nat /\ Len(swapList[t]) <= CAP - Len(buffer)
      BY <1>8, LenProperties DEF CopyPackets, Fits, QueuesOK
    <3>3. length = 0 /\ length' = Len(swapList[t])
      BY <1>8, <3>2 DEF CopyPackets, DequeueEnds, Region
    <3>4. Len(buffer) \in Nat
      BY LenProperties DEF ContextOK
    <3> QED
      BY <1>8, <3>1, <3>2, <3>3, <3>4 DEF CopyPackets, ContextOK
  <2>2. ControlOK'
    BY <1>8 DEF CopyPackets, DequeueEnds, Fits, ControlOK, SendSteps, PumpSteps, Goto
  <2>3. AtomicsOK' /\ QueuesOK'
    BY <1>8 DEF CopyPackets, bufferVars, history, AtomicsOK, QueuesOK
  <2> QED
    BY <2>1, <2>2, <2>3
<1>9. ASSUME NEW t \in Threads, CopyOverflows(t)
     PROVE  TypeOK'
  <2>1. AtomicsOK'
    BY <1>9 DEF CopyOverflows, DequeueEnds, Fits, AtomicsOK, Disconnect, Causes
  <2>2. ContextOK'
    <3>1. /\ buffer' \in Seq(Packets)
          /\ Len(buffer') = CAP
          /\ length' \in 0..CAP
      BY <1>9, OverflowContext
    <3>2. UNCHANGED <<mDispatcher, offset, mReadPos>>
      BY <1>9 DEF CopyOverflows
    <3> QED
      BY <3>1, <3>2 DEF ContextOK
  <2>3. QueuesOK'
    BY <1>9, EmptySeq DEF CopyOverflows, QueuesOK, history
  <2>4. ControlOK'
    BY <1>9 DEF CopyOverflows, DequeueEnds, Fits, ControlOK, Disconnect, Causes, SendSteps, PumpSteps, Goto
  <2> QED
    BY <2>1, <2>2, <2>3, <2>4
<1>10. ASSUME NEW t \in Threads, SubtractPackets(t)
     PROVE  TypeOK'
  <2>1. AtomicsOK'
    BY <1>10 DEF SubtractPackets, AtomicsOK
  <2>2. ControlOK'
    BY <1>10 DEF SubtractPackets, ControlOK, SendSteps, PumpSteps, Goto
  <2>3. ContextOK' /\ QueuesOK'
    BY <1>10 DEF SubtractPackets, bufferVars, history, ContextOK, QueuesOK
  <2> QED
    BY <2>1, <2>2, <2>3
<1>11. ASSUME NEW t \in Threads, PostSend(t)
     PROVE  TypeOK'
  <2>1. QueuesOK'
    BY <1>11 DEF PostSend, QueuesOK
  <2>2. ControlOK'
    BY <1>11 DEF PostSend, ControlOK, SendSteps, PumpSteps, Goto
  <2>3. AtomicsOK' /\ ContextOK'
    BY <1>11 DEF PostSend, bufferVars, history, AtomicsOK, ContextOK
  <2> QED
    BY <2>1, <2>2, <2>3
<1>12. ASSUME NEW t \in Threads, PostFails(t)
     PROVE  TypeOK'
  <2>1. ContextOK'
    BY <1>12 DEF PostFails, ContextOK, bufferVars
  <2>2. QueuesOK'
    BY <1>12, EmptySeq DEF PostFails, QueuesOK, history
  <2>3. ControlOK'
    BY <1>12 DEF PostFails, ControlOK, SendSteps, PumpSteps, Goto
  <2>4. AtomicsOK'
    BY <1>12 DEF PostFails, bufferVars, history, AtomicsOK
  <2> QED
    BY <2>1, <2>2, <2>3, <2>4
<1>13. ASSUME NEW t \in Threads, ProcessSend(t)
     PROVE  TypeOK'
  <2>1. ContextOK'
    <3>1. length \in Nat /\ mReadPos <= Len(buffer) /\ OnReadClean(length)
      BY <1>13 DEF ProcessSend, ContextOK, Region
    <3> QED
      BY <1>13, <3>1, CleanContext DEF ProcessSend, ContextOK
  <2>2. ControlOK'
    BY <1>13 DEF ProcessSend, OnReadClean, ControlOK, SendSteps, PumpSteps, Goto
  <2>3. AtomicsOK' /\ QueuesOK'
    BY <1>13 DEF ProcessSend, bufferVars, history, AtomicsOK, QueuesOK
  <2> QED
    BY <2>1, <2>2, <2>3
<1>14. ASSUME NEW t \in Threads, ProcessSendZero(t)
     PROVE  TypeOK'
  <2>1. AtomicsOK'
    BY <1>14 DEF ProcessSendZero, OnReadClean, AtomicsOK, Disconnect, Causes
  <2>2. ContextOK'
    <3>1. mReadPos <= Len(buffer) /\ OnReadClean(0)
      BY <1>14 DEF ProcessSendZero, Region
    <3> QED
      BY <1>14, <3>1, CleanContext DEF ProcessSendZero, ContextOK
  <2>3. ControlOK'
    BY <1>14 DEF ProcessSendZero, OnReadClean, ControlOK, Disconnect, Causes, SendSteps, PumpSteps, Goto
  <2>4. QueuesOK'
    BY <1>14 DEF ProcessSendZero, bufferVars, history, QueuesOK
  <2> QED
    BY <2>1, <2>2, <2>3, <2>4
<1>15. ASSUME NEW t \in Threads, CheckLimit(t)
     PROVE  TypeOK'
  <2>1. ControlOK'
    BY <1>15 DEF CheckLimit, ControlOK, SendSteps, PumpSteps, Goto
  <2>2. AtomicsOK' /\ ContextOK' /\ QueuesOK'
    BY <1>15 DEF CheckLimit, bufferVars, history, AtomicsOK, ContextOK, QueuesOK
  <2> QED
    BY <2>1, <2>2
<1>16. ASSUME NEW t \in Threads, KickSession(t)
     PROVE  TypeOK'
  <2>1. AtomicsOK'
    BY <1>16 DEF KickSession, AtomicsOK, Disconnect, Causes
  <2>2. ControlOK'
    BY <1>16 DEF KickSession, ControlOK, Disconnect, Causes, SendSteps, PumpSteps, Goto
  <2>3. ContextOK' /\ QueuesOK'
    BY <1>16 DEF KickSession, bufferVars, history, ContextOK, QueuesOK
  <2> QED
    BY <2>1, <2>2, <2>3
<1>17. ASSUME NEW t \in Threads, CheckEmpty(t)
     PROVE  TypeOK'
  <2>1. ControlOK'
    BY <1>17 DEF CheckEmpty, ControlOK, SendSteps, PumpSteps, Goto
  <2>2. AtomicsOK' /\ ContextOK' /\ QueuesOK'
    BY <1>17 DEF CheckEmpty, bufferVars, history, AtomicsOK, ContextOK, QueuesOK
  <2> QED
    BY <2>1, <2>2
<1>18. ASSUME NEW t \in Threads, Release(t)
     PROVE  TypeOK'
  <2>1. AtomicsOK'
    BY <1>18 DEF Release, AtomicsOK
  <2>2. ControlOK'
    BY <1>18 DEF Release, ControlOK, SendSteps, PumpSteps, Goto
  <2>3. ContextOK' /\ QueuesOK'
    BY <1>18 DEF Release, bufferVars, history, ContextOK, QueuesOK
  <2> QED
    BY <2>1, <2>2, <2>3
<1>19. ASSUME NEW t \in Threads, RecvEnds(t)
     PROVE  TypeOK'
  <2>1. AtomicsOK'
    BY <1>19 DEF RecvEnds, AtomicsOK, Disconnect, Causes
  <2>2. ControlOK'
    BY <1>19 DEF RecvEnds, ControlOK, Disconnect, Causes, SendSteps, PumpSteps, Goto
  <2>3. ContextOK' /\ QueuesOK'
    BY <1>19 DEF RecvEnds, bufferVars, history, ContextOK, QueuesOK
  <2> QED
    BY <2>1, <2>2, <2>3
<1>20. CASE RioSends
  <2>1. QueuesOK'
    <3>1. SubSeq(buffer, offset + 1, offset + length) \in Seq(Packets)
      BY <1>20 DEF RioSends, Region, InFlightIntact, QueuesOK
    <3> QED
      BY <1>20, <3>1, ConcatProperties DEF RioSends, QueuesOK
  <2>2. ControlOK'
    BY <1>20 DEF RioSends, ControlOK, SendSteps, PumpSteps, Goto
  <2>3. AtomicsOK' /\ ContextOK'
    BY <1>20 DEF RioSends, bufferVars, history, AtomicsOK, ContextOK
  <2> QED
    BY <2>1, <2>2, <2>3
<1>21. CASE RioBreaks
  <2>1. ControlOK'
    BY <1>21 DEF RioBreaks, ControlOK, SendSteps, PumpSteps, Goto
  <2>2. AtomicsOK' /\ ContextOK' /\ QueuesOK'
    BY <1>21 DEF RioBreaks, bufferVars, history, AtomicsOK, ContextOK, QueuesOK
  <2> QED
    BY <2>1, <2>2
<1>22. CASE PeerGoes
  <2>1. ControlOK'
    BY <1>22 DEF PeerGoes, ControlOK, SendSteps, PumpSteps, Goto
  <2>2. AtomicsOK' /\ ContextOK' /\ QueuesOK'
    BY <1>22 DEF PeerGoes, bufferVars, history, AtomicsOK, ContextOK, QueuesOK
  <2> QED
    BY <2>1, <2>2
<1>23. CASE UNCHANGED vars
  <2>1. AtomicsOK' /\ ContextOK' /\ QueuesOK' /\ ControlOK'
    BY <1>23 DEF vars, bufferVars, history, AtomicsOK, ContextOK, QueuesOK, ControlOK
  <2> QED
    BY <2>1
<1> QED
  BY <1>1, <1>2, <1>3, <1>4, <1>5, <1>6, <1>7, <1>8, <1>9, <1>10, <1>11, <1>12,
     <1>13, <1>14, <1>15, <1>16, <1>17, <1>18, <1>19, <1>20, <1>21, <1>22, <1>23
  DEF Next, SendStep, RegisterStep, ProcessStep

\* A Send that enqueues has a packet.
LEMMA ArgumentsStep == TypeOK /\ Arguments /\ [Next]_vars => Arguments'
<1> SUFFICES ASSUME TypeOK, Arguments, [Next]_vars PROVE Arguments'
  OBVIOUS
<1> USE DEF TypeOK, AtomicsOK, QueuesOK, ControlOK, Arguments, Goto, bufferVars, history
<1>1. ASSUME NEW t \in Threads, NEW p \in Packets, SendCheck(t, p)
     PROVE  Arguments'
  BY <1>1 DEF SendCheck
<1>2. ASSUME NEW t \in Threads, SendEnqueue(t)
     PROVE  Arguments'
  BY <1>2 DEF SendEnqueue
<1>3. ASSUME NEW t \in Threads, SendCount(t)
     PROVE  Arguments'
  BY <1>3 DEF SendCount
<1>4. ASSUME NEW t \in Threads, SendExchange(t)
     PROVE  Arguments'
  BY <1>4 DEF SendExchange
<1>5. ASSUME NEW t \in Threads, RegisterClosed(t)
     PROVE  Arguments'
  BY <1>5 DEF RegisterClosed
<1>6. ASSUME NEW t \in Threads, RegisterSend(t)
     PROVE  Arguments'
  BY <1>6 DEF RegisterSend, WriteOffset
<1>7. ASSUME NEW t \in Threads, Dequeue(t)
     PROVE  Arguments'
  BY <1>7 DEF Dequeue
<1>8. ASSUME NEW t \in Threads, CopyPackets(t)
     PROVE  Arguments'
  BY <1>8 DEF CopyPackets, DequeueEnds, Fits
<1>9. ASSUME NEW t \in Threads, CopyOverflows(t)
     PROVE  Arguments'
  BY <1>9 DEF CopyOverflows, DequeueEnds, Fits
<1>10. ASSUME NEW t \in Threads, SubtractPackets(t)
     PROVE  Arguments'
  BY <1>10 DEF SubtractPackets
<1>11. ASSUME NEW t \in Threads, PostSend(t)
     PROVE  Arguments'
  BY <1>11 DEF PostSend
<1>12. ASSUME NEW t \in Threads, PostFails(t)
     PROVE  Arguments'
  BY <1>12 DEF PostFails
<1>13. ASSUME NEW t \in Threads, ProcessSend(t)
     PROVE  Arguments'
  BY <1>13 DEF ProcessSend, OnReadClean
<1>14. ASSUME NEW t \in Threads, ProcessSendZero(t)
     PROVE  Arguments'
  BY <1>14 DEF ProcessSendZero, OnReadClean
<1>15. ASSUME NEW t \in Threads, CheckLimit(t)
     PROVE  Arguments'
  BY <1>15 DEF CheckLimit
<1>16. ASSUME NEW t \in Threads, KickSession(t)
     PROVE  Arguments'
  BY <1>16 DEF KickSession
<1>17. ASSUME NEW t \in Threads, CheckEmpty(t)
     PROVE  Arguments'
  BY <1>17 DEF CheckEmpty
<1>18. ASSUME NEW t \in Threads, Release(t)
     PROVE  Arguments'
  BY <1>18 DEF Release
<1>19. ASSUME NEW t \in Threads, RecvEnds(t)
     PROVE  Arguments'
  BY <1>19 DEF RecvEnds
<1>20. CASE RioSends
  BY <1>20 DEF RioSends
<1>21. CASE RioBreaks
  BY <1>21 DEF RioBreaks
<1>22. CASE PeerGoes
  BY <1>22 DEF PeerGoes
<1>23. CASE UNCHANGED vars
  BY <1>23 DEF vars
<1> QED
  BY <1>1, <1>2, <1>3, <1>4, <1>5, <1>6, <1>7, <1>8, <1>9, <1>10, <1>11, <1>12,
     <1>13, <1>14, <1>15, <1>16, <1>17, <1>18, <1>19, <1>20, <1>21, <1>22, <1>23
  DEF Next, SendStep, RegisterStep, ProcessStep

\* Every step leaves at most one thread with the context and the buffer.
LEMMA SingleStep == TypeOK /\ Single /\ [Next]_vars => Single'
<1> SUFFICES ASSUME TypeOK, Single, [Next]_vars PROVE Single'
  OBVIOUS
<1> USE DEF TypeOK, AtomicsOK, QueuesOK, ControlOK, Single, Pumps, PumpSteps, Goto, bufferVars, history
<1>1. ASSUME NEW t \in Threads, NEW p \in Packets, SendCheck(t, p)
     PROVE  Single'
  BY <1>1 DEF SendCheck
<1>2. ASSUME NEW t \in Threads, SendEnqueue(t)
     PROVE  Single'
  BY <1>2 DEF SendEnqueue
<1>3. ASSUME NEW t \in Threads, SendCount(t)
     PROVE  Single'
  BY <1>3 DEF SendCount
<1>4. ASSUME NEW t \in Threads, SendExchange(t)
     PROVE  Single'
  BY <1>4 DEF SendExchange
<1>5. ASSUME NEW t \in Threads, RegisterClosed(t)
     PROVE  Single'
  BY <1>5 DEF RegisterClosed
<1>6. ASSUME NEW t \in Threads, RegisterSend(t)
     PROVE  Single'
  BY <1>6 DEF RegisterSend, WriteOffset
<1>7. ASSUME NEW t \in Threads, Dequeue(t)
     PROVE  Single'
  BY <1>7 DEF Dequeue
<1>8. ASSUME NEW t \in Threads, CopyPackets(t)
     PROVE  Single'
  BY <1>8 DEF CopyPackets, DequeueEnds, Fits
<1>9. ASSUME NEW t \in Threads, CopyOverflows(t)
     PROVE  Single'
  BY <1>9 DEF CopyOverflows, DequeueEnds, Fits
<1>10. ASSUME NEW t \in Threads, SubtractPackets(t)
     PROVE  Single'
  BY <1>10 DEF SubtractPackets
<1>11. ASSUME NEW t \in Threads, PostSend(t)
     PROVE  Single'
  BY <1>11 DEF PostSend
<1>12. ASSUME NEW t \in Threads, PostFails(t)
     PROVE  Single'
  BY <1>12 DEF PostFails
<1>13. ASSUME NEW t \in Threads, ProcessSend(t)
     PROVE  Single'
  BY <1>13 DEF ProcessSend, OnReadClean
<1>14. ASSUME NEW t \in Threads, ProcessSendZero(t)
     PROVE  Single'
  BY <1>14 DEF ProcessSendZero, OnReadClean
<1>15. ASSUME NEW t \in Threads, CheckLimit(t)
     PROVE  Single'
  BY <1>15 DEF CheckLimit
<1>16. ASSUME NEW t \in Threads, KickSession(t)
     PROVE  Single'
  BY <1>16 DEF KickSession
<1>17. ASSUME NEW t \in Threads, CheckEmpty(t)
     PROVE  Single'
  BY <1>17 DEF CheckEmpty
<1>18. ASSUME NEW t \in Threads, Release(t)
     PROVE  Single'
  BY <1>18 DEF Release
<1>19. ASSUME NEW t \in Threads, RecvEnds(t)
     PROVE  Single'
  BY <1>19 DEF RecvEnds
<1>20. CASE RioSends
  BY <1>20 DEF RioSends
<1>21. CASE RioBreaks
  BY <1>21 DEF RioBreaks
<1>22. CASE PeerGoes
  BY <1>22 DEF PeerGoes
<1>23. CASE UNCHANGED vars
  BY <1>23 DEF vars
<1> QED
  BY <1>1, <1>2, <1>3, <1>4, <1>5, <1>6, <1>7, <1>8, <1>9, <1>10, <1>11, <1>12,
     <1>13, <1>14, <1>15, <1>16, <1>17, <1>18, <1>19, <1>20, <1>21, <1>22, <1>23
  DEF Next, SendStep, RegisterStep, ProcessStep

\* Every step that gives up the pump clears the flag or closes the session.
LEMMA OwnedStep == TypeOK /\ Single /\ Owned /\ [Next]_vars => Owned'
<1> SUFFICES ASSUME TypeOK, Single, Owned, [Next]_vars PROVE Owned'
  OBVIOUS
<1> USE DEF TypeOK, AtomicsOK, QueuesOK, ControlOK, Single, Owned, Pumps, PumpSteps, Goto, Disconnect, bufferVars, history
<1>1. ASSUME NEW t \in Threads, NEW p \in Packets, SendCheck(t, p)
     PROVE  Owned'
  BY <1>1 DEF SendCheck
<1>2. ASSUME NEW t \in Threads, SendEnqueue(t)
     PROVE  Owned'
  BY <1>2 DEF SendEnqueue
<1>3. ASSUME NEW t \in Threads, SendCount(t)
     PROVE  Owned'
  BY <1>3 DEF SendCount
<1>4. ASSUME NEW t \in Threads, SendExchange(t)
     PROVE  Owned'
  BY <1>4 DEF SendExchange
<1>5. ASSUME NEW t \in Threads, RegisterClosed(t)
     PROVE  Owned'
  BY <1>5 DEF RegisterClosed
<1>6. ASSUME NEW t \in Threads, RegisterSend(t)
     PROVE  Owned'
  BY <1>6 DEF RegisterSend, WriteOffset
<1>7. ASSUME NEW t \in Threads, Dequeue(t)
     PROVE  Owned'
  BY <1>7 DEF Dequeue
<1>8. ASSUME NEW t \in Threads, CopyPackets(t)
     PROVE  Owned'
  BY <1>8 DEF CopyPackets, DequeueEnds, Fits
<1>9. ASSUME NEW t \in Threads, CopyOverflows(t)
     PROVE  Owned'
  BY <1>9 DEF CopyOverflows, DequeueEnds, Fits
<1>10. ASSUME NEW t \in Threads, SubtractPackets(t)
     PROVE  Owned'
  BY <1>10 DEF SubtractPackets
<1>11. ASSUME NEW t \in Threads, PostSend(t)
     PROVE  Owned'
  BY <1>11 DEF PostSend
<1>12. ASSUME NEW t \in Threads, PostFails(t)
     PROVE  Owned'
  BY <1>12 DEF PostFails
<1>13. ASSUME NEW t \in Threads, ProcessSend(t)
     PROVE  Owned'
  BY <1>13 DEF ProcessSend, OnReadClean
<1>14. ASSUME NEW t \in Threads, ProcessSendZero(t)
     PROVE  Owned'
  BY <1>14 DEF ProcessSendZero, OnReadClean
<1>15. ASSUME NEW t \in Threads, CheckLimit(t)
     PROVE  Owned'
  BY <1>15 DEF CheckLimit
<1>16. ASSUME NEW t \in Threads, KickSession(t)
     PROVE  Owned'
  BY <1>16 DEF KickSession
<1>17. ASSUME NEW t \in Threads, CheckEmpty(t)
     PROVE  Owned'
  BY <1>17 DEF CheckEmpty
<1>18. ASSUME NEW t \in Threads, Release(t)
     PROVE  Owned'
  BY <1>18 DEF Release
<1>19. ASSUME NEW t \in Threads, RecvEnds(t)
     PROVE  Owned'
  BY <1>19 DEF RecvEnds
<1>20. CASE RioSends
  BY <1>20 DEF RioSends
<1>21. CASE RioBreaks
  BY <1>21 DEF RioBreaks
<1>22. CASE PeerGoes
  BY <1>22 DEF PeerGoes
<1>23. CASE UNCHANGED vars
  BY <1>23 DEF vars
<1> QED
  BY <1>1, <1>2, <1>3, <1>4, <1>5, <1>6, <1>7, <1>8, <1>9, <1>10, <1>11, <1>12,
     <1>13, <1>14, <1>15, <1>16, <1>17, <1>18, <1>19, <1>20, <1>21, <1>22, <1>23
  DEF Next, SendStep, RegisterStep, ProcessStep

\* A step that posts a request has set the dispatcher; one that gives up the
\* pump has cleared it, or has closed the session and leaves the flag set.
LEMMA HeldStep == TypeOK /\ Single /\ Held /\ [Next]_vars => Held'
<1> SUFFICES ASSUME TypeOK, Single, Held, [Next]_vars PROVE Held'
  OBVIOUS
<1> USE DEF TypeOK, AtomicsOK, QueuesOK, ControlOK, ContextOK, Single, Held, Pumps, PumpSteps, Goto, Disconnect, bufferVars, history
<1>1. ASSUME NEW t \in Threads, NEW p \in Packets, SendCheck(t, p)
     PROVE  Held'
  BY <1>1 DEF SendCheck
<1>2. ASSUME NEW t \in Threads, SendEnqueue(t)
     PROVE  Held'
  BY <1>2 DEF SendEnqueue
<1>3. ASSUME NEW t \in Threads, SendCount(t)
     PROVE  Held'
  BY <1>3 DEF SendCount
<1>4. ASSUME NEW t \in Threads, SendExchange(t)
     PROVE  Held'
  BY <1>4 DEF SendExchange
<1>5. ASSUME NEW t \in Threads, RegisterClosed(t)
     PROVE  Held'
  BY <1>5 DEF RegisterClosed
<1>6. ASSUME NEW t \in Threads, RegisterSend(t)
     PROVE  Held'
  BY <1>6 DEF RegisterSend, WriteOffset
<1>7. ASSUME NEW t \in Threads, Dequeue(t)
     PROVE  Held'
  BY <1>7 DEF Dequeue
<1>8. ASSUME NEW t \in Threads, CopyPackets(t)
     PROVE  Held'
  BY <1>8 DEF CopyPackets, DequeueEnds, Fits
<1>9. ASSUME NEW t \in Threads, CopyOverflows(t)
     PROVE  Held'
  BY <1>9 DEF CopyOverflows, DequeueEnds, Fits
<1>10. ASSUME NEW t \in Threads, SubtractPackets(t)
     PROVE  Held'
  BY <1>10 DEF SubtractPackets
<1>11. ASSUME NEW t \in Threads, PostSend(t)
     PROVE  Held'
  BY <1>11 DEF PostSend
<1>12. ASSUME NEW t \in Threads, PostFails(t)
     PROVE  Held'
  BY <1>12 DEF PostFails
<1>13. ASSUME NEW t \in Threads, ProcessSend(t)
     PROVE  Held'
  BY <1>13 DEF ProcessSend, OnReadClean
<1>14. ASSUME NEW t \in Threads, ProcessSendZero(t)
     PROVE  Held'
  BY <1>14 DEF ProcessSendZero, OnReadClean
<1>15. ASSUME NEW t \in Threads, CheckLimit(t)
     PROVE  Held'
  BY <1>15 DEF CheckLimit
<1>16. ASSUME NEW t \in Threads, KickSession(t)
     PROVE  Held'
  BY <1>16 DEF KickSession
<1>17. ASSUME NEW t \in Threads, CheckEmpty(t)
     PROVE  Held'
  BY <1>17 DEF CheckEmpty
<1>18. ASSUME NEW t \in Threads, Release(t)
     PROVE  Held'
  BY <1>18 DEF Release
<1>19. ASSUME NEW t \in Threads, RecvEnds(t)
     PROVE  Held'
  BY <1>19 DEF RecvEnds
<1>20. CASE RioSends
  BY <1>20 DEF RioSends
<1>21. CASE RioBreaks
  BY <1>21 DEF RioBreaks
<1>22. CASE PeerGoes
  BY <1>22 DEF PeerGoes
<1>23. CASE UNCHANGED vars
  BY <1>23 DEF vars
<1> QED
  BY <1>1, <1>2, <1>3, <1>4, <1>5, <1>6, <1>7, <1>8, <1>9, <1>10, <1>11, <1>12,
     <1>13, <1>14, <1>15, <1>16, <1>17, <1>18, <1>19, <1>20, <1>21, <1>22, <1>23
  DEF Next, SendStep, RegisterStep, ProcessStep

\* Every step keeps the batch where the context says it is.
LEMMA RegionStep == TypeOK /\ Single /\ Region /\ [Next]_vars => Region'
<1> SUFFICES ASSUME TypeOK, Single, Region, [Next]_vars PROVE Region'
  OBVIOUS
<1> USE DEF TypeOK, QueuesOK, ControlOK, Single, Pumps, PumpSteps, Region,
            InFlightIntact, Goto, bufferVars, history
<1>1. ASSUME NEW t \in Threads, NEW p \in Packets, SendCheck(t, p)
     PROVE  Region'
  BY <1>1 DEF SendCheck
<1>2. ASSUME NEW t \in Threads, SendEnqueue(t)
     PROVE  Region'
  BY <1>2 DEF SendEnqueue
<1>3. ASSUME NEW t \in Threads, SendCount(t)
     PROVE  Region'
  BY <1>3 DEF SendCount
<1>4. ASSUME NEW t \in Threads, SendExchange(t)
     PROVE  Region'
  BY <1>4 DEF SendExchange
<1>5. ASSUME NEW t \in Threads, RegisterClosed(t)
     PROVE  Region'
  BY <1>5 DEF RegisterClosed
<1>6. ASSUME NEW t \in Threads, RegisterSend(t)
     PROVE  Region'
  BY <1>6 DEF RegisterSend, WriteOffset
<1>7. ASSUME NEW t \in Threads, Dequeue(t)
     PROVE  Region'
  BY <1>7 DEF Dequeue
<1>8. ASSUME NEW t \in Threads, CopyPackets(t)
     PROVE  Region'
  <2>1. /\ pc[t] = "fill"
        /\ buffer' = buffer \o swapList[t]
        /\ length' = Len(swapList[t])
        /\ offset = Len(buffer)
        /\ UNCHANGED <<offset, mReadPos, swapList, rio>>
        /\ pc' = [pc EXCEPT ![t] = "subtract"]
    BY <1>8, LenProperties DEF CopyPackets, DequeueEnds
  <2>2. /\ Len(buffer) \in Nat
        /\ Len(swapList[t]) \in Nat
        /\ Len(buffer') = Len(buffer) + Len(swapList[t])
    BY <2>1, LenProperties, ConcatProperties DEF ContextOK
  <2>3. SubSeq(buffer', offset' + 1, offset' + length') = swapList[t]
    BY <2>1, EndOfConcat DEF ContextOK
  <2>4. rio = "none" /\ \A u \in Threads \ {t} : ~ Pumps(u)
    BY <2>1
  <2>5. \A u \in Threads \ {t} : pc'[u] \notin {"fill", "subtract", "post"}
    BY <2>1, <2>4
  <2>6. mReadPos' <= Len(buffer')
    BY <2>1, <2>2 DEF ContextOK
  <2>7. offset' + length' = Len(buffer')
    BY <2>1, <2>2
  <2> QED
    BY <2>1, <2>3, <2>4, <2>5, <2>6, <2>7
<1>9. ASSUME NEW t \in Threads, CopyOverflows(t)
     PROVE  Region'
  <2>1. /\ pc[t] = "fill"
        /\ UNCHANGED <<mReadPos, rio>>
        /\ pc' = [pc EXCEPT ![t] = "idle"]
    BY <1>9 DEF CopyOverflows, DequeueEnds
  <2>2. mReadPos' <= Len(buffer')
    BY <1>9, <2>1, OverflowContext, CapAssumption DEF ContextOK
  <2> QED
    BY <2>1, <2>2
<1>10. ASSUME NEW t \in Threads, SubtractPackets(t)
     PROVE  Region'
  BY <1>10 DEF SubtractPackets
<1>11. ASSUME NEW t \in Threads, PostSend(t)
     PROVE  Region'
  BY <1>11 DEF PostSend
<1>12. ASSUME NEW t \in Threads, PostFails(t)
     PROVE  Region'
  BY <1>12 DEF PostFails
<1>13. ASSUME NEW t \in Threads, ProcessSend(t)
     PROVE  Region'
  <2>1. length \in Nat /\ OnReadClean(length)
    BY <1>13 DEF ProcessSend, ContextOK
  <2>2. mReadPos' <= Len(buffer')
    BY <2>1, CleanContext
  <2>3. \A u \in Threads : ~ Pumps(u)
    BY <1>13 DEF ProcessSend
  <2>4. rio' = "none" /\ \A u \in Threads : pc'[u] \notin {"fill", "subtract", "post"}
    BY <1>13, <2>3 DEF ProcessSend
  <2> QED
    BY <2>2, <2>4
<1>14. ASSUME NEW t \in Threads, ProcessSendZero(t)
     PROVE  Region'
  <2>1. 0 \in Nat /\ OnReadClean(0)
    BY <1>14 DEF ProcessSendZero, ContextOK
  <2>2. mReadPos' <= Len(buffer')
    BY <2>1, CleanContext
  <2>3. \A u \in Threads : ~ Pumps(u)
    BY <1>14 DEF ProcessSendZero
  <2>4. rio' = "none" /\ \A u \in Threads : pc'[u] \notin {"fill", "subtract", "post"}
    BY <1>14, <2>3 DEF ProcessSendZero
  <2> QED
    BY <2>2, <2>4
<1>15. ASSUME NEW t \in Threads, CheckLimit(t)
     PROVE  Region'
  BY <1>15 DEF CheckLimit
<1>16. ASSUME NEW t \in Threads, KickSession(t)
     PROVE  Region'
  BY <1>16 DEF KickSession
<1>17. ASSUME NEW t \in Threads, CheckEmpty(t)
     PROVE  Region'
  BY <1>17 DEF CheckEmpty
<1>18. ASSUME NEW t \in Threads, Release(t)
     PROVE  Region'
  BY <1>18 DEF Release
<1>19. ASSUME NEW t \in Threads, RecvEnds(t)
     PROVE  Region'
  BY <1>19 DEF RecvEnds
<1>20. CASE RioSends
  BY <1>20 DEF RioSends
<1>21. CASE RioBreaks
  BY <1>21 DEF RioBreaks
<1>22. CASE PeerGoes
  BY <1>22 DEF PeerGoes
<1>23. CASE UNCHANGED vars
  BY <1>23 DEF vars
<1> QED
  BY <1>1, <1>2, <1>3, <1>4, <1>5, <1>6, <1>7, <1>8, <1>9, <1>10, <1>11, <1>12,
     <1>13, <1>14, <1>15, <1>16, <1>17, <1>18, <1>19, <1>20, <1>21, <1>22, <1>23
  DEF Next, SendStep, RegisterStep, ProcessStep

-----------------------------------------------------------------------------
\* A packet takes the place after the last one of its thread's queue.
LEMMA AppendPlaces ==
  ASSUME QueuesOK, NEW t \in Threads, NEW p \in Packets,
         mSendQueue' = [mSendQueue EXCEPT ![t] = Append(@, p)],
         IsFiniteSet(Places(mSendQueue))
  PROVE  /\ IsFiniteSet(Places(mSendQueue)')
         /\ Cardinality(Places(mSendQueue)') = Cardinality(Places(mSendQueue)) + 1
<1> DEFINE n == Len(mSendQueue[t]) + 1
<1>1. /\ Len(mSendQueue[t]) \in Nat /\ Len(mSendQueue'[t]) = n
      /\ \A u \in Threads \ {t} : mSendQueue'[u] = mSendQueue[u]
  BY LenProperties, AppendProperties DEF QueuesOK
<1>2. 1..n = (1..Len(mSendQueue[t])) \cup {n} /\ n \notin 1..Len(mSendQueue[t])
  BY <1>1
<1>3. Places(mSendQueue)' = Places(mSendQueue) \cup {<<t, n>>}
  <2> HIDE DEF n
  <2>1. ASSUME NEW x \in Places(mSendQueue)' PROVE x \in Places(mSendQueue) \cup {<<t, n>>}
    <3>1. PICK u \in Threads : \E i \in 1..Len(mSendQueue'[u]) : x = <<u, i>>
      BY DEF Places
    <3> QED
      BY <1>1, <1>2, <3>1 DEF Places
  <2>2. ASSUME NEW x \in Places(mSendQueue) \cup {<<t, n>>} PROVE x \in Places(mSendQueue)'
    <3>1. PICK u \in Threads : \E i \in 1..Len(mSendQueue'[u]) : x = <<u, i>>
      <4>1. CASE x = <<t, n>>
        BY <1>1, <1>2, <4>1
      <4>2. CASE x \in Places(mSendQueue)
        <5>1. PICK u \in Threads : \E i \in 1..Len(mSendQueue[u]) : x = <<u, i>>
          BY <4>2 DEF Places
        <5> QED
          BY <1>1, <1>2, <5>1
      <4> QED
        BY <4>1, <4>2
    <3> QED
      BY <3>1 DEF Places
  <2> QED
    BY <2>1, <2>2
<1>4. <<t, n>> \notin Places(mSendQueue)
  BY <1>2 DEF Places
<1> HIDE DEF n
<1>5. /\ IsFiniteSet(Places(mSendQueue) \cup {<<t, n>>})
      /\ Cardinality(Places(mSendQueue) \cup {<<t, n>>}) = Cardinality(Places(mSendQueue)) + 1
  BY <1>4, FS_AddElement
<1> QED
  BY <1>3, <1>5

\* The head of a queue leaves the last place free.
LEMMA TailPlaces ==
  ASSUME QueuesOK, NEW t \in Threads, mSendQueue[t] # <<>>,
         mSendQueue' = [mSendQueue EXCEPT ![t] = Tail(@)],
         IsFiniteSet(Places(mSendQueue))
  PROVE  /\ IsFiniteSet(Places(mSendQueue)')
         /\ Cardinality(Places(mSendQueue)') = Cardinality(Places(mSendQueue)) - 1
<1> DEFINE n == Len(mSendQueue[t])
<1>1. /\ n \in Nat \ {0} /\ Len(mSendQueue'[t]) = n - 1
      /\ \A u \in Threads \ {t} : mSendQueue'[u] = mSendQueue[u]
  BY EmptySeq, HeadTailProperties DEF QueuesOK
<1>2. 1..n - 1 = (1..n) \ {n} /\ n \in 1..n
  BY <1>1
<1>3. Places(mSendQueue)' = Places(mSendQueue) \ {<<t, n>>}
  <2>1. ASSUME NEW x \in Places(mSendQueue)' PROVE x \in Places(mSendQueue) \ {<<t, n>>}
    <3>1. PICK u \in Threads : \E i \in 1..Len(mSendQueue'[u]) : x = <<u, i>>
      BY DEF Places
    <3>2. PICK i \in 1..Len(mSendQueue'[u]) : x = <<u, i>>
      BY <3>1
    <3>3. i \in 1..Len(mSendQueue[u]) /\ ~ (u = t /\ i = n)
      BY <1>1, <1>2, <3>2
    <3> HIDE DEF n
    <3> QED
      BY <3>2, <3>3 DEF Places
  <2>2. ASSUME NEW x \in Places(mSendQueue) \ {<<t, n>>} PROVE x \in Places(mSendQueue)'
    <3>1. PICK u \in Threads : \E i \in 1..Len(mSendQueue[u]) : x = <<u, i>>
      BY DEF Places
    <3>2. PICK i \in 1..Len(mSendQueue[u]) : x = <<u, i>>
      BY <3>1
    <3>3. i \in 1..Len(mSendQueue'[u])
      BY <1>1, <1>2, <2>2, <3>2
    <3> QED
      BY <3>2, <3>3 DEF Places
  <2> QED
    BY <2>1, <2>2
<1>4. <<t, n>> \in Places(mSendQueue)
  BY <1>2 DEF Places
<1> QED
  BY <1>3, <1>4, FS_RemoveElement

\* The threads that have not counted are finitely many.
LEMMA UncountedFinite == IsFiniteSet(Uncounted) /\ Cardinality(Uncounted) \in Nat
BY ThreadsAssumption, FS_Subset, FS_CardinalityType DEF Uncounted

\* A step that neither enqueues nor counts nor takes a packet keeps the account.
LEMMA CountedKept ==
  ASSUME Counted, UNCHANGED <<mPacketCount, mSendQueue>>,
         mIsConnected' = TRUE => mIsConnected = TRUE,
         \A t \in Threads :
           /\ pc'[t] = "count" <=> pc[t] = "count"
           /\ pc'[t] \in {"fill", "subtract"} <=> pc[t] \in {"fill", "subtract"}
           /\ pc[t] \in {"fill", "subtract"} => swapList'[t] = swapList[t]
  PROVE  Counted'
<1>1. Uncounted' = Uncounted /\ Places(mSendQueue)' = Places(mSendQueue)
  BY DEF Uncounted, Places
<1>2. Ahead' = Ahead
  BY <1>1 DEF Ahead
<1> QED
  BY <1>1, <1>2 DEF Counted

\* Every step keeps mPacketCount in account with the queue and the batch.
LEMMA CountedStep ==
  TypeOK /\ Arguments /\ Single /\ Emptied /\ Counted /\ [Next]_vars => Counted'
<1> SUFFICES ASSUME TypeOK, Arguments, Single, Emptied, Counted, [Next]_vars
             PROVE  Counted'
  OBVIOUS
<1> DEFINE P == Cardinality(Places(mSendQueue))
           U == Cardinality(Uncounted)
<1>1. /\ IsFiniteSet(Places(mSendQueue)) /\ P \in Nat /\ U \in Nat
      /\ mPacketCount \in Int /\ Ahead = mPacketCount + U - P
  BY UncountedFinite, FS_CardinalityType DEF Counted, TypeOK, AtomicsOK, Ahead
<1>2. pc \in [Threads -> {"idle"} \cup SendSteps \cup PumpSteps]
  BY DEF TypeOK, ControlOK
<1>3. ASSUME NEW t \in Threads, NEW p \in Packets, SendCheck(t, p) PROVE Counted'
  BY <1>2, <1>3, CountedKept DEF SendCheck, Goto
<1>4. ASSUME NEW t \in Threads, SendEnqueue(t) PROVE Counted'
  <2>1. /\ pc[t] = "enqueue" /\ pc' = [pc EXCEPT ![t] = "count"]
        /\ mSendQueue' = [mSendQueue EXCEPT ![t] = Append(@, packet[t])]
        /\ UNCHANGED <<mPacketCount, mIsConnected, swapList>> /\ packet[t] \in Packets
    BY <1>4 DEF SendEnqueue, Goto, Arguments
  <2>2. IsFiniteSet(Places(mSendQueue)') /\ Cardinality(Places(mSendQueue)') = P + 1
    BY <1>1, <2>1, AppendPlaces DEF TypeOK
  <2>3. Uncounted' = Uncounted \cup {t} /\ t \notin Uncounted
    BY <1>2, <2>1 DEF Uncounted
  <2>4. Cardinality(Uncounted') = U + 1
    BY <2>3, UncountedFinite, FS_AddElement
  <2>5. Ahead' = mPacketCount + (U + 1) - (P + 1)
    BY <2>1, <2>2, <2>4 DEF Ahead
  <2>6. Ahead' = Ahead
    <3> HIDE DEF P, U
    <3> QED
      BY <1>1, <2>5
  <2>7. \A u \in Threads : pc'[u] \in {"fill", "subtract"} <=> pc[u] \in {"fill", "subtract"}
    BY <1>2, <2>1
  <2> QED
    BY <2>1, <2>2, <2>6, <2>7 DEF Counted
<1>5. ASSUME NEW t \in Threads, SendCount(t) PROVE Counted'
  <2>1. /\ pc[t] = "count" /\ pc' = [pc EXCEPT ![t] = "exchange"]
        /\ mPacketCount' = mPacketCount + 1
        /\ UNCHANGED <<mSendQueue, mIsConnected, swapList>>
    BY <1>5 DEF SendCount, Goto
  <2>2. Uncounted' = Uncounted \ {t} /\ t \in Uncounted
    BY <1>2, <2>1 DEF Uncounted
  <2>3. Cardinality(Uncounted') = U - 1
    BY <2>2, UncountedFinite, FS_RemoveElement
  <2>4. Places(mSendQueue)' = Places(mSendQueue)
    BY <2>1 DEF Places
  <2>5. Ahead' = (mPacketCount + 1) + (U - 1) - P
    BY <2>1, <2>3, <2>4 DEF Ahead
  <2>6. Ahead' = Ahead
    <3> HIDE DEF P, U
    <3> QED
      BY <1>1, <2>5
  <2>7. \A u \in Threads : pc'[u] \in {"fill", "subtract"} <=> pc[u] \in {"fill", "subtract"}
    BY <1>2, <2>1
  <2> QED
    BY <2>1, <2>4, <2>6, <2>7 DEF Counted
<1>6. ASSUME NEW t \in Threads, SendExchange(t) PROVE Counted'
  BY <1>2, <1>6, CountedKept DEF SendExchange, Goto
<1>7. ASSUME NEW t \in Threads, RegisterClosed(t) PROVE Counted'
  BY <1>2, <1>7, CountedKept DEF RegisterClosed, Goto
<1>8. ASSUME NEW t \in Threads, RegisterSend(t) PROVE Counted'
  <2>1. /\ pc[t] = "check" /\ pc' = [pc EXCEPT ![t] = "fill"]
        /\ UNCHANGED <<mPacketCount, mSendQueue, mIsConnected, swapList>>
    BY <1>8 DEF RegisterSend, Goto
  <2>2. Uncounted' = Uncounted /\ Places(mSendQueue)' = Places(mSendQueue)
    BY <1>2, <2>1 DEF Uncounted, Places
  <2>3. \A u \in Threads : pc[u] \notin {"fill", "subtract"}
    BY <2>1 DEF Single, Pumps, PumpSteps
  <2>4. \A u \in Threads : pc'[u] \in {"fill", "subtract"} => u = t
    BY <1>2, <2>1, <2>3
  <2>5. Len(swapList'[t]) = 0 /\ pc'[t] = "fill"
    BY <1>2, <2>1 DEF Emptied, Batching
  <2>6. Ahead' = Ahead
    BY <2>1, <2>2 DEF Ahead
  <2> QED
    BY <2>1, <2>2, <2>3, <2>4, <2>5, <2>6 DEF Counted
<1>9. ASSUME NEW t \in Threads, Dequeue(t) PROVE Counted'
  <2>1. PICK s \in Threads :
          /\ mSendQueue[s] # <<>>
          /\ swapList' = [swapList EXCEPT ![t] = Append(@, Head(mSendQueue[s]))]
          /\ mSendQueue' = [mSendQueue EXCEPT ![s] = Tail(@)]
    BY <1>9 DEF Dequeue
  <2>2. pc[t] = "fill" /\ UNCHANGED <<mPacketCount, mIsConnected, pc>>
    BY <1>9 DEF Dequeue
  <2>3. IsFiniteSet(Places(mSendQueue)') /\ Cardinality(Places(mSendQueue)') = P - 1
    BY <1>1, <2>1, TailPlaces DEF TypeOK
  <2>4. Len(swapList'[t]) = Len(swapList[t]) + 1 /\ Len(swapList[t]) \in Nat
    BY <2>1, HeadTailProperties, AppendProperties, LenProperties DEF TypeOK, QueuesOK
  <2>5. Ahead' = mPacketCount + U - (P - 1)
    BY <2>2, <2>3 DEF Ahead, Uncounted
  <2>6. Ahead' = Ahead + 1
    <3> HIDE DEF P, U
    <3> QED
      BY <1>1, <2>5
  <2>7. \A u \in Threads : pc[u] \in {"fill", "subtract"} => u = t
    BY <2>2 DEF Single, Pumps, PumpSteps
  <2> QED
    BY <2>2, <2>3, <2>4, <2>6, <2>7 DEF Counted
<1>10. ASSUME NEW t \in Threads, CopyPackets(t) PROVE Counted'
  BY <1>2, <1>10, CountedKept DEF CopyPackets, DequeueEnds, Goto
<1>11. ASSUME NEW t \in Threads, CopyOverflows(t) PROVE Counted'
  <2>1. mIsConnected' = FALSE /\ UNCHANGED mSendQueue
    BY <1>11 DEF CopyOverflows, Disconnect
  <2> QED
    BY <2>1, <1>1 DEF Counted, Places
<1>12. ASSUME NEW t \in Threads, SubtractPackets(t) PROVE Counted'
  <2>1. /\ pc[t] = "subtract" /\ pc' = [pc EXCEPT ![t] = "post"]
        /\ mPacketCount' = mPacketCount - Len(swapList[t])
        /\ UNCHANGED <<mSendQueue, mIsConnected, swapList>>
    BY <1>12 DEF SubtractPackets, Goto
  <2>2. Uncounted' = Uncounted /\ Places(mSendQueue)' = Places(mSendQueue)
    BY <1>2, <2>1 DEF Uncounted, Places
  <2>3. Ahead' = mPacketCount - Len(swapList[t]) + U - P
    BY <2>1, <2>2 DEF Ahead
  <2>4. Len(swapList[t]) \in Nat
    BY LenProperties DEF TypeOK, QueuesOK
  <2>5. Ahead' = Ahead - Len(swapList[t])
    <3> HIDE DEF P, U
    <3> QED
      BY <1>1, <2>3, <2>4
  <2>6. \A u \in Threads : pc'[u] \notin {"fill", "subtract"}
    BY <1>2, <2>1 DEF Single, Pumps, PumpSteps
  <2> QED
    BY <2>1, <2>2, <2>4, <2>5, <2>6 DEF Counted
<1>13. ASSUME NEW t \in Threads, PostSend(t) PROVE Counted'
  BY <1>2, <1>13, CountedKept DEF PostSend, Goto, TypeOK, QueuesOK
<1>14. ASSUME NEW t \in Threads, PostFails(t) PROVE Counted'
  BY <1>2, <1>14, CountedKept DEF PostFails, Goto, TypeOK, QueuesOK
<1>15. ASSUME NEW t \in Threads, ProcessSend(t) PROVE Counted'
  BY <1>2, <1>15, CountedKept DEF ProcessSend, Goto
<1>16. ASSUME NEW t \in Threads, ProcessSendZero(t) PROVE Counted'
  BY <1>2, <1>16, CountedKept DEF ProcessSendZero, Disconnect
<1>17. ASSUME NEW t \in Threads, CheckLimit(t) PROVE Counted'
  BY <1>2, <1>17, CountedKept DEF CheckLimit, Goto
<1>18. ASSUME NEW t \in Threads, KickSession(t) PROVE Counted'
  BY <1>2, <1>18, CountedKept DEF KickSession, Goto, Disconnect
<1>19. ASSUME NEW t \in Threads, CheckEmpty(t) PROVE Counted'
  BY <1>2, <1>19, CountedKept DEF CheckEmpty, Goto
<1>20. ASSUME NEW t \in Threads, Release(t) PROVE Counted'
  BY <1>2, <1>20, CountedKept DEF Release, Goto
<1>21. ASSUME NEW t \in Threads, RecvEnds(t) PROVE Counted'
  BY <1>21, CountedKept DEF RecvEnds, Disconnect
<1>22. CASE RioSends \/ RioBreaks \/ PeerGoes
  BY <1>22, CountedKept DEF RioSends, RioBreaks, PeerGoes
<1>23. CASE UNCHANGED vars
  BY <1>23, CountedKept DEF vars
<1> QED
  BY <1>3, <1>4, <1>5, <1>6, <1>7, <1>8, <1>9, <1>10, <1>11, <1>12, <1>13, <1>14,
     <1>15, <1>16, <1>17, <1>18, <1>19, <1>20, <1>21, <1>22, <1>23
  DEF Next, SendStep, RegisterStep, ProcessStep

-----------------------------------------------------------------------------
\* The elements of a concatenation.
LEMMA ConcatElements ==
  ASSUME NEW s \in Seq(Packets), NEW u \in Seq(Packets)
  PROVE  Stream!Elements(s \o u) = Stream!Elements(s) \cup Stream!Elements(u)
<1>1. /\ Len(s) \in Nat /\ Len(u) \in Nat /\ Len(s \o u) = Len(s) + Len(u)
      /\ \A i \in 1..Len(s) + Len(u) :
           (s \o u)[i] = IF i <= Len(s) THEN s[i] ELSE u[i - Len(s)]
  BY LenProperties, ConcatProperties
<1>2. ASSUME NEW i \in 1..Len(s) + Len(u)
      PROVE  (s \o u)[i] \in Stream!Elements(s) \cup Stream!Elements(u)
  <2>1. CASE i <= Len(s)
    BY <1>1, <2>1 DEF Stream!Elements
  <2>2. CASE i > Len(s)
    <3>1. i - Len(s) \in 1..Len(u) /\ (s \o u)[i] = u[i - Len(s)]
      BY <1>1, <2>2
    <3> QED
      BY <3>1 DEF Stream!Elements
  <2> QED
    BY <1>1, <2>1, <2>2
<1>3. ASSUME NEW i \in 1..Len(s) PROVE s[i] \in Stream!Elements(s \o u)
  <2>1. i \in 1..Len(s) + Len(u) /\ (s \o u)[i] = s[i]
    BY <1>1
  <2> QED
    BY <1>1, <2>1 DEF Stream!Elements
<1>4. ASSUME NEW i \in 1..Len(u) PROVE u[i] \in Stream!Elements(s \o u)
  <2>1. Len(s) + i \in 1..Len(s) + Len(u) /\ (s \o u)[Len(s) + i] = u[i]
    BY <1>1
  <2> QED
    BY <1>1, <2>1 DEF Stream!Elements
<1> QED
  BY <1>1, <1>2, <1>3, <1>4 DEF Stream!Elements

\* A queue holds the last packets of its thread.
LEMMA TakenFacts ==
  ASSUME QueuesOK, Queues, NEW t \in Threads
  PROVE  /\ Len(sent[t]) \in Nat /\ Len(mSendQueue[t]) \in Nat
         /\ Taken(t) \in 0..Len(sent[t]) /\ Taken(t) + Len(mSendQueue[t]) = Len(sent[t])
<1>1. Len(sent[t]) \in Nat /\ Len(mSendQueue[t]) \in Nat
  BY LenProperties DEF QueuesOK
<1>2. Len(mSendQueue[t]) <= Len(sent[t])
  BY DEF Queues
<1>3. Taken(t) = Len(sent[t]) - Len(mSendQueue[t])
  BY DEF Taken
<1>4. \A m, n \in Nat : n <= m => m - n \in 0..m /\ (m - n) + n = m
  OBVIOUS
<1> QED
  BY <1>1, <1>2, <1>3, <1>4

\* What a Send appends to the queue and to what its thread has sent.
LEMMA EnqueueFacts ==
  ASSUME QueuesOK, Queues, Arguments, NEW t \in Threads, SendEnqueue(t)
  PROVE  /\ packet[t] \in Packets
         /\ Len(sent'[t]) = Len(sent[t]) + 1 /\ sent'[t][Len(sent[t]) + 1] = packet[t]
         /\ Len(mSendQueue'[t]) = Len(mSendQueue[t]) + 1
         /\ mSendQueue'[t][Len(mSendQueue[t]) + 1] = packet[t]
         /\ \A i \in 1..Len(mSendQueue[t]) : mSendQueue'[t][i] = mSendQueue[t][i]
         /\ \A i \in 1..Len(sent[t]) : sent'[t][i] = sent[t][i]
         /\ \A u \in Threads \ {t} : sent'[u] = sent[u] /\ mSendQueue'[u] = mSendQueue[u]
         /\ \A u \in Threads : Taken(u)' = Taken(u)
<1>1. /\ packet[t] \in Packets
      /\ sent' = [sent EXCEPT ![t] = Append(@, packet[t])]
      /\ mSendQueue' = [mSendQueue EXCEPT ![t] = Append(@, packet[t])]
  BY DEF SendEnqueue, Arguments
<1>2. /\ Len(sent'[t]) = Len(sent[t]) + 1 /\ sent'[t][Len(sent[t]) + 1] = packet[t]
      /\ \A i \in 1..Len(sent[t]) : sent'[t][i] = sent[t][i]
  BY <1>1, AppendProperties DEF QueuesOK
<1>3. /\ Len(mSendQueue'[t]) = Len(mSendQueue[t]) + 1
      /\ mSendQueue'[t][Len(mSendQueue[t]) + 1] = packet[t]
      /\ \A i \in 1..Len(mSendQueue[t]) : mSendQueue'[t][i] = mSendQueue[t][i]
  BY <1>1, AppendProperties DEF QueuesOK
<1>4. \A u \in Threads \ {t} : sent'[u] = sent[u] /\ mSendQueue'[u] = mSendQueue[u]
  BY <1>1 DEF QueuesOK
<1>5. ASSUME NEW u \in Threads PROVE Taken(u)' = Taken(u)
  <2>1. CASE u = t
    <3>1. Len(sent[t]) \in Nat /\ Len(mSendQueue[t]) \in Nat
      BY TakenFacts
    <3>2. Taken(t)' = (Len(sent[t]) + 1) - (Len(mSendQueue[t]) + 1)
      BY <1>2, <1>3 DEF Taken
    <3>3. Taken(t) = Len(sent[t]) - Len(mSendQueue[t])
      BY DEF Taken
    <3> QED
      BY <2>1, <3>1, <3>2, <3>3
  <2>2. CASE u # t
    BY <1>4, <2>2 DEF Taken
  <2> QED
    BY <2>1, <2>2
<1> QED
  BY <1>1, <1>2, <1>3, <1>4, <1>5

\* The packet a batch is given is the next one of some thread.
LEMMA DequeueFacts ==
  ASSUME QueuesOK, Queues, NEW t \in Threads, Dequeue(t)
  PROVE  \E s \in Threads :
           /\ Taken(s) + 1 \in 1..Len(sent[s])
           /\ swapList'[t] = Append(swapList[t], sent[s][Taken(s) + 1])
           /\ sent[s][Taken(s) + 1] \in Packets
           /\ Len(mSendQueue'[s]) = Len(mSendQueue[s]) - 1
           /\ \A i \in 1..Len(mSendQueue'[s]) : mSendQueue'[s][i] = mSendQueue[s][i + 1]
           /\ \A u \in Threads \ {s} : mSendQueue'[u] = mSendQueue[u]
           /\ Taken(s)' = Taken(s) + 1
           /\ \A u \in Threads \ {s} : Taken(u)' = Taken(u)
<1>1. PICK s \in Threads :
        /\ mSendQueue[s] # <<>>
        /\ swapList' = [swapList EXCEPT ![t] = Append(@, Head(mSendQueue[s]))]
        /\ mSendQueue' = [mSendQueue EXCEPT ![s] = Tail(@)]
  BY DEF Dequeue
<1>2. /\ Len(mSendQueue[s]) \in Nat \ {0} /\ Head(mSendQueue[s]) = mSendQueue[s][1]
      /\ Head(mSendQueue[s]) \in Packets
      /\ Len(Tail(mSendQueue[s])) = Len(mSendQueue[s]) - 1
      /\ \A i \in 1..Len(Tail(mSendQueue[s])) : Tail(mSendQueue[s])[i] = mSendQueue[s][i + 1]
  BY <1>1, EmptySeq, HeadTailProperties DEF QueuesOK
<1>3. /\ mSendQueue'[s] = Tail(mSendQueue[s]) /\ sent' = sent
      /\ swapList'[t] = Append(swapList[t], mSendQueue[s][1])
      /\ \A u \in Threads \ {s} : mSendQueue'[u] = mSendQueue[u]
  BY <1>1, <1>2 DEF QueuesOK, Dequeue, history
<1>4. Taken(s) + 1 \in 1..Len(sent[s]) /\ mSendQueue[s][1] = sent[s][Taken(s) + 1]
  <2>1. Taken(s) \in 0..Len(sent[s]) /\ Taken(s) + Len(mSendQueue[s]) = Len(sent[s])
        /\ Len(sent[s]) \in Nat
    BY TakenFacts
  <2>2. 1 \in 1..Len(mSendQueue[s])
    BY <1>2
  <2> QED
    BY <1>2, <2>1, <2>2 DEF Queues
<1>5. Taken(s)' = Taken(s) + 1
  <2>1. Taken(s)' = Len(sent[s]) - (Len(mSendQueue[s]) - 1)
    BY <1>2, <1>3 DEF Taken
  <2>2. Len(sent[s]) \in Nat
    BY TakenFacts
  <2>3. Taken(s) = Len(sent[s]) - Len(mSendQueue[s])
    BY DEF Taken
  <2> QED
    BY <1>2, <2>1, <2>2, <2>3
<1>6. \A u \in Threads \ {s} : Taken(u)' = Taken(u)
  BY <1>3 DEF Taken
<1>7. /\ swapList'[t] = Append(swapList[t], sent[s][Taken(s) + 1])
      /\ sent[s][Taken(s) + 1] \in Packets
  BY <1>2, <1>3, <1>4
<1>8. /\ Len(mSendQueue'[s]) = Len(mSendQueue[s]) - 1
      /\ \A i \in 1..Len(mSendQueue'[s]) : mSendQueue'[s][i] = mSendQueue[s][i + 1]
  BY <1>2, <1>3
<1> QED
  <2> WITNESS s \in Threads
  <2> QED
    BY <1>3, <1>4, <1>5, <1>6, <1>7, <1>8

\* The steps that move packets; every other one leaves them where they are.
LEMMA MovingSteps ==
  [Next]_vars =>
    \/ \E t \in Threads, p \in Packets : SendCheck(t, p)
    \/ \E t \in Threads : SendEnqueue(t) \/ Dequeue(t) \/ PostFails(t)
    \/ RioSends
    \/ UNCHANGED <<sent, mSendQueue, wire, refused, packet>>
BY DEF Next, SendStep, RegisterStep, ProcessStep, SendCount, SendExchange, RegisterClosed,
       RegisterSend, CopyPackets, CopyOverflows, SubtractPackets, PostSend, ProcessSend,
       ProcessSendZero, CheckLimit, KickSession, CheckEmpty, Release, RecvEnds, RioBreaks,
       PeerGoes, vars, history

\* Send takes a packet that has not been sent, and enqueues it.
LEMMA FreshStep ==
  TypeOK /\ Arguments /\ Queues /\ Fresh /\ [Next]_vars => Fresh'
<1> SUFFICES ASSUME TypeOK, Arguments, Queues, Fresh, [Next]_vars PROVE Fresh'
  OBVIOUS
<1>1. QueuesOK /\ packet \in [Threads -> Packets \cup {None}]
  BY DEF TypeOK, ControlOK
<1>2. ASSUME NEW t \in Threads, NEW p \in Packets, SendCheck(t, p) PROVE Fresh'
  <2>1. /\ packet' = [packet EXCEPT ![t] = p] /\ sent' = sent
        /\ \A u \in Threads : packet[u] # p /\ p \notin Stream!Elements(sent[u])
    BY <1>2 DEF SendCheck, Used, history, Stream!Elements
  <2>2. packet'[t] = p /\ \A u \in Threads \ {t} : packet'[u] = packet[u]
    BY <1>1, <2>1
  <2> QED
    BY <2>1, <2>2 DEF Fresh
<1>3. ASSUME NEW t \in Threads, SendEnqueue(t) PROVE Fresh'
  <2>1. packet[t] \in Packets /\ packet[t] # None
    BY <1>3, NoneAssumption DEF SendEnqueue, Arguments
  <2>2. packet'[t] = None /\ \A u \in Threads \ {t} : packet'[u] = packet[u]
    BY <1>1, <1>3 DEF SendEnqueue
  <2>3. ASSUME NEW u \in Threads, NEW i \in 1..Len(sent'[u])
        PROVE  IF u = t /\ i = Len(sent[t]) + 1 THEN sent'[u][i] = packet[t]
               ELSE i \in 1..Len(sent[u]) /\ sent'[u][i] = sent[u][i]
                    /\ sent[u][i] # packet[t]
    <3>1. CASE u = t /\ i = Len(sent[t]) + 1
      BY <1>1, <1>3, <3>1, EnqueueFacts
    <3>2. CASE ~ (u = t /\ i = Len(sent[t]) + 1)
      <4>1. Len(sent[t]) \in Nat
        BY <1>1, LenProperties DEF QueuesOK
      <4>2. i \in 1..Len(sent[u]) /\ sent'[u][i] = sent[u][i]
        BY <1>1, <1>3, <3>2, <4>1, EnqueueFacts
      <4>3. sent[u][i] # packet[t]
        BY <2>1, <4>2 DEF Fresh, Stream!Elements
      <4> QED
        BY <3>2, <4>2, <4>3
    <3> QED
      BY <3>1, <3>2
  <2>4. ASSUME NEW u \in Threads, NEW v \in Threads,
               NEW i \in 1..Len(sent'[u]), NEW k \in 1..Len(sent'[v]),
               sent'[u][i] = sent'[v][k]
        PROVE  u = v /\ i = k
    BY <2>3, <2>4 DEF Fresh
  <2>5. ASSUME NEW u \in Threads, NEW v \in Threads, packet'[u] # None
        PROVE  /\ packet'[u] \notin Stream!Elements(sent'[v])
               /\ packet'[u] = packet'[v] => u = v
    <3>1. u # t /\ packet'[u] = packet[u] /\ packet[u] # packet[t]
      BY <2>1, <2>2, <2>5 DEF Fresh
    <3>2. packet[u] \notin Stream!Elements(sent[v]) /\ (packet[u] = packet[v] => u = v)
      BY <2>5, <3>1 DEF Fresh
    <3>3. ASSUME NEW i \in 1..Len(sent'[v]) PROVE sent'[v][i] # packet[u]
      BY <2>3, <3>1, <3>2 DEF Stream!Elements
    <3>4. packet'[u] = packet'[v] => u = v
      BY <2>2, <2>5, <3>1, <3>2
    <3> QED
      BY <3>1, <3>3, <3>4 DEF Stream!Elements
  <2> QED
    BY <2>4, <2>5 DEF Fresh
<1>4. CASE UNCHANGED <<sent, packet>>
  BY <1>4 DEF Fresh
<1> QED
  BY <1>2, <1>3, <1>4, MovingSteps DEF Dequeue, PostFails, RioSends, history

\* Enqueueing and dequeueing keep the queue the end of what was sent.
LEMMA QueuesStep ==
  TypeOK /\ Arguments /\ Queues /\ [Next]_vars => Queues'
<1> SUFFICES ASSUME TypeOK, Arguments, Queues, [Next]_vars PROVE Queues'
  OBVIOUS
<1>1. QueuesOK
  BY DEF TypeOK
<1>2. ASSUME NEW t \in Threads, SendEnqueue(t) PROVE Queues'
  <2> SUFFICES ASSUME NEW u \in Threads
               PROVE  /\ Len(mSendQueue'[u]) <= Len(sent'[u])
                      /\ \A n \in 1..Len(mSendQueue'[u]) :
                           mSendQueue'[u][n] = sent'[u][Taken(u) + n]
    BY <1>1, <1>2, EnqueueFacts DEF Queues
  <2>1. /\ Len(sent[u]) \in Nat /\ Len(mSendQueue[u]) \in Nat
        /\ Taken(u) \in 0..Len(sent[u]) /\ Taken(u) + Len(mSendQueue[u]) = Len(sent[u])
    BY <1>1, TakenFacts
  <2>2. CASE u = t
    <3>1. Len(mSendQueue'[u]) <= Len(sent'[u])
      BY <1>1, <1>2, <2>1, <2>2, EnqueueFacts
    <3>2. ASSUME NEW n \in 1..Len(mSendQueue'[u])
          PROVE  mSendQueue'[u][n] = sent'[u][Taken(u) + n]
      <4>1. CASE n = Len(mSendQueue[u]) + 1
        <5>1. Taken(u) + n = Len(sent[u]) + 1
          BY <2>1, <4>1
        <5> QED
          BY <1>1, <1>2, <2>2, <4>1, <5>1, EnqueueFacts
      <4>2. CASE n # Len(mSendQueue[u]) + 1
        <5>1. n \in 1..Len(mSendQueue[u])
          BY <1>1, <1>2, <2>1, <2>2, <4>2, EnqueueFacts
        <5>2. Taken(u) + n \in 1..Len(sent[u])
          BY <2>1, <5>1
        <5>3. mSendQueue'[t][n] = mSendQueue[t][n]
          BY <1>1, <1>2, <2>2, <5>1, EnqueueFacts
        <5>4. sent'[t][Taken(t) + n] = sent[t][Taken(t) + n]
          BY <1>1, <1>2, <2>2, <5>2, EnqueueFacts
        <5>5. mSendQueue[t][n] = sent[t][Taken(t) + n]
          BY <2>2, <5>1 DEF Queues
        <5> QED
          BY <2>2, <5>3, <5>4, <5>5
      <4> QED
        BY <4>1, <4>2
    <3> QED
      BY <3>1, <3>2
  <2>3. CASE u # t
    <3>1. sent'[u] = sent[u] /\ mSendQueue'[u] = mSendQueue[u]
      BY <1>1, <1>2, <2>3, EnqueueFacts
    <3> QED
      BY <3>1 DEF Queues
  <2> QED
    BY <2>2, <2>3
<1>3. ASSUME NEW t \in Threads, Dequeue(t) PROVE Queues'
  <2>1. PICK s \in Threads :
           /\ Taken(s) + 1 \in 1..Len(sent[s])
           /\ Len(mSendQueue'[s]) = Len(mSendQueue[s]) - 1
           /\ \A i \in 1..Len(mSendQueue'[s]) : mSendQueue'[s][i] = mSendQueue[s][i + 1]
           /\ \A u \in Threads \ {s} : mSendQueue'[u] = mSendQueue[u]
           /\ Taken(s)' = Taken(s) + 1
           /\ \A u \in Threads \ {s} : Taken(u)' = Taken(u)
    BY <1>1, <1>3, DequeueFacts
  <2>2. sent' = sent
    BY <1>3 DEF Dequeue, history
  <2> SUFFICES ASSUME NEW u \in Threads
               PROVE  /\ Len(mSendQueue'[u]) <= Len(sent[u])
                      /\ \A n \in 1..Len(mSendQueue'[u]) :
                           mSendQueue'[u][n] = sent[u][Taken(u)' + n]
    BY <2>2 DEF Queues
  <2>3. CASE u = s
    <3>1. /\ Len(sent[s]) \in Nat /\ Len(mSendQueue[s]) \in Nat
          /\ Taken(s) \in Nat /\ Len(mSendQueue[s]) <= Len(sent[s])
      BY <1>1, TakenFacts DEF Queues
    <3>2. Len(mSendQueue'[s]) <= Len(sent[s])
      BY <2>1, <3>1
    <3>3. ASSUME NEW n \in 1..Len(mSendQueue'[s])
          PROVE  mSendQueue'[s][n] = sent[s][Taken(s)' + n]
      <4>1. n \in Nat /\ n + 1 \in 1..Len(mSendQueue[s])
        BY <2>1, <3>1
      <4>2. Taken(s) + (n + 1) = Taken(s)' + n
        <5>1. \A m \in Nat : m + (n + 1) = (m + 1) + n
          BY <4>1
        <5> QED
          BY <2>1, <3>1, <5>1
      <4>3. mSendQueue[s][n + 1] = sent[s][Taken(s) + (n + 1)]
        BY <4>1 DEF Queues
      <4> QED
        BY <2>1, <4>1, <4>2, <4>3
    <3> QED
      BY <2>3, <3>2, <3>3
  <2>4. CASE u # s
    BY <2>1, <2>4 DEF Queues
  <2> QED
    BY <2>3, <2>4
<1>4. CASE UNCHANGED <<sent, mSendQueue>>
  BY <1>4 DEF Queues, Taken
<1> QED
  BY <1>2, <1>3, <1>4, MovingSteps DEF SendCheck, PostFails, RioSends, history

\* Where the packets are that have left and the ones of a batch, does not change
\* with a Send.
LEMMA EnqueueKeeps ==
  ASSUME QueuesOK, Queues, Arguments, Fresh, NEW t \in Threads, SendEnqueue(t)
  PROVE  /\ \A u \in Threads : \A i \in 1..Len(sent[u]) :
              i \in 1..Len(sent'[u]) /\ sent'[u][i] = sent[u][i]
         /\ \A u \in Threads : \A i \in 1..Taken(u) :
              i \in 1..Len(sent[u]) /\ i \in 1..Taken(u)' /\ sent'[u][i] = sent[u][i]
         /\ \A u \in Threads : Taken(u)' = Taken(u)
         /\ wire' = wire /\ refused' = refused
<1>1. ASSUME NEW u \in Threads, NEW i \in 1..Len(sent[u])
      PROVE  i \in 1..Len(sent'[u]) /\ sent'[u][i] = sent[u][i]
  <2>1. Len(sent[u]) \in Nat
    BY TakenFacts
  <2> QED
    BY <2>1, EnqueueFacts
<1>2. ASSUME NEW u \in Threads, NEW i \in 1..Taken(u) PROVE i \in 1..Len(sent[u])
  BY TakenFacts
<1>3. wire' = wire /\ refused' = refused
  BY DEF SendEnqueue
<1>4. \A u \in Threads : Taken(u)' = Taken(u)
  BY EnqueueFacts
<1> QED
  BY <1>1, <1>2, <1>3, <1>4

\* A batch in transit does not change with a Send.
LEMMA EnqueueTakenOut ==
  ASSUME QueuesOK, Queues, Arguments, Fresh, NEW t \in Threads, SendEnqueue(t),
         NEW batch, TakenOut(batch)
  PROVE  TakenOut(batch)'
<1>1. Left' = Left /\ \A n : Stream!Before(batch, n)' = Stream!Before(batch, n)
  BY EnqueueKeeps DEF Left, Stream!Before, Stream!Elements
<1>2. Len(batch) <= BULK
  BY DEF TakenOut
<1>3. Stream!InTurn(batch)'
  <2> SUFFICES ASSUME NEW n \in 1..Len(batch)
               PROVE  /\ batch[n] \notin Stream!Before(batch, n)'
                      /\ \E u \in Threads : \E i \in 1..Len(sent'[u]) :
                           /\ batch[n] = sent'[u][i]
                           /\ \A j \in 1..i - 1 : sent'[u][j] \in Stream!Before(batch, n)'
    BY DEF Stream!InTurn
  <2>1. batch[n] \notin Stream!Before(batch, n)
    BY DEF TakenOut, Stream!InTurn
  <2>2. PICK u \in Threads : \E i \in 1..Len(sent[u]) :
          /\ batch[n] = sent[u][i]
          /\ \A j \in 1..i - 1 : sent[u][j] \in Stream!Before(batch, n)
    BY DEF TakenOut, Stream!InTurn
  <2>3. PICK i \in 1..Len(sent[u]) :
          /\ batch[n] = sent[u][i]
          /\ \A j \in 1..i - 1 : sent[u][j] \in Stream!Before(batch, n)
    BY <2>2
  <2>4. i \in 1..Len(sent'[u]) /\ batch[n] = sent'[u][i]
    BY <2>3, EnqueueKeeps
  <2>5. ASSUME NEW j \in 1..i - 1 PROVE sent'[u][j] \in Stream!Before(batch, n)
    <3>1. j \in 1..Len(sent[u])
      BY TakenFacts
    <3> QED
      BY <2>3, <3>1, EnqueueKeeps
  <2> QED
    BY <1>1, <2>1, <2>4, <2>5
<1>4. \A n \in 1..Len(batch) : \E u \in Threads : \E i \in 1..Taken(u)' :
        batch[n] = sent'[u][i]
  BY EnqueueKeeps DEF TakenOut
<1>5. \A u \in Threads : \A j \in 1..Taken(u)' :
        sent'[u][j] \in Left \cup Stream!Elements(batch)
  BY EnqueueKeeps DEF TakenOut
<1> QED
  BY <1>1, <1>2, <1>3, <1>4, <1>5 DEF TakenOut, Stream!Elements

\* A thread outside a batch has none: the local vector is gone with its frame.
LEMMA EmptiedStep == TypeOK /\ Emptied /\ [Next]_vars => Emptied'
<1> SUFFICES ASSUME TypeOK, Emptied, [Next]_vars PROVE Emptied'
  OBVIOUS
<1>1. /\ pc \in [Threads -> {"idle"} \cup SendSteps \cup PumpSteps]
      /\ swapList \in [Threads -> Seq(Packets)]
  BY DEF TypeOK, ControlOK, QueuesOK
<1> USE DEF Emptied, Batching, Goto
<1>2. ASSUME NEW t \in Threads, Dequeue(t) PROVE Emptied'
  BY <1>1, <1>2 DEF Dequeue
<1>3. ASSUME NEW t \in Threads, CopyOverflows(t) PROVE Emptied'
  BY <1>1, <1>3 DEF CopyOverflows
<1>4. ASSUME NEW t \in Threads, PostSend(t) PROVE Emptied'
  BY <1>1, <1>4 DEF PostSend
<1>5. ASSUME NEW t \in Threads, PostFails(t) PROVE Emptied'
  BY <1>1, <1>5 DEF PostFails
<1>6. ASSUME NEW t \in Threads, NEW p \in Packets, SendCheck(t, p) PROVE Emptied'
  BY <1>1, <1>6 DEF SendCheck
<1>7. ASSUME NEW t \in Threads, SendStep(t) PROVE Emptied'
  BY <1>1, <1>7 DEF SendStep, SendEnqueue, SendCount, SendExchange
<1>8. ASSUME NEW t \in Threads, RegisterClosed(t) \/ RegisterSend(t) PROVE Emptied'
  BY <1>1, <1>8 DEF RegisterClosed, RegisterSend
<1>9. ASSUME NEW t \in Threads, CopyPackets(t) \/ SubtractPackets(t) PROVE Emptied'
  BY <1>1, <1>9 DEF CopyPackets, SubtractPackets, DequeueEnds
<1>10. ASSUME NEW t \in Threads, ProcessStep(t) PROVE Emptied'
  BY <1>1, <1>10 DEF ProcessStep, ProcessSend, ProcessSendZero, CheckLimit, KickSession,
       CheckEmpty, Release
<1>11. ASSUME NEW t \in Threads, RecvEnds(t) PROVE Emptied'
  BY <1>11 DEF RecvEnds
<1>12. CASE RioSends \/ RioBreaks \/ PeerGoes \/ UNCHANGED vars
  BY <1>12 DEF RioSends, RioBreaks, PeerGoes, vars
<1> QED
  BY <1>2, <1>3, <1>4, <1>5, <1>6, <1>7, <1>8, <1>9, <1>10, <1>11, <1>12
  DEF Next, RegisterStep

\* Only Dequeue, PostFails and RIO's transmission put another batch on its way;
\* every other step hands on the one there was, or closes the session.
LEMMA StillInTransit ==
  ASSUME TypeOK, Single, Emptied, [Next]_vars, NEW batch, InTransit(batch)',
         \A t \in Threads : ~ Dequeue(t) /\ ~ PostFails(t), ~ RioSends
  PROVE  InTransit(batch)
<1>1. /\ pc \in [Threads -> {"idle"} \cup SendSteps \cup PumpSteps]
      /\ swapList \in [Threads -> Seq(Packets)]
      /\ rio \in {"none", "posted", "sent", "broken"}
  BY DEF TypeOK, ControlOK, QueuesOK
<1> USE DEF InTransit, Batching, Dead, Pumps, PumpSteps, Goto
<1>2. ASSUME NEW t \in Threads, NEW p \in Packets, SendCheck(t, p) PROVE InTransit(batch)
  BY <1>1, <1>2 DEF SendCheck, history
<1>3. ASSUME NEW t \in Threads, SendEnqueue(t) \/ SendCount(t) PROVE InTransit(batch)
  BY <1>1, <1>3 DEF SendEnqueue, SendCount, history
<1>4. ASSUME NEW t \in Threads, SendExchange(t) PROVE InTransit(batch)
  BY <1>1, <1>4 DEF SendExchange, history, Single
<1>5. ASSUME NEW t \in Threads, RegisterClosed(t) PROVE InTransit(batch)
  BY <1>1, <1>5 DEF RegisterClosed, history, Single
<1>6. ASSUME NEW t \in Threads, RegisterSend(t) PROVE InTransit(batch)
  BY <1>1, <1>6 DEF RegisterSend, history, Single, Emptied
<1>7. ASSUME NEW t \in Threads, CopyPackets(t) PROVE InTransit(batch)
  BY <1>1, <1>7 DEF CopyPackets, DequeueEnds, history, Single
<1>8. ASSUME NEW t \in Threads, CopyOverflows(t) PROVE InTransit(batch)
  BY <1>1, <1>8 DEF CopyOverflows, DequeueEnds, history, Single
<1>9. ASSUME NEW t \in Threads, SubtractPackets(t) PROVE InTransit(batch)
  BY <1>1, <1>9 DEF SubtractPackets, history, Single
<1>10. ASSUME NEW t \in Threads, PostSend(t) PROVE InTransit(batch)
  BY <1>1, <1>10 DEF PostSend, Single
<1>11. ASSUME NEW t \in Threads, ProcessSend(t) PROVE InTransit(batch)
  BY <1>1, <1>11 DEF ProcessSend, history, Single
<1>12. ASSUME NEW t \in Threads, ProcessSendZero(t) PROVE InTransit(batch)
  BY <1>1, <1>12 DEF ProcessSendZero, history, Single
<1>13. ASSUME NEW t \in Threads, CheckLimit(t) \/ CheckEmpty(t) PROVE InTransit(batch)
  BY <1>1, <1>13 DEF CheckLimit, CheckEmpty, history, Single
<1>14. ASSUME NEW t \in Threads, KickSession(t) PROVE InTransit(batch)
  BY <1>1, <1>14 DEF KickSession, history, Single
<1>15. ASSUME NEW t \in Threads, Release(t) PROVE InTransit(batch)
  BY <1>1, <1>15 DEF Release, history, Single
<1>16. ASSUME NEW t \in Threads, RecvEnds(t) PROVE InTransit(batch)
  BY <1>1, <1>16 DEF RecvEnds, history
<1>17. CASE RioBreaks
  BY <1>1, <1>17 DEF RioBreaks, history, Single
<1>18. CASE PeerGoes \/ UNCHANGED vars
  BY <1>1, <1>18 DEF PeerGoes, vars, history
<1> QED
  BY <1>2, <1>3, <1>4, <1>5, <1>6, <1>7, <1>8, <1>9, <1>10, <1>11, <1>12, <1>13,
     <1>14, <1>15, <1>16, <1>17, <1>18
  DEF Next, SendStep, RegisterStep, ProcessStep

\* A batch stays in turn while the queues and the network stand still.
LEMMA SameTakenOut ==
  ASSUME NEW batch, TakenOut(batch), UNCHANGED <<sent, mSendQueue, wire, refused>>
  PROVE  TakenOut(batch)'
<1>1. /\ \A n : Stream!Before(batch, n)' = Stream!Before(batch, n)
      /\ Left' = Left /\ \A t \in Threads : Taken(t)' = Taken(t)
  BY DEF Stream!Before, Stream!Elements, Left, Taken
<1>2. Stream!InTurn(batch)'
  <2> SUFFICES ASSUME NEW n \in 1..Len(batch)
               PROVE  /\ batch[n] \notin Stream!Before(batch, n)'
                      /\ \E t \in Threads : \E i \in 1..Len(sent'[t]) :
                           /\ batch[n] = sent'[t][i]
                           /\ \A j \in 1..i - 1 : sent'[t][j] \in Stream!Before(batch, n)'
    BY DEF Stream!InTurn
  <2>1. Stream!Before(batch, n)' = Stream!Before(batch, n) /\ sent' = sent
    BY <1>1
  <2>2. /\ batch[n] \notin Stream!Before(batch, n)
        /\ \E t \in Threads : \E i \in 1..Len(sent[t]) :
             /\ batch[n] = sent[t][i]
             /\ \A j \in 1..i - 1 : sent[t][j] \in Stream!Before(batch, n)
    BY DEF TakenOut, Stream!InTurn
  <2> QED
    BY <2>1, <2>2
<1> QED
  BY <1>1, <1>2 DEF TakenOut, Stream!Elements

\* What comes before a packet of a batch has left or is in the batch.
LEMMA BeforeInBatch ==
  ASSUME NEW batch \in Seq(Packets), NEW n \in 1..Len(batch)
  PROVE  /\ Stream!Before(batch, n) \subseteq Left \cup Stream!Elements(batch)
         /\ Left \subseteq Stream!Before(batch, n)
         /\ \A m \in 1..n - 1 : m \in 1..Len(batch) /\ batch[m] \in Stream!Before(batch, n)
         /\ \A m \in 1..n : Stream!Before(batch, m) \subseteq Stream!Before(batch, n)
<1>1. Len(batch) \in Nat
  BY LenProperties
<1>2. \A m \in 1..n - 1 : m \in 1..Len(batch)
  BY <1>1
<1>3. \A m \in 1..n : \A l \in 1..m - 1 : l \in 1..n - 1
  BY <1>1
<1> QED
  BY <1>2, <1>3 DEF Stream!Before, Stream!Elements, Left

\* When a batch leaves, the packets that have left still have no gap, and no
\* packet is taken that has not left.
LEMMA BatchLeaves ==
  ASSUME QueuesOK, Queues, Fresh, NoGap, NEW batch \in Seq(Packets), TakenOut(batch),
         UNCHANGED <<sent, mSendQueue>>, Left' = Left \cup Stream!Elements(batch)
  PROVE  NoGap' /\ TakenOut(<<>>)'
<1>1. \A t \in Threads : Taken(t)' = Taken(t)
  BY DEF Taken
<1>2. ASSUME NEW e \in Left' PROVE \E t \in Threads : \E i \in 1..Taken(t)' : e = sent'[t][i]
  <2>1. CASE e \in Left
    BY <1>1, <2>1 DEF NoGap
  <2>2. CASE e \in Stream!Elements(batch)
    BY <1>1, <2>2 DEF TakenOut, Stream!Elements
  <2> QED
    BY <2>1, <2>2
<1>3. ASSUME NEW t \in Threads, NEW i \in 1..Len(sent[t]), sent[t][i] \in Left',
             NEW j \in 1..i - 1
      PROVE  sent[t][j] \in Left'
  <2>1. CASE sent[t][i] \in Left
    BY <2>1 DEF NoGap
  <2>2. CASE sent[t][i] \in Stream!Elements(batch)
    <3>1. PICK n \in 1..Len(batch) : sent[t][i] = batch[n]
      BY <2>2 DEF Stream!Elements
    <3>2. PICK u \in Threads : \E k \in 1..Len(sent[u]) :
            /\ batch[n] = sent[u][k]
            /\ \A l \in 1..k - 1 : sent[u][l] \in Stream!Before(batch, n)
      BY DEF TakenOut, Stream!InTurn
    <3>3. PICK k \in 1..Len(sent[u]) :
            /\ batch[n] = sent[u][k]
            /\ \A l \in 1..k - 1 : sent[u][l] \in Stream!Before(batch, n)
      BY <3>2
    <3>4. u = t /\ k = i
      BY <3>1, <3>3 DEF Fresh
    <3> QED
      BY <3>3, <3>4, BeforeInBatch
  <2> QED
    BY <1>3, <2>1, <2>2
<1>4. NoGap'
  BY <1>2, <1>3 DEF NoGap
<1>5. TakenOut(<<>>)'
  <2>1. Len(<<>>) = 0 /\ Len(<<>>) <= BULK
    BY EmptySeq, BulkAssumption
  <2>2. \A t \in Threads : \A j \in 1..Taken(t)' : sent'[t][j] \in Left'
    BY <1>1 DEF TakenOut
  <2> QED
    BY <2>1, <2>2 DEF TakenOut, Stream!InTurn
<1> QED
  BY <1>4, <1>5

\* A batch in turn keeps the order of what has been transmitted.
LEMMA BatchInOrder ==
  ASSUME QueuesOK, Fresh, NoGap, SendOrder, NEW batch \in Seq(Packets), TakenOut(batch),
         wire' = wire \o batch, sent' = sent
  PROVE  SendOrder'
<1>1. /\ Len(wire) \in Nat /\ Len(batch) \in Nat /\ Len(wire') = Len(wire) + Len(batch)
      /\ \A m \in 1..Len(wire) + Len(batch) :
           wire'[m] = IF m <= Len(wire) THEN wire[m] ELSE batch[m - Len(wire)]
  BY LenProperties, ConcatProperties DEF QueuesOK
<1>2. ASSUME NEW t \in Threads, NEW i \in 1..Len(sent[t]), NEW k \in 1..Len(sent[t]),
             NEW m \in 1..Len(wire'), NEW n \in 1..Len(wire'),
             wire'[m] = sent[t][i], wire'[n] = sent[t][k], m < n
      PROVE  i < k
  <2>1. i \in Nat /\ k \in Nat
    BY DEF QueuesOK
  <2>2. CASE n <= Len(wire)
    <3>1. m \in 1..Len(wire) /\ n \in 1..Len(wire) /\ wire'[m] = wire[m] /\ wire'[n] = wire[n]
      BY <1>1, <1>2, <2>2
    <3>2. wire[m] = sent[t][i] /\ wire[n] = sent[t][k]
      BY <1>2, <3>1
    <3>3. m < n <=> i < k
      BY <3>1, <3>2 DEF SendOrder
    <3> QED
      BY <1>2, <3>3
  <2>3. CASE ~ (n <= Len(wire))
    <3> DEFINE q == n - Len(wire)
    <3>1. q \in 1..Len(batch) /\ wire'[n] = batch[q]
      BY <1>1, <2>3
    <3> HIDE DEF q
    <3>2. sent[t][k] \notin Stream!Before(batch, q)
      BY <1>2, <3>1 DEF TakenOut, Stream!InTurn
    <3>3. CASE m <= Len(wire)
      <4>1. m \in 1..Len(wire) /\ wire'[m] = wire[m]
        BY <1>1, <3>3
      <4>2. sent[t][i] \in Left
        BY <1>2, <4>1 DEF Left, Stream!Elements
      <4>3. sent[t][k] \notin Left
        BY <3>1, <3>2, BeforeInBatch
      <4>4. i # k /\ ~ (k \in 1..i - 1)
        BY <4>2, <4>3 DEF NoGap
      <4> QED
        BY <2>1, <4>4
    <3>4. CASE ~ (m <= Len(wire))
      <4> DEFINE p == m - Len(wire)
      <4>1. p \in 1..Len(batch) /\ wire'[m] = batch[p]
        BY <1>1, <3>4
      <4>2. p \in 1..q - 1 /\ p \in 1..q
        BY <1>1, <1>2, <3>1, <4>1 DEF q
      <4> HIDE DEF p
      <4>3. batch[p] \in Stream!Before(batch, q)
            /\ Stream!Before(batch, p) \subseteq Stream!Before(batch, q)
        BY <3>1, <4>2, BeforeInBatch
      <4>4. PICK u \in Threads : \E h \in 1..Len(sent[u]) :
              /\ batch[p] = sent[u][h]
              /\ \A l \in 1..h - 1 : sent[u][l] \in Stream!Before(batch, p)
        BY <4>1 DEF TakenOut, Stream!InTurn
      <4>5. PICK h \in 1..Len(sent[u]) :
              /\ batch[p] = sent[u][h]
              /\ \A l \in 1..h - 1 : sent[u][l] \in Stream!Before(batch, p)
        BY <4>4
      <4>6. u = t /\ h = i
        <5>1. sent[u][h] = sent[t][i]
          BY <1>2, <4>1, <4>5
        <5> QED
          BY <5>1 DEF Fresh
      <4>7. i # k /\ ~ (k \in 1..i - 1)
        BY <1>2, <3>2, <4>1, <4>3, <4>5, <4>6
      <4> QED
        BY <2>1, <4>7
    <3> QED
      BY <3>3, <3>4
  <2> QED
    BY <2>2, <2>3
<1>3. ASSUME NEW t \in Threads, NEW i \in 1..Len(sent[t]), NEW k \in 1..Len(sent[t]),
             NEW m \in 1..Len(wire'), NEW n \in 1..Len(wire'),
             wire'[m] = sent[t][i], wire'[n] = sent[t][k]
      PROVE  m < n <=> i < k
  <2>1. (m < n => i < k) /\ (n < m => k < i)
    BY <1>2, <1>3
  <2>2. m = n => i = k
    BY <1>3 DEF Fresh
  <2>3. i \in Nat /\ k \in Nat /\ m \in Nat /\ n \in Nat
    BY <1>1
  <2> QED
    BY <2>1, <2>2, <2>3
<1> QED
  BY <1>3 DEF SendOrder

\* The packet a batch is given is the next one of its thread.
LEMMA DequeueTakenOut ==
  ASSUME QueuesOK, Queues, Fresh, NoGap, NEW t \in Threads, Dequeue(t),
         TakenOut(swapList[t]), NEW batch, batch = swapList'[t]
  PROVE  TakenOut(batch)'
<1> DEFINE old == swapList[t]
<1>1. PICK s \in Threads :
        /\ Taken(s) + 1 \in 1..Len(sent[s])
        /\ batch = Append(old, sent[s][Taken(s) + 1])
        /\ sent[s][Taken(s) + 1] \in Packets
        /\ Taken(s)' = Taken(s) + 1
        /\ \A u \in Threads \ {s} : Taken(u)' = Taken(u)
  BY DequeueFacts
<1> DEFINE e == sent[s][Taken(s) + 1]
<1>2. /\ old \in Seq(Packets) /\ Len(old) \in Nat /\ Len(old) < BULK
      /\ sent' = sent /\ wire' = wire /\ refused' = refused /\ Left' = Left
  BY LenProperties DEF QueuesOK, Dequeue, history, Left, Stream!Elements
<1>3. \A u \in Threads : Taken(u) \in Nat /\ Len(sent[u]) \in Nat /\ Taken(u) <= Len(sent[u])
  BY TakenFacts
<1>4. /\ Len(batch) = Len(old) + 1 /\ batch[Len(old) + 1] = e
      /\ \A n \in 1..Len(old) : batch[n] = old[n]
  BY <1>1, <1>2, AppendProperties
<1> HIDE DEF old
<1>5. /\ Len(old) <= BULK /\ Stream!InTurn(old)
      /\ \A n \in 1..Len(old) : \E u \in Threads : \E i \in 1..Taken(u) : old[n] = sent[u][i]
      /\ \A u \in Threads : \A j \in 1..Taken(u) : sent[u][j] \in Left \cup Stream!Elements(old)
  BY DEF TakenOut, old
<1>6. Len(batch) <= BULK
  BY <1>2, <1>4, BulkAssumption
<1>7. Stream!Elements(batch) = Stream!Elements(old) \cup {e}
  <2>1. \A n \in 1..Len(batch) : n \in 1..Len(old) \/ n = Len(old) + 1
    BY <1>2, <1>4
  <2>2. \A n \in 1..Len(old) : n \in 1..Len(batch)
    BY <1>2, <1>4
  <2>3. Len(old) + 1 \in 1..Len(batch)
    BY <1>2, <1>4
  <2> QED
    BY <1>4, <2>1, <2>2, <2>3 DEF Stream!Elements
<1>8. e \notin Left \cup Stream!Elements(old)
  <2>1. ASSUME NEW u \in Threads, NEW i \in 1..Taken(u) PROVE e # sent[u][i]
    <3>1. i \in 1..Len(sent[u]) /\ ~ (u = s /\ i = Taken(s) + 1)
      BY <1>3
    <3> QED
      BY <1>1, <3>1 DEF Fresh
  <2> QED
    BY <1>5, <2>1 DEF NoGap, Stream!Elements
<1>9. ASSUME NEW n \in 1..Len(old)
      PROVE  Stream!Before(batch, n)' = Stream!Before(old, n)
  <2>1. \A m \in 1..n - 1 : batch[m] = old[m]
    BY <1>2, <1>4
  <2> QED
    BY <1>2, <2>1 DEF Stream!Before, Stream!Elements
<1>10. ASSUME NEW n, n = Len(old) + 1
       PROVE  Stream!Before(batch, n)' = Left \cup Stream!Elements(old)
  <2>1. 1..n - 1 = 1..Len(old)
    BY <1>2, <1>10
  <2>2. {batch[m] : m \in 1..n - 1} = Stream!Elements(old)
    BY <1>4, <2>1 DEF Stream!Elements
  <2>3. Stream!Before(batch, n)'
          = Stream!Elements(wire)' \cup refused' \cup {batch[m] : m \in 1..n - 1}
    BY DEF Stream!Before
  <2> QED
    BY <1>2, <2>2, <2>3 DEF Left, Stream!Elements
<1> HIDE DEF e
<1>11. Stream!InTurn(batch)'
  <2> SUFFICES ASSUME NEW n \in 1..Len(batch)
               PROVE  /\ batch[n] \notin Stream!Before(batch, n)'
                      /\ \E u \in Threads : \E i \in 1..Len(sent'[u]) :
                           /\ batch[n] = sent'[u][i]
                           /\ \A j \in 1..i - 1 : sent'[u][j] \in Stream!Before(batch, n)'
    BY DEF Stream!InTurn
  <2>1. CASE n = Len(old) + 1
    <3>1. batch[n] = e /\ Stream!Before(batch, n)' = Left \cup Stream!Elements(old)
      BY <1>4, <1>10, <2>1
    <3>2. \A j \in 1..(Taken(s) + 1) - 1 : j \in 1..Taken(s)
      BY <1>3
    <3>3. \A j \in 1..(Taken(s) + 1) - 1 : sent[s][j] \in Left \cup Stream!Elements(old)
      BY <1>5, <3>2
    <3> QED
      BY <1>1, <1>2, <1>8, <3>1, <3>3 DEF e
  <2>2. CASE n # Len(old) + 1
    <3>1. n \in 1..Len(old)
      BY <1>2, <1>4, <2>2
    <3>2. batch[n] = old[n] /\ Stream!Before(batch, n)' = Stream!Before(old, n)
      BY <1>4, <1>9, <3>1
    <3>3. /\ old[n] \notin Stream!Before(old, n)
          /\ \E u \in Threads : \E i \in 1..Len(sent[u]) :
               /\ old[n] = sent[u][i]
               /\ \A j \in 1..i - 1 : sent[u][j] \in Stream!Before(old, n)
      BY <1>5, <3>1 DEF Stream!InTurn
    <3> QED
      BY <1>2, <3>2, <3>3
  <2> QED
    BY <2>1, <2>2
<1>12. ASSUME NEW n \in 1..Len(batch)
       PROVE  \E u \in Threads : \E i \in 1..Taken(u)' : batch[n] = sent[u][i]
  <2>1. CASE n = Len(old) + 1
    <3>1. Taken(s) + 1 \in 1..Taken(s)'
      BY <1>1, <1>3
    <3> QED
      BY <1>4, <2>1, <3>1 DEF e
  <2>2. CASE n # Len(old) + 1
    <3>1. n \in 1..Len(old)
      BY <1>2, <1>4, <2>2
    <3>2. PICK u \in Threads : \E i \in 1..Taken(u) : old[n] = sent[u][i]
      BY <1>5, <3>1
    <3>3. PICK i \in 1..Taken(u) : old[n] = sent[u][i]
      BY <3>2
    <3>4. i \in 1..Taken(u)'
      BY <1>1, <1>3
    <3>5. batch[n] = old[n]
      BY <1>4, <3>1
    <3> QED
      BY <3>3, <3>4, <3>5
  <2> QED
    BY <2>1, <2>2
<1>13. ASSUME NEW u \in Threads, NEW j \in 1..Taken(u)'
       PROVE  sent[u][j] \in Left \cup Stream!Elements(batch)
  <2>1. CASE j \in 1..Taken(u)
    BY <1>5, <1>7, <2>1
  <2>2. CASE j \notin 1..Taken(u)
    <3>1. u = s /\ j = Taken(s) + 1
      BY <1>1, <1>3, <2>2
    <3> QED
      BY <1>7, <3>1 DEF e
  <2> QED
    BY <2>1, <2>2
<1>14. Stream!Elements(batch)' = Stream!Elements(batch)
  BY DEF Stream!Elements
<1> QED
  BY <1>2, <1>6, <1>11, <1>12, <1>13, <1>14 DEF TakenOut

\* The bytes RIO sends are the batch the request was posted for.
LEMMA RioSendsPosted ==
  ASSUME TypeOK, Region, Transit, RioSends
  PROVE  /\ posted \in Seq(Packets) /\ TakenOut(posted)
         /\ wire' = wire \o posted /\ Left' = Left \cup Stream!Elements(posted)
         /\ UNCHANGED <<sent, mSendQueue, refused>>
<1>1. posted \in Seq(Packets) /\ wire \in Seq(Packets)
  BY DEF TypeOK, QueuesOK
<1>2. TakenOut(posted)
  BY <1>1 DEF RioSends, Transit, InTransit
<1>3. wire' = wire \o posted /\ UNCHANGED <<sent, mSendQueue, refused>>
  BY DEF RioSends, Region, InFlightIntact
<1>4. Stream!Elements(wire)' = Stream!Elements(wire) \cup Stream!Elements(posted)
  <2>1. Stream!Elements(wire)' = Stream!Elements(wire \o posted)
    BY <1>3 DEF Stream!Elements
  <2> QED
    BY <1>1, <2>1, ConcatElements
<1> QED
  BY <1>1, <1>2, <1>3, <1>4 DEF Left

\* A refused request takes its batch with it.
LEMMA PostFailsRefused ==
  ASSUME TypeOK, Transit, NEW t \in Threads, PostFails(t)
  PROVE  /\ swapList[t] \in Seq(Packets) /\ TakenOut(swapList[t])
         /\ refused' = refused \cup Stream!Elements(swapList[t])
         /\ Left' = Left \cup Stream!Elements(swapList[t])
         /\ UNCHANGED <<sent, mSendQueue, wire>>
<1>1. swapList[t] \in Seq(Packets)
  BY DEF TypeOK, QueuesOK
<1>2. TakenOut(swapList[t])
  BY <1>1 DEF PostFails, Transit, InTransit, Batching
<1>3. /\ refused' = refused \cup Stream!Elements(swapList[t])
      /\ UNCHANGED <<sent, mSendQueue, wire>>
  BY DEF PostFails, Stream!Elements
<1>4. Stream!Elements(wire)' = Stream!Elements(wire)
  BY <1>3 DEF Stream!Elements
<1> QED
  BY <1>1, <1>2, <1>3, <1>4 DEF Left

\* Every step keeps the packets of each thread in order: those transmitted, those
\* that have left, and those of the batch in transit.
LEMMA StreamStep ==
  TypeOK /\ Arguments /\ Single /\ Region /\ Order /\ [Next]_vars
  => (NoGap /\ Transit /\ SendOrder)'
<1> SUFFICES ASSUME TypeOK, Arguments, Single, Region, Order, [Next]_vars
             PROVE  (NoGap /\ Transit /\ SendOrder)'
  OBVIOUS
<1>1. QueuesOK /\ Fresh /\ Queues /\ NoGap /\ Emptied /\ Transit /\ SendOrder
  BY DEF TypeOK, Order
<1>2. pc \in [Threads -> {"idle"} \cup SendSteps \cup PumpSteps]
  BY DEF TypeOK, ControlOK
<1>3. CASE RioSends
  <2>1. NoGap' /\ TakenOut(<<>>)'
    BY <1>1, <1>3, RioSendsPosted, BatchLeaves
  <2>2. SendOrder'
    BY <1>1, <1>3, RioSendsPosted, BatchInOrder
  <2>3. ASSUME NEW batch \in Seq(Packets), InTransit(batch)' PROVE batch = <<>>
    BY <1>3, <2>3 DEF RioSends, InTransit, Batching, Single, Pumps, PumpSteps
  <2> QED
    BY <2>1, <2>2, <2>3 DEF Transit
<1>4. ASSUME NEW t \in Threads, PostFails(t)
      PROVE  (NoGap /\ Transit /\ SendOrder)'
  <2>1. NoGap' /\ TakenOut(<<>>)'
    BY <1>1, <1>4, PostFailsRefused, BatchLeaves
  <2>2. SendOrder'
    BY <1>1, <1>4, PostFailsRefused DEF SendOrder
  <2>3. ASSUME NEW batch \in Seq(Packets), InTransit(batch)' PROVE batch = <<>>
    BY <1>2, <1>4, <2>3
    DEF PostFails, InTransit, Batching, Single, Pumps, PumpSteps, Goto
  <2> QED
    BY <2>1, <2>2, <2>3 DEF Transit
<1>5. ASSUME NEW t \in Threads, Dequeue(t)
      PROVE  (NoGap /\ Transit /\ SendOrder)'
  <2>1. UNCHANGED <<sent, wire, refused, pc, rio, posted>> /\ Left' = Left
    BY <1>5 DEF Dequeue, history, bufferVars, Left, Stream!Elements
  <2>2. NoGap'
    <3>1. ASSUME NEW u \in Threads, NEW i \in 1..Taken(u) PROVE i \in 1..Taken(u)'
      <4>1. Taken(u)' = Taken(u) \/ Taken(u)' = Taken(u) + 1
        BY <1>1, <1>5, DequeueFacts
      <4>2. Taken(u) \in Nat
        BY <1>1, TakenFacts
      <4> QED
        BY <4>1, <4>2
    <3> QED
      BY <1>1, <2>1, <3>1 DEF NoGap
  <2>3. SendOrder'
    BY <1>1, <2>1 DEF SendOrder
  <2>4. TakenOut(swapList[t])
    BY <1>1, <1>5 DEF Transit, InTransit, Batching, Dequeue, QueuesOK
  <2>5. ASSUME NEW batch \in Seq(Packets), InTransit(batch)' PROVE batch = swapList'[t]
    BY <1>5, <2>1, <2>5 DEF Dequeue, InTransit, Batching, Single, Pumps, PumpSteps
  <2> QED
    BY <1>1, <1>5, <2>2, <2>3, <2>4, <2>5, DequeueTakenOut DEF Transit
<1>6. ASSUME NEW t \in Threads, SendEnqueue(t)
      PROVE  (NoGap /\ Transit /\ SendOrder)'
  <2>1. UNCHANGED <<wire, refused>> /\ Left' = Left
    BY <1>6 DEF SendEnqueue, Left, Stream!Elements
  <2>2. ASSUME NEW u \in Threads, NEW i \in 1..Len(sent'[u]), sent'[u][i] \in Left
        PROVE  i \in 1..Len(sent[u]) /\ sent'[u][i] = sent[u][i]
    <3>1. packet[t] \notin Left
      <4>1. packet[t] # None
        BY <1>6, NoneAssumption DEF SendEnqueue, Arguments
      <4>2. ASSUME NEW v \in Threads, NEW k \in 1..Taken(v) PROVE packet[t] # sent[v][k]
        <5>1. k \in 1..Len(sent[v])
          BY <1>1, TakenFacts
        <5> QED
          BY <1>1, <4>1, <5>1 DEF Fresh, Stream!Elements
      <4> QED
        BY <1>1, <4>2 DEF NoGap
    <3>2. Len(sent[u]) \in Nat
      BY <1>1, TakenFacts
    <3>3. CASE u = t /\ i = Len(sent[t]) + 1
      BY <1>1, <1>6, <2>2, <3>1, <3>3, EnqueueFacts
    <3>4. CASE ~ (u = t /\ i = Len(sent[t]) + 1)
      BY <1>1, <1>6, <3>2, <3>4, EnqueueFacts
    <3> QED
      BY <3>3, <3>4
  <2>3. NoGap'
    <3>1. ASSUME NEW e \in Left PROVE \E u \in Threads : \E i \in 1..Taken(u)' : e = sent'[u][i]
      <4>1. PICK u \in Threads : \E i \in 1..Taken(u) : e = sent[u][i]
        BY <1>1 DEF NoGap
      <4> QED
        BY <1>1, <1>6, <4>1, EnqueueKeeps
    <3>2. ASSUME NEW u \in Threads, NEW i \in 1..Len(sent'[u]), sent'[u][i] \in Left,
                 NEW j \in 1..i - 1
          PROVE  sent'[u][j] \in Left
      <4>1. i \in 1..Len(sent[u]) /\ sent[u][i] \in Left
        BY <2>2, <3>2
      <4>2. j \in 1..Len(sent[u])
        BY <1>1, <4>1, TakenFacts
      <4> QED
        BY <1>1, <1>6, <4>1, <4>2, EnqueueKeeps DEF NoGap
    <3> QED
      BY <2>1, <3>1, <3>2 DEF NoGap
  <2>4. SendOrder'
    <3>1. \A m \in 1..Len(wire) : wire[m] \in Left
      BY DEF Left, Stream!Elements
    <3> QED
      BY <1>1, <2>1, <2>2, <3>1 DEF SendOrder
  <2>5. ASSUME NEW batch \in Seq(Packets), InTransit(batch)' PROVE TakenOut(batch)'
    <3>1. (\A u \in Threads : ~ Dequeue(u) /\ ~ PostFails(u)) /\ ~ RioSends
      BY <1>2, <1>6, <2>1 DEF SendEnqueue, Dequeue, PostFails, RioSends, Goto
    <3>2. TakenOut(batch)
      BY <1>1, <2>5, <3>1, StillInTransit DEF Transit
    <3> QED
      BY <1>1, <1>6, <3>2, EnqueueTakenOut
  <2> QED
    BY <2>3, <2>4, <2>5 DEF Transit
<1>7. CASE /\ UNCHANGED <<sent, mSendQueue, wire, refused>>
           /\ \A t \in Threads : ~ Dequeue(t) /\ ~ PostFails(t)
           /\ ~ RioSends
  <2>1. NoGap' /\ SendOrder'
    BY <1>1, <1>7 DEF NoGap, SendOrder, Left, Taken, Stream!Elements
  <2>2. ASSUME NEW batch \in Seq(Packets), InTransit(batch)' PROVE TakenOut(batch)'
    BY <1>1, <1>7, <2>2, StillInTransit, SameTakenOut DEF Transit
  <2> QED
    BY <2>1, <2>2 DEF Transit
<1> QED
  <2>1. ASSUME NEW t \in Threads, NEW p \in Packets, SendCheck(t, p)
        PROVE  UNCHANGED <<sent, mSendQueue, wire, refused>>
    BY <2>1 DEF SendCheck, history
  <2> QED
    BY <1>3, <1>4, <1>5, <1>6, <1>7, <2>1, MovingSteps

-----------------------------------------------------------------------------
\* The inductive invariant holds for a session that has just connected.
LEMMA InitIInv == Init => IInv
<1> SUFFICES ASSUME Init PROVE IInv
  OBVIOUS
<1>1. TypeOK
  <2>1. AtomicsOK
    <3>1. mPacketCount \in Int
      BY DEF Init
    <3>2. mIsConnected \in BOOLEAN /\ mSendRegistered \in BOOLEAN
      BY Zenon DEF Init
    <3> QED
      BY <3>1, <3>2 DEF AtomicsOK
  <2>2. ControlOK
    BY DEF Init, ControlOK
  <2>3. ContextOK
    BY EmptySeq, CapAssumption DEF Init, ContextOK
  <2>4. QueuesOK
    BY EmptySeq DEF Init, QueuesOK
  <2> QED
    BY <2>1, <2>2, <2>3, <2>4 DEF TypeOK
<1>2. Arguments /\ Single /\ Owned /\ Held
  BY DEF Init, Arguments, Single, Owned, Held, Pumps, PumpSteps
<1>3. Region
  BY EmptySeq DEF Init, Region, InFlightIntact
<1> QED
  BY <1>1, <1>2, <1>3 DEF IInv

\* Nothing has been sent on a session that has just connected.
LEMMA InitOrder == Init => Order /\ Counted
<1> SUFFICES ASSUME Init PROVE Order /\ Counted
  OBVIOUS
<1>1. /\ sent = [t \in Threads |-> <<>>] /\ mSendQueue = [t \in Threads |-> <<>>]
      /\ wire = <<>> /\ refused = {} /\ swapList = [t \in Threads |-> <<>>]
      /\ packet = [t \in Threads |-> None] /\ pc = [t \in Threads |-> "idle"]
      /\ rio = "none" /\ mPacketCount = 0
  BY DEF Init
<1>2. Len(<<>>) = 0 /\ \A i \in 1..Len(<<>>) : FALSE
  BY EmptySeq
<1>3. Left = {} /\ \A t \in Threads : Taken(t) = 0
  BY <1>1, <1>2 DEF Left, Taken, Stream!Elements
<1>4. Fresh /\ Emptied /\ SendOrder
  BY <1>1, <1>2 DEF Fresh, Emptied, SendOrder
<1>5. Queues
  BY <1>1, <1>2 DEF Queues
<1>6. NoGap
  BY <1>1, <1>2, <1>3 DEF NoGap
<1>7. Transit
  <2>1. TakenOut(<<>>)
    BY <1>2, <1>3, BulkAssumption DEF TakenOut, Stream!InTurn
  <2>2. \A batch \in Seq(Packets) : InTransit(batch) => batch = <<>>
    BY <1>1 DEF InTransit, Batching
  <2> QED
    BY <2>1, <2>2 DEF Transit
<1>8. Counted
  <2>1. Places(mSendQueue) = {} /\ Uncounted = {}
    BY <1>1, <1>2 DEF Places, Uncounted
  <2>2. Ahead = 0
    BY <1>1, <2>1, FS_EmptySet DEF Ahead
  <2> QED
    BY <1>1, <2>1, <2>2, FS_EmptySet DEF Counted
<1> QED
  BY <1>4, <1>5, <1>6, <1>7, <1>8 DEF Order

\* The inductive invariant holds in every reachable state.
THEOREM Invariance == Spec => []IInv
<1>1. IInv /\ [Next]_vars => IInv'
  BY TypeStep, ArgumentsStep, SingleStep, OwnedStep, HeldStep, RegionStep DEF IInv
<1> QED
  BY InitIInv, <1>1, PTL DEF Spec

\* The variables of the send path keep their types; in particular the send
\* buffer never holds more than its capacity.
THEOREM TypeCorrect == Spec => []TypeOK
<1>1. IInv => TypeOK
  BY DEF IInv
<1> QED
  BY Invariance, <1>1, PTL

\* The exchange in Send and the hand-overs of ProcessSend keep the context, the
\* buffer and the request queue entry in one hand.
THEOREM OneSender == Spec => []SingleSender
<1>1. IInv => SingleSender
  <2>1. \A t \in Pumping : t \in Threads /\ Pumps(t)
    BY DEF Pumping, Pumps
  <2> QED
    BY <2>1 DEF IInv, Single, SingleSender
<1> QED
  BY Invariance, <1>1, PTL

\* On a live session a set mSendRegistered always has an owner: the pump is
\* never wedged.
THEOREM FlagOwned == Spec => []FlagHasOwner
<1>1. IInv => FlagHasOwner
  <2>1. \A t \in Threads : Pumps(t) => t \in Pumping
    BY DEF Pumping, Pumps
  <2> QED
    BY <2>1 DEF IInv, Owned, FlagHasOwner
<1> QED
  BY Invariance, <1>1, PTL

\* While a request is in flight its context refers to the session; with none it
\* refers to it for good only after an overflow.
THEOREM ContextCorrect == Spec => []ContextHeld
<1>1. IInv => ContextHeld
  <2>1. \A t \in Threads : Pumps(t) => t \in Pumping
    BY DEF Pumping, Pumps
  <2> QED
    BY <2>1 DEF IInv, Held, ContextHeld
<1> QED
  BY Invariance, <1>1, PTL

\* The bytes of a posted request are those of its batch until it completes.
THEOREM RequestIntact == Spec => []InFlightIntact
<1>1. IInv => InFlightIntact
  BY DEF IInv, Region
<1> QED
  BY Invariance, <1>1, PTL

\* So do the order of the packets and their count.
THEOREM StreamInvariance == Spec => [](Order /\ Counted)
<1>1. IInv /\ Order /\ Counted /\ [Next]_vars => (Order /\ Counted)'
  <2>1. IInv /\ Order /\ [Next]_vars => Order'
    BY FreshStep, QueuesStep, EmptiedStep, StreamStep DEF IInv, Order
  <2>2. IInv /\ Order /\ Counted /\ [Next]_vars => Counted'
    BY CountedStep DEF IInv, Order
  <2> QED
    BY <2>1, <2>2
<1> QED
  BY InitOrder, Invariance, <1>1, PTL DEF Spec

\* The packets of one thread reach the network in the order in which it sent them,
\* and none twice: through the queue, the batches and the requests, whoever pumps.
THEOREM PacketsInOrder == Spec => []SendOrder
<1>1. Order => SendOrder
  BY DEF Order
<1> QED
  BY StreamInvariance, <1>1, PTL

\* mPacketCount accounts for every packet that waits, up to the sends under way:
\* the limit that kicks a session is compared with what is queued.
THEOREM CountCorrect == Spec => []CountAccounts
<1>1. IInv /\ Counted => CountAccounts
  <2> SUFFICES ASSUME IInv, Counted, mIsConnected PROVE CountAccounts
    BY DEF CountAccounts
  <2> DEFINE batched == {t \in Threads : pc[t] \in {"fill", "subtract"}}
             queued == Cardinality(Places(mSendQueue))
             uncounted == Cardinality(Uncounted)
             taken == IF batched = {} THEN 0 ELSE Len(swapList[CHOOSE t \in batched : TRUE])
  <2>1. mIsConnected = TRUE /\ mPacketCount \in Int
    BY DEF IInv, TypeOK, AtomicsOK
  <2>2. queued \in Nat /\ uncounted \in Nat
    BY UncountedFinite, FS_CardinalityType DEF Counted
  <2>3. mPacketCount + uncounted - queued = taken
    <3>1. CASE batched = {}
      BY <2>1, <3>1 DEF Counted, Ahead
    <3>2. CASE batched # {}
      BY <2>1, <3>2 DEF Counted, Ahead
    <3> QED
      BY <3>1, <3>2
  <2>4. taken \in Int
    BY <2>1, <2>2, <2>3
  <2> HIDE DEF queued, uncounted, taken
  <2>5. mPacketCount = queued + taken - uncounted
    BY <2>1, <2>2, <2>3, <2>4
  <2> QED
    BY <2>5 DEF CountAccounts, queued, uncounted, taken, Uncounted
<1> QED
  BY Invariance, StreamInvariance, <1>1, PTL

\* Threads, queues, batches, requests and completions together are an ordered
\* stream for each sender, from which only a refused request takes something out
\* while the session goes on sending.
THEOREM Refinement == Spec => ImplementsSendStream
<1>1. Init => Stream!Init
  BY DEF Init, Stream!Init
<1>2. IInv /\ Order /\ [Next]_vars => [Stream!Next]_(Stream!vars)
  <2> SUFFICES ASSUME IInv, Order, [Next]_vars
               PROVE  Stream!Next \/ UNCHANGED Stream!vars
    OBVIOUS
  <2>1. /\ TypeOK /\ QueuesOK /\ Arguments /\ Region
        /\ Fresh /\ Queues /\ Transit
    BY DEF IInv, TypeOK, Order
  <2>2. ASSUME NEW batch \in Seq(Packets), TakenOut(batch)
        PROVE  batch \in Stream!Batches /\ Stream!InTurn(batch)
    <3>1. Len(batch) \in Nat /\ batch \in [1..Len(batch) -> Packets] /\ Len(batch) <= BULK
      BY <2>2, LenProperties DEF TakenOut
    <3>2. Len(batch) \in 0..BULK
      BY <3>1, BulkAssumption
    <3> QED
      BY <2>2, <3>1, <3>2 DEF Stream!Batches, TakenOut
  <2>3. CASE RioSends
    <3>1. posted \in Stream!Batches /\ Stream!Transmit(posted)
      BY <2>1, <2>2, <2>3, RioSendsPosted DEF Stream!Transmit
    <3> QED
      BY <3>1 DEF Stream!Next
  <2>4. ASSUME NEW t \in Threads, PostFails(t) PROVE Stream!Next
    <3>1. swapList[t] \in Stream!Batches /\ Stream!Refuse(swapList[t])
      BY <2>1, <2>2, <2>4, PostFailsRefused DEF Stream!Refuse
    <3> QED
      BY <3>1 DEF Stream!Next
  <2>5. ASSUME NEW t \in Threads, SendEnqueue(t) PROVE Stream!Next
    <3>1. packet[t] \in Packets /\ packet[t] # None
      BY <2>1, <2>5, NoneAssumption DEF Arguments, SendEnqueue
    <3>2. \A u \in Threads : packet[t] \notin Stream!Elements(sent[u])
      BY <2>1, <3>1 DEF Fresh
    <3>3. Stream!Send(t, packet[t])
      BY <2>5, <3>2 DEF Stream!Send, SendEnqueue
    <3> QED
      BY <3>1, <3>3 DEF Stream!Next
  <2>6. ASSUME NEW t \in Threads, NEW p \in Packets, SendCheck(t, p)
        PROVE  UNCHANGED Stream!vars
    BY <2>6 DEF SendCheck, history, Stream!vars
  <2>7. ASSUME NEW t \in Threads, Dequeue(t) PROVE UNCHANGED Stream!vars
    BY <2>7 DEF Dequeue, history, Stream!vars
  <2>8. CASE UNCHANGED <<sent, mSendQueue, wire, refused, packet>>
    BY <2>8 DEF Stream!vars
  <2> QED
    BY <2>3, <2>4, <2>5, <2>6, <2>7, <2>8, MovingSteps
<1> QED
  BY Invariance, StreamInvariance, <1>1, <1>2, PTL
  DEF Spec, ImplementsSendStream, Stream!Spec

\* No packet is both transmitted and in a refused batch.
LEMMA RefusedStep ==
  ASSUME QueuesOK, Stream!Elements(wire) \cap refused = {}, [Stream!Next]_(Stream!vars)
  PROVE  (Stream!Elements(wire) \cap refused = {})'
<1>1. ASSUME NEW batch \in Stream!Batches, Stream!InTurn(batch)
      PROVE  /\ batch \in Seq(Packets)
             /\ Stream!Elements(batch) \cap (Stream!Elements(wire) \cup refused) = {}
  <2>1. batch \in Seq(Packets)
    BY BulkAssumption DEF Stream!Batches
  <2>2. \A n \in 1..Len(batch) : batch[n] \notin Stream!Elements(wire) \cup refused
    BY <1>1 DEF Stream!InTurn, Stream!Before
  <2> QED
    BY <2>1, <2>2 DEF Stream!Elements
<1>2. ASSUME NEW batch \in Stream!Batches, Stream!Transmit(batch)
      PROVE  Stream!Elements(wire') \cap refused' = {}
  <2>1. wire' = wire \o batch /\ refused' = refused /\ Stream!InTurn(batch)
    BY <1>2 DEF Stream!Transmit
  <2>2. Stream!Elements(wire') = Stream!Elements(wire) \cup Stream!Elements(batch)
    BY <1>1, <2>1, ConcatElements DEF QueuesOK
  <2> QED
    BY <1>1, <2>1, <2>2
<1>3. ASSUME NEW batch \in Stream!Batches, Stream!Refuse(batch)
      PROVE  Stream!Elements(wire') \cap refused' = {}
  BY <1>1, <1>3 DEF Stream!Refuse
<1>4. ASSUME UNCHANGED <<wire, refused>> PROVE Stream!Elements(wire') \cap refused' = {}
  BY <1>4
<1> QED
  BY <1>2, <1>3, <1>4 DEF Stream!Next, Stream!Send, Stream!vars, Stream!Elements

\* What the callers of Send rely on, in terms of states: nothing is transmitted that
\* was not sent, twice, or before an earlier packet of its thread, unless that is in
\* a batch that RIO has refused.
THEOREM PromiseKept == Spec => []Stream!Promise
<1>1. Stream!Init => Stream!Elements(wire) \cap refused = {}
  BY DEF Stream!Init
<1>2. Spec => [](Stream!Elements(wire) \cap refused = {})
  <2>1. IInv => QueuesOK
    BY DEF IInv, TypeOK
  <2> QED
    BY <1>1, <2>1, RefusedStep, Refinement, Invariance, PTL DEF ImplementsSendStream, Stream!Spec
<1>3. ASSUME IInv, Order, Stream!Elements(wire) \cap refused = {} PROVE Stream!Promise
  <2>1. QueuesOK /\ Queues /\ NoGap /\ SendOrder
    BY <1>3 DEF IInv, TypeOK, Order
  <2>2. ASSUME NEW t \in Threads
        PROVE  Taken(t) \in Nat /\ Len(sent[t]) \in Nat /\ Taken(t) <= Len(sent[t])
    BY <2>1, TakenFacts
  <2>3. ASSUME NEW e \in Left PROVE \E t \in Threads : e \in Stream!Elements(sent[t])
    <3>1. PICK t \in Threads : \E i \in 1..Taken(t) : e = sent[t][i]
      BY <2>1 DEF NoGap
    <3>2. PICK i \in 1..Taken(t) : e = sent[t][i]
      BY <3>1
    <3>3. i \in 1..Len(sent[t])
      BY <2>2
    <3> QED
      BY <3>2, <3>3 DEF Stream!Elements
  <2>4. ASSUME NEW t \in Threads, NEW k \in 1..Len(sent[t]), sent[t][k] \in Left,
               NEW i \in 1..k - 1
        PROVE  /\ sent[t][i] \in Left
               /\ \A m, n \in 1..Len(wire) :
                    wire[m] = sent[t][i] /\ wire[n] = sent[t][k] => m < n
    <3>1. i \in 1..Len(sent[t]) /\ i < k
      BY <2>2
    <3> QED
      BY <2>1, <2>4, <3>1 DEF NoGap, SendOrder
  <2>5. ASSUME NEW m \in 1..Len(wire), NEW n \in 1..Len(wire), wire[m] = wire[n]
        PROVE  m = n
    <3>1. wire[m] \in Left
      BY DEF Left, Stream!Elements
    <3>2. PICK t \in Threads : wire[m] \in Stream!Elements(sent[t])
      BY <3>1, <2>3
    <3>3. PICK i \in 1..Len(sent[t]) : wire[m] = sent[t][i]
      BY <3>2 DEF Stream!Elements
    <3>4. (m < n <=> i < i) /\ (n < m <=> i < i)
      BY <2>1, <2>5, <3>3 DEF SendOrder
    <3>5. i \in Int /\ m \in Int /\ n \in Int
      OBVIOUS
    <3> QED
      BY <3>4, <3>5
  <2> QED
    BY <1>3, <2>3, <2>4, <2>5 DEF Stream!Promise, Left
<1> QED
  BY <1>2, <1>3, Invariance, StreamInvariance, PTL
=============================================================================
