---------------------------- MODULE SessionSend ----------------------------
(***************************************************************************)
(* The send path of one NetworkSession in the RIO build: Send, called by   *)
(* any thread, RegisterSend, the RIO request it posts, and ProcessSend on  *)
(* the worker that dequeues the completion.  A packet has size 1; what it  *)
(* holds does not matter, where its bytes lie in mSendBuffer does.         *)
(*                                                                         *)
(* Every access to an atomic or to mSendQueue is a step of its own.  The   *)
(* send buffer and the context are plain memory, written in the step of    *)
(* the next such access: SingleSender says that one thread has them.       *)
(***************************************************************************)
EXTENDS Integers, Sequences, FiniteSets

CONSTANTS Threads,         \* the workers and every other thread that sends
          Packets,         \* each is sent at most once
          None,            \* no packet, no cause
          BULK,            \* BULK_DEQUEUE_COUNT
          CAP,             \* SEND_BUFFER_SIZE
          WARN,            \* WARN_SENDQUEUE_SIZE, the limit that kicks
          RioSendMayFail   \* whether RIOSend can be refused

ASSUME ThreadsAssumption == IsFiniteSet(Threads)
ASSUME NoneAssumption == None \notin Packets
ASSUME BulkAssumption == BULK \in Nat \ {0}
ASSUME CapAssumption == CAP \in Nat \ {0}
ASSUME LimitAssumption == WARN \in Nat \ {0}
ASSUME FailAssumption == RioSendMayFail \in BOOLEAN

VARIABLES
  mIsConnected, mPacketCount, mSendRegistered,  \* the atomics
  mSendQueue,   \* per thread, its stream in the moodycamel queue
  mDispatcher,  \* "self" or "null": mRioSendContext.mDispatcher
  offset,       \* mRioSendContext.Offset within the session's buffer
  length,       \* mRioSendContext.Length
  buffer,       \* mSendBuffer up to mWritePos
  mReadPos,     \* mSendBuffer.mReadPos
  rio,          \* the request: "none", "posted", "sent" or "broken"
  pc,           \* per thread: the access it makes next
  packet,       \* per thread: the argument of its Send
  swapList,     \* per thread: the local vector of RegisterSend
  peer,         \* "open" or "gone"
  cause,        \* history: what Disconnect was called for
  sent,         \* history, per thread: the packets it enqueued, in order
  posted,       \* history: the packets of the posted request
  wire,         \* history: the packets RIO has transmitted
  refused       \* history: the packets of the requests RIO has refused

bufferVars == <<offset, length, buffer, mReadPos>>
history == <<sent, posted, wire, refused>>
vars == <<mIsConnected, mPacketCount, mSendRegistered, mSendQueue, mDispatcher,
          bufferVars, rio, pc, packet, swapList, peer, cause, history>>

Causes == {"0 Bytes Recv", "0 Bytes Send", "SendBuffer Over", "SendQueue Size Over"}

\* The steps of Send, of RegisterSend and of ProcessSend.
SendSteps == {"enqueue", "count", "exchange"}
PumpSteps == {"check", "fill", "subtract", "post", "limit", "kick", "empty", "release"}

AtomicsOK ==
  /\ mIsConnected \in BOOLEAN
  /\ mPacketCount \in Int
  /\ mSendRegistered \in BOOLEAN

ContextOK ==
  /\ mDispatcher \in {"self", "null"}
  /\ offset \in 0..CAP
  /\ length \in 0..CAP
  /\ mReadPos \in 0..CAP
  /\ buffer \in Seq(Packets)
  /\ Len(buffer) <= CAP

QueuesOK ==
  /\ mSendQueue \in [Threads -> Seq(Packets)]
  /\ swapList \in [Threads -> Seq(Packets)]
  /\ sent \in [Threads -> Seq(Packets)]
  /\ posted \in Seq(Packets)
  /\ wire \in Seq(Packets)
  /\ refused \subseteq Packets

ControlOK ==
  /\ rio \in {"none", "posted", "sent", "broken"}
  /\ pc \in [Threads -> {"idle"} \cup SendSteps \cup PumpSteps]
  /\ packet \in [Threads -> Packets \cup {None}]
  /\ peer \in {"open", "gone"}
  /\ cause \in Causes \cup {None}

TypeOK == AtomicsOK /\ ContextOK /\ QueuesOK /\ ControlOK

\* ProcessConnect has set mIsConnected and acquired an empty send buffer.
Init ==
  /\ mIsConnected = TRUE
  /\ mPacketCount = 0
  /\ mSendRegistered = FALSE
  /\ mSendQueue = [t \in Threads |-> <<>>]
  /\ mDispatcher = "null"
  /\ offset = 0 /\ length = 0 /\ buffer = <<>> /\ mReadPos = 0
  /\ rio = "none"
  /\ pc = [t \in Threads |-> "idle"]
  /\ packet = [t \in Threads |-> None]
  /\ swapList = [t \in Threads |-> <<>>]
  /\ peer = "open"
  /\ cause = None
  /\ sent = [t \in Threads |-> <<>>]
  /\ posted = <<>>
  /\ wire = <<>>
  /\ refused = {}

Goto(t, step) == pc' = [pc EXCEPT ![t] = step]

-----------------------------------------------------------------------------
(* Send *)

Used(p) == \E t \in Threads : packet[t] = p \/ \E i \in 1..Len(sent[t]) : sent[t][i] = p

\* Lines 23-24.  A Send on a closed session returns at once and does nothing.
SendCheck(t, p) ==
  /\ pc[t] = "idle"
  /\ mIsConnected
  /\ ~ Used(p)
  /\ packet' = [packet EXCEPT ![t] = p]
  /\ Goto(t, "enqueue")
  /\ UNCHANGED <<mIsConnected, mPacketCount, mSendRegistered, mSendQueue,
                 mDispatcher, bufferVars, rio, swapList, peer, cause, history>>

SendEnqueue(t) ==
  /\ pc[t] = "enqueue"
  /\ mSendQueue' = [mSendQueue EXCEPT ![t] = Append(@, packet[t])]
  /\ sent' = [sent EXCEPT ![t] = Append(@, packet[t])]
  /\ packet' = [packet EXCEPT ![t] = None]
  /\ Goto(t, "count")
  /\ UNCHANGED <<mIsConnected, mPacketCount, mSendRegistered, mDispatcher,
                 bufferVars, rio, swapList, peer, cause, posted, wire, refused>>

SendCount(t) ==
  /\ pc[t] = "count"
  /\ mPacketCount' = mPacketCount + 1
  /\ Goto(t, "exchange")
  /\ UNCHANGED <<mIsConnected, mSendRegistered, mSendQueue, mDispatcher,
                 bufferVars, rio, packet, swapList, peer, cause, history>>

\* A variant that ignores what the exchange returned.
SendRegistersAlways(t) ==
  /\ pc[t] = "exchange"
  /\ mSendRegistered' = TRUE
  /\ Goto(t, "check")
  /\ UNCHANGED <<mIsConnected, mPacketCount, mSendQueue, mDispatcher,
                 bufferVars, rio, packet, swapList, peer, cause, history>>

\* Lines 30-35: mSendRegistered.exchange(true); who finds FALSE registers.
SendExchange(t) ==
  /\ pc[t] = "exchange"
  /\ mSendRegistered' = TRUE
  /\ Goto(t, IF mSendRegistered THEN "idle" ELSE "check")
  /\ UNCHANGED <<mIsConnected, mPacketCount, mSendQueue, mDispatcher,
                 bufferVars, rio, packet, swapList, peer, cause, history>>

-----------------------------------------------------------------------------
(* Disconnect: the first caller's cause is the one that counts. *)

Disconnect(why) ==
  /\ mIsConnected' = FALSE
  /\ cause' = IF mIsConnected THEN why ELSE cause

-----------------------------------------------------------------------------
(* RegisterSend *)

\* A variant that takes the start of the buffer for the write position.
BufferStart == 0

\* NetworkBuffer::WriteOffset.
WriteOffset == Len(buffer)

\* Line 294 and, if connected, 298-301.
RegisterClosed(t) ==
  /\ pc[t] = "check"
  /\ ~ mIsConnected
  /\ Goto(t, "idle")
  /\ UNCHANGED <<mIsConnected, mPacketCount, mSendRegistered, mSendQueue,
                 mDispatcher, bufferVars, rio, packet, swapList, peer, cause,
                 history>>

RegisterSend(t) ==
  /\ pc[t] = "check"
  /\ mIsConnected
  /\ mDispatcher' = "self"
  /\ offset' = WriteOffset
  /\ length' = 0
  /\ Goto(t, "fill")
  /\ UNCHANGED <<mIsConnected, mPacketCount, mSendRegistered, mSendQueue,
                 buffer, mReadPos, rio, packet, swapList, peer, cause, history>>

\* Lines 302-303: the bulk dequeue takes the head of some thread's stream.
Dequeue(t) ==
  /\ pc[t] = "fill"
  /\ Len(swapList[t]) < BULK
  /\ \E s \in Threads :
       /\ mSendQueue[s] # <<>>
       /\ swapList' = [swapList EXCEPT ![t] = Append(@, Head(mSendQueue[s]))]
       /\ mSendQueue' = [mSendQueue EXCEPT ![s] = Tail(@)]
  /\ UNCHANGED <<mIsConnected, mPacketCount, mSendRegistered, mDispatcher,
                 bufferVars, rio, pc, packet, peer, cause, history>>

DequeueEnds(t) ==
  /\ pc[t] = "fill"
  /\ \/ Len(swapList[t]) = BULK
     \/ \A s \in Threads : mSendQueue[s] = <<>>

Fits(t) == Len(swapList[t]) <= CAP - Len(buffer)

\* Lines 305-319, every packet finds room.
CopyPackets(t) ==
  /\ DequeueEnds(t)
  /\ Fits(t)
  /\ buffer' = buffer \o swapList[t]
  /\ length' = length + Len(swapList[t])
  /\ Goto(t, "subtract")
  /\ UNCHANGED <<mIsConnected, mPacketCount, mSendRegistered, mSendQueue,
                 mDispatcher, offset, mReadPos, rio, packet, swapList, peer,
                 cause, history>>

\* Lines 309-314: no room for the next packet.  What was copied stays in the
\* buffer, the batch is dropped, the context keeps its dispatcher.
CopyOverflows(t) ==
  LET room == CAP - Len(buffer)
  IN  /\ DequeueEnds(t)
      /\ ~ Fits(t)
      /\ buffer' = buffer \o SubSeq(swapList[t], 1, room)
      /\ length' = length + room
      /\ Disconnect("SendBuffer Over")
      /\ swapList' = [swapList EXCEPT ![t] = <<>>]
      /\ Goto(t, "idle")
      /\ UNCHANGED <<mPacketCount, mSendRegistered, mSendQueue, mDispatcher,
                     offset, mReadPos, rio, packet, peer, history>>

\* A variant that subtracts the batch's limit, not its size.
SubtractBulk(t) ==
  /\ pc[t] = "subtract"
  /\ mPacketCount' = mPacketCount - BULK
  /\ Goto(t, "post")
  /\ UNCHANGED <<mIsConnected, mSendRegistered, mSendQueue, mDispatcher,
                 bufferVars, rio, packet, swapList, peer, cause, history>>

SubtractPackets(t) ==
  /\ pc[t] = "subtract"
  /\ mPacketCount' = mPacketCount - Len(swapList[t])
  /\ Goto(t, "post")
  /\ UNCHANGED <<mIsConnected, mSendRegistered, mSendQueue, mDispatcher,
                 bufferVars, rio, packet, swapList, peer, cause, history>>

\* Lines 324-325, RIOSend takes the request.
PostSend(t) ==
  /\ pc[t] = "post"
  /\ rio' = "posted"
  /\ posted' = swapList[t]
  /\ swapList' = [swapList EXCEPT ![t] = <<>>]
  /\ Goto(t, "idle")
  /\ UNCHANGED <<mIsConnected, mPacketCount, mSendRegistered, mSendQueue,
                 mDispatcher, bufferVars, packet, peer, cause, sent, wire,
                 refused>>

\* A variant that leaves the dispatcher in the context.
PostFailsReferring(t) ==
  /\ RioSendMayFail
  /\ pc[t] = "post"
  /\ refused' = refused \cup {swapList[t][i] : i \in 1..Len(swapList[t])}
  /\ swapList' = [swapList EXCEPT ![t] = <<>>]
  /\ Goto(t, "release")
  /\ UNCHANGED <<mIsConnected, mPacketCount, mSendRegistered, mSendQueue,
                 mDispatcher, bufferVars, rio, packet, peer, cause, sent,
                 posted, wire>>

\* A variant that does not clear mSendRegistered.
PostFailsUnreleased(t) ==
  /\ RioSendMayFail
  /\ pc[t] = "post"
  /\ mDispatcher' = "null"
  /\ refused' = refused \cup {swapList[t][i] : i \in 1..Len(swapList[t])}
  /\ swapList' = [swapList EXCEPT ![t] = <<>>]
  /\ Goto(t, "idle")
  /\ UNCHANGED <<mIsConnected, mPacketCount, mSendRegistered, mSendQueue,
                 bufferVars, rio, packet, peer, cause, sent,
                 posted, wire>>

\* Lines 325-332, RIOSend refuses it; HandleError does nothing.
PostFails(t) ==
  /\ RioSendMayFail
  /\ pc[t] = "post"
  /\ mDispatcher' = "null"
  /\ refused' = refused \cup {swapList[t][i] : i \in 1..Len(swapList[t])}
  /\ swapList' = [swapList EXCEPT ![t] = <<>>]
  /\ Goto(t, "release")
  /\ UNCHANGED <<mIsConnected, mPacketCount, mSendRegistered, mSendQueue,
                 bufferVars, rio, packet, peer, cause, sent,
                 posted, wire>>

-----------------------------------------------------------------------------
(* Windows: the request completes in full, or with 0 bytes on a dead link. *)

RioSends ==
  /\ rio = "posted"
  /\ rio' = "sent"
  /\ wire' = wire \o SubSeq(buffer, offset + 1, offset + length)
  /\ UNCHANGED <<mIsConnected, mPacketCount, mSendRegistered, mSendQueue,
                 mDispatcher, bufferVars, pc, packet, swapList, peer, cause,
                 sent, posted, refused>>

RioBreaks ==
  /\ rio = "posted"
  /\ peer = "gone" \/ ~ mIsConnected
  /\ rio' = "broken"
  /\ UNCHANGED <<mIsConnected, mPacketCount, mSendRegistered, mSendQueue,
                 mDispatcher, bufferVars, pc, packet, swapList, peer, cause,
                 history>>

PeerGoes ==
  /\ peer = "open"
  /\ peer' = "gone"
  /\ UNCHANGED <<mIsConnected, mPacketCount, mSendRegistered, mSendQueue,
                 mDispatcher, bufferVars, rio, pc, packet, swapList, cause,
                 history>>

\* ProcessRecv, lines 416-420: the pending receive ends with 0 bytes.
RecvEnds(t) ==
  /\ pc[t] = "idle"
  /\ peer = "gone"
  /\ mIsConnected
  /\ Disconnect("0 Bytes Recv")
  /\ UNCHANGED <<mPacketCount, mSendRegistered, mSendQueue, mDispatcher,
                 bufferVars, rio, pc, packet, swapList, peer, history>>

-----------------------------------------------------------------------------
(* ProcessSend *)

\* NetworkBuffer::OnRead and NetworkBuffer::Clean.
OnReadClean(numOfBytes) ==
  LET read == IF numOfBytes > Len(buffer) - mReadPos
              THEN mReadPos ELSE mReadPos + numOfBytes
      data == SubSeq(buffer, read + 1, Len(buffer))
      moves == data = <<>> \/ CAP - Len(buffer) < CAP \div 2
  IN  /\ buffer' = IF moves THEN data ELSE buffer
      /\ mReadPos' = IF moves THEN 0 ELSE read

\* Lines 449-462; with 0 bytes (a failed request or an empty one) 456-460.
ProcessSend(t) ==
  /\ pc[t] = "idle"
  /\ rio = "sent"
  /\ length > 0
  /\ OnReadClean(length)
  /\ mDispatcher' = "null"
  /\ rio' = "none"
  /\ Goto(t, "limit")
  /\ UNCHANGED <<mIsConnected, mPacketCount, mSendRegistered, mSendQueue,
                 offset, length, packet, swapList, peer, cause, history>>

\* A variant that goes on as after a request that was sent.
ProcessSendZeroGoesOn(t) ==
  /\ pc[t] = "idle"
  /\ rio = "broken" \/ (rio = "sent" /\ length = 0)
  /\ OnReadClean(0)
  /\ mDispatcher' = "null"
  /\ rio' = "none"
  /\ Goto(t, "limit")
  /\ UNCHANGED <<mIsConnected, mPacketCount, mSendRegistered, mSendQueue, offset,
                 length, packet, swapList, peer, cause, history>>

ProcessSendZero(t) ==
  /\ pc[t] = "idle"
  /\ rio = "broken" \/ (rio = "sent" /\ length = 0)
  /\ OnReadClean(0)
  /\ mDispatcher' = "null"
  /\ rio' = "none"
  /\ Disconnect("0 Bytes Send")
  /\ UNCHANGED <<mPacketCount, mSendRegistered, mSendQueue, offset, length, pc,
                 packet, swapList, peer, history>>

\* Line 466 compares with WARN_SENDQUEUE_SIZE.
CheckLimit(t) ==
  /\ pc[t] = "limit"
  /\ Goto(t, IF mPacketCount >= WARN THEN "kick" ELSE "empty")
  /\ UNCHANGED <<mIsConnected, mPacketCount, mSendRegistered, mSendQueue,
                 mDispatcher, bufferVars, rio, packet, swapList, peer, cause,
                 history>>

KickSession(t) ==
  /\ pc[t] = "kick"
  /\ Disconnect("SendQueue Size Over")
  /\ Goto(t, "idle")
  /\ UNCHANGED <<mPacketCount, mSendRegistered, mSendQueue, mDispatcher,
                 bufferVars, rio, packet, swapList, peer, history>>

\* A variant that leaves a queue that is not empty to the next Send.
CheckEmptyOnly(t) ==
  /\ pc[t] = "empty"
  /\ Goto(t, IF mPacketCount <= 0 THEN "release" ELSE "idle")
  /\ UNCHANGED <<mIsConnected, mPacketCount, mSendRegistered, mSendQueue,
                 mDispatcher, bufferVars, rio, packet, swapList, peer, cause,
                 history>>

\* Line 472 reads the count, line 473 or 475 acts on it.
CheckEmpty(t) ==
  /\ pc[t] = "empty"
  /\ Goto(t, IF mPacketCount <= 0 THEN "release" ELSE "check")
  /\ UNCHANGED <<mIsConnected, mPacketCount, mSendRegistered, mSendQueue,
                 mDispatcher, bufferVars, rio, packet, swapList, peer, cause,
                 history>>

\* mSendRegistered.store(false), lines 332 and 473.
Release(t) ==
  /\ pc[t] = "release"
  /\ mSendRegistered' = FALSE
  /\ Goto(t, "idle")
  /\ UNCHANGED <<mIsConnected, mPacketCount, mSendQueue, mDispatcher,
                 bufferVars, rio, packet, swapList, peer, cause, history>>

-----------------------------------------------------------------------------
SendStep(t) == SendEnqueue(t) \/ SendCount(t) \/ SendExchange(t)

RegisterStep(t) ==
  \/ RegisterClosed(t) \/ RegisterSend(t) \/ Dequeue(t) \/ CopyPackets(t)
  \/ CopyOverflows(t) \/ SubtractPackets(t) \/ PostSend(t) \/ PostFails(t)

ProcessStep(t) ==
  \/ ProcessSend(t) \/ ProcessSendZero(t) \/ CheckLimit(t) \/ KickSession(t)
  \/ CheckEmpty(t) \/ Release(t)

Next ==
  \/ \E t \in Threads, p \in Packets : SendCheck(t, p)
  \/ \E t \in Threads : SendStep(t) \/ RegisterStep(t) \/ ProcessStep(t)
  \/ \E t \in Threads : RecvEnds(t)
  \/ RioSends \/ RioBreaks \/ PeerGoes

Spec == Init /\ [][Next]_vars

\* Every thread runs, every posted request completes, and some worker
\* dequeues the completion.
FairSpec ==
  /\ Spec
  /\ \A t \in Threads : WF_vars(SendStep(t) \/ RegisterStep(t) \/ ProcessStep(t))
  /\ WF_vars(RioSends \/ RioBreaks)

-----------------------------------------------------------------------------
(* Correctness *)

\* The threads between winning mSendRegistered and giving it up.
Pumping == {t \in Threads : pc[t] \in PumpSteps}

\* One thread at a time fills the context and the buffer, never while a
\* request that uses them is in flight, and mSendRegistered is set meanwhile.
SingleSender ==
  /\ \A t, u \in Pumping : t = u
  /\ Pumping # {} => rio = "none"
  /\ Pumping # {} \/ rio # "none" => mSendRegistered

\* While the session is up, a set mSendRegistered has somebody behind it who
\* will send the queue or clear the flag; without one no Send would ever
\* reach the network again.
FlagHasOwner == mSendRegistered /\ mIsConnected => Pumping # {} \/ rio # "none"

\* The bytes RIO reads are the packets the request was posted for, whatever
\* earlier failed requests left in the buffer.
InFlightIntact ==
  rio = "posted" => SubSeq(buffer, offset + 1, offset + length) = posted

\* The completion of a request finds its session by the context's dispatcher,
\* which must stay set while the request is in flight.  With no request it is
\* set for good only in a session that an overflow of the buffer has closed.
ContextHeld ==
  /\ rio # "none" => mDispatcher = "self"
  /\ mDispatcher = "self" /\ rio = "none" /\ Pumping = {} =>
       ~ mIsConnected /\ mSendRegistered

\* The packets of one thread reach the network in the order it sent them and
\* none twice, across batches, refused requests and hand-overs of the pump.
SendOrder ==
  \A t \in Threads : \A i, k \in 1..Len(sent[t]) : \A m, n \in 1..Len(wire) :
    wire[m] = sent[t][i] /\ wire[n] = sent[t][k] => (m < n <=> i < k)

\* The places that are taken in the threads' queues.
Places(queues) == UNION {{<<t, i>> : i \in 1..Len(queues[t])} : t \in Threads}

\* mPacketCount is the number of packets queued or in a batch not subtracted
\* yet, less those a Send has enqueued and not counted: it may go below 0.
CountAccounts ==
  LET batched == {t \in Threads : pc[t] \in {"fill", "subtract"}}
      uncounted == {t \in Threads : pc[t] = "count"}
      taken == IF batched = {} THEN 0 ELSE Len(swapList[CHOOSE t \in batched : TRUE])
  IN  mIsConnected =>
        mPacketCount = Cardinality(Places(mSendQueue)) + taken - Cardinality(uncounted)

\* What the callers see of the session is SendStream: a batch is lost without a
\* trace only with the session, or where RIOSend refuses it.
Stream == INSTANCE SendStream
ImplementsSendStream == Stream!Spec

\* The pump stops: again and again nobody holds mSendRegistered, or the
\* session is closed.
PumpSettles == []<>(~ mSendRegistered \/ ~ mIsConnected)

-----------------------------------------------------------------------------
(* What the repository says of the send path and the code does not do. *)

Queued(p) == \E t \in Threads : \E i \in 1..Len(mSendQueue[t]) : mSendQueue[t][i] = p

\* README.md:4 and README.md:14-15 present the send queue as the means to low
\* latency: a packet a caller has sent leaves the queue, if the link stays up,
\* whether or not somebody sends another one.
EveryPacketLeaves ==
  \A p \in Packets :
    Queued(p) ~> ~ Queued(p) \/ ~ mIsConnected \/ peer = "gone"

\* NetworkSession.cpp:456-458 takes a completion with 0 bytes for a dead link:
\* a session is closed for one only when the peer is gone.
ZeroBytesMeansDeadLink == cause = "0 Bytes Send" => peer = "gone"
=============================================================================
