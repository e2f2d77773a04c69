------------------------------- MODULE Receive -------------------------------
(***************************************************************************)
(* The receive path.  A session has one receive request, whose completion  *)
(* goes to the RIO completion queue that all sessions share                *)
(* (NetworkSession.cpp:90: GetSessionID is not set yet, so the first queue *)
(* serves them all).  RIONotify arms one notification, which the I/O port  *)
(* hands to one worker; it dequeues, arms the next, and processes what it  *)
(* dequeued while other workers do the same.                               *)
(*                                                                         *)
(* The bytes of a peer are numbered 1, 2, ...; a buffer cell holds the     *)
(* number of the byte in it.                                               *)
(***************************************************************************)
EXTENDS Integers, Sequences, FiniteSets

CONSTANTS Sessions, Workers, None,
          Capacity,  \* of a receive buffer, RECV_BUFFER_SIZE
          HEADER,    \* sizeof(PacketHeader)
          BATCH,     \* RIO_DISPATCH_RESULT_COUNT
          COUNT,     \* packets a peer sends (bound of the model)
          Cuts       \* per session: the ways its stream may be cut into packets

ASSUME SizeAssumption ==
  /\ Capacity \in Nat \ {0, 1} /\ HEADER \in 1 .. Capacity /\ BATCH \in Nat \ {0}
  /\ COUNT \in Nat \ {0}

\* A packet has any size, 0 included, after which no other begins.
ASSUME CutAssumption ==
  \A s \in Sessions : \A c \in Cuts[s] :
    /\ c \in [0 .. COUNT -> Nat] /\ c[0] = 0
    /\ \A j, k \in 0 .. COUNT : j < k => c[j] <= c[k]
    /\ \A j, k \in 1 .. COUNT : j < k /\ c[j - 1] = c[j] => c[j] = c[k]

ASSUME NoneAssumption ==
  None \notin Workers \cup [offset : 0 .. Capacity, length : 0 .. Capacity]

VARIABLES
  cut,          \* the packets of each peer, see PacketStream
  received,     \* bytes of the peer that have reached the buffer
  request,      \* the receive request RIO holds, or None
  queue,        \* the completion queue
  notify,       \* the notification: "armed", "queued" in the port, or "taken"
  pc,           \* per worker
  results,      \* per worker: the completions it has still to process
  mIsConnected,
  refused,      \* history: the sessions whose receive RIO has refused
  mBuffer, mReadPos, mWritePos, processLen,
  given         \* history: what OnRecvPacket was given

rio == <<received, request, queue, notify>>
buffer == <<mBuffer, mReadPos, mWritePos, processLen>>
vars == <<cut, rio, pc, results, mIsConnected, refused, buffer, given>>

Stream == INSTANCE PacketStream

Completions == [session : Sessions, bytes : Nat]
Cells == 0 .. Capacity - 1

TypeOK ==
  /\ cut \in [Sessions -> [0 .. COUNT -> Nat]]
  /\ received \in [Sessions -> Nat]
  /\ request \in [Sessions -> [offset : 0 .. Capacity, length : 0 .. Capacity] \cup {None}]
  /\ queue \in Seq(Completions)
  /\ notify \in {"armed", "queued", "taken"}
  /\ pc \in [Workers -> {"io", "notify", "results", "parse"}]
  /\ results \in [Workers -> Seq(Completions)]
  /\ mIsConnected \in [Sessions -> BOOLEAN] /\ refused \subseteq Sessions
  /\ mBuffer \in [Sessions -> [Cells -> Nat]]
  /\ mReadPos \in [Sessions -> Nat] /\ mWritePos \in [Sessions -> 0 .. Capacity]
  /\ processLen \in [Sessions -> Nat]
  /\ \A s \in Sessions : mReadPos[s] + processLen[s] <= mWritePos[s]
  /\ given \in [Sessions -> Seq(Nat \X Nat)]

Size(s, k) == cut[s][k] - cut[s][k - 1]

\* Every session has posted its first receive request (ProcessConnect).
Init ==
  /\ cut \in [Sessions -> UNION {Cuts[s] : s \in Sessions}]
  /\ \A s \in Sessions : cut[s] \in Cuts[s]
  /\ received = [s \in Sessions |-> 0]
  /\ request = [s \in Sessions |-> [offset |-> 0, length |-> Capacity]]
  /\ queue = <<>> /\ notify = "armed"
  /\ pc = [w \in Workers |-> "io"] /\ results = [w \in Workers |-> <<>>]
  /\ mIsConnected = [s \in Sessions |-> TRUE] /\ refused = {}
  /\ mBuffer = [s \in Sessions |-> [i \in Cells |-> 0]]
  /\ mReadPos = [s \in Sessions |-> 0]
  /\ mWritePos = [s \in Sessions |-> 0]
  /\ processLen = [s \in Sessions |-> 0]
  /\ given = [s \in Sessions |-> <<>>]

DataSize(s) == mWritePos[s] - mReadPos[s]
FreeSize(s) == Capacity - mWritePos[s]
Goto(w, step) == pc' = [pc EXCEPT ![w] = step]

-----------------------------------------------------------------------------
(* RIO, the peer, and the rest of the server *)

\* The request is over: its completion enters the queue, and the notification,
\* if it is armed, the port.
Complete(s, bytes) ==
  /\ queue' = Append(queue, [session |-> s, bytes |-> bytes])
  /\ notify' = IF notify = "armed" THEN "queued" ELSE notify
  /\ request' = [request EXCEPT ![s] = None]

\* Some of the bytes the peer has sent reach the buffer.
Arrive(s) ==
  /\ request[s] # None
  /\ \E n \in 1 .. request[s].length :
       /\ Stream!Sends(s, received[s] + n)
       /\ mBuffer' = [mBuffer EXCEPT ![s] =
            [i \in Cells |-> IF i - request[s].offset \in 0 .. n - 1
                             THEN received[s] + 1 + i - request[s].offset ELSE @[i]]]
       /\ received' = [received EXCEPT ![s] = @ + n]
       /\ Complete(s, n)
  /\ UNCHANGED <<refused, cut, pc, results, mIsConnected, mReadPos, mWritePos, processLen, given>>

\* The link ends, or DisconnectEx cancels the request, or a request for 0 bytes,
\* made when there was no room, completes because the peer sends more.
LinkEnds(s) ==
  /\ request[s] # None
  /\ Complete(s, 0)
  /\ UNCHANGED <<refused, cut, received, pc, results, mIsConnected, buffer, given>>

\* Somebody else closes the session, the send path for one.
Disconnect(s) ==
  /\ mIsConnected[s]
  /\ mIsConnected' = [mIsConnected EXCEPT ![s] = FALSE]
  /\ UNCHANGED <<refused, cut, rio, pc, results, buffer, given>>

-----------------------------------------------------------------------------
(* IocpHandler::ProcessDispatch, Service::Dispatch *)

\* A variant that arms the notification before it dequeues.
DispatchArmedFirst(w) ==
  /\ pc[w] = "io" /\ notify = "queued"
  /\ results' = [results EXCEPT ![w] = SubSeq(queue, 1, 1)]
  /\ queue' = SubSeq(queue, 2, Len(queue))
  /\ notify' = "queued"
  /\ Goto(w, "notify")
  /\ UNCHANGED <<refused, cut, received, request, mIsConnected, buffer, given>>

\* The notification, and RIODequeueCompletion, which yields at most BATCH
\* results.  Nobody else dequeues in between.
ProcessDispatch(w) ==
  /\ pc[w] = "io" /\ notify = "queued"
  /\ \E n \in 0 .. BATCH :
       /\ n <= Len(queue) /\ (n = 0 => queue = <<>>)
       /\ results' = [results EXCEPT ![w] = SubSeq(queue, 1, n)]
       /\ queue' = SubSeq(queue, n + 1, Len(queue))
  /\ notify' = "taken"
  /\ Goto(w, "notify")
  /\ UNCHANGED <<refused, cut, received, request, mIsConnected, buffer, given>>

\* RIONotify: if a completion is there already, the notification comes at once.
Notify(w) ==
  /\ pc[w] = "notify"
  /\ notify' = IF queue = <<>> THEN "armed" ELSE "queued"
  /\ Goto(w, IF results[w] = <<>> THEN "io" ELSE "results")
  /\ UNCHANGED <<refused, cut, received, request, queue, results, mIsConnected, buffer, given>>

\* A variant that leaves the loop after one result.
FirstResultOnly(w) ==
  /\ results' = [results EXCEPT ![w] = <<>>]
  /\ Goto(w, "io")

\* The next turn of the loop of line 38.
NextResult(w) ==
  /\ results' = [results EXCEPT ![w] = Tail(@)]
  /\ Goto(w, IF Len(results[w]) = 1 THEN "io" ELSE "results")

-----------------------------------------------------------------------------
(* NetworkSession::ProcessRecv, PacketSession::OnRecv *)

\* A variant that returns without Disconnect.
ProcessRecvIgnores(w) ==
  /\ pc[w] = "results"
  /\ Head(results[w]).bytes = 0
  /\ NextResult(w)
  /\ UNCHANGED <<refused, cut, rio, mIsConnected, buffer, given>>

\* 0 bytes, or more than the buffer has room for: lines 416-432.
ProcessRecvFails(w) ==
  /\ pc[w] = "results"
  /\ LET s == Head(results[w]).session
         numOfBytes == Head(results[w]).bytes IN
       /\ numOfBytes = 0 \/ numOfBytes > FreeSize(s)
       /\ mIsConnected' = [mIsConnected EXCEPT ![s] = FALSE]
  /\ NextResult(w)
  /\ UNCHANGED <<refused, cut, rio, buffer, given>>

\* OnWrite, and the beginning of OnRecv.
ProcessRecv(w) ==
  /\ pc[w] = "results"
  /\ LET s == Head(results[w]).session
         numOfBytes == Head(results[w]).bytes IN
       /\ numOfBytes \in 1 .. FreeSize(s)
       /\ mWritePos' = [mWritePos EXCEPT ![s] = @ + numOfBytes]
       /\ processLen' = [processLen EXCEPT ![s] = 0]
  /\ Goto(w, "parse")
  /\ UNCHANGED <<refused, cut, rio, results, mIsConnected, mBuffer, mReadPos, given>>

\* The number of the byte at processLen.
Here(s) == mBuffer[s][mReadPos[s] + processLen[s]]

\* header.size; what is read where no packet begins may be any number.  Packets that
\* begin at the same byte have the size 0.
HeaderSizes(s) ==
  LET starts == {k \in 1 .. COUNT : cut[s][k - 1] + 1 = Here(s)} IN
    IF starts = {} THEN 0 .. Capacity ELSE {Size(s, k) : k \in starts}

\* A call that repeats the last one, which the size 0 makes for ever, is recorded once.
Record(s, call) ==
  given' = IF given[s] # <<>> /\ given[s][Len(given[s])] = call THEN given
           ELSE [given EXCEPT ![s] = Append(@, call)]

\* A variant that looks at the header only.
OnRecvHeader(w) ==
  /\ pc[w] = "parse"
  /\ LET s == Head(results[w]).session IN
       /\ DataSize(s) - processLen[s] >= HEADER
       /\ \E size \in HeaderSizes(s) :
            /\ Record(s, <<Here(s), size>>)
            /\ processLen' = [processLen EXCEPT ![s] = @ + size]
  /\ UNCHANGED <<refused, cut, rio, pc, results, mIsConnected, mBuffer, mReadPos, mWritePos>>

\* A turn of the loop of line 17: the packet is complete.  Size 0 changes nothing, and
\* the worker never leaves the loop.
OnRecvPacket(w) ==
  /\ pc[w] = "parse"
  /\ LET s == Head(results[w]).session
         dataSize == DataSize(s) - processLen[s] IN
       /\ dataSize >= HEADER
       /\ \E size \in HeaderSizes(s) :
            /\ dataSize >= size
            /\ Record(s, <<Here(s), size>>)
            /\ processLen' = [processLen EXCEPT ![s] = @ + size]
  /\ UNCHANGED <<refused, cut, rio, pc, results, mIsConnected, mBuffer, mReadPos, mWritePos>>

\* A variant: a memcpy that begins with the last byte.
MoveBackwards(s, from) ==
  LET n == mWritePos[s] - from
      source(i) == i + from * ((n - 1 - i) \div from + 1) IN
    mBuffer' = [mBuffer EXCEPT ![s] =
      [i \in Cells |-> IF from > 0 /\ i < n THEN @[source(i)] ELSE @[i]]]

\* memcpy to a lower address.  The ranges may overlap; memcpy of the VC++
\* runtime moves such bytes correctly.
MoveToFront(s, from) ==
  mBuffer' = [mBuffer EXCEPT ![s] =
    [i \in Cells |-> IF i < mWritePos[s] - from THEN @[from + i] ELSE @[i]]]

\* A variant that resets an empty buffer and never moves bytes.
CleanEmptyOnly(s, read) ==
  LET empty == mWritePos[s] = read IN
    /\ mReadPos' = [mReadPos EXCEPT ![s] = IF empty THEN 0 ELSE read]
    /\ mWritePos' = [mWritePos EXCEPT ![s] = IF empty THEN 0 ELSE @]
    /\ UNCHANGED mBuffer

\* NetworkBuffer::Clean after OnRead: the unread bytes begin at cell read.
Clean(s, read) ==
  LET dataSize == mWritePos[s] - read
      move == dataSize # 0 /\ FreeSize(s) < Capacity \div 2 IN
    /\ IF move THEN MoveToFront(s, read) ELSE UNCHANGED mBuffer
    /\ mReadPos' = [mReadPos EXCEPT ![s] = IF dataSize = 0 \/ move THEN 0 ELSE read]
    /\ mWritePos' = [mWritePos EXCEPT ![s] =
                       IF dataSize = 0 \/ move THEN dataSize ELSE @]

\* Lines 264-270: RIOReceive may refuse, and nothing is done about it.
RegisterRecv(s) ==
  \/ /\ mIsConnected[s]
     /\ request' = [request EXCEPT ![s] =
          [offset |-> mWritePos'[s], length |-> Capacity - mWritePos'[s]]]
     /\ UNCHANGED refused
  \/ mIsConnected[s] /\ refused' = refused \cup {s} /\ UNCHANGED request
  \/ ~ mIsConnected[s] /\ UNCHANGED <<request, refused>>

\* No complete packet is left: OnRead, Clean, RegisterRecv.
FinishRecv(w) ==
  /\ pc[w] = "parse"
  /\ LET s == Head(results[w]).session
         dataSize == DataSize(s) - processLen[s] IN
       /\ dataSize >= HEADER => \E size \in HeaderSizes(s) : dataSize < size
       /\ processLen' = [processLen EXCEPT ![s] = 0]
       /\ Clean(s, mReadPos[s] + processLen[s])
       /\ RegisterRecv(s)
  /\ NextResult(w)
  /\ UNCHANGED <<cut, received, queue, notify, mIsConnected, given>>

-----------------------------------------------------------------------------
WorkerStep(w) ==
  \/ Notify(w) \/ ProcessRecvFails(w) \/ ProcessRecv(w) \/ OnRecvPacket(w) \/ FinishRecv(w)

Next ==
  \/ \E s \in Sessions : Arrive(s) \/ LinkEnds(s) \/ Disconnect(s)
  \/ \E w \in Workers : ProcessDispatch(w) \/ WorkerStep(w)

Spec == Init /\ [][Next]_vars

\* The workers run, one of them is woken by a notification, and handlers return.
\* Nothing is asked of the peers, of the network or of RIO.
FairSpec ==
  /\ Spec
  /\ WF_vars(\E w \in Workers : ProcessDispatch(w))
  /\ \A w \in Workers : WF_vars(WorkerStep(w))

-----------------------------------------------------------------------------
(* Correctness *)

\* The completions of s that have not been processed to the end.
Pending(s) ==
  {<<None, i>> : i \in {i \in 1 .. Len(queue) : queue[i].session = s}}
  \cup UNION {{<<w, i>> : i \in {i \in 1 .. Len(results[w]) : results[w][i].session = s}}
               : w \in Workers}

\* A session's receive is with RIO or with one worker at a time: its packets
\* cannot be parsed by two workers side by side although completions are
\* processed in parallel, and a connected session listens unless RIO has refused
\* its receive.
OneReceive ==
  \A s \in Sessions :
    /\ request[s] # None => Pending(s) = {}
    /\ \A p, q \in Pending(s) : p = q
    /\ mIsConnected[s] /\ s \notin refused => request[s] # None \/ Pending(s) # {}

\* The notification is in one place: only the worker that took it dequeues, it
\* finds a completion, and no completion waits with nobody to be told of it.
CompletionsAnnounced ==
  /\ \A v, w \in Workers : pc[v] = "notify" /\ pc[w] = "notify" => v = w
  /\ (notify = "taken") <=> \E w \in Workers : pc[w] = "notify"
  /\ \A w \in Workers : pc[w] = "notify" => results[w] # <<>>
  /\ notify = "armed" => queue = <<>>

\* The bytes between the read and the write position are the next bytes of the
\* stream, whatever OnWrite, OnRead and Clean did.
StreamKept ==
  \A s \in Sessions :
    /\ DataSize(s) <= received[s]
    /\ request[s] # None =>
         \A i \in 0 .. DataSize(s) - 1 :
           mBuffer[s][mReadPos[s] + i] = received[s] - DataSize(s) + 1 + i

\* The packet under way always finds room: a receive asks for no bytes only if
\* the packet is larger than the buffer.
RoomForPacket ==
  \A s \in Sessions :
    request[s] # None /\ request[s].length = 0 =>
      Size(s, Len(given[s]) + 1) > Capacity

\* OnRecvPacket gets the packets of the stream, in order, once, as they were cut.
ImplementsPacketStream == Stream!Spec

\* The worker parses a packet of size 0, and will for ever.
Hangs(w) ==
  LET sent == given[Head(results[w]).session]
  IN  pc[w] = "parse" /\ sent # <<>> /\ sent[Len(sent)][2] = 0

\* The completion of s is behind such a packet of its batch, or no worker is left.
Stuck(s) ==
  \/ \E w \in Workers : Hangs(w) /\ \E i \in 1 .. Len(results[w]) : results[w][i].session = s
  \/ \A w \in Workers : Hangs(w)

CaughtUp(s) ==
  \A k \in 1 .. COUNT : Stream!Whole(s, k) => Len(given[s]) >= k

\* Every packet whose last byte has arrived is handled, whatever else happens to
\* its session: again and again OnRecvPacket has caught up with the peer, unless
\* a packet of size 0, of any session, holds up its worker.
EveryPacketHandled == \A s \in Sessions : []<>(CaughtUp(s) \/ Stuck(s))

\* A receive that completed with 0 bytes, because the link has ended or the buffer
\* had no room for the packet under way, closes its session, and only a hanging
\* worker can prevent it.
ZeroBytesCloses ==
  \A s \in Sessions :
    (\E i \in 1 .. Len(queue) : queue[i] = [session |-> s, bytes |-> 0])
      ~> ~ mIsConnected[s] \/ Stuck(s)
=============================================================================
