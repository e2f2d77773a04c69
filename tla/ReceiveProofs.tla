---------------------------- MODULE ReceiveProofs ----------------------------
(***************************************************************************)
(* Proofs about Receive, for any sessions, workers, capacity, batch and    *)
(* packets.                                                                *)
(***************************************************************************)
EXTENDS Receive, SequenceTheorems, TLAPS

\* OneReceive, by where a completion can be.
Has(q, s) == \E i \in 1 .. Len(q) : q[i].session = s
NoRepeat(q) == \A i, j \in 1 .. Len(q) : q[i].session = q[j].session => i = j
Elem(q, e) == \E i \in 1 .. Len(q) : q[i] = e

\* A session's completion is in the queue, with one worker, or not there because
\* the request is still with RIO; a connected session has one or the other, unless
\* its receive was refused.
Unique ==
  /\ NoRepeat(queue)
  /\ \A w \in Workers : NoRepeat(results[w])
  /\ \A s \in Sessions, w \in Workers : ~ (Has(queue, s) /\ Has(results[w], s))
  /\ \A s \in Sessions, v, w \in Workers :
       Has(results[v], s) /\ Has(results[w], s) => v = w
  /\ \A s \in Sessions : request[s] # None =>
       ~ Has(queue, s) /\ \A w \in Workers : ~ Has(results[w], s)
  /\ \A s \in Sessions : mIsConnected[s] /\ s \notin refused =>
       request[s] # None \/ Has(queue, s) \/ \E w \in Workers : Has(results[w], s)

Steps ==
  /\ \A w \in Workers : pc[w] = "io" <=> results[w] = <<>>
  /\ notify = "queued" => queue # <<>>

\* How far the stream has been given to OnRecvPacket.
Handled(s) == cut[s][Len(given[s])]

\* What OnRecvPacket was last called with.
LastCall(s) == <<cut[s][Len(given[s]) - 1] + 1, Size(s, Len(given[s]))>>

Bounded ==
  \A s \in Sessions :
    /\ cut[s] \in Cuts[s]
    /\ Len(given[s]) <= COUNT
    /\ Stream!Sends(s, received[s])
    /\ DataSize(s) <= received[s]
    /\ given[s] # <<>> => given[s][Len(given[s])] = LastCall(s)

\* Between two completions: the buffer holds what follows the last packet given,
\* the n bytes that the completion reports behind mWritePos included.
AtRest(s, n) ==
  /\ processLen[s] = 0
  /\ Handled(s) + DataSize(s) + n = received[s]
  /\ n <= FreeSize(s)
  /\ \A i \in 0 .. DataSize(s) + n - 1 :
       mBuffer[s][mReadPos[s] + i] = Handled(s) + 1 + i

Parsing(s) ==
  /\ Handled(s) + DataSize(s) - processLen[s] = received[s]
  /\ \A i \in 0 .. DataSize(s) - 1 :
       mBuffer[s][mReadPos[s] + i] = Handled(s) - processLen[s] + 1 + i

\* No complete packet is in the buffer while the session waits for bytes.
Listening(s) ==
  /\ request[s] = [offset |-> mWritePos[s], length |-> FreeSize(s)]
  /\ AtRest(s, 0)
  /\ received[s] >= Handled(s) + HEADER =>
       Len(given[s]) < COUNT /\ received[s] < cut[s][Len(given[s]) + 1]
  /\ FreeSize(s) = 0 => mReadPos[s] = 0

\* The completions a worker has not begun to parse.
Todo(w) == IF pc[w] = "parse" THEN Tail(results[w]) ELSE results[w]

Data ==
  /\ \A s \in Sessions : request[s] # None => Listening(s)
  /\ \A e \in Completions : Elem(queue, e) => AtRest(e.session, e.bytes)
  /\ \A w \in Workers, e \in Completions :
       Elem(Todo(w), e) => AtRest(e.session, e.bytes)
  /\ \A w \in Workers : pc[w] = "parse" => Parsing(Head(results[w]).session)

IInv == TypeOK /\ Unique /\ Steps /\ CompletionsAnnounced /\ Bounded /\ Data

-----------------------------------------------------------------------------
(* Completions in sequences *)

\* An element of a sequence belongs to it, and so does its session.
LEMMA HasElem ==
  ASSUME NEW q \in Seq(Completions), NEW e, Elem(q, e)
  PROVE  e \in Completions /\ Has(q, e.session)
BY DEF Elem, Has

\* What Append adds to the completions of a sequence, and to their sessions.
LEMMA AppendFacts ==
  ASSUME NEW q \in Seq(Completions), NEW x \in Completions
  PROVE  /\ Append(q, x) \in Seq(Completions)
         /\ \A s : Has(Append(q, x), s) <=> Has(q, s) \/ x.session = s
         /\ \A e : Elem(Append(q, x), e) <=> Elem(q, e) \/ e = x
         /\ NoRepeat(q) /\ ~ Has(q, x.session) => NoRepeat(Append(q, x))
         /\ Append(q, x) # <<>>
<1>1. /\ Append(q, x) \in Seq(Completions)
      /\ Len(Append(q, x)) = Len(q) + 1 /\ Len(q) \in Nat
      /\ \A i \in 1 .. Len(q) : Append(q, x)[i] = q[i]
      /\ Append(q, x)[Len(q) + 1] = x
  BY AppendProperties, LenProperties
<1>2. \A i \in 1 .. Len(Append(q, x)) : i \in 1 .. Len(q) \/ i = Len(q) + 1
  BY <1>1
<1>3. 1 .. Len(q) \subseteq 1 .. Len(Append(q, x)) /\ Len(q) + 1 \in 1 .. Len(Append(q, x))
  BY <1>1
<1>4. \A s : Has(Append(q, x), s) <=> Has(q, s) \/ x.session = s
  BY <1>1, <1>2, <1>3 DEF Has
<1>5. \A e : Elem(Append(q, x), e) <=> Elem(q, e) \/ e = x
  BY <1>1, <1>2, <1>3 DEF Elem
<1>6. NoRepeat(q) /\ ~ Has(q, x.session) => NoRepeat(Append(q, x))
  BY <1>1, <1>2 DEF NoRepeat, Has
<1> QED
  BY <1>1, <1>4, <1>5, <1>6, EmptySeq

\* A queue is cut in two: the part dequeued and the part left.
LEMMA SplitFacts ==
  ASSUME NEW q \in Seq(Completions), NEW n \in Nat, n <= Len(q)
  PROVE  LET a == SubSeq(q, 1, n)
             b == SubSeq(q, n + 1, Len(q))
         IN  /\ a \in Seq(Completions) /\ b \in Seq(Completions)
             /\ \A s : Has(q, s) <=> Has(a, s) \/ Has(b, s)
             /\ \A e : Elem(a, e) \/ Elem(b, e) => Elem(q, e)
             /\ NoRepeat(q) => /\ NoRepeat(a) /\ NoRepeat(b)
                               /\ \A s : ~ (Has(a, s) /\ Has(b, s))
             /\ n # 0 => a # <<>>
<1> DEFINE a == SubSeq(q, 1, n)
           b == SubSeq(q, n + 1, Len(q))
<1>1. Len(q) \in Nat /\ \A i \in 1 .. Len(q) : q[i] \in Completions
  BY LenProperties, ElementOfSeq
<1>2. /\ a \in Seq(Completions) /\ Len(a) = n
      /\ \A i \in 1 .. n : a[i] = q[i]
  BY <1>1, SubSeqProperties
<1>3. /\ b \in Seq(Completions) /\ Len(b) = Len(q) - n
      /\ \A i \in 1 .. Len(q) - n : b[i] = q[n + i]
  <2>1. /\ \A i \in n + 1 .. Len(q) : q[i] \in Completions
        /\ n + 1 \in Int /\ Len(q) \in Int
    BY <1>1
  <2>2. /\ b \in Seq(Completions)
        /\ Len(b) = IF n + 1 <= Len(q) THEN Len(q) - (n + 1) + 1 ELSE 0
        /\ \A i \in 1 .. Len(q) - (n + 1) + 1 : b[i] = q[n + 1 + i - 1]
    BY <2>1, SubSeqProperties
  <2>3. Len(b) = Len(q) - n
    BY <2>2, <1>1
  <2> HIDE DEF b
  <2>4. ASSUME NEW i \in 1 .. Len(q) - n PROVE b[i] = q[n + i]
    <3>1. i \in 1 .. Len(q) - (n + 1) + 1 /\ n + 1 + i - 1 = n + i
      BY <1>1
    <3> QED
      BY <3>1, <2>2
  <2> QED
    BY <2>2, <2>3, <2>4
<1> HIDE DEF a, b
<1>4. ASSUME NEW i \in 1 .. Len(q)
      PROVE  \/ i \in 1 .. n /\ a[i] = q[i]
             \/ i - n \in 1 .. Len(q) - n /\ b[i - n] = q[i]
  BY <1>1, <1>2, <1>3
<1>5. \A i \in 1 .. n : i \in 1 .. Len(q)
  BY <1>1
<1>6. \A i \in 1 .. Len(q) - n : n + i \in 1 .. Len(q)
  BY <1>1
<1>7. ASSUME NEW s PROVE Has(q, s) <=> Has(a, s) \/ Has(b, s)
  <2>1. Has(q, s) => Has(a, s) \/ Has(b, s)
    BY <1>2, <1>3, <1>4 DEF Has
  <2>2. Has(a, s) => Has(q, s)
    BY <1>2, <1>5 DEF Has
  <2>3. Has(b, s) => Has(q, s)
    BY <1>3, <1>6 DEF Has
  <2> QED
    BY <2>1, <2>2, <2>3
<1>8. \A e : Elem(a, e) \/ Elem(b, e) => Elem(q, e)
  BY <1>2, <1>3, <1>5, <1>6 DEF Elem
<1>9. ASSUME NoRepeat(q) PROVE NoRepeat(a) /\ NoRepeat(b)
  <2>1. NoRepeat(a)
    BY <1>9, <1>2, <1>5 DEF NoRepeat
  <2>2. ASSUME NEW i \in 1 .. Len(b), NEW j \in 1 .. Len(b), b[i].session = b[j].session
        PROVE  i = j
    <3>1. i \in 1 .. Len(q) - n /\ j \in 1 .. Len(q) - n
      BY <1>3
    <3>2. n + i \in 1 .. Len(q) /\ n + j \in 1 .. Len(q)
      BY <3>1, <1>6
    <3>3. q[n + i].session = q[n + j].session
      BY <2>2, <3>1, <1>3
    <3>4. n + i = n + j
      BY <1>9, <3>2, <3>3 DEF NoRepeat
    <3> QED
      BY <3>1, <3>4, <1>1
  <2>3. NoRepeat(b)
    BY <2>2 DEF NoRepeat
  <2> QED
    BY <2>1, <2>3
<1>10. ASSUME NoRepeat(q), NEW s, Has(a, s), Has(b, s) PROVE FALSE
  <2>1. PICK i \in 1 .. n : q[i].session = s
    BY <1>10, <1>2 DEF Has
  <2>2. PICK j \in 1 .. Len(q) - n : q[n + j].session = s
    BY <1>10, <1>3 DEF Has
  <2>3. i = n + j
    BY <1>10, <2>1, <2>2, <1>5, <1>6 DEF NoRepeat
  <2> QED
    BY <2>3, <1>1
<1>11. n # 0 => a # <<>>
  BY <1>2
<1> QED
  BY <1>2, <1>3, <1>7, <1>8, <1>9, <1>10, <1>11 DEF a, b

\* What Tail leaves of the completions of a sequence, and of their sessions.
LEMMA TailFacts ==
  ASSUME NEW q \in Seq(Completions), q # <<>>
  PROVE  /\ Head(q) \in Completions /\ Tail(q) \in Seq(Completions)
         /\ \A s : Has(q, s) <=> Head(q).session = s \/ Has(Tail(q), s)
         /\ Elem(q, Head(q))
         /\ \A e : Elem(Tail(q), e) => Elem(q, e)
         /\ NoRepeat(q) => NoRepeat(Tail(q)) /\ ~ Has(Tail(q), Head(q).session)
         /\ Len(q) \in Nat /\ (Len(q) = 1 <=> Tail(q) = <<>>)
<1>1. /\ Head(q) = q[1] /\ Head(q) \in Completions /\ Tail(q) \in Seq(Completions)
      /\ Len(q) \in Nat /\ Len(q) >= 1 /\ Len(Tail(q)) = Len(q) - 1
      /\ \A i \in 1 .. Len(q) - 1 : Tail(q)[i] = q[i + 1]
  BY HeadTailProperties, LenProperties, EmptySeq, ElementOfSeq
<1>2. \A i \in 1 .. Len(q) : i = 1 \/ (i - 1 \in 1 .. Len(q) - 1 /\ q[i] = Tail(q)[i - 1])
  BY <1>1
<1>3. \A i \in 1 .. Len(q) - 1 : i + 1 \in 1 .. Len(q)
  BY <1>1
<1>4. 1 \in 1 .. Len(q)
  BY <1>1
<1>5. ASSUME NEW s PROVE Has(q, s) <=> Head(q).session = s \/ Has(Tail(q), s)
  <2>1. Has(q, s) => Head(q).session = s \/ Has(Tail(q), s)
    BY <1>1, <1>2 DEF Has
  <2>2. Head(q).session = s => Has(q, s)
    BY <1>1, <1>4 DEF Has
  <2>3. Has(Tail(q), s) => Has(q, s)
    BY <1>1, <1>3 DEF Has
  <2> QED
    BY <2>1, <2>2, <2>3
<1>6. Elem(q, Head(q)) /\ \A e : Elem(Tail(q), e) => Elem(q, e)
  BY <1>1, <1>3, <1>4 DEF Elem
<1>7. ASSUME NoRepeat(q) PROVE NoRepeat(Tail(q)) /\ ~ Has(Tail(q), Head(q).session)
  <2>1. \A i, j \in 1 .. Len(q) - 1 : Tail(q)[i].session = Tail(q)[j].session => i + 1 = j + 1
    BY <1>7, <1>1, <1>3 DEF NoRepeat
  <2>2. \A i, j \in 1 .. Len(q) - 1 : i + 1 = j + 1 => i = j
    BY <1>1
  <2>3. NoRepeat(Tail(q))
    BY <2>1, <2>2, <1>1 DEF NoRepeat
  <2>4. \A i \in 1 .. Len(q) - 1 : q[i + 1].session # q[1].session
    <3> SUFFICES ASSUME NEW i \in 1 .. Len(q) - 1, q[i + 1].session = q[1].session
                 PROVE  FALSE
      OBVIOUS
    <3>1. i + 1 = 1
      BY <1>7, <1>3, <1>4 DEF NoRepeat
    <3> QED
      BY <3>1, <1>1
  <2> QED
    BY <2>3, <2>4, <1>1 DEF Has
<1>8. Len(q) = 1 <=> Tail(q) = <<>>
  <2>1. Tail(q) = <<>> <=> Len(Tail(q)) = 0
    BY <1>1, EmptySeq
  <2> HIDE DEF Completions
  <2> QED
    BY <2>1, <1>1
<1> QED
  BY <1>1, <1>5, <1>6, <1>7, <1>8

-----------------------------------------------------------------------------
(* Types *)

\* The packets of a stream follow each other, and after one of size 0 comes no byte.
LEMMA CutFacts ==
  ASSUME Bounded, NEW s \in Sessions
  PROVE  /\ cut[s] \in [0 .. COUNT -> Nat] /\ cut[s][0] = 0
         /\ \A j, k \in 0 .. COUNT : j < k => cut[s][j] <= cut[s][k]
         /\ \A j, k \in 1 .. COUNT : j < k /\ cut[s][j - 1] = cut[s][j] => cut[s][j] = cut[s][k]
         /\ \A k \in 1 .. COUNT : /\ k - 1 \in 0 .. COUNT /\ k \in 0 .. COUNT
                                  /\ Size(s, k) \in Nat /\ cut[s][k] = cut[s][k - 1] + Size(s, k)
         /\ COUNT \in Nat \ {0} /\ HEADER \in Nat \ {0} /\ Capacity \in Nat \ {0, 1}
<1>1. /\ cut[s] \in [0 .. COUNT -> Nat] /\ cut[s][0] = 0
      /\ \A j, k \in 0 .. COUNT : j < k => cut[s][j] <= cut[s][k]
      /\ \A j, k \in 1 .. COUNT : j < k /\ cut[s][j - 1] = cut[s][j] => cut[s][j] = cut[s][k]
  BY CutAssumption DEF Bounded
<1>2. COUNT \in Nat \ {0} /\ HEADER \in Nat \ {0} /\ Capacity \in Nat \ {0, 1}
  BY SizeAssumption
<1>3. ASSUME NEW k \in 1 .. COUNT
      PROVE  /\ k - 1 \in 0 .. COUNT /\ k \in 0 .. COUNT
             /\ Size(s, k) \in Nat /\ cut[s][k] = cut[s][k - 1] + Size(s, k)
  <2>1. k \in 0 .. COUNT /\ k - 1 \in 0 .. COUNT /\ k - 1 < k
    BY <1>2
  <2>2. cut[s][k - 1] <= cut[s][k]
    BY <2>1, <1>1
  <2>3. cut[s][k - 1] \in Nat /\ cut[s][k] \in Nat
    BY <2>1, <1>1
  <2> QED
    BY <2>1, <2>2, <2>3 DEF Size
<1> QED
  BY <1>1, <1>2, <1>3

\* The positions of a buffer are numbers in order, within its capacity.
LEMMA PosFacts ==
  ASSUME TypeOK, NEW s \in Sessions
  PROVE  /\ mReadPos[s] \in Nat /\ mWritePos[s] \in Nat /\ processLen[s] \in Nat
         /\ mReadPos[s] + processLen[s] <= mWritePos[s] /\ mWritePos[s] <= Capacity
         /\ received[s] \in Nat /\ Capacity \in Nat
         /\ mBuffer[s] \in [Cells -> Nat]
<1>1. mWritePos[s] \in 0 .. Capacity /\ Capacity \in Nat
  BY SizeAssumption DEF TypeOK
<1> QED
  BY <1>1 DEF TypeOK

\* The size that is read of a header, if the byte there is one of the stream.
LEMMA HeaderFacts ==
  ASSUME Bounded, NEW s \in Sessions, NEW size \in HeaderSizes(s)
  PROVE  size \in Nat
<1>1. CASE {k \in 1 .. COUNT : cut[s][k - 1] + 1 = Here(s)} = {}
  BY <1>1, SizeAssumption DEF HeaderSizes
<1>2. CASE {k \in 1 .. COUNT : cut[s][k - 1] + 1 = Here(s)} # {}
  <2>1. PICK k \in 1 .. COUNT : size = Size(s, k)
    BY <1>2 DEF HeaderSizes
  <2> QED
    BY <2>1, CutFacts
<1> QED
  BY <1>1, <1>2

\* A worker that processes a completion: whose it is, and that nothing else of
\* that session is on its way.
LEMMA WorkFacts ==
  ASSUME TypeOK, Unique, Steps, NEW w \in Workers, pc[w] \in {"results", "parse"}
  PROVE  LET e == Head(results[w]) IN
         /\ results[w] \in Seq(Completions) /\ results[w] # <<>>
         /\ e.session \in Sessions /\ e.bytes \in Nat /\ e \in Completions
         /\ Elem(results[w], e) /\ Has(results[w], e.session)
         /\ Tail(results[w]) \in Seq(Completions)
         /\ request[e.session] = None
         /\ ~ Has(queue, e.session) /\ ~ Has(Tail(results[w]), e.session)
         /\ \A v \in Workers : v # w => ~ Has(results[v], e.session)
<1>1. results[w] \in Seq(Completions) /\ results[w] # <<>>
  BY DEF TypeOK, Steps
<1>2. /\ Head(results[w]) \in Completions /\ Elem(results[w], Head(results[w]))
      /\ Tail(results[w]) \in Seq(Completions)
      /\ Has(results[w], Head(results[w]).session)
      /\ ~ Has(Tail(results[w]), Head(results[w]).session)
  BY <1>1, TailFacts DEF Unique
<1>3. Head(results[w]).session \in Sessions /\ Head(results[w]).bytes \in Nat
  BY <1>2 DEF Completions
<1> QED
  BY <1>1, <1>2, <1>3 DEF Unique

\* The loop of Dispatch goes on with the rest of its results (Service.cpp:38-44).
LEMMA NextResultFacts ==
  ASSUME TypeOK, Unique, Steps, NEW w \in Workers, pc[w] \in {"results", "parse"},
         NextResult(w)
  PROVE  /\ results' = [results EXCEPT ![w] = Tail(results[w])]
         /\ pc' = [pc EXCEPT ![w] = IF Tail(results[w]) = <<>> THEN "io" ELSE "results"]
         /\ results' \in [Workers -> Seq(Completions)]
<1>1. /\ results[w] \in Seq(Completions) /\ Tail(results[w]) \in Seq(Completions)
      /\ (Len(results[w]) = 1 <=> Tail(results[w]) = <<>>)
  BY WorkFacts, TailFacts
<1> QED
  BY <1>1 DEF NextResult, Goto, TypeOK

\* A completion keeps the types of queue, notification and request.
LEMMA CompleteType ==
  ASSUME TypeOK, NEW s \in Sessions, NEW n \in Nat, Complete(s, n)
  PROVE  /\ queue' \in Seq(Completions)
         /\ notify' \in {"armed", "queued", "taken"}
         /\ request' \in [Sessions ->
              [offset : 0 .. Capacity, length : 0 .. Capacity] \cup {None}]
<1>1. [session |-> s, bytes |-> n] \in Completions
  BY DEF Completions
<1>2. queue' \in Seq(Completions)
  BY <1>1, AppendFacts DEF Complete, TypeOK
<1> QED
  BY <1>2 DEF Complete, TypeOK

\* No step breaks the types.
LEMMA TypeStep ==
  TypeOK /\ Unique /\ Steps /\ Bounded /\ [Next]_vars => TypeOK'
<1> SUFFICES ASSUME TypeOK, Unique, Steps, Bounded, [Next]_vars PROVE TypeOK'
  OBVIOUS
<1> USE SizeAssumption
<1>1. ASSUME NEW s \in Sessions, Arrive(s) PROVE TypeOK'
  <2>1. request[s] \in [offset : 0 .. Capacity, length : 0 .. Capacity]
    BY <1>1 DEF Arrive, TypeOK
  <2>2. PICK n \in 1 .. request[s].length :
       /\ mBuffer' = [mBuffer EXCEPT ![s] =
            [i \in Cells |-> IF i - request[s].offset \in 0 .. n - 1
                             THEN received[s] + 1 + i - request[s].offset ELSE @[i]]]
       /\ received' = [received EXCEPT ![s] = @ + n]
       /\ Complete(s, n)
    BY <1>1 DEF Arrive
  <2>3. n \in Nat /\ received[s] \in Nat /\ request[s].offset \in Nat
    BY <2>1 DEF TypeOK
  <2>4. ASSUME NEW i \in Cells
        PROVE  (IF i - request[s].offset \in 0 .. n - 1
                THEN received[s] + 1 + i - request[s].offset ELSE mBuffer[s][i]) \in Nat
    <3>1. mBuffer[s][i] \in Nat
      BY PosFacts
    <3>2. i \in Nat
      BY DEF Cells
    <3>3. i - request[s].offset \in 0 .. n - 1 =>
            received[s] + 1 + i - request[s].offset \in Nat
      BY <2>3, <3>2
    <3> QED
      BY <3>1, <3>3
  <2>5. mBuffer' \in [Sessions -> [Cells -> Nat]]
    BY <2>2, <2>4 DEF TypeOK
  <2>6. received' \in [Sessions -> Nat]
    BY <2>2, <2>3 DEF TypeOK
  <2> QED
    BY <1>1, <2>2, <2>3, <2>5, <2>6, CompleteType DEF Arrive, TypeOK
<1>2. ASSUME NEW s \in Sessions, LinkEnds(s) PROVE TypeOK'
  BY <1>2, CompleteType DEF LinkEnds, TypeOK, buffer
<1>3. ASSUME NEW s \in Sessions, Disconnect(s) PROVE TypeOK'
  BY <1>3 DEF Disconnect, TypeOK, rio, buffer
<1>4. ASSUME NEW w \in Workers, ProcessDispatch(w) PROVE TypeOK'
  <2>1. PICK n \in 0 .. BATCH :
          /\ n <= Len(queue)
          /\ results' = [results EXCEPT ![w] = SubSeq(queue, 1, n)]
          /\ queue' = SubSeq(queue, n + 1, Len(queue))
    BY <1>4 DEF ProcessDispatch
  <2>2. n \in Nat /\ queue \in Seq(Completions)
    BY DEF TypeOK
  <2>3. SubSeq(queue, 1, n) \in Seq(Completions) /\ queue' \in Seq(Completions)
    BY <2>1, <2>2, SplitFacts
  <2> QED
    BY <1>4, <2>1, <2>3 DEF ProcessDispatch, Goto, TypeOK, buffer
<1>5. ASSUME NEW w \in Workers, Notify(w) PROVE TypeOK'
  BY <1>5 DEF Notify, Goto, TypeOK, buffer
<1>6. ASSUME NEW w \in Workers, ProcessRecvFails(w) PROVE TypeOK'
  BY <1>6, NextResultFacts DEF ProcessRecvFails, TypeOK, rio, buffer
<1>7. ASSUME NEW w \in Workers, ProcessRecv(w) PROVE TypeOK'
  <2> DEFINE s == Head(results[w]).session
  <2>1. s \in Sessions
    BY <1>7, WorkFacts DEF ProcessRecv
  <2>2. PICK n \in 1 .. FreeSize(s) :
          /\ mWritePos' = [mWritePos EXCEPT ![s] = @ + n]
          /\ processLen' = [processLen EXCEPT ![s] = 0]
    BY <1>7 DEF ProcessRecv
  <2> HIDE DEF s
  <2>3. mWritePos[s] + n \in 0 .. Capacity /\ n \in Nat
    BY <2>1, PosFacts DEF FreeSize
  <2>4. /\ mWritePos' \in [Sessions -> 0 .. Capacity]
        /\ processLen' \in [Sessions -> Nat]
    BY <2>1, <2>2, <2>3 DEF TypeOK
  <2>5. ASSUME NEW x \in Sessions
        PROVE  mReadPos[x] + processLen'[x] <= mWritePos'[x]
    <3>1. CASE x = s
      <4>1. processLen'[s] = 0 /\ mWritePos'[s] = mWritePos[s] + n
        BY <2>1, <2>2 DEF TypeOK
      <4>2. /\ mReadPos[s] \in Nat /\ mWritePos[s] \in Nat
            /\ mReadPos[s] <= mWritePos[s]
        BY <2>1, PosFacts
      <4> QED
        BY <2>3, <3>1, <4>1, <4>2
    <3>2. CASE x # s
      BY <2>1, <2>2, <3>2 DEF TypeOK
    <3> QED
      BY <3>1, <3>2
  <2> QED
    BY <1>7, <2>4, <2>5 DEF ProcessRecv, Goto, TypeOK, rio
<1>8. ASSUME NEW w \in Workers, OnRecvPacket(w) PROVE TypeOK'
  <2> DEFINE s == Head(results[w]).session
  <2>1. s \in Sessions
    BY <1>8, WorkFacts DEF OnRecvPacket
  <2>2. DataSize(s) - processLen[s] >= HEADER
    BY <1>8 DEF OnRecvPacket
  <2>3. PICK size \in HeaderSizes(s) :
          /\ DataSize(s) - processLen[s] >= size
          /\ Record(s, <<Here(s), size>>)
          /\ processLen' = [processLen EXCEPT ![s] = @ + size]
    BY <1>8 DEF OnRecvPacket
  <2> HIDE DEF s
  <2>4. size \in Nat
    BY <2>1, HeaderFacts
  <2>5. Here(s) \in Nat
    <3>1. mReadPos[s] + processLen[s] \in Cells
      BY <2>1, <2>2, PosFacts DEF DataSize, Cells
    <3> QED
      BY <2>1, <3>1, PosFacts DEF Here
  <2>6. given' \in [Sessions -> Seq(Nat \X Nat)]
    <3>1. <<Here(s), size>> \in Nat \X Nat
      BY <2>4, <2>5
    <3>2. Append(given[s], <<Here(s), size>>) \in Seq(Nat \X Nat)
      BY <2>1, <3>1, AppendProperties DEF TypeOK
    <3> QED
      BY <2>1, <2>3, <3>2 DEF TypeOK, Record
  <2>7. processLen' \in [Sessions -> Nat]
    <3>1. processLen \in [Sessions -> Nat] /\ processLen[s] + size \in Nat
      BY <2>1, <2>4 DEF TypeOK
    <3> QED
      BY <2>1, <2>3, <3>1
  <2>8. ASSUME NEW x \in Sessions
        PROVE  mReadPos[x] + processLen'[x] <= mWritePos[x]
    <3>1. CASE x = s
      <4>1. processLen'[s] = processLen[s] + size
        BY <2>1, <2>3 DEF TypeOK
      <4>2. /\ mReadPos[s] \in Nat /\ mWritePos[s] \in Nat /\ processLen[s] \in Nat
            /\ mWritePos[s] - mReadPos[s] - processLen[s] >= size
        BY <2>1, <2>3, PosFacts DEF DataSize
      <4> QED
        BY <2>4, <3>1, <4>1, <4>2
    <3>2. CASE x # s
      BY <2>1, <2>3, <3>2 DEF TypeOK
    <3> QED
      BY <3>1, <3>2
  <2> QED
    BY <1>8, <2>6, <2>7, <2>8 DEF OnRecvPacket, TypeOK, rio
<1>9. ASSUME NEW w \in Workers, FinishRecv(w) PROVE TypeOK'
  <2> DEFINE s == Head(results[w]).session
             read == mReadPos[s] + processLen[s]
  <2>1. s \in Sessions /\ pc[w] = "parse"
    BY <1>9, WorkFacts DEF FinishRecv
  <2>2. /\ processLen' = [processLen EXCEPT ![s] = 0]
        /\ Clean(s, read) /\ RegisterRecv(s) /\ NextResult(w)
    BY <1>9 DEF FinishRecv
  <2> HIDE DEF s
  <2>3. read \in 0 .. mWritePos[s] /\ mWritePos[s] \in 0 .. Capacity
    BY <2>1, PosFacts
  <2> HIDE DEF read
  <2>4. /\ mReadPos' \in [Sessions -> Nat]
        /\ mWritePos' \in [Sessions -> 0 .. Capacity]
        /\ processLen' \in [Sessions -> Nat]
    <3>1. mReadPos' \in [Sessions -> Nat]
      BY <2>1, <2>2, <2>3 DEF Clean, TypeOK
    <3>2. mWritePos' \in [Sessions -> 0 .. Capacity]
      BY <2>1, <2>2, <2>3 DEF Clean, TypeOK
    <3>3. processLen' \in [Sessions -> Nat]
      BY <2>1, <2>2 DEF TypeOK
    <3> QED
      BY <3>1, <3>2, <3>3
  <2>5. ASSUME NEW x \in Sessions
        PROVE  mReadPos'[x] + processLen'[x] <= mWritePos'[x]
    BY <2>1, <2>2, <2>3 DEF Clean, TypeOK
  <2>6. mBuffer' \in [Sessions -> [Cells -> Nat]]
    <3>1. CASE UNCHANGED mBuffer
      BY <3>1 DEF TypeOK
    <3>2. CASE MoveToFront(s, read)
      <4>1. ASSUME NEW i \in Cells
            PROVE  (IF i < mWritePos[s] - read THEN mBuffer[s][read + i]
                    ELSE mBuffer[s][i]) \in Nat
        <5>1. mBuffer[s] \in [Cells -> Nat]
          BY <2>1 DEF TypeOK
        <5>2. i < mWritePos[s] - read => read + i \in Cells
          BY <2>3 DEF Cells
        <5> QED
          BY <5>1, <5>2
      <4> QED
        BY <2>1, <3>2, <4>1 DEF MoveToFront, TypeOK
    <3> QED
      BY <2>2, <3>1, <3>2 DEF Clean
  <2>7. request' \in [Sessions ->
              [offset : 0 .. Capacity, length : 0 .. Capacity] \cup {None}]
    <3>1. mWritePos'[s] \in 0 .. Capacity
      BY <2>1, <2>4
    <3>2. [offset |-> mWritePos'[s], length |-> Capacity - mWritePos'[s]]
            \in [offset : 0 .. Capacity, length : 0 .. Capacity]
      BY <3>1
    <3> QED
      BY <2>1, <2>2, <3>2 DEF RegisterRecv, TypeOK
  <2>8. results' \in [Workers -> Seq(Completions)] /\ pc' \in
            [Workers -> {"io", "notify", "results", "parse"}]
    BY <2>1, <2>2, NextResultFacts DEF TypeOK
  <2>9. refused' \subseteq Sessions
    BY <2>1, <2>2 DEF RegisterRecv, TypeOK
  <2> QED
    BY <1>9, <2>4, <2>5, <2>6, <2>7, <2>8, <2>9 DEF FinishRecv, TypeOK
<1>10. CASE UNCHANGED vars
  BY <1>10 DEF TypeOK, vars, rio, buffer
<1> QED
  BY <1>1, <1>2, <1>3, <1>4, <1>5, <1>6, <1>7, <1>8, <1>9, <1>10
  DEF Next, WorkerStep

-----------------------------------------------------------------------------
(* Where the completions are *)

\* A request that completes moves from RIO to the queue.
LEMMA CompleteUnique ==
  ASSUME TypeOK, Unique, NEW s \in Sessions, NEW n \in Nat, request[s] # None,
         Complete(s, n), UNCHANGED <<results, mIsConnected, refused>>
  PROVE  Unique'
<1> DEFINE e == [session |-> s, bytes |-> n]
<1>1. e \in Completions /\ e.session = s /\ queue \in Seq(Completions)
  BY DEF Completions, TypeOK
<1>2. queue' = Append(queue, e) /\ request' = [request EXCEPT ![s] = None]
  BY DEF Complete
<1>3. ~ Has(queue, s) /\ \A w \in Workers : ~ Has(results[w], s)
  BY DEF Unique
<1> HIDE DEF e
<1>4. NoRepeat(queue') /\ \A x : Has(queue', x) <=> Has(queue, x) \/ x = s
  BY <1>1, <1>2, <1>3, AppendFacts DEF Unique
<1>5. \A x \in Sessions : request'[x] = IF x = s THEN None ELSE request[x]
  BY <1>2 DEF TypeOK
<1> QED
  BY <1>3, <1>4, <1>5 DEF Unique

\* A worker is done with a completion, of a session that is closed or listens.
LEMMA NextUnique ==
  ASSUME TypeOK, Unique, Steps, NEW w \in Workers, pc[w] \in {"results", "parse"},
         NextResult(w), queue' = queue,
         LET s == Head(results[w]).session IN
           /\ \A x \in Sessions \ {s} : request'[x] = request[x]
           /\ \A x \in Sessions \ {s} : mIsConnected'[x] => mIsConnected[x]
           /\ refused \subseteq refused'
           /\ mIsConnected'[s] /\ s \notin refused' => request'[s] # None
  PROVE  Unique'
<1> DEFINE s == Head(results[w]).session
<1>1. /\ results' = [results EXCEPT ![w] = Tail(results[w])]
      /\ results[w] \in Seq(Completions) /\ results[w] # <<>>
      /\ s \in Sessions
      /\ ~ Has(queue, s) /\ ~ Has(Tail(results[w]), s)
      /\ \A v \in Workers : v # w => ~ Has(results[v], s)
  BY NextResultFacts, WorkFacts
<1>2. /\ \A x : Has(results[w], x) <=> s = x \/ Has(Tail(results[w]), x)
      /\ NoRepeat(Tail(results[w]))
  BY <1>1, TailFacts DEF Unique
<1> HIDE DEF s
<1>3. \A v \in Workers : results'[v] = IF v = w THEN Tail(results[w]) ELSE results[v]
  BY <1>1 DEF TypeOK
<1>4. \A x : \A v \in Workers : Has(results'[v], x) => Has(results[v], x) /\ x # s
  BY <1>1, <1>2, <1>3
<1>5. \A x : \A v \in Workers : Has(results[v], x) /\ x # s => Has(results'[v], x)
  BY <1>2, <1>3
<1>6. \A v \in Workers : NoRepeat(results'[v])
  BY <1>2, <1>3 DEF Unique
<1>7. ASSUME NEW x \in Sessions, mIsConnected'[x], x \notin refused'
      PROVE  request'[x] # None \/ Has(queue, x) \/ \E v \in Workers : Has(results'[v], x)
  <2>1. CASE x = s
    BY <1>7, <2>1 DEF s
  <2>2. CASE x # s
    <3>1. mIsConnected[x] /\ x \notin refused /\ request'[x] = request[x]
      BY <1>7, <2>2 DEF s
    <3> QED
      BY <2>2, <3>1, <1>5 DEF Unique
  <2> QED
    BY <2>1, <2>2
<1>8. ASSUME NEW x \in Sessions, request'[x] # None
      PROVE  ~ Has(queue, x) /\ \A v \in Workers : ~ Has(results'[v], x)
  <2>1. CASE x = s
    BY <2>1, <1>1, <1>4
  <2>2. CASE x # s
    <3>1. request[x] # None
      BY <1>8, <2>2 DEF s
    <3> QED
      BY <3>1, <1>4 DEF Unique
  <2> QED
    BY <2>1, <2>2
<1> QED
  BY <1>4, <1>6, <1>7, <1>8 DEF Unique

\* No step gives a session a second receive.
LEMMA UniqueStep ==
  TypeOK /\ TypeOK' /\ Unique /\ Steps /\ [Next]_vars => Unique'
<1> SUFFICES ASSUME TypeOK, TypeOK', Unique, Steps, [Next]_vars PROVE Unique'
  OBVIOUS
<1>1. ASSUME NEW s \in Sessions, Arrive(s) PROVE Unique'
  <2>1. PICK n \in 1 .. request[s].length : Complete(s, n)
    BY <1>1 DEF Arrive
  <2>2. request[s] # None /\ UNCHANGED <<results, mIsConnected, refused>>
    BY <1>1 DEF Arrive
  <2>3. n \in Nat
    BY <2>2 DEF TypeOK
  <2> QED
    BY <2>1, <2>2, <2>3, CompleteUnique
<1>2. ASSUME NEW s \in Sessions, LinkEnds(s) PROVE Unique'
  BY <1>2, CompleteUnique DEF LinkEnds
<1>3. ASSUME NEW s \in Sessions, Disconnect(s) PROVE Unique'
  BY <1>3 DEF Disconnect, Unique, TypeOK, rio
<1>4. ASSUME NEW w \in Workers, ProcessDispatch(w) PROVE Unique'
  <2>1. PICK n \in 0 .. BATCH :
          /\ n <= Len(queue)
          /\ results' = [results EXCEPT ![w] = SubSeq(queue, 1, n)]
          /\ queue' = SubSeq(queue, n + 1, Len(queue))
    BY <1>4 DEF ProcessDispatch
  <2>2. n \in Nat /\ queue \in Seq(Completions)
    BY DEF TypeOK
  <2> DEFINE a == SubSeq(queue, 1, n)
  <2>3. /\ \A x : Has(queue, x) <=> Has(a, x) \/ Has(queue', x)
        /\ NoRepeat(a) /\ NoRepeat(queue')
        /\ \A x : ~ (Has(a, x) /\ Has(queue', x))
    BY <2>1, <2>2, SplitFacts DEF Unique
  <2>4. \A v \in Workers : results'[v] = IF v = w THEN a ELSE results[v]
    BY <2>1 DEF TypeOK
  <2>5. results[w] = <<>>
    BY <1>4 DEF ProcessDispatch, Steps
  <2>6. \A x : ~ Has(results[w], x)
    BY <2>5 DEF Has
  <2>7. request' = request /\ mIsConnected' = mIsConnected /\ refused' = refused
    BY <1>4 DEF ProcessDispatch
  <2> HIDE DEF a
  <2> QED
    BY <2>3, <2>4, <2>6, <2>7 DEF Unique
<1>5. ASSUME NEW w \in Workers, Notify(w) PROVE Unique'
  BY <1>5 DEF Notify, Unique
<1>6. ASSUME NEW w \in Workers, ProcessRecvFails(w) PROVE Unique'
  <2> DEFINE s == Head(results[w]).session
  <2>1. s \in Sessions /\ mIsConnected' = [mIsConnected EXCEPT ![s] = FALSE]
    BY <1>6, WorkFacts DEF ProcessRecvFails
  <2>2. /\ \A x \in Sessions \ {s} : mIsConnected'[x] = mIsConnected[x]
        /\ ~ mIsConnected'[s]
    BY <2>1 DEF TypeOK
  <2> QED
    BY <1>6, <2>2, NextUnique DEF ProcessRecvFails, rio
<1>7. ASSUME NEW w \in Workers, ProcessRecv(w) PROVE Unique'
  BY <1>7 DEF ProcessRecv, Unique, rio
<1>8. ASSUME NEW w \in Workers, OnRecvPacket(w) PROVE Unique'
  BY <1>8 DEF OnRecvPacket, Unique, rio
<1>9. ASSUME NEW w \in Workers, FinishRecv(w) PROVE Unique'
  <2> DEFINE s == Head(results[w]).session
  <2>1. s \in Sessions /\ RegisterRecv(s) /\ mIsConnected' = mIsConnected
    BY <1>9, WorkFacts DEF FinishRecv
  <2>2. /\ \A x \in Sessions \ {s} : request'[x] = request[x]
        /\ mIsConnected[s] /\ s \notin refused' => request'[s] =
             [offset |-> mWritePos'[s], length |-> Capacity - mWritePos'[s]]
        /\ refused \subseteq refused'
    BY <2>1 DEF RegisterRecv, TypeOK
  <2>3. mWritePos'[s] \in 0 .. Capacity /\ Capacity \in Nat
    BY <2>1, SizeAssumption DEF TypeOK
  <2> HIDE DEF s
  <2>4. [offset |-> mWritePos'[s], length |-> Capacity - mWritePos'[s]]
          \in [offset : 0 .. Capacity, length : 0 .. Capacity]
    BY <2>3
  <2>5. mIsConnected'[s] /\ s \notin refused' => request'[s] # None
    BY <2>1, <2>2, <2>4, NoneAssumption
  <2>6. \A x \in Sessions \ {s} : mIsConnected'[x] => mIsConnected[x]
    BY <2>1
  <2> QED
    BY <1>9, <2>2, <2>5, <2>6, NextUnique DEF FinishRecv, s
<1>10. CASE UNCHANGED vars
  BY <1>10 DEF Unique, vars, rio
<1> QED
  BY <1>1, <1>2, <1>3, <1>4, <1>5, <1>6, <1>7, <1>8, <1>9, <1>10
  DEF Next, WorkerStep

\* Which step a worker is at, and where the notification is.
LEMMA ControlStep ==
  TypeOK /\ Unique /\ Steps /\ CompletionsAnnounced /\ [Next]_vars
  => Steps' /\ CompletionsAnnounced'
<1> SUFFICES ASSUME TypeOK, Unique, Steps, CompletionsAnnounced, [Next]_vars
             PROVE  Steps' /\ CompletionsAnnounced'
  OBVIOUS
<1>1. ASSUME NEW s \in Sessions, NEW n \in Nat, Complete(s, n),
             UNCHANGED <<pc, results>>
      PROVE  Steps' /\ CompletionsAnnounced'
  <2>1. [session |-> s, bytes |-> n] \in Completions /\ queue \in Seq(Completions)
    BY DEF Completions, TypeOK
  <2>2. queue' # <<>>
    BY <1>1, <2>1, AppendFacts DEF Complete
  <2> QED
    BY <1>1, <2>2 DEF Complete, Steps, CompletionsAnnounced
<1>2. ASSUME NEW s \in Sessions, Arrive(s) PROVE Steps' /\ CompletionsAnnounced'
  <2>1. PICK n \in 1 .. request[s].length : Complete(s, n)
    BY <1>2 DEF Arrive
  <2>2. n \in Nat
    BY <1>2 DEF Arrive, TypeOK
  <2> QED
    BY <1>1, <1>2, <2>1, <2>2 DEF Arrive
<1>3. ASSUME NEW s \in Sessions, LinkEnds(s) PROVE Steps' /\ CompletionsAnnounced'
  BY <1>1, <1>3 DEF LinkEnds
<1>4. ASSUME NEW s \in Sessions, Disconnect(s) PROVE Steps' /\ CompletionsAnnounced'
  BY <1>4 DEF Disconnect, Steps, CompletionsAnnounced, rio
<1>5. ASSUME NEW w \in Workers, ProcessDispatch(w) PROVE Steps' /\ CompletionsAnnounced'
  <2>1. PICK n \in 0 .. BATCH :
          /\ n <= Len(queue) /\ (n = 0 => queue = <<>>)
          /\ results' = [results EXCEPT ![w] = SubSeq(queue, 1, n)]
    BY <1>5 DEF ProcessDispatch
  <2>2. n \in Nat /\ queue \in Seq(Completions)
    BY DEF TypeOK
  <2>3. queue # <<>>
    BY <1>5 DEF ProcessDispatch, Steps
  <2>4. results'[w] # <<>>
    BY <2>1, <2>2, <2>3, SplitFacts DEF TypeOK
  <2>5. /\ pc' = [pc EXCEPT ![w] = "notify"] /\ notify = "queued" /\ notify' = "taken"
        /\ \A v \in Workers \ {w} : results'[v] = results[v]
    BY <1>5, <2>1 DEF ProcessDispatch, Goto, TypeOK
  <2> QED
    BY <2>4, <2>5 DEF Steps, CompletionsAnnounced, TypeOK
<1>6. ASSUME NEW w \in Workers, Notify(w) PROVE Steps' /\ CompletionsAnnounced'
  BY <1>6 DEF Notify, Goto, Steps, CompletionsAnnounced, TypeOK
<1>7. ASSUME NEW w \in Workers, pc[w] \in {"results", "parse"}, NextResult(w),
             UNCHANGED <<queue, notify>>
      PROVE  Steps' /\ CompletionsAnnounced'
  <2>1. /\ results' = [results EXCEPT ![w] = Tail(results[w])]
        /\ pc' = [pc EXCEPT ![w] = IF Tail(results[w]) = <<>> THEN "io" ELSE "results"]
    BY <1>7, NextResultFacts
  <2>2. /\ \A v \in Workers \ {w} : pc'[v] = pc[v] /\ results'[v] = results[v]
        /\ results'[w] = Tail(results[w])
        /\ pc'[w] = IF Tail(results[w]) = <<>> THEN "io" ELSE "results"
    BY <2>1 DEF TypeOK
  <2>3. pc'[w] = "io" <=> results'[w] = <<>>
    BY <2>2
  <2>4. pc'[w] # "notify" /\ pc[w] # "notify"
    BY <1>7, <2>2
  <2>5. Steps'
    BY <1>7, <2>2, <2>3 DEF Steps
  <2>6. \A v \in Workers : pc'[v] = "notify" <=> pc[v] = "notify"
    BY <2>2, <2>4
  <2> QED
    BY <1>7, <2>2, <2>5, <2>6 DEF CompletionsAnnounced
<1>8. ASSUME NEW w \in Workers, ProcessRecv(w) \/ OnRecvPacket(w)
      PROVE  Steps' /\ CompletionsAnnounced'
  <2>1. /\ UNCHANGED <<queue, notify, results>> /\ pc[w] \in {"results", "parse"}
        /\ pc' = [pc EXCEPT ![w] = "parse"]
    <3>1. CASE ProcessRecv(w)
      BY <3>1 DEF ProcessRecv, Goto, rio
    <3>2. CASE OnRecvPacket(w)
      <4>1. pc = [pc EXCEPT ![w] = "parse"]
        BY <3>2 DEF OnRecvPacket, TypeOK
      <4> QED
        BY <3>2, <4>1 DEF OnRecvPacket, rio
    <3> QED
      BY <1>8, <3>1, <3>2
  <2>2. \A v \in Workers : /\ pc'[v] = "io" <=> pc[v] = "io"
                           /\ pc'[v] = "notify" <=> pc[v] = "notify"
    BY <2>1 DEF TypeOK
  <2> QED
    BY <2>1, <2>2 DEF Steps, CompletionsAnnounced
<1>9. ASSUME NEW w \in Workers, ProcessRecvFails(w) \/ FinishRecv(w)
      PROVE  Steps' /\ CompletionsAnnounced'
  BY <1>7, <1>9 DEF ProcessRecvFails, FinishRecv, rio
<1>10. CASE UNCHANGED vars
  BY <1>10 DEF Steps, CompletionsAnnounced, vars, rio
<1> QED
  BY <1>2, <1>3, <1>4, <1>5, <1>6, <1>8, <1>9, <1>10 DEF Next, WorkerStep

-----------------------------------------------------------------------------
(* The bytes *)

\* A step leaves the stream and the buffer of a session alone.
Same(s) ==
  /\ given'[s] = given[s] /\ received'[s] = received[s] /\ cut' = cut
  /\ mReadPos'[s] = mReadPos[s] /\ mWritePos'[s] = mWritePos[s]
  /\ processLen'[s] = processLen[s] /\ mBuffer'[s] = mBuffer[s]

\* What is said of a session stays true in a step that leaves it alone.
LEMMA SameFacts ==
  ASSUME NEW s \in Sessions, Same(s)
  PROVE  /\ \A n : AtRest(s, n) => AtRest(s, n)'
         /\ Parsing(s) => Parsing(s)'
         /\ Listening(s) /\ request'[s] = request[s] => Listening(s)'
<1>1. /\ DataSize(s)' = DataSize(s) /\ FreeSize(s)' = FreeSize(s)
      /\ Handled(s)' = Handled(s)
  BY DEF Same, DataSize, FreeSize, Handled
<1>2. ASSUME NEW n, AtRest(s, n) PROVE AtRest(s, n)'
  BY <1>1, <1>2 DEF Same, AtRest
<1>3. Parsing(s) => Parsing(s)'
  BY <1>1 DEF Same, Parsing
<1>4. AtRest(s, 0) => AtRest(s, 0)'
  BY <1>2
<1> QED
  BY <1>1, <1>2, <1>3, <1>4 DEF Same, Listening

\* How far the peer's packets have been handled, and what the next one is.
LEMMA HandledFacts ==
  ASSUME TypeOK, Bounded, NEW s \in Sessions
  PROVE  /\ Len(given[s]) \in 0 .. COUNT /\ Handled(s) \in Nat
         /\ cut[s][COUNT] \in Nat /\ COUNT \in Nat
         /\ Len(given[s]) < COUNT =>
              /\ Len(given[s]) + 1 \in 1 .. COUNT
              /\ Size(s, Len(given[s]) + 1) \in Nat
              /\ cut[s][Len(given[s]) + 1] = Handled(s) + Size(s, Len(given[s]) + 1)
<1>1. given[s] \in Seq(Nat \X Nat)
  BY DEF TypeOK
<1>2. Len(given[s]) \in 0 .. COUNT /\ COUNT \in Nat
  BY <1>1, LenProperties, SizeAssumption DEF Bounded
<1>3. cut[s] \in [0 .. COUNT -> Nat]
  BY CutFacts
<1>4. Handled(s) \in Nat /\ cut[s][COUNT] \in Nat
  BY <1>2, <1>3 DEF Handled
<1>5. ASSUME Len(given[s]) < COUNT
      PROVE  /\ Len(given[s]) + 1 \in 1 .. COUNT
             /\ Size(s, Len(given[s]) + 1) \in Nat
             /\ cut[s][Len(given[s]) + 1] = Handled(s) + Size(s, Len(given[s]) + 1)
  <2> DEFINE n == Len(given[s])
  <2>1. n \in Nat /\ n + 1 \in 1 .. COUNT /\ n + 1 - 1 = n /\ n + 1 \in 0 .. COUNT
    BY <1>2, <1>5
  <2> HIDE DEF n
  <2>2. Size(s, n + 1) = cut[s][n + 1] - cut[s][n]
    BY <2>1 DEF Size
  <2>3. cut[s][n + 1] \in Nat /\ cut[s][n] \in Nat
    BY <2>1, <1>2, <1>3 DEF n
  <2>4. Size(s, n + 1) \in Nat
    BY <2>1, CutFacts
  <2> QED
    BY <2>1, <2>2, <2>3, <2>4 DEF Handled, n
<1> QED
  BY <1>2, <1>4, <1>5

\* A completion brings n bytes into the buffer, behind the unread ones.
LEMMA ArriveData ==
  ASSUME TypeOK, Bounded, NEW s \in Sessions, Listening(s), NEW n \in Nat,
         n <= request[s].length,
         mBuffer'[s] = [i \in Cells |-> IF i - request[s].offset \in 0 .. n - 1
                          THEN received[s] + 1 + i - request[s].offset
                          ELSE mBuffer[s][i]],
         received'[s] = received[s] + n, given'[s] = given[s], cut' = cut,
         mReadPos'[s] = mReadPos[s], mWritePos'[s] = mWritePos[s],
         processLen'[s] = processLen[s]
  PROVE  AtRest(s, n)'
<1> DEFINE d == DataSize(s)
           h == Handled(s)
<1>1. /\ d' = d /\ h' = h /\ FreeSize(s)' = FreeSize(s)
  <2>1. d' = d
    BY DEF DataSize
  <2>2. h' = h
    BY DEF Handled
  <2>3. FreeSize(s)' = FreeSize(s)
    BY DEF FreeSize
  <2> QED
    BY <2>1, <2>2, <2>3
<1>2. /\ processLen[s] = 0 /\ h + d = received[s] /\ n <= FreeSize(s)
      /\ \A i \in 0 .. d - 1 : mBuffer[s][mReadPos[s] + i] = h + 1 + i
      /\ request[s].offset = mWritePos[s]
      /\ h \in Nat /\ d \in Nat /\ mReadPos[s] + d = mWritePos[s]
  <2>1. h \in Nat /\ d \in Nat /\ mReadPos[s] + d = mWritePos[s]
    BY PosFacts, HandledFacts DEF DataSize
  <2>2. /\ request[s].offset = mWritePos[s] /\ n <= FreeSize(s)
        /\ processLen[s] = 0 /\ h + d + 0 = received[s]
        /\ \A i \in 0 .. d + 0 - 1 : mBuffer[s][mReadPos[s] + i] = h + 1 + i
    BY DEF Listening, AtRest
  <2> HIDE DEF d, h
  <2>3. d + 0 = d /\ h + d + 0 = h + d
    BY <2>1
  <2> QED
    BY <2>1, <2>2, <2>3
<1>3. mReadPos[s] \in Nat /\ FreeSize(s) = Capacity - mWritePos[s] /\ Capacity \in Nat
  BY PosFacts DEF FreeSize
<1> HIDE DEF d, h
<1>4. ASSUME NEW i \in 0 .. d + n - 1
      PROVE  mBuffer'[s][mReadPos[s] + i] = h + 1 + i
  <2> DEFINE c == mReadPos[s] + i
  <2>1. c \in Cells /\ c - mWritePos[s] = i - d /\ i \in Nat /\ c \in Nat
    <3>1. i \in Nat /\ i <= d + n - 1
      BY <1>2
    <3>2. n <= Capacity - mWritePos[s]
      BY <1>2, <1>3
    <3>3. mReadPos[s] + i <= Capacity - 1 /\ mReadPos[s] + i \in Nat
      BY <3>1, <3>2, <1>2, <1>3
    <3>4. (mReadPos[s] + i) - mWritePos[s] = i - d
      BY <3>1, <1>2, <1>3
    <3> QED
      BY <3>1, <3>3, <3>4, <1>3 DEF Cells
  <2>2. mBuffer'[s][c] = IF c - mWritePos[s] \in 0 .. n - 1
                         THEN received[s] + 1 + c - mWritePos[s]
                         ELSE mBuffer[s][c]
    BY <2>1, <1>2
  <2> HIDE DEF c
  <2>3. CASE i < d
    <3>1. i \in 0 .. d - 1 /\ ~ (c - mWritePos[s] \in 0 .. n - 1)
      BY <2>1, <2>3, <1>2
    <3> QED
      BY <3>1, <2>2, <1>2 DEF c
  <2>4. CASE i >= d
    <3>1. c - mWritePos[s] \in 0 .. n - 1
      BY <2>1, <2>4, <1>2
    <3>2. received[s] + 1 + c - mWritePos[s] = h + 1 + i
      BY <2>1, <1>2, <1>3
    <3> QED
      BY <3>1, <3>2, <2>2 DEF c
  <2> QED
    BY <2>1, <2>3, <2>4, <1>2
<1>5. h + d + n = received[s] + n
  BY <1>2
<1> QED
  BY <1>1, <1>2, <1>4, <1>5 DEF AtRest, d, h

\* OnWrite takes them in.
LEMMA RecvData ==
  ASSUME TypeOK, Bounded, NEW s \in Sessions, NEW n \in Nat, AtRest(s, n),
         received'[s] = received[s], given'[s] = given[s], cut' = cut,
         mBuffer'[s] = mBuffer[s], mReadPos'[s] = mReadPos[s],
         mWritePos'[s] = mWritePos[s] + n, processLen'[s] = 0
  PROVE  Parsing(s)' /\ DataSize(s)' <= received[s]
<1>1. /\ mReadPos[s] \in Nat /\ mWritePos[s] \in Nat /\ mReadPos[s] <= mWritePos[s]
      /\ Handled(s) \in Nat
  <2>1. /\ mReadPos[s] \in Nat /\ mWritePos[s] \in Nat /\ processLen[s] \in Nat
        /\ mReadPos[s] + processLen[s] <= mWritePos[s]
    BY PosFacts
  <2>2. Handled(s) \in Nat
    BY HandledFacts
  <2> QED
    BY <2>1, <2>2
<1>2. /\ Handled(s)' = Handled(s) /\ DataSize(s)' = DataSize(s) + n
      /\ DataSize(s) \in Nat
  <2>1. Handled(s)' = Handled(s)
    BY DEF Handled
  <2>2. DataSize(s) \in Nat /\ DataSize(s) = mWritePos[s] - mReadPos[s]
    BY <1>1 DEF DataSize
  <2>3. DataSize(s)' = (mWritePos[s] + n) - mReadPos[s]
    BY DEF DataSize
  <2> QED
    BY <1>1, <2>1, <2>2, <2>3
<1>3. Handled(s) + DataSize(s) + n = received[s]
  BY DEF AtRest
<1>4. Handled(s) + (DataSize(s) + n) - 0 = received[s] /\ DataSize(s) + n <= received[s]
  BY <1>1, <1>2, <1>3
<1>5. \A i \in 0 .. (DataSize(s) + n) - 1 :
        mBuffer[s][mReadPos[s] + i] = Handled(s) - 0 + 1 + i
  <2>1. \A i \in 0 .. (DataSize(s) + n) - 1 :
          mBuffer[s][mReadPos[s] + i] = Handled(s) + 1 + i
    <3>1. (DataSize(s) + n) - 1 = DataSize(s) + (n - 1)
      BY <1>2
    <3> QED
      BY <3>1 DEF AtRest
  <2>2. Handled(s) - 0 = Handled(s)
    BY <1>1
  <2> QED
    BY <2>1, <2>2
<1> QED
  BY <1>2, <1>4, <1>5 DEF Parsing

\* Where a header is read, it is that of the next packet, or again that of the last
\* one, whose size is 0.
LEMMA HeaderData ==
  ASSUME TypeOK, Bounded, NEW s \in Sessions, Parsing(s),
         DataSize(s) - processLen[s] >= HEADER
  PROVE  LET n == Len(given[s]) IN
         /\ Here(s) = Handled(s) + 1
         /\ \/ n \in 1 .. COUNT /\ Size(s, n) = 0 /\ HeaderSizes(s) = {0}
            \/ /\ n < COUNT /\ HeaderSizes(s) = {Size(s, n + 1)}
               /\ n = 0 \/ Size(s, n) # 0
<1> DEFINE n == Len(given[s])
           h == Handled(s)
           starts == {k \in 1 .. COUNT : cut[s][k - 1] + 1 = Here(s)}
<1>1. /\ n \in 0 .. COUNT /\ COUNT \in Nat \ {0} /\ h \in Nat /\ h = cut[s][n]
      /\ Stream!Sends(s, received[s])
  BY HandledFacts, SizeAssumption DEF Bounded, Handled
<1>2. /\ mReadPos[s] \in Nat /\ processLen[s] \in Nat /\ DataSize(s) \in Nat
      /\ processLen[s] <= DataSize(s) - HEADER /\ HEADER \in Nat \ {0}
      /\ received[s] \in Nat
  BY PosFacts, SizeAssumption DEF DataSize
<1>3. /\ h + DataSize(s) - processLen[s] = received[s]
      /\ \A i \in 0 .. DataSize(s) - 1 :
           mBuffer[s][mReadPos[s] + i] = h - processLen[s] + 1 + i
  BY DEF Parsing
<1> HIDE DEF n, h
<1>4. Here(s) = h + 1
  <2>1. processLen[s] \in 0 .. DataSize(s) - 1
    BY <1>2
  <2>2. Here(s) = h - processLen[s] + 1 + processLen[s]
    BY <2>1, <1>3 DEF Here
  <2> QED
    BY <2>2, <1>1, <1>2
<1>5. /\ \A i, j \in 0 .. COUNT : i < j => cut[s][i] <= cut[s][j]
      /\ \A i \in 0 .. COUNT : cut[s][i] \in Nat
      /\ \A j, k \in 1 .. COUNT : j < k /\ cut[s][j - 1] = cut[s][j] => cut[s][j] = cut[s][k]
      /\ \A k \in 1 .. COUNT : /\ k - 1 \in 0 .. COUNT /\ k \in 0 .. COUNT
                               /\ Size(s, k) \in Nat /\ cut[s][k] = cut[s][k - 1] + Size(s, k)
  BY CutFacts
<1>6. \A k \in 1 .. COUNT : k \in starts <=> cut[s][k - 1] = cut[s][n]
  <2> SUFFICES ASSUME NEW k \in 1 .. COUNT
               PROVE  cut[s][k - 1] + 1 = Here(s) <=> cut[s][k - 1] = cut[s][n]
    OBVIOUS
  <2>1. cut[s][k - 1] \in Nat /\ cut[s][n] \in Nat
    BY <1>1, <1>5
  <2> QED
    BY <2>1, <1>1, <1>4
<1> HIDE DEF starts
<1>7. starts \subseteq 1 .. COUNT /\ (starts # {} => HeaderSizes(s) = {Size(s, k) : k \in starts})
  BY DEF HeaderSizes, starts
\* A packet that begins where an earlier one, or one of size 0, ends has the size 0.
<1>8. ASSUME NEW j \in 1 .. COUNT, NEW k \in starts, cut[s][j] = cut[s][n], j < k,
             cut[s][j - 1] = cut[s][j]
      PROVE  Size(s, k) = 0
  <2>1. /\ cut[s][k] = cut[s][j] /\ cut[s][k - 1] = cut[s][j]
        /\ cut[s][k] = cut[s][k - 1] + Size(s, k)
        /\ Size(s, k) \in Nat /\ cut[s][j] \in Nat
    BY <1>5, <1>6, <1>7, <1>8
  <2> QED
    BY <2>1
<1>9. CASE n \in 1 .. COUNT /\ Size(s, n) = 0
  <2>1. cut[s][n - 1] = cut[s][n]
    <3>1. cut[s][n] = cut[s][n - 1] + Size(s, n) /\ cut[s][n - 1] \in Nat
      BY <1>5, <1>9
    <3> QED
      BY <3>1, <1>9
  <2>2. n \in starts
    BY <2>1, <1>6, <1>9
  <2>3. ASSUME NEW k \in starts PROVE Size(s, k) = 0
    <3>1. k \in 1 .. COUNT /\ cut[s][k - 1] = cut[s][n]
      BY <1>6, <1>7
    <3>2. CASE k <= n
      <4>1. cut[s][k] <= cut[s][n]
        <5>1. k = n \/ k < n
          BY <3>1, <3>2, <1>1
        <5>2. k \in 0 .. COUNT
          BY <3>1, <1>5
        <5>3. cut[s][n] <= cut[s][n]
          BY <1>1
        <5> QED
          BY <5>1, <5>2, <5>3, <1>1, <1>5
      <4>2. /\ cut[s][k] = cut[s][k - 1] + Size(s, k) /\ Size(s, k) \in Nat
            /\ cut[s][n] \in Nat
        BY <3>1, <1>1, <1>5
      <4> QED
        BY <3>1, <4>1, <4>2
    <3>3. CASE n < k
      BY <3>3, <1>8, <1>9, <2>1
    <3> QED
      BY <3>1, <3>2, <3>3, <1>1
  <2>4. {Size(s, k) : k \in starts} = {0}
    BY <2>2, <2>3
  <2> QED
    BY <1>4, <1>7, <1>9, <2>2, <2>4 DEF n, h
<1>10. CASE ~ (n \in 1 .. COUNT /\ Size(s, n) = 0)
  <2>1. n # 0 => n - 1 \in 0 .. COUNT /\ cut[s][n - 1] < cut[s][n]
    <3> SUFFICES ASSUME n # 0 PROVE n - 1 \in 0 .. COUNT /\ cut[s][n - 1] < cut[s][n]
      OBVIOUS
    <3>1. n \in 1 .. COUNT
      BY <1>1
    <3>2. /\ n - 1 \in 0 .. COUNT /\ Size(s, n) \in Nat
          /\ cut[s][n] = cut[s][n - 1] + Size(s, n) /\ cut[s][n - 1] \in Nat
      BY <3>1, <1>5
    <3> QED
      BY <3>1, <3>2, <1>10
  <2>2. n < COUNT
    <3> SUFFICES ASSUME n = COUNT PROVE FALSE
      BY <1>1
    <3>1. cut[s][COUNT - 1] < cut[s][COUNT] /\ h = cut[s][COUNT]
      BY <2>1, <1>1
    <3>2. received[s] <= cut[s][COUNT] \/ received[s] <= cut[s][COUNT - 1] + HEADER
      BY <1>1 DEF Stream!Sends
    <3>3. cut[s][COUNT - 1] \in Nat /\ cut[s][COUNT] \in Nat
      <4>1. COUNT \in 1 .. COUNT
        BY <1>1
      <4> QED
        BY <4>1, <1>5
    <3> QED
      BY <3>1, <3>2, <3>3, <1>2, <1>3
  <2>3. n + 1 \in 1 .. COUNT /\ n + 1 - 1 = n
    BY <2>2, <1>1
  <2>4. n + 1 \in starts
    <3>1. PICK m \in 1 .. COUNT : m = n + 1 /\ m - 1 = n
      BY <1>1, <2>2
    <3>2. m \in starts
      BY <3>1, <1>6
    <3> QED
      BY <3>1, <3>2
  <2>5. ASSUME NEW k \in starts PROVE Size(s, k) = Size(s, n + 1)
    <3>1. k \in 1 .. COUNT /\ cut[s][k - 1] = cut[s][n] /\ k - 1 \in 0 .. COUNT
      BY <1>5, <1>6, <1>7
    <3>2. ASSUME k <= n PROVE FALSE
      <4>1. n # 0 /\ n \in 1 .. COUNT
        BY <3>1, <3>2, <1>1
      <4>2. cut[s][n - 1] < cut[s][n] /\ n - 1 \in 0 .. COUNT
        BY <2>1, <4>1
      <4>3. cut[s][k - 1] <= cut[s][n - 1]
        <5>1. k - 1 < n - 1 \/ k - 1 = n - 1
          BY <3>1, <3>2, <4>1
        <5>2. cut[s][n - 1] <= cut[s][n - 1]
          BY <4>2, <1>5
        <5>3. CASE k - 1 < n - 1
          BY <5>3, <3>1, <4>2, <1>5
        <5>4. CASE k - 1 = n - 1
          BY <5>2, <5>4
        <5> QED
          BY <5>1, <5>3, <5>4
      <4>4. cut[s][n - 1] \in Nat /\ cut[s][n] \in Nat
        BY <4>2, <1>1, <1>5
      <4> QED
        BY <3>1, <4>2, <4>3, <4>4
    <3>3. CASE k = n + 1
      BY <3>3
    <3>4. CASE n + 1 < k
      <4>1. cut[s][n + 1] <= cut[s][k - 1]
        <5>1. n + 1 < k - 1 \/ n + 1 = k - 1
          BY <3>1, <3>4, <1>1
        <5>2. n + 1 \in 0 .. COUNT
          BY <2>3
        <5>3. cut[s][k - 1] <= cut[s][k - 1]
          BY <3>1, <1>5
        <5>4. CASE n + 1 < k - 1
          BY <5>2, <5>4, <3>1, <1>5
        <5>5. CASE n + 1 = k - 1
          BY <5>3, <5>5
        <5> QED
          BY <5>1, <5>4, <5>5
      <4>2. /\ cut[s][n + 1] = cut[s][n] + Size(s, n + 1) /\ Size(s, n + 1) \in Nat
            /\ cut[s][n] \in Nat
        BY <2>3, <1>1, <1>5
      <4>3. Size(s, n + 1) = 0 /\ cut[s][n + 1] = cut[s][n]
        BY <3>1, <4>1, <4>2
      <4>4. Size(s, k) = 0
        <5>1. PICK m \in 1 .. COUNT : m = n + 1 /\ m - 1 = n
          BY <1>1, <2>2
        <5>2. cut[s][m] = cut[s][n] /\ m < k /\ cut[s][m - 1] = cut[s][m]
          BY <3>4, <4>3, <5>1
        <5> QED
          BY <5>2, <1>8
      <4> QED
        BY <4>3, <4>4
    <3>5. k <= n \/ k = n + 1 \/ n + 1 < k
      BY <3>1, <1>1
    <3> QED
      BY <3>2, <3>3, <3>4, <3>5
  <2>6. {Size(s, k) : k \in starts} = {Size(s, n + 1)}
    BY <2>4, <2>5
  <2>7. n = 0 \/ Size(s, n) # 0
    BY <1>1, <1>10
  <2> QED
    BY <1>4, <1>7, <2>2, <2>4, <2>6, <2>7 DEF n, h
<1> QED
  BY <1>9, <1>10

\* What Record says of the session itself.
Recorded(s, call) ==
  given'[s] = IF given[s] # <<>> /\ given[s][Len(given[s])] = call THEN given[s]
              ELSE Append(given[s], call)

\* A packet is given to OnRecvPacket: the next one of the stream, or once more the
\* last one.
LEMMA PacketData ==
  ASSUME TypeOK, Bounded, NEW s \in Sessions, Parsing(s),
         DataSize(s) - processLen[s] >= HEADER, NEW size \in HeaderSizes(s),
         DataSize(s) - processLen[s] >= size,
         Recorded(s, <<Here(s), size>>),
         processLen'[s] = processLen[s] + size,
         received'[s] = received[s], cut' = cut, mBuffer'[s] = mBuffer[s],
         mReadPos'[s] = mReadPos[s], mWritePos'[s] = mWritePos[s]
  PROVE  LET n == Len(given[s]) + 1 IN
         /\ \/ given'[s] = given[s]
            \/ /\ n <= COUNT /\ Stream!Whole(s, n)
               /\ given'[s] = Append(given[s], <<cut[s][n - 1] + 1, Size(s, n)>>)
         /\ Len(given'[s]) <= COUNT
         /\ given'[s] # <<>> => given'[s][Len(given'[s])] = LastCall(s)'
         /\ Parsing(s)'
<1> DEFINE n == Len(given[s])
           call == <<Here(s), size>>
<1>1. /\ mReadPos[s] \in Nat /\ processLen[s] \in Nat /\ DataSize(s) \in Nat
      /\ received[s] \in Nat /\ HEADER \in Nat
  BY PosFacts, SizeAssumption DEF DataSize
<1>2. /\ Handled(s) + DataSize(s) - processLen[s] = received[s]
      /\ \A i \in 0 .. DataSize(s) - 1 :
           mBuffer[s][mReadPos[s] + i] = Handled(s) - processLen[s] + 1 + i
  BY DEF Parsing
<1>3. given[s] \in Seq(Nat \X Nat) /\ n \in Nat /\ n <= COUNT /\ (n = 0 <=> given[s] = <<>>)
      /\ Handled(s) = cut[s][n] /\ Handled(s) \in Nat
  BY SMTT(20), HandledFacts, LenProperties, EmptySeq DEF TypeOK, Handled
<1>4. given[s] # <<>> => given[s][n] = <<cut[s][n - 1] + 1, Size(s, n)>>
  BY DEF Bounded, LastCall
<1>5. Here(s) = cut[s][n] + 1
  BY <1>3, HeaderData
<1>6. DataSize(s)' = DataSize(s)
  BY DEF DataSize
<1>7. CASE n \in 1 .. COUNT /\ Size(s, n) = 0 /\ HeaderSizes(s) = {0}
  <2>1. cut[s][n - 1] = cut[s][n]
    <3>1. /\ cut[s][n] = cut[s][n - 1] + Size(s, n) /\ cut[s][n - 1] \in Nat
      BY <1>7, CutFacts
    <3> QED
      BY <3>1, <1>7
  <2>2. size = 0 /\ given[s] # <<>>
    BY <1>3, <1>7
  <2>3. given[s][n] = call
    BY <1>4, <1>5, <1>7, <2>1, <2>2
  <2>4. given'[s] = given[s]
    BY <2>2, <2>3 DEF Recorded
  <2>5. processLen'[s] = processLen[s]
    BY <1>1, <2>2
  <2>6. Handled(s)' = Handled(s)
    BY <2>4 DEF Handled
  <2>7. LastCall(s)' = LastCall(s)
    BY <2>4 DEF LastCall, Size
  <2>8. Parsing(s)'
    BY <1>2, <1>6, <2>5, <2>6 DEF Parsing
  <2> QED
    BY <1>3, <1>4, <2>4, <2>7, <2>8 DEF LastCall
<1>8. CASE n < COUNT /\ HeaderSizes(s) = {Size(s, n + 1)} /\ (n = 0 \/ Size(s, n) # 0)
  <2>1. /\ size = Size(s, n + 1) /\ size \in Nat /\ cut[s][n + 1] = Handled(s) + size
        /\ n + 1 - 1 = n
    BY <1>3, <1>8, HandledFacts
  <2>2. ~ (given[s] # <<>> /\ given[s][n] = call)
    <3> SUFFICES ASSUME given[s] # <<>>, given[s][n] = call PROVE FALSE
      OBVIOUS
    <3>1. cut[s][n - 1] + 1 = cut[s][n] + 1
      BY <1>4, <1>5
    <3>2. n \in 1 .. COUNT /\ COUNT \in Nat
      BY <1>3, SizeAssumption
    <3>3. /\ cut[s][n] = cut[s][n - 1] + Size(s, n) /\ cut[s][n - 1] \in Nat
          /\ Size(s, n) \in Nat
      BY <3>2, CutFacts
    <3>4. Size(s, n) = 0
      BY <3>1, <3>3
    <3> QED
      BY <3>2, <3>4, <1>8
  <2>3. given'[s] = Append(given[s], <<cut[s][n] + 1, Size(s, n + 1)>>)
    BY <2>1, <2>2, <1>5 DEF Recorded
  <2>4. /\ Len(given'[s]) = n + 1 /\ given'[s] # <<>>
        /\ given'[s][n + 1] = <<cut[s][n] + 1, Size(s, n + 1)>>
    <3>1. <<cut[s][n] + 1, Size(s, n + 1)>> \in Nat \X Nat
      BY <2>1, <1>3
    <3> HIDE DEF n
    <3>2. /\ Len(Append(given[s], <<cut[s][n] + 1, Size(s, n + 1)>>)) = Len(given[s]) + 1
          /\ Append(given[s], <<cut[s][n] + 1, Size(s, n + 1)>>)[Len(given[s]) + 1] =
               <<cut[s][n] + 1, Size(s, n + 1)>>
          /\ Append(given[s], <<cut[s][n] + 1, Size(s, n + 1)>>) # <<>>
      BY SMTT(20), <3>1, <1>3, AppendProperties
    <3> QED
      BY <2>3, <3>2 DEF n
  <2>5. LastCall(s)' = <<cut[s][n] + 1, Size(s, n + 1)>>
    <3>1. LastCall(s)' = <<cut[s][n + 1 - 1] + 1, Size(s, n + 1)>>
      BY <2>4 DEF LastCall, Size
    <3> QED
      BY <2>1, <3>1
  <2>6. Handled(s)' = Handled(s) + size
    BY <2>1, <2>4 DEF Handled
  <2>7. Handled(s) + size <= received[s] /\ Handled(s) + HEADER <= received[s]
    BY SMTT(20), <1>1, <1>2, <1>3, <2>1
  <2>8. Stream!Whole(s, n + 1)
    <3>1. Stream!Size(s, n) = Size(s, n)
      BY DEF Size, Stream!Size
    <3>2. n + 1 = 1 \/ Stream!Size(s, n + 1 - 1) # 0
      BY <1>8, <2>1, <3>1
    <3> QED
      BY <2>1, <2>7, <3>2, <1>3 DEF Stream!Whole
  <2>9. (Handled(s) + size) + DataSize(s) - (processLen[s] + size) = received[s]
    BY <1>1, <1>2, <1>3, <2>1
  <2>10. (Handled(s) + size) - (processLen[s] + size) = Handled(s) - processLen[s]
    BY <1>1, <1>3, <2>1
  <2>11. Parsing(s)'
    <3>1. Handled(s)' + DataSize(s)' - processLen'[s] = received'[s]
      BY <1>6, <2>6, <2>9
    <3>2. Handled(s)' - processLen'[s] = Handled(s) - processLen[s]
      BY <2>6, <2>10
    <3>3. \A i \in 0 .. DataSize(s)' - 1 :
            mBuffer'[s][mReadPos'[s] + i] = Handled(s)' - processLen'[s] + 1 + i
      BY <1>2, <1>6, <3>2
    <3> QED
      BY <3>1, <3>3 DEF Parsing
  <2>12. n + 1 <= COUNT
    BY <1>3, <1>8, SizeAssumption
  <2> QED
    BY <2>1, <2>3, <2>4, <2>5, <2>8, <2>11, <2>12
<1> QED
  BY <1>7, <1>8, HeaderData

\* OnRead and Clean: the rest of the buffer, wherever it is moved to.
LEMMA FinishData ==
  ASSUME TypeOK, Bounded, NEW s \in Sessions, Parsing(s),
         DataSize(s) - processLen[s] >= HEADER =>
           \E size \in HeaderSizes(s) : DataSize(s) - processLen[s] < size,
         processLen' = [processLen EXCEPT ![s] = 0],
         Clean(s, mReadPos[s] + processLen[s]),
         UNCHANGED <<cut, received, given>>
  PROVE  /\ AtRest(s, 0)' /\ DataSize(s)' <= received[s]
         /\ received[s] >= Handled(s) + HEADER =>
              Len(given[s]) < COUNT /\ received[s] < cut[s][Len(given[s]) + 1]
         /\ FreeSize(s)' = 0 => mReadPos'[s] = 0
<1> DEFINE n == Len(given[s])
           h == Handled(s)
           p == processLen[s]
           read == mReadPos[s] + p
           dataSize == mWritePos[s] - read
<1>1. /\ n \in 0 .. COUNT /\ COUNT \in Nat /\ h \in Nat /\ received[s] \in Nat
      /\ mReadPos[s] \in Nat /\ p \in Nat /\ read \in Nat /\ dataSize \in Nat
      /\ DataSize(s) - p = dataSize /\ DataSize(s) \in Nat
      /\ mWritePos[s] = read + dataSize /\ mWritePos[s] <= Capacity
      /\ Capacity \in Nat \ {0, 1} /\ HEADER \in Nat \ {0}
  <2>1. /\ mReadPos[s] \in Nat /\ mWritePos[s] \in Nat /\ p \in Nat
        /\ mReadPos[s] + p <= mWritePos[s] /\ mWritePos[s] <= Capacity
        /\ received[s] \in Nat
    BY PosFacts
  <2>2. n \in 0 .. COUNT /\ COUNT \in Nat /\ h \in Nat
    BY HandledFacts
  <2>3. DataSize(s) = mWritePos[s] - mReadPos[s]
    BY DEF DataSize
  <2> HIDE DEF n, h, p
  <2> QED
    BY <2>1, <2>2, <2>3, SizeAssumption
<1>2. /\ h + DataSize(s) - p = received[s]
      /\ \A i \in 0 .. DataSize(s) - 1 :
           mBuffer[s][mReadPos[s] + i] = h - p + 1 + i
  BY DEF Parsing
<1>3. ASSUME received[s] >= h + HEADER PROVE n < COUNT /\ received[s] < cut[s][n + 1]
  <2>1. DataSize(s) - p >= HEADER
    <3> HIDE DEF n, h, p, read, dataSize
    <3> QED
      BY <1>1, <1>2, <1>3
  <2>2. PICK size \in HeaderSizes(s) : DataSize(s) - p < size
    BY <2>1
  <2>3. ~ (HeaderSizes(s) = {0})
    <3> HIDE DEF n, h, p, read, dataSize
    <3> QED
      BY <1>1, <2>1, <2>2
  <2>4. n < COUNT /\ HeaderSizes(s) = {Size(s, n + 1)}
    BY <2>1, <2>3, HeaderData
  <2>5. /\ Size(s, n + 1) \in Nat /\ DataSize(s) - p < Size(s, n + 1)
        /\ cut[s][n + 1] = h + Size(s, n + 1)
    BY <2>2, <2>4, HandledFacts
  <2> HIDE DEF n, h, p, read, dataSize
  <2> QED
    BY <1>1, <1>2, <2>4, <2>5
<1>4. Handled(s)' = h /\ processLen'[s] = 0
  BY DEF Handled, TypeOK
<1> DEFINE move == dataSize # 0 /\ FreeSize(s) < Capacity \div 2
<1>5. /\ IF move THEN MoveToFront(s, read) ELSE UNCHANGED mBuffer
      /\ mReadPos'[s] = IF dataSize = 0 \/ move THEN 0 ELSE read
      /\ mWritePos'[s] = IF dataSize = 0 \/ move THEN dataSize ELSE mWritePos[s]
  BY DEF Clean, TypeOK
<1>6. move => \A i \in Cells :
        mBuffer'[s][i] = IF i < dataSize THEN mBuffer[s][read + i] ELSE mBuffer[s][i]
  BY <1>5 DEF MoveToFront, TypeOK
<1>7. h + dataSize = received[s]
  <2> HIDE DEF h, read, dataSize, p
  <2> QED
    BY <1>1, <1>2
<1>8. ASSUME NEW i \in 0 .. dataSize - 1 PROVE mBuffer[s][read + i] = h + 1 + i
  <2>1. p + i \in 0 .. DataSize(s) - 1
    <3> HIDE DEF h, read, dataSize, p
    <3> QED
      BY <1>1
  <2>2. mBuffer[s][mReadPos[s] + (p + i)] = h - p + 1 + (p + i)
    BY <2>1, <1>2
  <2>3. i \in Nat
    BY <1>1
  <2>4. mReadPos[s] + (p + i) = read + i /\ h - p + 1 + (p + i) = h + 1 + i
    <3> HIDE DEF h, p
    <3> QED
      BY <1>1, <2>3
  <2> QED
    BY <2>2, <2>4
<1>9. DataSize(s)' = dataSize
  <2>1. DataSize(s)' = mWritePos'[s] - mReadPos'[s]
    BY DEF DataSize
  <2> HIDE DEF read, dataSize, move
  <2> QED
    BY <1>1, <1>5, <2>1
<1>10. ASSUME NEW i \in 0 .. dataSize - 1
       PROVE  mBuffer'[s][mReadPos'[s] + i] = h + 1 + i
  <2>1. CASE move
    <3>1. mReadPos'[s] + i = i /\ i \in Cells /\ i < dataSize
      <4> HIDE DEF read, dataSize, move
      <4> QED
        BY <1>1, <1>5, <2>1 DEF Cells
    <3> QED
      BY <2>1, <3>1, <1>6, <1>8
  <2>2. CASE ~ move
    <3>1. mReadPos'[s] = read /\ mBuffer' = mBuffer
      <4>1. dataSize # 0
        BY <1>1
      <4> QED
        BY <2>2, <4>1, <1>5
    <3> QED
      BY <3>1, <1>8
  <2> QED
    BY <2>1, <2>2
<1>11. FreeSize(s)' = Capacity - mWritePos'[s]
  BY DEF FreeSize
<1>12. /\ 0 <= FreeSize(s)'
       /\ FreeSize(s)' = 0 => mReadPos'[s] = 0
  <2>1. FreeSize(s) = Capacity - mWritePos[s]
    BY DEF FreeSize
  <2>2. Capacity \div 2 \in Int /\ Capacity \div 2 >= 1
    BY SizeAssumption
  <2>3. CASE dataSize = 0 \/ move
    <3>1. mWritePos'[s] = dataSize /\ mReadPos'[s] = 0
      BY <2>3, <1>5
    <3> HIDE DEF read, dataSize, move
    <3> QED
      BY <1>1, <3>1, <1>11
  <2>4. CASE ~ (dataSize = 0 \/ move)
    <3>1. mWritePos'[s] = mWritePos[s] /\ ~ (FreeSize(s) < Capacity \div 2)
      BY <2>4, <1>5
    <3>2. mWritePos[s] \in Int /\ Capacity \in Int
      BY <1>1
    <3> HIDE DEF read, dataSize, move
    <3> QED
      BY <3>2, <2>1, <2>2, <3>1, <1>11
  <2> QED
    BY <2>3, <2>4
<1> HIDE DEF read, dataSize, move, h, p
<1>13. AtRest(s, 0)'
  <2>1. h + dataSize + 0 = received[s] /\ dataSize + 0 - 1 = dataSize - 1
    <3>1. h \in Nat /\ dataSize \in Nat
      BY <1>1
    <3> QED
      BY <3>1, <1>7
  <2>2. Handled(s)' + DataSize(s)' + 0 = received'[s]
    BY <2>1, <1>4, <1>9
  <2>3. \A i \in 0 .. DataSize(s)' + 0 - 1 :
          mBuffer'[s][mReadPos'[s] + i] = Handled(s)' + 1 + i
    BY <2>1, <1>4, <1>9, <1>10
  <2> QED
    BY <2>2, <2>3, <1>4, <1>12 DEF AtRest
<1>14. dataSize <= received[s]
  BY <1>1, <1>7
<1>15. received[s] >= Handled(s) + HEADER =>
         Len(given[s]) < COUNT /\ received[s] < cut[s][Len(given[s]) + 1]
  BY <1>3 DEF h, n
<1> QED
  BY <1>9, <1>12, <1>13, <1>14, <1>15

-----------------------------------------------------------------------------
(* The invariant *)

\* A step at one session keeps the bounds of all.
LEMMA BoundedAt ==
  ASSUME Bounded, NEW s \in Sessions, cut' = cut, \A x \in Sessions \ {s} : Same(x),
         Len(given'[s]) <= COUNT, Stream!Sends(s, received'[s]),
         DataSize(s)' <= received'[s],
         given'[s] # <<>> => given'[s][Len(given'[s])] = LastCall(s)'
  PROVE  Bounded'
<1> SUFFICES ASSUME NEW x \in Sessions
             PROVE  /\ cut'[x] \in Cuts[x]
                    /\ Len(given'[x]) <= COUNT
                    /\ Stream!Sends(x, received[x])'
                    /\ DataSize(x)' <= received'[x]
                    /\ given'[x] # <<>> => given'[x][Len(given'[x])] = LastCall(x)'
  BY DEF Bounded
<1>1. CASE x = s
  BY <1>1 DEF Bounded, Stream!Sends, LastCall, Size
<1>2. CASE x # s
  BY <1>2 DEF Bounded, Same, DataSize, Stream!Sends, LastCall, Size
<1> QED
  BY <1>1, <1>2

\* A completion a worker has still to process is among its results.
LEMMA TodoFacts ==
  ASSUME TypeOK, Steps, NEW w \in Workers, NEW e, Elem(Todo(w), e)
  PROVE  e \in Completions /\ Elem(results[w], e) /\ Has(results[w], e.session)
<1>1. results[w] \in Seq(Completions)
  BY DEF TypeOK
<1>2. Elem(results[w], e)
  <2>1. CASE pc[w] = "parse"
    <3>1. results[w] # <<>>
      BY <2>1 DEF Steps
    <3> QED
      BY <1>1, <2>1, <3>1, TailFacts DEF Todo
  <2>2. CASE pc[w] # "parse"
    BY <2>2 DEF Todo
  <2> QED
    BY <2>1, <2>2
<1> QED
  BY <1>1, <1>2, HasElem

\* A step that concerns one session.
LEMMA DataAt ==
  ASSUME TypeOK, Data, NEW s \in Sessions,
         \A x \in Sessions \ {s} : Same(x) /\ request'[x] = request[x],
         request'[s] # None => Listening(s)',
         \A e \in Completions : Elem(queue', e) =>
           IF e.session = s THEN AtRest(s, e.bytes)' ELSE Elem(queue, e),
         \A w \in Workers, e \in Completions : Elem(Todo(w)', e) =>
           e.session # s /\ Elem(Todo(w), e),
         \A w \in Workers : pc'[w] = "parse" =>
           \/ Head(results'[w]).session = s /\ Parsing(s)'
           \/ /\ Head(results'[w]).session \in Sessions \ {s}
              /\ pc[w] = "parse" /\ results'[w] = results[w]
  PROVE  Data'
<1>1. ASSUME NEW x \in Sessions, request'[x] # None PROVE Listening(x)'
  <2>1. CASE x = s
    BY <1>1, <2>1
  <2>2. CASE x # s
    BY <1>1, <2>2, SameFacts DEF Data
  <2> QED
    BY <2>1, <2>2
<1>2. ASSUME NEW x \in Sessions \ {s}, NEW n, AtRest(x, n) PROVE AtRest(x, n)'
  BY <1>2, SameFacts
<1>3. ASSUME NEW e \in Completions, Elem(queue', e) PROVE AtRest(e.session, e.bytes)'
  <2>1. CASE e.session = s
    BY <1>3, <2>1
  <2>2. CASE e.session # s
    <3>1. e.session \in Sessions \ {s}
      BY <2>2 DEF Completions
    <3>2. AtRest(e.session, e.bytes)
      BY <1>3, <2>2 DEF Data
    <3> QED
      BY <3>1, <3>2, <1>2
  <2> QED
    BY <2>1, <2>2
<1>4. ASSUME NEW w \in Workers, NEW e \in Completions, Elem(Todo(w)', e)
      PROVE  AtRest(e.session, e.bytes)'
  <2>1. e.session \in Sessions \ {s}
    BY <1>4 DEF Completions
  <2>2. AtRest(e.session, e.bytes)
    BY <1>4 DEF Data
  <2> QED
    BY <2>1, <2>2, <1>2
<1>5. ASSUME NEW w \in Workers, pc'[w] = "parse" PROVE Parsing(Head(results[w]).session)'
  <2>1. CASE Head(results'[w]).session = s /\ Parsing(s)'
    BY <2>1 DEF Parsing, Handled, DataSize
  <2>2. CASE /\ Head(results'[w]).session \in Sessions \ {s}
             /\ pc[w] = "parse" /\ results'[w] = results[w]
    <3>1. PICK x \in Sessions \ {s} : x = Head(results[w]).session
      BY <2>2
    <3>2. Same(x) /\ Parsing(x)
      <4>1. Parsing(Head(results[w]).session)
        BY <2>2 DEF Data
      <4> QED
        BY <3>1, <4>1
    <3>3. Parsing(x)'
      BY <3>2, SameFacts
    <3>4. Head(results'[w]).session = x
      BY <2>2, <3>1
    <3> QED
      BY <3>3, <3>4 DEF Parsing, Handled, DataSize
  <2> QED
    BY <1>5, <2>1, <2>2
<1> QED
  BY <1>1, <1>3, <1>4, <1>5 DEF Data

\* A completion that enters the queue keeps what is said of the data.
LEMMA CompleteData ==
  ASSUME TypeOK, Unique, Steps, Data, NEW s \in Sessions, NEW n \in Nat,
         request[s] # None, Complete(s, n), UNCHANGED <<pc, results>>,
         \A x \in Sessions \ {s} : Same(x), AtRest(s, n)'
  PROVE  Data'
<1> DEFINE c == [session |-> s, bytes |-> n]
<1>1. c \in Completions /\ c.session = s /\ c.bytes = n /\ queue \in Seq(Completions)
  BY DEF Completions, TypeOK
<1>2. ~ Has(queue, s) /\ \A w \in Workers : ~ Has(results[w], s)
  BY DEF Unique
<1>3. /\ \A x \in Sessions \ {s} : Same(x) /\ request'[x] = request[x]
      /\ request'[s] = None /\ queue' = Append(queue, c)
  BY DEF Complete, TypeOK
<1> HIDE DEF c
<1>4. ASSUME NEW e \in Completions, Elem(queue', e)
      PROVE  IF e.session = s THEN AtRest(s, e.bytes)' ELSE Elem(queue, e)
  <2>1. Elem(queue, e) \/ e = c
    BY <1>1, <1>3, <1>4, AppendFacts
  <2>2. Elem(queue, e) => e.session # s
    BY <1>1, <1>2, HasElem
  <2> QED
    BY <1>1, <2>1, <2>2
<1>5. ASSUME NEW w \in Workers, NEW e \in Completions, Elem(Todo(w)', e)
      PROVE  e.session # s /\ Elem(Todo(w), e)
  <2>1. Elem(Todo(w), e)
    BY <1>5 DEF Todo
  <2> QED
    BY <2>1, <1>2, TodoFacts
<1>6. ASSUME NEW w \in Workers, pc'[w] = "parse"
      PROVE  /\ Head(results'[w]).session \in Sessions \ {s}
             /\ pc[w] = "parse" /\ results'[w] = results[w]
  <2>1. pc[w] = "parse" /\ results'[w] = results[w]
    BY <1>6
  <2>2. /\ Head(results[w]).session \in Sessions
        /\ Has(results[w], Head(results[w]).session)
    BY <2>1, WorkFacts
  <2> QED
    BY <2>1, <2>2, <1>2
<1> QED
  BY <1>3, <1>4, <1>5, <1>6, DataAt

\* A worker goes on with a completion of s, or is done with it.
LEMMA WorkData ==
  ASSUME TypeOK, Unique, Steps, Data, NEW w \in Workers,
         pc[w] \in {"results", "parse"}, NEW s \in Sessions,
         s = Head(results[w]).session, queue' = queue,
         \A x \in Sessions \ {s} : Same(x) /\ request'[x] = request[x],
         \/ NextResult(w) /\ (request'[s] # None => Listening(s)')
         \/ /\ results' = results /\ request' = request /\ Parsing(s)'
            /\ pc' = [pc EXCEPT ![w] = "parse"]
  PROVE  Data'
<1>1. /\ results[w] \in Seq(Completions) /\ results[w] # <<>>
      /\ Tail(results[w]) \in Seq(Completions)
      /\ request[s] = None
      /\ ~ Has(queue, s) /\ ~ Has(Tail(results[w]), s)
      /\ \A v \in Workers : v # w => ~ Has(results[v], s)
  BY WorkFacts
<1>2. /\ \A v \in Workers : v # w => pc'[v] = pc[v] /\ results'[v] = results[v]
      /\ \/ pc'[w] \in {"io", "results"} /\ results'[w] = Tail(results[w])
         \/ pc'[w] = "parse" /\ results'[w] = results[w] /\ Parsing(s)'
      /\ request'[s] # None => Listening(s)'
  <2>1. CASE NextResult(w) /\ (request'[s] # None => Listening(s)')
    <3>1. /\ results' = [results EXCEPT ![w] = Tail(results[w])]
          /\ pc' = [pc EXCEPT ![w] = IF Tail(results[w]) = <<>> THEN "io" ELSE "results"]
      BY <2>1, NextResultFacts
    <3>2. \A v \in Workers : v # w => pc'[v] = pc[v] /\ results'[v] = results[v]
      BY <3>1 DEF TypeOK
    <3>3. pc'[w] \in {"io", "results"} /\ results'[w] = Tail(results[w])
      BY <3>1 DEF TypeOK
    <3> QED
      BY <2>1, <3>2, <3>3
  <2>2. CASE /\ results' = results /\ request' = request /\ Parsing(s)'
             /\ pc' = [pc EXCEPT ![w] = "parse"]
    BY <2>2, <1>1 DEF TypeOK
  <2> QED
    BY <2>1, <2>2
<1>3. ASSUME NEW e \in Completions, Elem(queue', e)
      PROVE  IF e.session = s THEN AtRest(s, e.bytes)' ELSE Elem(queue, e)
  <2>1. e.session # s
    BY <1>1, <1>3, HasElem DEF TypeOK
  <2> QED
    BY <1>3, <2>1
<1>4. ASSUME NEW v \in Workers, NEW e \in Completions, Elem(Todo(v)', e)
      PROVE  e.session # s /\ Elem(Todo(v), e)
  <2>1. CASE v # w
    <3>1. Elem(Todo(v), e)
      BY <1>4, <1>2, <2>1 DEF Todo
    <3> QED
      BY <3>1, <2>1, <1>1, TodoFacts
  <2>2. CASE v = w
    <3>1. Elem(Tail(results[w]), e)
      BY <1>4, <1>2, <2>2 DEF Todo
    <3>2. e.session # s
      BY <3>1, <1>1, HasElem
    <3>3. Elem(results[w], e)
      BY <3>1, <1>1, TailFacts
    <3> QED
      BY <2>2, <3>1, <3>2, <3>3 DEF Todo
  <2> QED
    BY <2>1, <2>2
<1>5. ASSUME NEW v \in Workers, pc'[v] = "parse"
      PROVE  \/ Head(results'[v]).session = s /\ Parsing(s)'
             \/ /\ Head(results'[v]).session \in Sessions \ {s}
                /\ pc[v] = "parse" /\ results'[v] = results[v]
  <2>1. CASE v = w
    BY <1>5, <1>2, <2>1
  <2>2. CASE v # w
    <3>1. pc[v] = "parse" /\ results'[v] = results[v]
      BY <1>5, <1>2, <2>2
    <3>2. /\ Head(results[v]).session \in Sessions
          /\ Has(results[v], Head(results[v]).session)
      BY <3>1, WorkFacts
    <3> QED
      BY <3>1, <3>2, <2>2, <1>1
  <2> QED
    BY <2>1, <2>2
<1> QED
  BY <1>2, <1>3, <1>4, <1>5, DataAt

\* Dispatch moves completions, and no byte.
LEMMA DispatchData ==
  ASSUME TypeOK, Steps, Data, UNCHANGED <<cut, received, request, buffer, given>>,
         \A e \in Completions : Elem(queue', e) => Elem(queue, e),
         \A w \in Workers : pc'[w] = "parse" =>
           pc[w] = "parse" /\ results'[w] = results[w],
         \A w \in Workers, e \in Completions : Elem(Todo(w)', e) =>
           Elem(Todo(w), e) \/ Elem(queue, e)
  PROVE  Data'
<1>1. ASSUME NEW s \in Sessions PROVE Same(s) /\ request'[s] = request[s]
  BY DEF Same, buffer
<1>2. \A s \in Sessions : request'[s] # None => Listening(s)'
  BY <1>1, SameFacts DEF Data
<1>3. ASSUME NEW e \in Completions, AtRest(e.session, e.bytes)
      PROVE  AtRest(e.session, e.bytes)'
  BY <1>1, <1>3, SameFacts DEF Completions
<1>4. ASSUME NEW w \in Workers, pc'[w] = "parse" PROVE Parsing(Head(results[w]).session)'
  <2>1. results'[w] = results[w] /\ Parsing(Head(results[w]).session)
    BY <1>4 DEF Data
  <2> QED
    BY <2>1 DEF Parsing, Handled, DataSize, buffer
<1> QED
  BY <1>2, <1>3, <1>4 DEF Data

\* No step loses, repeats or reorders a byte.
LEMMA DataStep ==
  TypeOK /\ Unique /\ Steps /\ Bounded /\ Data /\ [Next]_vars => Bounded' /\ Data'
<1> SUFFICES ASSUME TypeOK, Unique, Steps, Bounded, Data, [Next]_vars
             PROVE  Bounded' /\ Data'
  OBVIOUS
<1>1. ASSUME NEW s \in Sessions, Arrive(s) PROVE Bounded' /\ Data'
  <2>1. /\ request[s] # None /\ Listening(s) /\ UNCHANGED <<pc, results>>
        /\ request[s] \in [offset : 0 .. Capacity, length : 0 .. Capacity]
    BY <1>1 DEF Arrive, Data, TypeOK
  <2>2. PICK n \in 1 .. request[s].length :
       /\ Stream!Sends(s, received[s] + n)
       /\ mBuffer' = [mBuffer EXCEPT ![s] =
            [i \in Cells |-> IF i - request[s].offset \in 0 .. n - 1
                             THEN received[s] + 1 + i - request[s].offset ELSE @[i]]]
       /\ received' = [received EXCEPT ![s] = @ + n]
       /\ Complete(s, n)
    BY <1>1 DEF Arrive
  <2>3. n \in Nat /\ n <= request[s].length
    BY <2>1
  <2>4. UNCHANGED <<cut, mReadPos, mWritePos, processLen, given>>
    BY <1>1 DEF Arrive
  <2>5. \A x \in Sessions \ {s} : Same(x)
    BY <2>2, <2>4 DEF Same, TypeOK
  <2>6. received'[s] = received[s] + n
    BY <2>2 DEF TypeOK
  <2>7. AtRest(s, n)'
    <3>1. mBuffer'[s] = [i \in Cells |-> IF i - request[s].offset \in 0 .. n - 1
                          THEN received[s] + 1 + i - request[s].offset
                          ELSE mBuffer[s][i]]
      BY <2>2 DEF TypeOK
    <3> QED
      BY <2>1, <2>3, <2>4, <2>6, <3>1, ArriveData
  <2>8. DataSize(s)' <= received'[s]
    <3>1. DataSize(s)' = DataSize(s) /\ DataSize(s) <= received[s] /\ DataSize(s) \in Nat
      BY <2>4, PosFacts DEF DataSize, Bounded
    <3> QED
      BY <3>1, <2>3, <2>6, PosFacts
  <2>9. Bounded'
    <3>1. /\ Len(given'[s]) <= COUNT
          /\ given'[s] # <<>> => given'[s][Len(given'[s])] = LastCall(s)'
      BY <2>4 DEF Bounded, LastCall, Size
    <3> QED
      BY <2>2, <2>4, <2>5, <2>6, <2>8, <3>1, BoundedAt
  <2> QED
    BY <2>1, <2>2, <2>3, <2>5, <2>7, <2>9, CompleteData
<1>2. ASSUME NEW s \in Sessions, LinkEnds(s) PROVE Bounded' /\ Data'
  <2>1. /\ request[s] # None /\ Listening(s) /\ Complete(s, 0)
        /\ UNCHANGED <<cut, received, pc, results, buffer, given>>
    BY <1>2 DEF LinkEnds, Data
  <2>2. \A x \in Sessions : Same(x)
    BY <2>1 DEF Same, buffer
  <2>3. AtRest(s, 0)'
    BY <2>1, <2>2, SameFacts DEF Listening
  <2>4. Bounded'
    BY <2>1 DEF Bounded, DataSize, Stream!Sends, LastCall, Size, buffer
  <2> QED
    BY <2>1, <2>2, <2>3, <2>4, CompleteData
<1>3. ASSUME UNCHANGED <<cut, rio, pc, results, buffer, given>> PROVE Bounded' /\ Data'
  <2>1. Bounded'
    BY <1>3 DEF Bounded, DataSize, Stream!Sends, LastCall, Size, rio, buffer
  <2>2. \A w \in Workers : Todo(w)' = Todo(w)
    BY <1>3 DEF Todo
  <2> QED
    BY <1>3, <2>1, <2>2, DispatchData DEF rio
<1>4. ASSUME NEW w \in Workers, ProcessDispatch(w) PROVE Bounded' /\ Data'
  <2>1. PICK n \in 0 .. BATCH :
          /\ n <= Len(queue)
          /\ results' = [results EXCEPT ![w] = SubSeq(queue, 1, n)]
          /\ queue' = SubSeq(queue, n + 1, Len(queue))
    BY <1>4 DEF ProcessDispatch
  <2>2. n \in Nat /\ queue \in Seq(Completions)
    BY DEF TypeOK
  <2>3. \A e : Elem(SubSeq(queue, 1, n), e) \/ Elem(queue', e) => Elem(queue, e)
    BY <2>1, <2>2, SplitFacts
  <2>4. /\ pc'[w] = "notify" /\ results'[w] = SubSeq(queue, 1, n)
        /\ \A v \in Workers \ {w} : pc'[v] = pc[v] /\ results'[v] = results[v]
        /\ UNCHANGED <<cut, received, request, buffer, given>>
    BY <1>4, <2>1 DEF ProcessDispatch, Goto, TypeOK
  <2>5. ASSUME NEW v \in Workers, NEW e \in Completions, Elem(Todo(v)', e)
        PROVE  Elem(Todo(v), e) \/ Elem(queue, e)
    BY <2>3, <2>4, <2>5 DEF Todo
  <2>6. Bounded'
    BY <2>4 DEF Bounded, DataSize, Stream!Sends, LastCall, Size, buffer
  <2> QED
    BY <2>3, <2>4, <2>5, <2>6, DispatchData
<1>5. ASSUME NEW w \in Workers, Notify(w) PROVE Bounded' /\ Data'
  <2>1. /\ UNCHANGED <<cut, received, request, queue, results, buffer, given>>
        /\ \A v \in Workers : pc'[v] = "parse" <=> pc[v] = "parse"
    BY <1>5 DEF Notify, Goto, TypeOK
  <2>2. \A v \in Workers : Todo(v)' = Todo(v)
    BY <2>1 DEF Todo
  <2>3. Bounded'
    BY <2>1 DEF Bounded, DataSize, Stream!Sends, LastCall, Size, buffer
  <2> QED
    BY <2>1, <2>2, <2>3, DispatchData
<1>6. ASSUME NEW w \in Workers, ProcessRecvFails(w) PROVE Bounded' /\ Data'
  <2>1. PICK s \in Sessions : s = Head(results[w]).session
    BY <1>6, WorkFacts DEF ProcessRecvFails
  <2>2. /\ pc[w] \in {"results", "parse"} /\ NextResult(w) /\ queue' = queue
        /\ request' = request /\ request[s] = None
        /\ UNCHANGED <<cut, received, buffer, given>>
    BY <1>6, <2>1, WorkFacts DEF ProcessRecvFails, rio
  <2>3. \A x \in Sessions : Same(x) /\ request'[x] = request[x]
    BY <2>2 DEF Same, buffer
  <2>4. Bounded'
    BY <2>2 DEF Bounded, DataSize, Stream!Sends, LastCall, Size, buffer
  <2> QED
    BY <2>1, <2>2, <2>3, <2>4, WorkData
<1>7. ASSUME NEW w \in Workers, ProcessRecv(w) PROVE Bounded' /\ Data'
  <2>1. PICK s \in Sessions : s = Head(results[w]).session
    BY <1>7, WorkFacts DEF ProcessRecv
  <2> DEFINE e == Head(results[w])
             n == e.bytes
  <2>2. /\ pc[w] = "results" /\ n \in 1 .. FreeSize(s)
        /\ mWritePos' = [mWritePos EXCEPT ![s] = @ + n]
        /\ processLen' = [processLen EXCEPT ![s] = 0]
        /\ pc' = [pc EXCEPT ![w] = "parse"]
        /\ UNCHANGED <<cut, received, request, queue, results, mBuffer, mReadPos, given>>
    BY <1>7, <2>1 DEF ProcessRecv, Goto, rio
  <2>3. e \in Completions /\ Elem(Todo(w), e) /\ n \in Nat
    BY <2>2, WorkFacts DEF Todo
  <2>4. AtRest(s, n)
    BY <2>1, <2>3 DEF Data
  <2> HIDE DEF n
  <2>5. \A x \in Sessions \ {s} : Same(x) /\ request'[x] = request[x]
    BY <2>2 DEF Same, TypeOK
  <2>6. mWritePos'[s] = mWritePos[s] + n /\ processLen'[s] = 0
    BY <2>2 DEF TypeOK
  <2>7. Parsing(s)' /\ DataSize(s)' <= received[s]
    BY <2>2, <2>3, <2>4, <2>6, RecvData
  <2>8. Bounded'
    <3>1. /\ Len(given'[s]) <= COUNT /\ Stream!Sends(s, received'[s]) /\ received'[s] = received[s]
          /\ given'[s] # <<>> => given'[s][Len(given'[s])] = LastCall(s)'
      BY <2>2 DEF Bounded, LastCall, Size
    <3> QED
      BY <2>2, <2>5, <2>7, <3>1, BoundedAt
  <2> QED
    BY <2>1, <2>2, <2>5, <2>7, <2>8, WorkData
<1>8. ASSUME NEW w \in Workers, OnRecvPacket(w) PROVE Bounded' /\ Data'
  <2>1. PICK s \in Sessions : s = Head(results[w]).session
    BY <1>8, WorkFacts DEF OnRecvPacket
  <2>2. PICK size \in HeaderSizes(s) :
          /\ DataSize(s) - processLen[s] >= size
          /\ Record(s, <<Here(s), size>>)
          /\ processLen' = [processLen EXCEPT ![s] = @ + size]
    BY <1>8, <2>1 DEF OnRecvPacket
  <2>3. /\ pc[w] = "parse" /\ DataSize(s) - processLen[s] >= HEADER
        /\ UNCHANGED <<cut, received, request, queue, pc, results, mBuffer, mReadPos, mWritePos>>
    BY <1>8, <2>1 DEF OnRecvPacket, rio
  <2>4. Parsing(s)
    BY <2>1, <2>3 DEF Data
  <2>5. /\ \A x \in Sessions \ {s} : Same(x) /\ request'[x] = request[x]
        /\ Recorded(s, <<Here(s), size>>)
        /\ processLen'[s] = processLen[s] + size
        /\ pc' = [pc EXCEPT ![w] = "parse"]
    BY <2>2, <2>3 DEF Same, TypeOK, Record, Recorded
  <2>6. /\ Parsing(s)' /\ Len(given'[s]) <= COUNT
        /\ given'[s] # <<>> => given'[s][Len(given'[s])] = LastCall(s)'
    BY <2>2, <2>3, <2>4, <2>5, PacketData
  <2>7. Bounded'
    <3>1. /\ Stream!Sends(s, received'[s]) /\ received'[s] = received[s]
          /\ DataSize(s)' <= received[s]
      BY <2>3 DEF Bounded, DataSize
    <3> QED
      BY <2>3, <2>5, <2>6, <3>1, BoundedAt
  <2> QED
    BY <2>1, <2>3, <2>5, <2>6, <2>7, WorkData
<1>9. ASSUME NEW w \in Workers, FinishRecv(w) PROVE Bounded' /\ Data'
  <2>1. PICK s \in Sessions : s = Head(results[w]).session
    BY <1>9, WorkFacts DEF FinishRecv
  <2>2. /\ DataSize(s) - processLen[s] >= HEADER =>
             \E size \in HeaderSizes(s) : DataSize(s) - processLen[s] < size
        /\ processLen' = [processLen EXCEPT ![s] = 0]
        /\ Clean(s, mReadPos[s] + processLen[s])
        /\ RegisterRecv(s)
        /\ pc[w] = "parse" /\ NextResult(w) /\ UNCHANGED <<cut, received, queue, given>>
    BY <1>9, <2>1 DEF FinishRecv
  <2>3. Parsing(s)
    BY <2>1, <2>2 DEF Data
  <2>4. /\ AtRest(s, 0)' /\ DataSize(s)' <= received[s]
        /\ received[s] >= Handled(s) + HEADER =>
             Len(given[s]) < COUNT /\ received[s] < cut[s][Len(given[s]) + 1]
        /\ FreeSize(s)' = 0 => mReadPos'[s] = 0
    BY <2>2, <2>3, FinishData
  <2>5. \A x \in Sessions \ {s} : request'[x] = request[x]
    BY <2>2 DEF RegisterRecv, TypeOK
  <2>6. \A x \in Sessions \ {s} : Same(x)
    BY <2>2 DEF Same, Clean, MoveToFront, TypeOK
  <2>7. request'[s] # None => Listening(s)'
    <3> SUFFICES ASSUME request'[s] # None PROVE Listening(s)'
      OBVIOUS
    <3>1. request'[s] = [offset |-> mWritePos'[s], length |-> Capacity - mWritePos'[s]]
      <4>1. request[s] = None
        BY <2>1, <2>2, WorkFacts
      <4> QED
        BY <2>2, <4>1 DEF RegisterRecv, TypeOK
    <3>2. FreeSize(s)' = Capacity - mWritePos'[s]
      BY DEF FreeSize
    <3>3. Handled(s)' = Handled(s)
      BY <2>2 DEF Handled
    <3> QED
      BY <2>2, <2>4, <3>1, <3>2, <3>3 DEF Listening
  <2>8. Bounded'
    <3>1. /\ Stream!Sends(s, received'[s]) /\ received'[s] = received[s]
          /\ Len(given'[s]) <= COUNT
          /\ given'[s] # <<>> => given'[s][Len(given'[s])] = LastCall(s)'
      BY <2>2 DEF Bounded, LastCall, Size
    <3> QED
      BY <2>2, <2>4, <2>6, <3>1, BoundedAt
  <2> QED
    BY <2>1, <2>2, <2>5, <2>6, <2>7, <2>8, WorkData
<1>10. ASSUME NEW s \in Sessions, Disconnect(s) PROVE Bounded' /\ Data'
  BY <1>3, <1>10 DEF Disconnect
<1>11. CASE UNCHANGED vars
  BY <1>3, <1>11 DEF vars
<1> QED
  BY <1>1, <1>2, <1>4, <1>5, <1>6, <1>7, <1>8, <1>9, <1>10, <1>11
  DEF Next, WorkerStep

\* The inductive invariant holds when every session has posted its first receive.
LEMMA InvInit == Init => IInv
<1> SUFFICES ASSUME Init PROVE IInv
  OBVIOUS
<1>1. ASSUME NEW s \in Sessions
      PROVE  /\ cut[s] \in Cuts[s] /\ cut[s] \in [0 .. COUNT -> Nat] /\ cut[s][0] = 0
  BY CutAssumption DEF Init
<1>2. TypeOK
  <2>1. cut \in [Sessions -> [0 .. COUNT -> Nat]]
    BY <1>1 DEF Init
  <2>2. Capacity \in Nat
    BY SizeAssumption
  <2>3. [offset |-> 0, length |-> Capacity] \in [offset : 0 .. Capacity, length : 0 .. Capacity]
    BY <2>2
  <2>4. /\ queue \in Seq(Completions) /\ <<>> \in Seq(Completions)
        /\ <<>> \in Seq(Nat \X Nat)
    BY EmptySeq DEF Init
  <2> QED
    BY <2>1, <2>2, <2>3, <2>4 DEF Init, TypeOK
<1>3. Unique /\ Steps /\ CompletionsAnnounced
  <2>1. \A s : ~ Has(<<>>, s)
    BY DEF Has
  <2>2. NoRepeat(<<>>)
    BY DEF NoRepeat
  <2>3. \A s \in Sessions : request[s] # None
    <3>1. [offset |-> 0, length |-> Capacity] \in [offset : 0 .. Capacity, length : 0 .. Capacity]
      BY SizeAssumption
    <3> QED
      BY <3>1, NoneAssumption DEF Init
  <2>4. Unique
    BY <2>1, <2>2, <2>3 DEF Init, Unique
  <2> QED
    BY <2>4 DEF Init, Steps, CompletionsAnnounced
<1>4. ASSUME NEW s \in Sessions
      PROVE  /\ Handled(s) = 0 /\ DataSize(s) = 0 /\ FreeSize(s) = Capacity
             /\ received[s] = 0 /\ Len(given[s]) = 0 /\ processLen[s] = 0
             /\ mWritePos[s] = 0 /\ request[s] = [offset |-> 0, length |-> Capacity]
             /\ Capacity \in Nat \ {0, 1} /\ COUNT \in Nat /\ HEADER \in Nat \ {0}
  <2>1. given[s] = <<>> /\ mWritePos[s] = 0 /\ mReadPos[s] = 0
    BY DEF Init
  <2> QED
    BY <1>1, <2>1, SizeAssumption DEF Init, Handled, DataSize, FreeSize
<1>5. Bounded
  <2>1. ASSUME NEW s \in Sessions PROVE Stream!Sends(s, received[s])
    <3>1. COUNT \in 0 .. COUNT
      BY SizeAssumption
    <3>2. cut[s][COUNT] \in Nat
      BY <3>1, <1>1
    <3> QED
      BY <3>2, <1>4 DEF Stream!Sends
  <2>2. \A s \in Sessions : given[s] = <<>>
    BY DEF Init
  <2> QED
    BY <1>1, <1>4, <2>1, <2>2 DEF Bounded
<1>6. ASSUME NEW s \in Sessions PROVE Listening(s)
  <2>1. AtRest(s, 0)
    BY <1>4 DEF AtRest
  <2>2. ~ (received[s] >= Handled(s) + HEADER)
    BY <1>4
  <2> QED
    BY <1>4, <2>1, <2>2 DEF Listening
<1>7. Data
  <2>1. \A e : ~ Elem(<<>>, e)
    BY DEF Elem
  <2> QED
    BY <1>6, <2>1 DEF Init, Data, Todo
<1> QED
  BY <1>2, <1>3, <1>5, <1>7 DEF IInv

\* The inductive invariant is preserved by every step.
LEMMA InvStep == IInv /\ [Next]_vars => IInv'
<1> SUFFICES ASSUME IInv, [Next]_vars PROVE IInv'
  OBVIOUS
<1>1. TypeOK'
  BY TypeStep DEF IInv
<1>2. Unique' /\ Steps' /\ CompletionsAnnounced'
  BY <1>1, UniqueStep, ControlStep DEF IInv
<1>3. Bounded' /\ Data'
  BY DataStep DEF IInv
<1> QED
  BY <1>1, <1>2, <1>3 DEF IInv

\* The inductive invariant holds in every reachable state.
LEMMA Invariance == Spec => []IInv
BY InvInit, InvStep, PTL DEF Spec

-----------------------------------------------------------------------------
(* What the runs check, for all instances *)

\* The variables keep their types; in particular the read position never passes
\* the write position, nor that the end of the buffer (NetworkBuffer.cpp).
THEOREM TypeCorrect == Spec => []TypeOK
<1>1. IInv => TypeOK
  BY DEF IInv
<1> QED
  BY <1>1, Invariance, PTL

\* The receive of a session is with RIO or with one worker, whatever the number
\* of workers that dispatch (Service.cpp:26-44).
THEOREM OneReceiver == Spec => []OneReceive
<1>1. ASSUME Unique, NEW s \in Sessions
      PROVE  /\ request[s] # None => Pending(s) = {}
             /\ \A p, q \in Pending(s) : p = q
             /\ mIsConnected[s] /\ s \notin refused => request[s] # None \/ Pending(s) # {}
  <2>1. ASSUME NEW p \in Pending(s)
        PROVE  \/ \E i \in 1 .. Len(queue) : p = <<None, i>> /\ queue[i].session = s
               \/ \E w \in Workers : \E i \in 1 .. Len(results[w]) :
                    p = <<w, i>> /\ results[w][i].session = s
    BY DEF Pending
  <2>2. Has(queue, s) => Pending(s) # {}
    BY DEF Has, Pending
  <2>3. ASSUME NEW w \in Workers, Has(results[w], s) PROVE Pending(s) # {}
    <3>1. PICK i \in 1 .. Len(results[w]) : results[w][i].session = s
      BY <2>3 DEF Has
    <3>2. <<w, i>> \in Pending(s)
      BY <3>1 DEF Pending
    <3> QED
      BY <3>2
  <2>4. request[s] # None => Pending(s) = {}
    BY <1>1, <2>1 DEF Unique, Has
  <2>5. mIsConnected[s] /\ s \notin refused => request[s] # None \/ Pending(s) # {}
    BY <1>1, <2>2, <2>3 DEF Unique
  <2>6. ASSUME NEW p \in Pending(s), NEW q \in Pending(s) PROVE p = q
    <3>1. CASE \E i \in 1 .. Len(queue) : p = <<None, i>> /\ queue[i].session = s
      <4>1. Has(queue, s) /\ \A w \in Workers : ~ Has(results[w], s)
        BY <1>1, <3>1 DEF Unique, Has
      <4>2. \E i \in 1 .. Len(queue) : q = <<None, i>> /\ queue[i].session = s
        BY <2>1, <4>1 DEF Has
      <4> QED
        BY <1>1, <3>1, <4>2 DEF Unique, NoRepeat
    <3>2. CASE \E v \in Workers : \E i \in 1 .. Len(results[v]) :
                 p = <<v, i>> /\ results[v][i].session = s
      <4>1. PICK v \in Workers : \E i \in 1 .. Len(results[v]) :
              p = <<v, i>> /\ results[v][i].session = s
        BY <3>2
      <4>2. Has(results[v], s) /\ ~ Has(queue, s)
        BY <1>1, <4>1 DEF Unique, Has
      <4>3. \E i \in 1 .. Len(results[v]) : q = <<v, i>> /\ results[v][i].session = s
        <5>1. PICK w \in Workers : \E i \in 1 .. Len(results[w]) :
                q = <<w, i>> /\ results[w][i].session = s
          BY <2>1, <4>2 DEF Has
        <5>2. Has(results[w], s)
          BY <5>1 DEF Has
        <5>3. w = v
          BY <1>1, <4>2, <5>2 DEF Unique
        <5> QED
          BY <5>1, <5>3
      <4> QED
        BY <1>1, <4>1, <4>3 DEF Unique, NoRepeat
    <3> QED
      BY <2>1, <3>1, <3>2
  <2> QED
    BY <2>4, <2>5, <2>6
<1>2. IInv => OneReceive
  BY <1>1 DEF IInv, OneReceive
<1> QED
  BY <1>2, Invariance, PTL

\* No completion waits unannounced, and one worker at a time dequeues, although
\* the notification is armed before its batch is processed (Service.cpp:28).
THEOREM Announced == Spec => []CompletionsAnnounced
<1>1. IInv => CompletionsAnnounced
  BY DEF IInv
<1> QED
  BY <1>1, Invariance, PTL

\* Clean, OnRead and OnWrite keep the unread bytes (NetworkBuffer.cpp:23-60).
THEOREM StreamIsKept == Spec => []StreamKept
<1>1. ASSUME IInv, NEW s \in Sessions
      PROVE  /\ DataSize(s) <= received[s]
             /\ request[s] # None =>
                  \A i \in 0 .. DataSize(s) - 1 :
                    mBuffer[s][mReadPos[s] + i] = received[s] - DataSize(s) + 1 + i
  <2>1. /\ DataSize(s) <= received[s] /\ Handled(s) \in Nat /\ DataSize(s) \in Int
        /\ received[s] \in Nat
    BY <1>1, HandledFacts, PosFacts DEF IInv, Bounded, DataSize
  <2>2. ASSUME request[s] # None, NEW i \in 0 .. DataSize(s) - 1
        PROVE  mBuffer[s][mReadPos[s] + i] = received[s] - DataSize(s) + 1 + i
    <3>1. AtRest(s, 0)
      BY <1>1, <2>2 DEF IInv, Data, Listening
    <3>2. DataSize(s) + 0 - 1 = DataSize(s) - 1
      BY <2>1
    <3>3. /\ mBuffer[s][mReadPos[s] + i] = Handled(s) + 1 + i
          /\ Handled(s) + DataSize(s) + 0 = received[s]
      BY <3>1, <3>2 DEF AtRest
    <3>4. received[s] - DataSize(s) = Handled(s)
      BY <3>3, <2>1
    <3> QED
      BY <3>3, <3>4
  <2> QED
    BY <2>1, <2>2
<1>2. IInv => StreamKept
  BY <1>1 DEF StreamKept
<1> QED
  BY <1>2, Invariance, PTL

\* Half a buffer of unread bytes is moved to the front soon enough: a packet that
\* fits the buffer finds room (NetworkBuffer.cpp:32).
THEOREM RoomIsMade == Spec => []RoomForPacket
<1>1. ASSUME IInv, NEW s \in Sessions, request[s] # None, request[s].length = 0
      PROVE  Size(s, Len(given[s]) + 1) > Capacity
  <2>1. Listening(s)
    BY <1>1 DEF IInv, Data
  <2>2. FreeSize(s) = 0 /\ mReadPos[s] = 0 /\ AtRest(s, 0)
    BY <1>1, <2>1 DEF Listening
  <2>3. Capacity \in Nat \ {0, 1} /\ mWritePos[s] \in Nat
    BY <1>1, PosFacts, SizeAssumption DEF IInv
  <2>4. DataSize(s) = Capacity
    BY <2>2, <2>3 DEF FreeSize, DataSize
  <2>5. Handled(s) \in Nat /\ received[s] \in Nat /\ HEADER \in 1 .. Capacity
    BY <1>1, HandledFacts, PosFacts, SizeAssumption DEF IInv
  <2>6. received[s] = Handled(s) + Capacity
    <3>1. Handled(s) + DataSize(s) + 0 = received[s]
      BY <2>2 DEF AtRest
    <3> QED
      BY <3>1, <2>3, <2>4, <2>5
  <2>7. received[s] >= Handled(s) + HEADER
    BY <2>3, <2>5, <2>6
  <2>8. Len(given[s]) < COUNT /\ received[s] < cut[s][Len(given[s]) + 1]
    BY <2>1, <2>7 DEF Listening
  <2>9. /\ cut[s][Len(given[s]) + 1] = Handled(s) + Size(s, Len(given[s]) + 1)
        /\ Size(s, Len(given[s]) + 1) \in Nat
    BY <1>1, <2>8, HandledFacts DEF IInv
  <2> QED
    BY <2>3, <2>5, <2>6, <2>8, <2>9
<1>2. IInv => RoomForPacket
  BY <1>1 DEF RoomForPacket
<1> QED
  BY <1>2, Invariance, PTL

\* Every step is one of PacketStream or leaves its variables alone: OnRecvPacket
\* is called for the packets of the stream, in order, once (PacketSession.cpp).
THEOREM ReceiveImplementsPacketStream == Spec => ImplementsPacketStream
<1>1. Init => Stream!Init
  BY DEF Init, Stream!Init
<1>2. ASSUME IInv, [Next]_vars PROVE [Stream!Next]_(Stream!vars)
  <2>1. ASSUME NEW s \in Sessions, Arrive(s) PROVE Stream!Arrive(s)
    <3>1. PICK n \in 1 .. request[s].length :
            /\ Stream!Sends(s, received[s] + n)
            /\ received' = [received EXCEPT ![s] = @ + n]
      BY <2>1 DEF Arrive
    <3>2. /\ received[s] \in Nat /\ n \in Int /\ n >= 1 /\ HEADER \in Nat
          /\ cut[s][COUNT] \in Nat /\ cut[s][COUNT - 1] \in Nat
          /\ cut[s][COUNT - 1] <= cut[s][COUNT]
      <4>1. COUNT \in 1 .. COUNT
        BY SizeAssumption
      <4>2. cut[s][COUNT - 1] \in Nat /\ cut[s][COUNT] = cut[s][COUNT - 1] + Size(s, COUNT)
        BY <1>2, <4>1, CutFacts DEF IInv
      <4>3. Size(s, COUNT) \in Nat
        BY <1>2, <4>1, CutFacts DEF IInv
      <4> QED
        BY <1>2, <4>2, <4>3, PosFacts, SizeAssumption DEF IInv
    <3>3. received[s] + n \in received[s] + 1 .. cut[s][COUNT] + HEADER
      <4>1. received[s] + n <= cut[s][COUNT] \/ received[s] + n <= cut[s][COUNT - 1] + HEADER
        BY <3>1 DEF Stream!Sends
      <4> QED
        BY <3>2, <4>1
    <3>4. received' = [received EXCEPT ![s] = received[s] + n]
      BY <3>1
    <3> QED
      BY <2>1, <3>1, <3>3, <3>4 DEF Arrive, Stream!Arrive
  <2>2. ASSUME NEW w \in Workers, OnRecvPacket(w)
        PROVE  \/ \E s \in Sessions : Stream!OnRecvPacket(s)
               \/ UNCHANGED <<cut, received, given>>
    <3>1. PICK s \in Sessions : s = Head(results[w]).session
      BY <1>2, <2>2, WorkFacts DEF OnRecvPacket, IInv
    <3>2. PICK size \in HeaderSizes(s) :
            /\ DataSize(s) - processLen[s] >= size
            /\ Record(s, <<Here(s), size>>)
            /\ processLen' = [processLen EXCEPT ![s] = @ + size]
      BY <2>2, <3>1 DEF OnRecvPacket
    <3>3. /\ pc[w] = "parse" /\ DataSize(s) - processLen[s] >= HEADER
          /\ UNCHANGED <<cut, received, mBuffer, mReadPos, mWritePos>>
      BY <2>2, <3>1 DEF OnRecvPacket, rio
    <3>4. Parsing(s)
      BY <1>2, <3>1, <3>3 DEF IInv, Data
    <3>5. /\ Recorded(s, <<Here(s), size>>)
          /\ processLen'[s] = processLen[s] + size
          /\ given' = [given EXCEPT ![s] = given'[s]]
      BY <1>2, <3>2 DEF IInv, TypeOK, Record, Recorded
    <3> DEFINE n == Len(given[s]) + 1
    <3>6. \/ given'[s] = given[s]
          \/ /\ n <= COUNT /\ Stream!Whole(s, n)
             /\ given'[s] = Append(given[s], <<cut[s][n - 1] + 1, Size(s, n)>>)
      BY <1>2, <3>2, <3>3, <3>4, <3>5, PacketData DEF IInv
    <3>7. CASE given'[s] = given[s]
      <4>1. given' = given
        BY <1>2, <3>5, <3>7 DEF IInv, TypeOK
      <4> QED
        BY <3>3, <4>1
    <3>8. CASE /\ n <= COUNT /\ Stream!Whole(s, n)
               /\ given'[s] = Append(given[s], <<cut[s][n - 1] + 1, Size(s, n)>>)
      <4>1. given' = [given EXCEPT ![s] = Append(@, <<cut[s][n - 1] + 1, Stream!Size(s, n)>>)]
        BY <3>5, <3>8 DEF Size, Stream!Size
      <4> QED
        BY <3>3, <3>8, <4>1 DEF Stream!OnRecvPacket
    <3> QED
      BY <3>6, <3>7, <3>8
  <2>3. ASSUME UNCHANGED <<cut, received, given>> PROVE UNCHANGED Stream!vars
    BY <2>3 DEF Stream!vars
  <2>4. ASSUME NEW s \in Sessions, LinkEnds(s) \/ Disconnect(s)
        PROVE  UNCHANGED <<cut, received, given>>
    BY <2>4 DEF LinkEnds, Disconnect, rio
  <2>5. ASSUME NEW w \in Workers,
               \/ ProcessDispatch(w) \/ Notify(w) \/ ProcessRecvFails(w)
               \/ ProcessRecv(w) \/ FinishRecv(w)
        PROVE  UNCHANGED <<cut, received, given>>
    BY <2>5 DEF ProcessDispatch, Notify, ProcessRecvFails, ProcessRecv, FinishRecv, rio
  <2>6. CASE UNCHANGED vars
    BY <2>3, <2>6 DEF vars, rio
  <2> QED
    BY <1>2, <2>1, <2>2, <2>3, <2>4, <2>5, <2>6 DEF Next, WorkerStep, Stream!Next
<1> QED
  BY <1>1, <1>2, Invariance, PTL DEF Spec, ImplementsPacketStream, Stream!Spec

-----------------------------------------------------------------------------
\* What the handlers rely on, in terms of states: the k-th call of OnRecvPacket gets
\* packet k of the stream of its session, whole, from its first byte to its last.
THEOREM PromiseKept == Spec => []Stream!Promise
<1>1. Stream!Init => Stream!Promise
  BY SizeAssumption DEF Stream!Init, Stream!Promise
<1>2. ASSUME IInv, Stream!Promise, [Stream!Next]_(Stream!vars) PROVE Stream!Promise'
  <2>1. ASSUME NEW s \in Sessions
        PROVE  /\ given \in [Sessions -> Seq(Nat \X Nat)] /\ received \in [Sessions -> Nat]
               /\ COUNT \in Nat /\ cut[s] \in [0 .. COUNT -> Nat]
    BY <1>2, CutFacts DEF IInv, TypeOK
  <2>2. ASSUME NEW r \in Sessions, Stream!Arrive(r) PROVE Stream!Promise'
    <3>1. PICK n \in received[r] + 1 .. cut[r][COUNT] + HEADER :
            received' = [received EXCEPT ![r] = n]
      BY <2>2 DEF Stream!Arrive
    <3>2. \A s \in Sessions : received[s] \in Nat /\ received'[s] \in Int /\ received[s] <= received'[s]
      BY <3>1, <2>1
    <3>3. cut' = cut /\ given' = given
      BY <2>2 DEF Stream!Arrive
    <3>4. ASSUME NEW s \in Sessions, NEW k \in 1..Len(given[s]) PROVE Stream!Whole(s, k)'
      <4>1. Len(given[s]) \in Nat /\ Len(given[s]) <= COUNT /\ Stream!Whole(s, k)
        BY <1>2, <2>1, LenProperties DEF Stream!Promise
      <4>2. k \in 0 .. COUNT /\ k - 1 \in 0 .. COUNT
        BY <2>1, <4>1
      <4>3. cut[s][k] \in Nat /\ cut[s][k - 1] \in Nat
        BY <2>1, <4>2
      <4> DEFINE end == cut[s][k]
                 before == cut[s][k - 1] + HEADER
      <4>5. end \in Nat /\ before \in Nat
        BY <4>3, SizeAssumption
      <4>6. end <= received[s] /\ before <= received[s]
        BY <4>1 DEF Stream!Whole
      <4> HIDE DEF end, before
      <4>7. end <= received'[s] /\ before <= received'[s]
        BY <3>2, <4>5, <4>6
      <4>4. cut[s][k] <= received'[s] /\ cut[s][k - 1] + HEADER <= received'[s]
        BY <4>7 DEF end, before
      <4> QED
        BY <3>3, <4>1, <4>4 DEF Stream!Whole, Stream!Size
    <3>5. ASSUME NEW s \in Sessions, NEW k \in 1..Len(given'[s])
          PROVE  given'[s][k] = <<cut'[s][k - 1] + 1, Stream!Size(s, k)'>> /\ Stream!Whole(s, k)'
      BY <1>2, <3>3, <3>4 DEF Stream!Promise, Stream!Size
    <3>6. \A s \in Sessions : Len(given'[s]) <= COUNT
      BY <1>2, <3>3 DEF Stream!Promise
    <3> QED
      BY <3>5, <3>6 DEF Stream!Promise
  <2>3. ASSUME NEW r \in Sessions, Stream!OnRecvPacket(r) PROVE Stream!Promise'
    <3> DEFINE k == Len(given[r]) + 1
               call == <<cut[r][k - 1] + 1, Stream!Size(r, k)>>
    <3>1. /\ k <= COUNT /\ Stream!Whole(r, k)
          /\ given' = [given EXCEPT ![r] = Append(given[r], call)]
          /\ cut' = cut /\ received' = received
      BY <2>3 DEF Stream!OnRecvPacket
    <3>2. given[r] \in Seq(Nat \X Nat) /\ Len(given[r]) \in Nat
      BY <2>1, LenProperties
    <3>3. given'[r] = Append(given[r], call)
          /\ \A s \in Sessions \ {r} : given'[s] = given[s]
      BY <2>1, <3>1
    <3>4. /\ Len(given'[r]) = k /\ given'[r][k] = call
          /\ \A m \in 1..k - 1 : given'[r][m] = given[r][m]
      BY <3>2, <3>3
    <3>5. ASSUME NEW m \in 1..k
          PROVE  given'[r][m] = <<cut[r][m - 1] + 1, Stream!Size(r, m)>> /\ Stream!Whole(r, m)
      <4>1. CASE m = k
        BY <3>1, <3>4, <4>1
      <4>2. CASE m # k
        <5>1. m \in 1..Len(given[r]) /\ m \in 1..k - 1
          BY <3>2, <4>2
        <5>2. given'[r][m] = given[r][m]
          BY <3>4, <5>1
        <5>3. given[r][m] = <<cut[r][m - 1] + 1, Stream!Size(r, m)>> /\ Stream!Whole(r, m)
          BY <1>2, <5>1 DEF Stream!Promise
        <5> QED
          BY <5>2, <5>3
      <4> QED
        BY <4>1, <4>2
    <3>6. \A s \in Sessions : \A m : Stream!Whole(s, m)' = Stream!Whole(s, m)
      BY <3>1 DEF Stream!Whole, Stream!Size
    <3>7. \A s \in Sessions : \A m : Stream!Size(s, m)' = Stream!Size(s, m)
      BY <3>1 DEF Stream!Size
    <3> HIDE DEF k, call
    <3>8. ASSUME NEW s \in Sessions
          PROVE  /\ Len(given'[s]) <= COUNT
                 /\ \A m \in 1..Len(given'[s]) :
                      given'[s][m] = <<cut[s][m - 1] + 1, Stream!Size(s, m)>> /\ Stream!Whole(s, m)
      <4>1. CASE s = r
        BY <3>1, <3>4, <3>5, <4>1
      <4>2. CASE s # r
        BY <1>2, <3>3, <4>2 DEF Stream!Promise
      <4> QED
        BY <4>1, <4>2
    <3> QED
      BY <3>1, <3>6, <3>7, <3>8 DEF Stream!Promise
  <2>4. CASE UNCHANGED Stream!vars
    BY <1>2, <2>4 DEF Stream!vars, Stream!Promise, Stream!Size, Stream!Whole
  <2> QED
    BY <1>2, <2>2, <2>3, <2>4 DEF Stream!Next
<1> QED
  BY <1>1, <1>2, Invariance, ReceiveImplementsPacketStream, PTL
  DEF ImplementsPacketStream, Stream!Spec
=============================================================================
