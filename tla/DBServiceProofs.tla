-------------------------- MODULE DBServiceProofs ---------------------------
(***************************************************************************)
(* Proofs about DBService, for any threads, services, queues and requests. *)
(* The job system inside keeps what JobQueueProofs proves about it.        *)
(***************************************************************************)
EXTENDS DBService, JobQueueProofs, SequenceTheorems

\* A sequence without repetition.
Inj(s) == \A i, k \in 1 .. Len(s) : s[i] = s[k] => i = k

\* A request is in one place: with its asker, ...
AskingOnce ==
  \A t \in LoopThreads : asking[t] # None =>
    asker[asking[t]] = t /\ asking[t] \notin handled

\* ... in its stream, ...
StreamsOnce ==
  \A d \in DBThreads, t \in LoopThreads :
    /\ Inj(mDBQueue[d][t])
    /\ \A j \in Stream(mDBQueue[d][t]) :
         asker[j] = t /\ service[j] = d /\ j \notin handled /\ asking[t] # j

\* ... in the vector of its service, ...
VectorsOnce ==
  \A d \in DBThreads :
    /\ Inj(dbJobs[d])
    /\ \A j \in Stream(dbJobs[d]) :
         /\ service[j] = d /\ j \notin handled /\ asking[asker[j]] # j
         /\ j \notin Stream(mDBQueue[d][asker[j]])

\* ... or handled.
Kept ==
  \A j \in Asked :
    \/ j \in handled \/ asking[asker[j]] = j
    \/ j \in Stream(mDBQueue[service[j]][asker[j]])
    \/ j \in Stream(dbJobs[service[j]])

Distinct == AskingOnce /\ StreamsOnce /\ VectorsOnce /\ Kept

\* RequestsCounted, with the requests a service has neither handled nor taken.
Pending(d) ==
  {j \in Asked : service[j] = d /\ j \notin handled /\ j \notin Stream(dbJobs[d])}

PendingCounted ==
  \A d \in DBThreads : mQueueCount[d] - taken[d] = Cardinality(Pending(d))

\* What a thread asked before is handled before, ...
EarlierOnes ==
  \A k \in Jobs : \A j \in earlier[k] :
    /\ j \in Asked /\ k \in Asked /\ asker[j] = asker[k] /\ service[j] = service[k] /\ j # k
    /\ k \in handled => j \in handled

\* ... ahead in the vector, ...
VectorsInOrder ==
  \A d \in DBThreads : \A n \in 1 .. Len(dbJobs[d]) : \A j \in earlier[dbJobs[d][n]] :
    j \in handled \/ \E m \in 1 .. n - 1 : dbJobs[d][m] = j

\* ... and ahead in the stream.
StreamsInOrder ==
  \A d \in DBThreads, t \in LoopThreads :
    \A n \in 1 .. Len(mDBQueue[d][t]) : \A j \in earlier[mDBQueue[d][t][n]] :
      \/ j \in handled \/ j \in Stream(dbJobs[d])
      \/ \E m \in 1 .. n - 1 : mDBQueue[d][t][m] = j

Ahead == EarlierOnes /\ VectorsInOrder /\ StreamsInOrder

\* The database thread pushes the response of what it has handled to its owner, and
\* nobody else pushes it.
Answered ==
  /\ \A d \in DBThreads : pushJob[d] # None =>
       /\ pushJob[d] \in handled /\ service[pushJob[d]] = d
       /\ owner[pushJob[d]] = pushQueue[d]
  /\ \A t \in LoopThreads : pushJob[t] \notin Asked
  /\ \A j \in Asked : j \notin handled \/ owner[j] = None => home[j] = None
  /\ \A j \in handled : owner[j] # None =>
       \/ pushJob[service[j]] = j
       \/ home[j] = owner[j] /\ by[j] = service[j]

\* Responses to one owner keep the order of their requests into the job queue ...
PushedInOrder ==
  \A k \in Jobs : \A j \in earlier[k] :
    owner[j] = owner[k] /\ owner[k] # None /\ home[k] # None => j \in prior[k]

\* ... and through it.
RunsInOrder == \A k \in finished \cup Running : prior[k] \subseteq finished

RequestInv == DBTypeOK /\ Distinct /\ PendingCounted /\ Ahead

AnswerInv == Answered /\ PushedInOrder /\ RunsInOrder

-----------------------------------------------------------------------------
(* Sequences without repetition *)

\* Appending adds one element.
LEMMA AppendStream ==
  ASSUME NEW S, NEW s \in Seq(S), NEW x \in S
  PROVE  /\ Append(s, x) \in Seq(S)
         /\ Stream(Append(s, x)) = Stream(s) \cup {x}
         /\ Inj(s) /\ x \notin Stream(s) => Inj(Append(s, x))
<1>1. /\ Append(s, x) \in Seq(S) /\ Len(Append(s, x)) = Len(s) + 1 /\ Len(s) \in Nat
      /\ \A i \in 1 .. Len(s) : Append(s, x)[i] = s[i]
      /\ Append(s, x)[Len(s) + 1] = x
  OBVIOUS
<1>2. \A i \in 1 .. Len(s) + 1 : i \in 1 .. Len(s) \/ i = Len(s) + 1
  BY <1>1
<1>3. Stream(Append(s, x)) = Stream(s) \cup {x}
  BY <1>1, <1>2 DEF Stream
<1>4. Inj(s) /\ x \notin Stream(s) => Inj(Append(s, x))
  BY <1>1, <1>2 DEF Stream, Inj
<1> QED
  BY <1>1, <1>3, <1>4

\* Taking the head removes one element, and only it.
LEMMA TailStream ==
  ASSUME NEW S, NEW s \in Seq(S), s # <<>>
  PROVE  /\ Tail(s) \in Seq(S) /\ Head(s) \in S /\ Head(s) \in Stream(s)
         /\ Inj(s) => Inj(Tail(s)) /\ Stream(Tail(s)) = Stream(s) \ {Head(s)}
<1>1. /\ Tail(s) \in Seq(S) /\ Head(s) \in S /\ Head(s) = s[1]
      /\ Len(s) \in Nat \ {0} /\ Len(Tail(s)) = Len(s) - 1
      /\ \A i \in 1 .. Len(Tail(s)) : Tail(s)[i] = s[i + 1]
  BY HeadTailProperties, EmptySeq
<1>2. Head(s) \in Stream(s)
  BY <1>1 DEF Stream
<1>3. ASSUME Inj(s) PROVE Inj(Tail(s))
  <2> SUFFICES ASSUME NEW i \in 1 .. Len(s) - 1, NEW k \in 1 .. Len(s) - 1,
                      Tail(s)[i] = Tail(s)[k]
               PROVE  i = k
    BY <1>1 DEF Inj
  <2>1. s[i + 1] = s[k + 1] /\ i + 1 \in 1 .. Len(s) /\ k + 1 \in 1 .. Len(s)
    BY <1>1
  <2>2. i + 1 = k + 1
    BY <1>3, <2>1 DEF Inj
  <2> QED
    BY <2>2
<1>4. ASSUME Inj(s) PROVE Stream(Tail(s)) = Stream(s) \ {Head(s)}
  <2>1. ASSUME NEW i \in 1 .. Len(s) - 1
        PROVE  Tail(s)[i] \in Stream(s) /\ Tail(s)[i] # Head(s)
    <3>1. i + 1 \in 1 .. Len(s) /\ 1 \in 1 .. Len(s) /\ i + 1 # 1
      BY <1>1
    <3> QED
      BY <1>1, <1>4, <3>1 DEF Inj, Stream
  <2>2. ASSUME NEW i \in 1 .. Len(s), s[i] # Head(s)
        PROVE  s[i] \in Stream(Tail(s))
    <3>1. i - 1 \in 1 .. Len(Tail(s)) /\ s[i] = Tail(s)[i - 1]
      BY <1>1, <2>2
    <3> QED
      BY <3>1 DEF Stream
  <2>3. ASSUME NEW x \in Stream(Tail(s)) PROVE x \in Stream(s) \ {Head(s)}
    <3>1. PICK i \in 1 .. Len(Tail(s)) : x = Tail(s)[i]
      BY DEF Stream
    <3>2. i \in 1 .. Len(s) - 1
      BY <1>1
    <3> QED
      BY <2>1, <3>1, <3>2
  <2>4. ASSUME NEW x \in Stream(s) \ {Head(s)} PROVE x \in Stream(Tail(s))
    <3>1. PICK i \in 1 .. Len(s) : x = s[i]
      BY DEF Stream
    <3> QED
      BY <2>2, <3>1
  <2> QED
    BY <2>3, <2>4
<1> QED
  BY <1>1, <1>2, <1>3, <1>4

\* A sequence without repetition is as long as it has elements.
LEMMA StreamCardinality ==
  ASSUME NEW S, NEW s \in Seq(S), Inj(s)
  PROVE  Len(s) = Cardinality(Stream(s))
<1>1. Len(s) \in Nat /\ s \in [1 .. Len(s) -> S]
  BY LenProperties
<1>2. s \in [1 .. Len(s) -> Stream(s)]
  BY <1>1 DEF Stream
<1>3. s \in Bijection(1 .. Len(s), Stream(s))
  BY <1>2 DEF Inj, Stream, Bijection, Injection, Surjection, IsInjective
<1>4. ExistsBijection(1 .. Len(s), Stream(s))
  BY <1>3 DEF ExistsBijection
<1> QED
  BY <1>1, <1>4, FS_CountingElements

-----------------------------------------------------------------------------
(* The requests: DBTypeOK, Distinct, PendingCounted *)

\* There are finitely many requests, and finitely many pending ones.
LEMMA AskedFinite ==
  /\ Asked \subseteq Jobs /\ IsFiniteSet(Asked)
  /\ \A d \in DBThreads : IsFiniteSet(Pending(d)) /\ Cardinality(Pending(d)) \in Nat
<1>1. Asked \subseteq Jobs /\ \A d \in DBThreads : Pending(d) \subseteq Jobs
  BY DEF Asked, Pending
<1> QED
  BY <1>1, JobsAssumption, FS_Subset, FS_CardinalityType

\* Only Ask makes a job a request.
LEMMA AskAsks ==
  ASSUME DBTypeOK, NEW t \in LoopThreads, NEW j \in Jobs, NEW d \in DBThreads, Ask(t, j, d)
  PROVE  /\ j \notin Asked /\ Asked' = Asked \cup {j} /\ t # None /\ j # None /\ d # None
         /\ Seq(Asked) \subseteq Seq(Asked')
<1>1. j \notin Asked /\ Asked' = Asked \cup {j} /\ t # None /\ j # None /\ d # None
  BY NoneAssumption DEF Ask, Asked, DBTypeOK, Threads
<1>2. \A s \in Seq(Asked) : s \in Seq(Asked')
  BY <1>1, SeqMonotonic
<1> QED
  BY <1>1, <1>2

\* A vector's requests are among those counted, so that the subtraction ends at 0 or above.
LEMMA DBTypeStep ==
  DBTypeOK /\ Distinct /\ PendingCounted /\ [DBNext]_<<vars, dbVars>> => DBTypeOK'
<1> SUFFICES ASSUME DBTypeOK, Distinct, PendingCounted, [DBNext]_<<vars, dbVars>>
             PROVE  DBTypeOK'
  OBVIOUS
<1> USE BulkDBAssumption DEF dbVars, requestVars
<1>1. ASSUME UNCHANGED dbVars PROVE DBTypeOK'
  BY <1>1 DEF DBTypeOK, Asked
<1>2. ASSUME NEW t \in LoopThreads, NEW j \in Jobs, NEW d \in DBThreads,
             Ask(t, j, d)
      PROVE  DBTypeOK'
  <2>1. /\ Asked' = Asked \cup {j} /\ Seq(Asked) \subseteq Seq(Asked') /\ d # None
    BY <1>2, AskAsks
  <2>2. /\ mDBQueue' \in [DBThreads -> [LoopThreads -> Seq(Asked')]]
        /\ dbJobs' \in [DBThreads -> Seq(Asked')]
    BY <1>2, <2>1 DEF Ask, DBTypeOK
  <2>3. earlier' \in [Jobs -> SUBSET Asked'] /\ handled' \subseteq Asked'
        /\ asking' \in [LoopThreads -> Asked' \cup {None}]
    BY <1>2, <2>1 DEF Ask, DBTypeOK
  <2>4. /\ mQueueCount' \in [DBThreads -> Nat] /\ owner' \in [Jobs -> Owners \cup {None}]
        /\ asker' \in [Jobs -> LoopThreads \cup {None}]
    BY <1>2, <2>1 DEF Ask, DBTypeOK
  <2>5. /\ service' \in [Jobs -> DBThreads \cup {None}]
        /\ \A k \in Asked' : service'[k] # None
    BY <1>2, <2>1 DEF Ask, DBTypeOK, Asked
  <2> QED
    BY <1>2, <2>2, <2>3, <2>4, <2>5 DEF Ask, DBTypeOK
<1>3. ASSUME NEW t \in LoopThreads, AskEnqueue(t) PROVE DBTypeOK'
  <2>1. asking[t] \in Asked /\ asking[t] \in Jobs /\ service[asking[t]] \in DBThreads
    BY <1>3, AskedFinite DEF AskEnqueue, DBTypeOK
  <2>4. Append(mDBQueue[service[asking[t]]][t], asking[t]) \in Seq(Asked)
    BY <2>1, AppendStream DEF DBTypeOK
  <2>2. Asked' = Asked
    BY <1>3 DEF AskEnqueue, Asked
  <2>3. mDBQueue' \in [DBThreads -> [LoopThreads -> Seq(Asked)]]
    BY <1>3, <2>1, <2>4 DEF AskEnqueue, DBTypeOK
  <2> QED
    BY <1>3, <2>2, <2>3 DEF AskEnqueue, DBTypeOK
<1>4. ASSUME NEW d \in DBThreads, Begin(d) \/ Filled(d) PROVE DBTypeOK'
  <2>1. Asked' = Asked
    BY <1>4 DEF Begin, Filled, Asked
  <2> QED
    BY <1>4, <2>1 DEF Begin, Filled, DBTypeOK
<1>5. ASSUME NEW d \in DBThreads, Take(d) PROVE DBTypeOK'
  <2>1. PICK t \in LoopThreads :
          /\ mDBQueue[d][t] # <<>>
          /\ dbJobs' = [dbJobs EXCEPT ![d] = Append(@, Head(mDBQueue[d][t]))]
          /\ mDBQueue' = [mDBQueue EXCEPT ![d][t] = Tail(@)]
    BY <1>5 DEF Take
  <2>2. mDBQueue[d][t] \in Seq(Asked) /\ dbJobs[d] \in Seq(Asked)
    BY DEF DBTypeOK
  <2>3. Tail(mDBQueue[d][t]) \in Seq(Asked) /\ Head(mDBQueue[d][t]) \in Asked
    BY <2>1, <2>2, TailStream
  <2>4. Append(dbJobs[d], Head(mDBQueue[d][t])) \in Seq(Asked)
    BY <2>2, <2>3, AppendStream
  <2>5. /\ mDBQueue' \in [DBThreads -> [LoopThreads -> Seq(Asked)]]
        /\ dbJobs' \in [DBThreads -> Seq(Asked)]
    BY <2>1, <2>3, <2>4 DEF DBTypeOK
  <2>6. Asked' = Asked /\ taken' \in [DBThreads -> 0 .. BULK_DB]
    BY <1>5 DEF Take, Asked, DBTypeOK
  <2> QED
    BY <1>5, <2>5, <2>6 DEF Take, DBTypeOK
<1>6. ASSUME NEW d \in DBThreads, HandleData(d) PROVE DBTypeOK'
  <2>1. Asked' = Asked
    BY <1>6 DEF HandleData, Asked
  <2>2. Tail(dbJobs[d]) \in Seq(Asked) /\ Head(dbJobs[d]) \in Asked
    BY <1>6, TailStream DEF HandleData, DBTypeOK
  <2> QED
    BY <1>6, <2>1, <2>2 DEF HandleData, Rest, DBTypeOK
<1>7. ASSUME NEW d \in DBThreads, Subtract(d) PROVE DBTypeOK'
  <2>1. mQueueCount[d] - taken[d] \in Nat
    BY AskedFinite DEF PendingCounted
  <2>2. Asked' = Asked
    BY <1>7 DEF Subtract, Asked
  <2> QED
    BY <1>7, <2>1, <2>2 DEF Subtract, Remaining, DBTypeOK
<1> QED
  BY <1>1, <1>2, <1>3, <1>4, <1>5, <1>6, <1>7 DEF DBNext, DBStep

\* Each step moves one request from one place to the next.
LEMMA DistinctStep ==
  DBTypeOK /\ Distinct /\ [DBNext]_<<vars, dbVars>> => Distinct'
<1> SUFFICES ASSUME DBTypeOK, Distinct, [DBNext]_<<vars, dbVars>>
             PROVE  Distinct'
  OBVIOUS
<1>1. ASSUME UNCHANGED <<asking, asker, service, mDBQueue, dbJobs, handled>> PROVE Distinct'
  BY <1>1 DEF Distinct, AskingOnce, StreamsOnce, VectorsOnce, Kept, Asked
<1>2. \A j \in Asked : asker[j] \in LoopThreads /\ service[j] \in DBThreads /\ j \in Jobs
  BY DEF Asked, DBTypeOK
<1>3. \A s \in Seq(Asked) : Stream(s) \subseteq Asked
  BY ElementOfSeq DEF Stream
<1>4. /\ \A d \in DBThreads : Stream(dbJobs[d]) \subseteq Asked
      /\ \A d \in DBThreads, t \in LoopThreads : Stream(mDBQueue[d][t]) \subseteq Asked
  BY <1>3 DEF DBTypeOK
<1>5. \A j \in Asked : j # None
  BY NoneAssumption DEF Asked
<1>6. ASSUME NEW t \in LoopThreads, NEW j \in Jobs, NEW d \in DBThreads,
             Ask(t, j, d)
      PROVE  Distinct'
  <2>1. /\ j \notin Asked /\ Asked' = Asked \cup {j} /\ j # None
        /\ asking[t] = None /\ asking' = [asking EXCEPT ![t] = j]
        /\ asker' = [asker EXCEPT ![j] = t] /\ service' = [service EXCEPT ![j] = d]
        /\ UNCHANGED <<mDBQueue, dbJobs, handled>>
    BY <1>6, AskAsks DEF Ask
  <2>2. /\ j \notin handled
        /\ \A u \in LoopThreads : asking[u] # j
        /\ \A e \in DBThreads : Stream(dbJobs[e]) \subseteq Asked
        /\ \A e \in DBThreads, u \in LoopThreads : Stream(mDBQueue[e][u]) \subseteq Asked
    BY <2>1, <1>3 DEF DBTypeOK
  <2>3. /\ asker'[j] = t /\ \A k \in Asked : asker'[k] = asker[k]
        /\ \A k \in Asked : service'[k] = service[k]
        /\ asking'[t] = j /\ \A u \in LoopThreads \ {t} : asking'[u] = asking[u]
    BY <2>1 DEF DBTypeOK
  <2>4. AskingOnce'
    <3>1. \A u \in LoopThreads \ {t} : asking[u] # None => asking[u] \in Asked
      BY DEF DBTypeOK
    <3> QED
      BY <2>1, <2>2, <2>3, <3>1 DEF Distinct, AskingOnce
  <2>5. StreamsOnce'
    <3> SUFFICES ASSUME NEW e \in DBThreads, NEW u \in LoopThreads,
                        NEW k \in Stream(mDBQueue[e][u])
                 PROVE  asker'[k] = u /\ service'[k] = e /\ k \notin handled /\ asking'[u] # k
      BY <2>1 DEF Distinct, StreamsOnce
    <3>1. k \in Asked /\ k # j /\ asker'[k] = asker[k] /\ service'[k] = service[k]
      BY <1>4, <2>1, <2>3
    <3> QED
      BY <2>3, <3>1 DEF Distinct, StreamsOnce
  <2>6. VectorsOnce'
    <3> SUFFICES ASSUME NEW e \in DBThreads, NEW k \in Stream(dbJobs[e])
                 PROVE  /\ service'[k] = e /\ k \notin handled /\ asking'[asker'[k]] # k
                        /\ k \notin Stream(mDBQueue[e][asker'[k]])
      BY <2>1 DEF Distinct, VectorsOnce
    <3>1. /\ k \in Asked /\ k # j /\ asker'[k] = asker[k] /\ asker[k] \in LoopThreads
          /\ service'[k] = service[k]
      BY <1>2, <2>1, <2>2, <2>3
    <3> QED
      BY <2>1, <2>3, <3>1 DEF Distinct, VectorsOnce
  <2>7. Kept'
    <3>1. ASSUME NEW k \in Asked
          PROVE  /\ asker'[k] = asker[k] /\ service'[k] = service[k]
                 /\ asking[asker[k]] = k => asking'[asker[k]] = k
      BY <1>2, <2>1, <2>3, NoneAssumption DEF Asked
    <3> QED
      BY <2>1, <2>3, <3>1 DEF Distinct, Kept
  <2> QED
    BY <2>4, <2>5, <2>6, <2>7 DEF Distinct
<1>7. ASSUME NEW t \in LoopThreads, AskEnqueue(t) PROVE Distinct'
  <2> DEFINE j == asking[t]
             d == service[j]
             s == mDBQueue[d][t]
  <2>1. d \in DBThreads /\ j \in Asked /\ s \in Seq(Asked) /\ j # None
    BY <1>2, <1>7 DEF AskEnqueue, DBTypeOK
  <2>2. /\ asker[j] = t /\ j \notin handled /\ j \notin Stream(s) /\ Inj(s)
        /\ \A e \in DBThreads : j \notin Stream(dbJobs[e])
    BY <1>7, <2>1 DEF AskEnqueue, Distinct, AskingOnce, StreamsOnce, VectorsOnce
  <2>3. Stream(Append(s, j)) = Stream(s) \cup {j} /\ Inj(Append(s, j))
    BY <2>1, <2>2, AppendStream
  <2>4. /\ mDBQueue'[d][t] = Append(s, j)
        /\ \A e \in DBThreads, u \in LoopThreads :
             e # d \/ u # t => mDBQueue'[e][u] = mDBQueue[e][u]
        /\ asking'[t] = None /\ \A u \in LoopThreads \ {t} : asking'[u] = asking[u]
        /\ Asked' = Asked /\ UNCHANGED <<asker, service, dbJobs, handled>>
    BY <1>7, <2>1 DEF AskEnqueue, DBTypeOK, Asked
  <2>5. AskingOnce'
    BY <2>4 DEF Distinct, AskingOnce
  <2>6. StreamsOnce'
    <3> SUFFICES ASSUME NEW e \in DBThreads, NEW u \in LoopThreads
                 PROVE  /\ Inj(mDBQueue'[e][u])
                        /\ \A k \in Stream(mDBQueue'[e][u]) :
                             asker[k] = u /\ service[k] = e /\ k \notin handled /\ asking'[u] # k
      BY <2>4 DEF StreamsOnce
    <3>1. CASE e = d /\ u = t
      <4>1. \A k \in Stream(s) :
              k # None /\ asker[k] = t /\ service[k] = d /\ k \notin handled
        BY <1>4, <1>5, <2>1 DEF Distinct, StreamsOnce
      <4> QED
        BY <2>1, <2>2, <2>3, <2>4, <3>1, <4>1
    <3>2. CASE e # d \/ u # t
      <4>1. mDBQueue'[e][u] = mDBQueue[e][u] /\ (asking'[u] = asking[u] \/ asking'[u] = None)
        BY <2>4, <3>2
      <4>2. \A k \in Stream(mDBQueue[e][u]) : k # None
        BY <1>4, <1>5
      <4> QED
        BY <4>1, <4>2 DEF Distinct, StreamsOnce
    <3> QED
      BY <3>1, <3>2
  <2>7. VectorsOnce'
    <3> SUFFICES ASSUME NEW e \in DBThreads, NEW k \in Stream(dbJobs[e])
                 PROVE  /\ service[k] = e /\ k \notin handled /\ asking'[asker[k]] # k
                        /\ k \notin Stream(mDBQueue'[e][asker[k]])
      BY <2>4 DEF Distinct, VectorsOnce
    <3>1. /\ k \in Asked /\ k # None /\ asker[k] \in LoopThreads /\ k # j
      BY <1>2, <1>4, <1>5, <2>2
    <3>2. /\ service[k] = e /\ k \notin handled /\ asking[asker[k]] # k
          /\ k \notin Stream(mDBQueue[e][asker[k]])
      BY DEF Distinct, VectorsOnce
    <3>3. CASE e = d /\ asker[k] = t
      BY <2>3, <2>4, <3>1, <3>2, <3>3
    <3>4. CASE e # d \/ asker[k] # t
      BY <2>4, <3>1, <3>2, <3>4
    <3> QED
      BY <3>3, <3>4
  <2>8. Kept'
    <3> SUFFICES ASSUME NEW k \in Asked
                 PROVE  \/ k \in handled \/ asking'[asker[k]] = k
                        \/ k \in Stream(mDBQueue'[service[k]][asker[k]])
                        \/ k \in Stream(dbJobs[service[k]])
      BY <2>4 DEF Kept
    <3>1. CASE k = j
      BY <2>2, <2>3, <2>4, <3>1
    <3>2. CASE k # j /\ asker[k] = t
      <4>1. \A e \in DBThreads : Stream(mDBQueue[e][t]) \subseteq Stream(mDBQueue'[e][t])
        BY <2>3, <2>4
      <4> QED
        BY <1>2, <2>4, <3>2, <4>1 DEF Distinct, Kept
    <3>3. CASE asker[k] # t
      BY <1>2, <2>4, <3>3 DEF Distinct, Kept
    <3> QED
      BY <3>1, <3>2, <3>3
  <2> QED
    BY <2>5, <2>6, <2>7, <2>8 DEF Distinct
<1>8. ASSUME NEW d \in DBThreads, Take(d) PROVE Distinct'
  <2>1. PICK t \in LoopThreads :
          /\ mDBQueue[d][t] # <<>>
          /\ dbJobs' = [dbJobs EXCEPT ![d] = Append(@, Head(mDBQueue[d][t]))]
          /\ mDBQueue' = [mDBQueue EXCEPT ![d][t] = Tail(@)]
    BY <1>8 DEF Take
  <2> DEFINE s == mDBQueue[d][t]
             v == dbJobs[d]
             j == Head(s)
  <2>2. s \in Seq(Asked) /\ v \in Seq(Asked) /\ s # <<>> /\ Inj(s) /\ Inj(v)
    BY <2>1 DEF DBTypeOK, Distinct, StreamsOnce, VectorsOnce
  <2>3. /\ j \in Asked /\ j \in Stream(s) /\ Inj(Tail(s)) /\ Stream(Tail(s)) = Stream(s) \ {j}
    BY <2>2, TailStream
  <2>4. /\ asker[j] = t /\ service[j] = d /\ j \notin handled /\ asking[t] # j
        /\ \A e \in DBThreads : j \notin Stream(dbJobs[e])
    <3>1. asker[j] = t /\ service[j] = d /\ j \notin handled /\ asking[t] # j
      BY <2>3 DEF Distinct, StreamsOnce
    <3>2. ASSUME NEW e \in DBThreads, j \in Stream(dbJobs[e]) PROVE FALSE
      <4>1. e = d /\ j \notin Stream(mDBQueue[e][t])
        BY <3>1, <3>2 DEF Distinct, VectorsOnce
      <4> QED
        BY <2>3, <4>1
    <3> QED
      BY <3>1, <3>2
  <2>5. Stream(Append(v, j)) = Stream(v) \cup {j} /\ Inj(Append(v, j))
    BY <2>2, <2>3, <2>4, AppendStream
  <2>6. /\ mDBQueue'[d][t] = Tail(s) /\ dbJobs'[d] = Append(v, j)
        /\ \A e \in DBThreads, u \in LoopThreads :
             e # d \/ u # t => mDBQueue'[e][u] = mDBQueue[e][u]
        /\ \A e \in DBThreads : e # d => dbJobs'[e] = dbJobs[e]
        /\ Asked' = Asked /\ UNCHANGED <<asking, asker, service, handled>>
    BY <1>8, <2>1 DEF Take, DBTypeOK, Asked
  <2>7. AskingOnce'
    BY <2>6 DEF Distinct, AskingOnce
  <2>8. StreamsOnce'
    <3> SUFFICES ASSUME NEW e \in DBThreads, NEW u \in LoopThreads
                 PROVE  /\ Inj(mDBQueue'[e][u])
                        /\ Stream(mDBQueue'[e][u]) \subseteq Stream(mDBQueue[e][u])
      <4>1. ASSUME NEW e \in DBThreads, NEW u \in LoopThreads,
                   Stream(mDBQueue'[e][u]) \subseteq Stream(mDBQueue[e][u]),
                   NEW k \in Stream(mDBQueue'[e][u])
            PROVE  asker[k] = u /\ service[k] = e /\ k \notin handled /\ asking[u] # k
        BY <4>1 DEF Distinct, StreamsOnce
      <4> QED
        BY <2>6, <4>1, SMTT(30) DEF StreamsOnce
    <3>1. CASE e = d /\ u = t
      BY <2>3, <2>6, <3>1
    <3>2. CASE e # d \/ u # t
      BY <2>6, <3>2 DEF Distinct, StreamsOnce
    <3> QED
      BY <3>1, <3>2
  <2>9. VectorsOnce'
    <3> SUFFICES ASSUME NEW e \in DBThreads
                 PROVE  /\ Inj(dbJobs'[e])
                        /\ \A k \in Stream(dbJobs'[e]) :
                             /\ service[k] = e /\ k \notin handled /\ asking[asker[k]] # k
                             /\ k \notin Stream(mDBQueue'[e][asker[k]])
      BY <2>6 DEF VectorsOnce
    <3>1. CASE e # d
      <4>1. \A k \in Stream(dbJobs[e]) : asker[k] \in LoopThreads
        BY <1>2, <1>3 DEF DBTypeOK
      <4> QED
        BY <2>6, <3>1, <4>1 DEF Distinct, VectorsOnce
    <3>2. CASE e = d
      <4>1. ASSUME NEW k \in Stream(v)
            PROVE  /\ service[k] = d /\ k \notin handled /\ asking[asker[k]] # k
                   /\ k \notin Stream(mDBQueue'[d][asker[k]])
        <5>1. asker[k] \in LoopThreads
          BY <1>2, <1>3, <2>2
        <5> QED
          BY <2>3, <2>6, <5>1 DEF Distinct, VectorsOnce
      <4>2. j \notin Stream(mDBQueue'[d][t])
        BY <2>3, <2>6
      <4>3. dbJobs'[e] = Append(v, j) /\ Stream(dbJobs'[e]) = Stream(v) \cup {j}
        BY <2>5, <2>6, <3>2
      <4> QED
        BY <2>4, <2>5, <3>2, <4>1, <4>2, <4>3
    <3> QED
      BY <3>1, <3>2
  <2>10. Kept'
    <3> SUFFICES ASSUME NEW k \in Asked
                 PROVE  \/ k \in handled \/ asking[asker[k]] = k
                        \/ k \in Stream(mDBQueue'[service[k]][asker[k]])
                        \/ k \in Stream(dbJobs'[service[k]])
      BY <2>6 DEF Kept
    <3>1. CASE k = j
      BY <2>4, <2>5, <2>6, <3>1
    <3>2. CASE k # j /\ service[k] = d
      <4>1. Stream(v) \subseteq Stream(dbJobs'[d])
        BY <2>5, <2>6
      <4>2. CASE asker[k] = t
        BY <2>3, <2>6, <3>2, <4>1, <4>2 DEF Distinct, Kept
      <4>3. CASE asker[k] # t
        BY <1>2, <2>6, <3>2, <4>1, <4>3 DEF Distinct, Kept
      <4> QED
        BY <4>2, <4>3
    <3>3. CASE service[k] # d
      BY <1>2, <2>6, <3>3 DEF Distinct, Kept
    <3> QED
      BY <3>1, <3>2, <3>3
  <2> QED
    BY <2>7, <2>8, <2>9, <2>10 DEF Distinct
<1>9. ASSUME NEW d \in DBThreads, HandleData(d) PROVE Distinct'
  <2> DEFINE v == dbJobs[d]
             j == Head(v)
  <2>1. v \in Seq(Asked) /\ v # <<>> /\ Inj(v)
    BY <1>9 DEF HandleData, DBTypeOK, Distinct, VectorsOnce
  <2>2. j \in Asked /\ j \in Stream(v) /\ Inj(Tail(v)) /\ Stream(Tail(v)) = Stream(v) \ {j}
    BY <2>1, TailStream
  <2>3. /\ dbJobs'[d] = Tail(v) /\ \A e \in DBThreads : e # d => dbJobs'[e] = dbJobs[e]
        /\ Asked' = Asked /\ handled' = handled \cup {j}
        /\ UNCHANGED <<asking, asker, service, mDBQueue>>
    BY <1>9 DEF HandleData, Rest, DBTypeOK, Asked, requestVars
  <2>4. /\ service[j] = d /\ asking[asker[j]] # j /\ asker[j] \in LoopThreads
        /\ j \notin Stream(mDBQueue[d][asker[j]])
    BY <1>2, <2>2 DEF Distinct, VectorsOnce
  <2>5. AskingOnce'
    BY <2>3, <2>4 DEF Distinct, AskingOnce
  <2>6. StreamsOnce'
    BY <2>3, <2>4 DEF Distinct, StreamsOnce
  <2>7. VectorsOnce'
    <3> SUFFICES ASSUME NEW e \in DBThreads
                 PROVE  /\ Inj(dbJobs'[e]) /\ j \notin Stream(dbJobs'[e])
                        /\ Stream(dbJobs'[e]) \subseteq Stream(dbJobs[e])
      BY <2>3 DEF Distinct, VectorsOnce
    <3>1. CASE e = d
      BY <2>2, <2>3, <3>1
    <3>2. CASE e # d
      BY <2>3, <2>4, <3>2 DEF Distinct, VectorsOnce
    <3> QED
      BY <3>1, <3>2
  <2>8. Kept'
    <3> SUFFICES ASSUME NEW k \in Asked, k # j
                 PROVE  \/ k \in handled \/ asking[asker[k]] = k
                        \/ k \in Stream(mDBQueue[service[k]][asker[k]])
                        \/ k \in Stream(dbJobs'[service[k]])
      BY <2>3 DEF Kept
    <3>1. \A e \in DBThreads : k \in Stream(dbJobs[e]) => k \in Stream(dbJobs'[e])
      BY <2>2, <2>3
    <3> QED
      BY <1>2, <3>1 DEF Distinct, Kept
  <2> QED
    BY <2>5, <2>6, <2>7, <2>8 DEF Distinct
<1> QED
  BY <1>1, <1>6, <1>7, <1>8, <1>9
  DEF DBNext, DBStep, Begin, Filled, Subtract, dbVars, requestVars

\* A request is counted when it is asked, taken off the count with its vector, and
\* pending in between.
LEMMA PendingStep ==
  DBTypeOK /\ Distinct /\ PendingCounted /\ [DBNext]_<<vars, dbVars>> => PendingCounted'
<1> SUFFICES ASSUME DBTypeOK, Distinct, PendingCounted, [DBNext]_<<vars, dbVars>>
             PROVE  PendingCounted'
  OBVIOUS
<1>1. ASSUME UNCHANGED <<mQueueCount, taken>>, \A d \in DBThreads : Pending(d)' = Pending(d)
      PROVE  PendingCounted'
  BY <1>1 DEF PendingCounted
<1>2. ASSUME UNCHANGED <<mQueueCount, taken, asker, service, handled, dbJobs>> PROVE PendingCounted'
  BY <1>1, <1>2 DEF Pending, Asked
<1>3. /\ mQueueCount \in [DBThreads -> Nat] /\ taken \in [DBThreads -> Nat]
  BY BulkDBAssumption DEF DBTypeOK
<1>4. ASSUME NEW t \in LoopThreads, NEW j \in Jobs, NEW d \in DBThreads,
             Ask(t, j, d)
      PROVE  PendingCounted'
  <2>1. /\ j \notin Asked /\ Asked' = Asked \cup {j}
        /\ service'[j] = d /\ \A k \in Asked : service'[k] = service[k]
    <3>1. service' = [service EXCEPT ![j] = d]
      BY <1>4 DEF Ask
    <3> QED
      BY <1>4, <3>1, AskAsks, AskedFinite DEF DBTypeOK
  <2>2. j \notin handled /\ \A e \in DBThreads : j \notin Stream(dbJobs[e])
    <3>1. \A s \in Seq(Asked) : Stream(s) \subseteq Asked
      BY ElementOfSeq DEF Stream
    <3> QED
      BY <2>1, <3>1 DEF DBTypeOK
  <2>3. /\ mQueueCount' = [mQueueCount EXCEPT ![d] = @ + 1]
        /\ UNCHANGED <<taken, handled, dbJobs>>
    BY <1>4 DEF Ask
  <2>4. \A e \in DBThreads : e # d => Pending(e)' = Pending(e)
    BY <2>1, <2>2, <2>3 DEF Pending
  <2>5. Pending(d)' = Pending(d) \cup {j} /\ j \notin Pending(d)
    BY <2>1, <2>2, <2>3 DEF Pending
  <2>6. Cardinality(Pending(d)') = Cardinality(Pending(d)) + 1
    BY <2>1, <2>5, AskedFinite, FS_AddElement
  <2>7. mQueueCount'[d] - taken'[d] = Cardinality(Pending(d)')
    <3>1. mQueueCount'[d] = mQueueCount[d] + 1 /\ taken'[d] = taken[d]
      BY <1>3, <2>1, <2>3
    <3>2. mQueueCount[d] - taken[d] = Cardinality(Pending(d))
      BY <2>1 DEF PendingCounted
    <3> QED
      BY <1>3, <2>1, <2>6, <3>1, <3>2, AskedFinite
  <2>8. \A e \in DBThreads : e # d =>
          mQueueCount'[e] - taken'[e] = Cardinality(Pending(e)')
    BY <1>3, <2>3, <2>4 DEF PendingCounted
  <2> QED
    BY <2>7, <2>8 DEF PendingCounted
<1>5. ASSUME NEW d \in DBThreads, Take(d) PROVE PendingCounted'
  <2>1. PICK t \in LoopThreads :
          /\ mDBQueue[d][t] # <<>>
          /\ dbJobs' = [dbJobs EXCEPT ![d] = Append(@, Head(mDBQueue[d][t]))]
    BY <1>5 DEF Take
  <2> DEFINE j == Head(mDBQueue[d][t])
  <2>2. j \in Asked /\ j \in Stream(mDBQueue[d][t])
    BY <2>1, TailStream DEF DBTypeOK
  <2>3. service[j] = d /\ j \notin handled /\ j \notin Stream(dbJobs[d])
    BY <2>2 DEF Distinct, StreamsOnce, VectorsOnce
  <2>4. Stream(dbJobs'[d]) = Stream(dbJobs[d]) \cup {j}
    BY <2>1, <2>2, AppendStream DEF DBTypeOK
  <2>5. /\ \A e \in DBThreads : e # d => dbJobs'[e] = dbJobs[e]
        /\ Asked' = Asked /\ UNCHANGED <<asker, service, handled>>
        /\ mQueueCount' = mQueueCount /\ taken' = [taken EXCEPT ![d] = @ + 1]
    BY <1>5, <2>1 DEF Take, DBTypeOK, Asked
  <2> HIDE DEF j
  <2>6. \A e \in DBThreads : e # d => Pending(e)' = Pending(e)
    BY <2>5 DEF Pending
  <2>7. Pending(d)' = Pending(d) \ {j} /\ j \in Pending(d)
    BY <2>2, <2>3, <2>4, <2>5 DEF Pending
  <2>8. Cardinality(Pending(d)') = Cardinality(Pending(d)) - 1
    BY <2>7, AskedFinite, FS_RemoveElement
  <2>9. mQueueCount'[d] - taken'[d] = Cardinality(Pending(d)')
    <3>1. mQueueCount'[d] = mQueueCount[d] /\ taken'[d] = taken[d] + 1
      BY <1>3, <2>5
    <3>2. mQueueCount[d] - taken[d] = Cardinality(Pending(d))
      BY DEF PendingCounted
    <3> QED
      BY <1>3, <2>8, <3>1, <3>2, AskedFinite
  <2>10. \A e \in DBThreads : e # d =>
           mQueueCount'[e] - taken'[e] = Cardinality(Pending(e)')
    BY <1>3, <2>5, <2>6 DEF PendingCounted
  <2> QED
    BY <2>9, <2>10 DEF PendingCounted
<1>6. ASSUME NEW d \in DBThreads, HandleData(d) PROVE PendingCounted'
  <2> DEFINE j == Head(dbJobs[d])
  <2>1. /\ j \in Stream(dbJobs[d]) /\ Stream(Tail(dbJobs[d])) = Stream(dbJobs[d]) \ {j}
    BY <1>6, TailStream DEF HandleData, DBTypeOK, Distinct, VectorsOnce
  <2>2. service[j] = d
    BY <2>1 DEF Distinct, VectorsOnce
  <2>3. /\ Stream(dbJobs'[d]) = Stream(dbJobs[d]) \ {j}
        /\ \A e \in DBThreads : e # d => dbJobs'[e] = dbJobs[e]
        /\ Asked' = Asked /\ handled' = handled \cup {j}
        /\ UNCHANGED <<asker, service, mQueueCount, taken>>
    BY <1>6, <2>1 DEF HandleData, Rest, DBTypeOK, Asked, requestVars
  <2> HIDE DEF j
  <2>4. \A e \in DBThreads : Pending(e)' = Pending(e)
    <3>1. \A e \in DBThreads : e # d => Pending(e)' = Pending(e)
      BY <2>2, <2>3 DEF Pending
    <3>2. Pending(d)' = Pending(d)
      BY <2>1, <2>3 DEF Pending
    <3> QED
      BY <3>1, <3>2
  <2> QED
    BY <1>1, <2>3, <2>4
<1>7. ASSUME NEW d \in DBThreads, Subtract(d) PROVE PendingCounted'
  <2>1. /\ mQueueCount' = [mQueueCount EXCEPT ![d] = @ - taken[d]]
        /\ taken' = [taken EXCEPT ![d] = 0]
        /\ \A e \in DBThreads : Pending(e)' = Pending(e)
    BY <1>3, <1>7 DEF Subtract, Remaining, Pending, Asked
  <2> QED
    BY <1>3, <2>1 DEF PendingCounted
<1> QED
  BY <1>2, <1>4, <1>5, <1>6, <1>7
  DEF DBNext, DBStep, AskEnqueue, Begin, Filled, dbVars, requestVars

-----------------------------------------------------------------------------
(* The order of the answers: Ahead, Answered, PushedInOrder, RunsInOrder *)

\* A step appends a request to what it follows, or takes the first one.
LEMMA AheadStep ==
  DBTypeOK /\ Distinct /\ Ahead /\ [DBNext]_<<vars, dbVars>> => Ahead'
<1> SUFFICES ASSUME DBTypeOK, Distinct, Ahead, [DBNext]_<<vars, dbVars>>
             PROVE  Ahead'
  OBVIOUS
<1>1. ASSUME UNCHANGED <<asker, service, earlier, mDBQueue, dbJobs, handled>>
      PROVE  Ahead'
  <2>1. EarlierOnes' /\ VectorsInOrder'
    BY <1>1 DEF Ahead, EarlierOnes, VectorsInOrder, Asked
  <2>2. StreamsInOrder'
    BY <1>1 DEF Ahead, StreamsInOrder, Asked
  <2> QED
    BY <2>1, <2>2 DEF Ahead
<1>2. /\ \A d \in DBThreads : Len(dbJobs[d]) \in Nat
      /\ \A d \in DBThreads : \A n \in 1 .. Len(dbJobs[d]) : dbJobs[d][n] \in Asked
      /\ \A d \in DBThreads, t \in LoopThreads : Len(mDBQueue[d][t]) \in Nat
      /\ \A d \in DBThreads, t \in LoopThreads :
           \A n \in 1 .. Len(mDBQueue[d][t]) : mDBQueue[d][t][n] \in Asked
  BY ElementOfSeq, LenProperties DEF DBTypeOK
<1>3. ASSUME NEW t \in LoopThreads, NEW j \in Jobs, NEW d \in DBThreads,
             Ask(t, j, d)
      PROVE  Ahead'
  <2>1. /\ j \notin Asked /\ Asked' = Asked \cup {j}
        /\ asker'[j] = t /\ \A k \in Asked : asker'[k] = asker[k]
        /\ service'[j] = d /\ \A k \in Asked : service'[k] = service[k]
        /\ earlier'[j] = {k \in Asked : asker[k] = t /\ service[k] = d}
        /\ \A k \in Jobs : k # j => earlier'[k] = earlier[k]
        /\ UNCHANGED <<mDBQueue, dbJobs, handled>>
    <3>1. /\ asker' = [asker EXCEPT ![j] = t] /\ service' = [service EXCEPT ![j] = d]
          /\ earlier' =
               [earlier EXCEPT ![j] = {k \in Asked : asker[k] = t /\ service[k] = d}]
          /\ UNCHANGED <<mDBQueue, dbJobs, handled>>
      BY <1>3 DEF Ask
    <3> QED
      BY <1>3, <3>1, AskAsks, AskedFinite DEF DBTypeOK
  <2>2. j \notin handled
    BY <2>1 DEF DBTypeOK
  <2>3. EarlierOnes'
    BY <2>1, <2>2 DEF Ahead, EarlierOnes
  <2>4. VectorsInOrder'
    <3>1. \A e \in DBThreads : \A n \in 1 .. Len(dbJobs[e]) :
            earlier'[dbJobs[e][n]] = earlier[dbJobs[e][n]]
      BY <1>2, <2>1 DEF Asked
    <3> QED
      BY <2>1, <3>1 DEF Ahead, VectorsInOrder
  <2>5. StreamsInOrder'
    <3>1. \A e \in DBThreads, u \in LoopThreads : \A n \in 1 .. Len(mDBQueue[e][u]) :
            earlier'[mDBQueue[e][u][n]] = earlier[mDBQueue[e][u][n]]
      BY <1>2, <2>1 DEF Asked
    <3> QED
      BY <2>1, <3>1 DEF Ahead, StreamsInOrder
  <2> QED
    BY <2>3, <2>4, <2>5 DEF Ahead
<1>4. ASSUME NEW t \in LoopThreads, AskEnqueue(t) PROVE Ahead'
  <2> DEFINE k == asking[t]
             d == service[k]
             s == mDBQueue[d][t]
  <2>1. d \in DBThreads /\ k \in Asked /\ s \in Seq(Asked) /\ k # None
    BY <1>4, AskedFinite DEF AskEnqueue, DBTypeOK
  <2>2. /\ mDBQueue'[d][t] = Append(s, k)
        /\ \A e \in DBThreads, u \in LoopThreads :
             e # d \/ u # t => mDBQueue'[e][u] = mDBQueue[e][u]
        /\ Asked' = Asked /\ UNCHANGED <<asker, service, earlier, dbJobs, handled>>
    BY <1>4, <2>1 DEF AskEnqueue, DBTypeOK, Asked
  <2>3. EarlierOnes' /\ VectorsInOrder'
    <3>1. EarlierOnes'
      BY <2>2 DEF Ahead, EarlierOnes
    <3>2. VectorsInOrder'
      BY <2>2 DEF Ahead, VectorsInOrder
    <3> QED
      BY <3>1, <3>2
  <2>4. \A j \in earlier[k] :
          j \in handled \/ j \in Stream(dbJobs[d]) \/ \E m \in 1 .. Len(s) : s[m] = j
    <3> SUFFICES ASSUME NEW j \in earlier[k]
                 PROVE  j \in handled \/ j \in Stream(dbJobs[d]) \/ j \in Stream(s)
      BY DEF Stream
    <3>1. j \in Asked /\ asker[j] = asker[k] /\ j # k /\ asker[k] = t /\ service[j] = d
      BY <2>1 DEF Ahead, EarlierOnes, Distinct, AskingOnce, Asked
    <3> QED
      BY <3>1 DEF Distinct, Kept
  <2>5. /\ Len(Append(s, k)) = Len(s) + 1 /\ Len(s) \in Nat
        /\ \A n \in 1 .. Len(s) : Append(s, k)[n] = s[n]
        /\ Append(s, k)[Len(s) + 1] = k
    BY <2>1
  <2> HIDE DEF d, k, s
  <2>6. StreamsInOrder'
    <3> SUFFICES ASSUME NEW e \in DBThreads, NEW u \in LoopThreads,
                        NEW n \in 1 .. Len(mDBQueue'[e][u]),
                        NEW j \in earlier[mDBQueue'[e][u][n]]
                 PROVE  \/ j \in handled \/ j \in Stream(dbJobs[e])
                        \/ \E m \in 1 .. n - 1 : mDBQueue'[e][u][m] = j
      BY <2>2 DEF StreamsInOrder
    <3>1. CASE e # d \/ u # t
      <4>1. mDBQueue'[e][u] = mDBQueue[e][u]
        BY <2>2, <3>1
      <4> QED
        BY <4>1 DEF Ahead, StreamsInOrder
    <3>2. CASE e = d /\ u = t /\ n = Len(s) + 1
      BY <2>2, <2>4, <2>5, <3>2
    <3>3. CASE e = d /\ u = t /\ n \in 1 .. Len(s)
      <4>1. j \in earlier[s[n]]
        BY <2>2, <2>5, <3>3
      <4>2. \/ j \in handled \/ j \in Stream(dbJobs[d])
            \/ \E m \in 1 .. n - 1 : s[m] = j
        BY <2>1, <3>3, <4>1 DEF Ahead, StreamsInOrder, s
      <4> QED
        BY <2>2, <2>5, <3>3, <4>2, SMTT(30)
    <3> QED
      BY <2>2, <2>5, <3>1, <3>2, <3>3
  <2> QED
    BY <2>3, <2>6 DEF Ahead
<1>5. ASSUME NEW d \in DBThreads, Take(d) PROVE Ahead'
  <2>1. PICK t \in LoopThreads :
          /\ mDBQueue[d][t] # <<>>
          /\ dbJobs' = [dbJobs EXCEPT ![d] = Append(@, Head(mDBQueue[d][t]))]
          /\ mDBQueue' = [mDBQueue EXCEPT ![d][t] = Tail(@)]
    BY <1>5 DEF Take
  <2> DEFINE s == mDBQueue[d][t]
             v == dbJobs[d]
             k == Head(s)
  <2>2. s \in Seq(Asked) /\ v \in Seq(Asked) /\ s # <<>>
    BY <2>1 DEF DBTypeOK
  <2>3. /\ k \in Asked /\ k = s[1] /\ Len(s) \in Nat \ {0}
        /\ Len(Tail(s)) = Len(s) - 1 /\ \A n \in 1 .. Len(Tail(s)) : Tail(s)[n] = s[n + 1]
    BY <2>2, HeadTailProperties, EmptySeq
  <2>4. /\ Len(Append(v, k)) = Len(v) + 1 /\ Len(v) \in Nat
        /\ \A n \in 1 .. Len(v) : Append(v, k)[n] = v[n]
        /\ Append(v, k)[Len(v) + 1] = k /\ Stream(Append(v, k)) = Stream(v) \cup {k}
    BY <2>2, <2>3, AppendStream
  <2>5. /\ mDBQueue'[d][t] = Tail(s) /\ dbJobs'[d] = Append(v, k)
        /\ \A e \in DBThreads, u \in LoopThreads :
             e # d \/ u # t => mDBQueue'[e][u] = mDBQueue[e][u]
        /\ \A e \in DBThreads : e # d => dbJobs'[e] = dbJobs[e]
        /\ Asked' = Asked /\ UNCHANGED <<asker, service, earlier, handled>>
    BY <1>5, <2>1 DEF Take, DBTypeOK, Asked
  <2>6. \A j \in earlier[k] : j \in handled \/ \E m \in 1 .. Len(v) : v[m] = j
    <3>1. 1 \in 1 .. Len(s) /\ \A m \in 1 .. 1 - 1 : FALSE
      BY <2>3
    <3> QED
      BY <2>3, <3>1 DEF Ahead, StreamsInOrder, Stream
  <2> HIDE DEF s, v, k
  <2>7. EarlierOnes'
    BY <2>5 DEF Ahead, EarlierOnes
  <2>8. VectorsInOrder'
    <3> SUFFICES ASSUME NEW e \in DBThreads, NEW n \in 1 .. Len(dbJobs'[e]),
                        NEW j \in earlier[dbJobs'[e][n]]
                 PROVE  j \in handled \/ \E m \in 1 .. n - 1 : dbJobs'[e][m] = j
      BY <2>5 DEF VectorsInOrder
    <3>1. CASE e # d
      <4>1. dbJobs'[e] = dbJobs[e]
        BY <2>5, <3>1
      <4>2. j \in handled \/ \E m \in 1 .. n - 1 : dbJobs[e][m] = j
        BY <2>5, <4>1 DEF Ahead, VectorsInOrder
      <4> QED
        BY <2>5, <4>1, <4>2
    <3>2. CASE e = d /\ n = Len(v) + 1
      BY <2>4, <2>5, <2>6, <3>2
    <3>3. CASE e = d /\ n \in 1 .. Len(v)
      <4>1. j \in earlier[v[n]]
        BY <2>4, <2>5, <3>3
      <4>2. j \in handled \/ \E m \in 1 .. n - 1 : v[m] = j
        BY <3>3, <4>1 DEF Ahead, VectorsInOrder, v
      <4> QED
        BY <2>4, <2>5, <3>3, <4>2
    <3> QED
      BY <2>4, <2>5, <3>1, <3>2, <3>3
  <2>9. StreamsInOrder'
    <3> SUFFICES ASSUME NEW e \in DBThreads, NEW u \in LoopThreads,
                        NEW n \in 1 .. Len(mDBQueue'[e][u]),
                        NEW j \in earlier[mDBQueue'[e][u][n]]
                 PROVE  \/ j \in handled \/ j \in Stream(dbJobs'[e])
                        \/ \E m \in 1 .. n - 1 : mDBQueue'[e][u][m] = j
      BY <2>5 DEF StreamsInOrder
    <3>1. Stream(dbJobs[e]) \subseteq Stream(dbJobs'[e])
      BY <2>4, <2>5 DEF v
    <3>2. CASE e # d \/ u # t
      <4>1. mDBQueue'[e][u] = mDBQueue[e][u]
        BY <2>5, <3>2
      <4> QED
        BY <3>1, <4>1 DEF Ahead, StreamsInOrder
    <3>3. CASE e = d /\ u = t
      <4>1. n + 1 \in 1 .. Len(s) /\ j \in earlier[s[n + 1]] /\ n \in Nat
        <5>1. mDBQueue'[e][u] = Tail(s)
          BY <2>5, <3>3
        <5>2. n \in 1 .. Len(Tail(s)) /\ Tail(s)[n] = s[n + 1]
          BY <2>3, <5>1
        <5> QED
          BY <2>3, <5>1, <5>2
      <4>2. \/ j \in handled \/ j \in Stream(dbJobs[d])
            \/ \E m \in 1 .. (n + 1) - 1 : s[m] = j
        BY <4>1 DEF Ahead, StreamsInOrder, s
      <4>3. ASSUME NEW m \in 1 .. n, s[m] = j
            PROVE  j \in Stream(dbJobs'[d]) \/ \E i \in 1 .. n - 1 : mDBQueue'[e][u][i] = j
        <5>1. CASE m = 1
          BY <2>3, <2>4, <2>5, <4>3, <5>1
        <5>2. CASE m # 1
          <6>1. m - 1 \in 1 .. n - 1 /\ m - 1 \in 1 .. Len(Tail(s)) /\ (m - 1) + 1 = m
            BY <2>3, <4>1, <5>2
          <6> QED
            BY <2>3, <2>5, <3>3, <4>3, <6>1
        <5> QED
          BY <5>1, <5>2
      <4> QED
        BY <3>1, <3>3, <4>1, <4>2, <4>3
    <3> QED
      BY <3>2, <3>3
  <2> QED
    BY <2>7, <2>8, <2>9 DEF Ahead
<1>6. ASSUME NEW d \in DBThreads, HandleData(d) PROVE Ahead'
  <2> DEFINE v == dbJobs[d]
             k == Head(v)
  <2>1. v \in Seq(Asked) /\ v # <<>> /\ Inj(v)
    BY <1>6 DEF HandleData, DBTypeOK, Distinct, VectorsOnce
  <2>2. /\ k \in Asked /\ k = v[1] /\ Len(v) \in Nat \ {0}
        /\ Len(Tail(v)) = Len(v) - 1 /\ \A n \in 1 .. Len(Tail(v)) : Tail(v)[n] = v[n + 1]
        /\ Stream(Tail(v)) = Stream(v) \ {k}
    BY <2>1, HeadTailProperties, EmptySeq, TailStream
  <2>3. /\ dbJobs'[d] = Tail(v) /\ \A e \in DBThreads : e # d => dbJobs'[e] = dbJobs[e]
        /\ Asked' = Asked /\ handled' = handled \cup {k}
        /\ UNCHANGED <<asker, service, earlier, mDBQueue>>
    BY <1>6 DEF HandleData, Rest, DBTypeOK, Asked, requestVars
  <2>4. \A j \in earlier[k] : j \in handled
    <3>1. 1 \in 1 .. Len(v) /\ \A m \in 1 .. 1 - 1 : FALSE
      BY <2>2
    <3> QED
      BY <2>2, <3>1 DEF Ahead, VectorsInOrder
  <2> HIDE DEF v, k
  <2>5. EarlierOnes'
    BY <2>3, <2>4 DEF Ahead, EarlierOnes
  <2>6. VectorsInOrder'
    <3> SUFFICES ASSUME NEW e \in DBThreads, NEW n \in 1 .. Len(dbJobs'[e]),
                        NEW j \in earlier[dbJobs'[e][n]]
                 PROVE  j \in handled' \/ \E m \in 1 .. n - 1 : dbJobs'[e][m] = j
      BY <2>3 DEF VectorsInOrder
    <3>1. CASE e # d
      BY <2>3, <3>1 DEF Ahead, VectorsInOrder
    <3>2. CASE e = d
      <4>1. n + 1 \in 1 .. Len(v) /\ j \in earlier[v[n + 1]] /\ n \in Nat
        BY <2>2, <2>3, <3>2
      <4>2. j \in handled \/ \E m \in 1 .. (n + 1) - 1 : v[m] = j
        BY <4>1 DEF Ahead, VectorsInOrder, v
      <4>3. ASSUME NEW m \in 1 .. n, v[m] = j
            PROVE  j \in handled' \/ \E i \in 1 .. n - 1 : dbJobs'[e][i] = j
        <5>1. CASE m = 1
          BY <2>2, <2>3, <4>3, <5>1
        <5>2. CASE m # 1
          <6>1. m - 1 \in 1 .. n - 1 /\ m - 1 \in 1 .. Len(Tail(v)) /\ (m - 1) + 1 = m
            BY <2>2, <4>1, <5>2
          <6> QED
            BY <2>2, <2>3, <3>2, <4>3, <6>1
        <5> QED
          BY <5>1, <5>2
      <4> QED
        BY <2>3, <4>1, <4>2, <4>3
    <3> QED
      BY <3>1, <3>2
  <2>7. StreamsInOrder'
    <3>1. \A e \in DBThreads : Stream(dbJobs[e]) \subseteq Stream(dbJobs'[e]) \cup handled'
      BY <2>2, <2>3 DEF v
    <3> QED
      BY <2>3, <3>1 DEF Ahead, StreamsInOrder
  <2> QED
    BY <2>5, <2>6, <2>7 DEF Ahead
<1> QED
  BY <1>1, <1>3, <1>4, <1>5, <1>6
  DEF DBNext, DBStep, Begin, Filled, Subtract, dbVars, requestVars

\* A step of the composition is a step of the job system, or leaves it alone.
LEMMA StepOfJobSystem == DBTypeOK /\ [DBNext]_<<vars, dbVars>> => [Next]_vars
<1> SUFFICES ASSUME DBTypeOK, [DBNext]_<<vars, dbVars>> PROVE [Next]_vars
  OBVIOUS
<1>1. CASE JobStep
  BY <1>1 DEF JobStep, Next, Threads
<1>2. ASSUME NEW t \in LoopThreads, AskEnqueue(t) \/ \E j \in Jobs, d \in DBThreads : Ask(t, j, d)
      PROVE  UNCHANGED vars
  BY <1>2 DEF AskEnqueue, Ask
<1>3. ASSUME NEW d \in DBThreads, HandleData(d)
      PROVE  [Next]_vars
  <2> DEFINE j == Head(dbJobs[d])
  <2>1. j \in Jobs /\ owner[j] \in Queues \cup {None} /\ d \in Threads
    BY <1>3, TailStream, AskedFinite, OwnersAssumption DEF HandleData, DBTypeOK, Threads
  <2>2. UNCHANGED vars \/ (owner[j] # None /\ PushCount(d, owner[j], j))
    BY <1>3 DEF HandleData
  <2> QED
    BY <2>1, <2>2 DEF Next
<1>4. ASSUME NEW d \in DBThreads, Begin(d) \/ Take(d) \/ Filled(d) \/ Subtract(d)
      PROVE  UNCHANGED vars
  BY <1>4 DEF Begin, Take, Filled, Subtract
<1> QED
  BY <1>1, <1>2, <1>3, <1>4 DEF DBNext, DBStep

\* What a step of the job system does to the pushes in progress.
LEMMA PushesOf ==
  ASSUME JobStep
  PROVE  \/ \E t \in LoopThreads, q \in Queues, j \in Jobs \ Asked : PushCount(t, q, j)
         \/ \E t \in Threads : PushEnqueue(t) \/ PushExecute(t) \/ PushGlobal(t)
         \/ UNCHANGED <<pushVars, history>>
<1>1. ASSUME NEW t \in LoopThreads, ExecuteStep(t) \/ JobReturn(t) \/ LoopStep(t)
      PROVE  UNCHANGED <<pushVars, history>>
  BY <1>1 DEF ExecuteStep, Drain, DrainEnd, RunJob, ExecuteDone, ExecuteMore,
              ExecuteYield, ExecuteAgain, JobReturn, LoopStep, EnterGlobalJobs,
              LeaveGlobalJobs
<1>2. ASSUME NEW t \in LoopThreads, NEW q \in Queues, PopGlobal(t, q)
      PROVE  UNCHANGED <<pushVars, history>>
  BY <1>2 DEF PopGlobal
<1>3. CASE Tick
  BY <1>3 DEF Tick
<1> QED
  BY <1>1, <1>2, <1>3 DEF JobStep, PushStep

\* A response is counted when its request is handled, and enqueued by the same thread.
LEMMA AnsweredStep ==
  /\ DBTypeOK /\ Distinct /\ TypeOK /\ Shape /\ Place /\ Answered
  /\ [DBNext]_<<vars, dbVars>>
  => Answered'
<1> SUFFICES ASSUME DBTypeOK, Distinct, TypeOK, Shape, Place, Answered,
                    [DBNext]_<<vars, dbVars>>
             PROVE  Answered'
  OBVIOUS
<1> USE NoneAssumption, DBThreadsAssumption
<1>1. ASSUME UNCHANGED <<pushVars, history, asker, service, owner, handled>> PROVE Answered'
  BY <1>1 DEF Answered, Asked, pushVars, history
<1>2. \A j \in Asked : j \in Jobs /\ j # None /\ service[j] \in DBThreads
  BY DEF Asked, DBTypeOK
<1>3. ASSUME NEW t \in LoopThreads, NEW j \in Jobs, NEW d \in DBThreads,
             Ask(t, j, d)
      PROVE  Answered'
  <2>1. /\ j \notin Asked /\ Asked' = Asked \cup {j} /\ home[j] = None
        /\ \A u \in Threads : pushJob[u] # j
    BY <1>3, AskAsks DEF Ask, Fresh
  <2>2. /\ \A k \in Asked : owner'[k] = owner[k] /\ service'[k] = service[k]
        /\ UNCHANGED <<pushJob, pushQueue, home, by, handled>>
    BY <1>2, <1>3, <2>1 DEF Ask, DBTypeOK, vars, pushVars, history
  <2>3. handled \subseteq Asked
    BY DEF DBTypeOK
  <2> QED
    BY <2>1, <2>2, <2>3 DEF Answered, Threads
<1>4. ASSUME NEW d \in DBThreads, HandleData(d) PROVE Answered'
  <2> DEFINE j == Head(dbJobs[d])
  <2>1. j \in Asked /\ j \in Stream(dbJobs[d]) /\ d \in Threads
    BY <1>4, TailStream DEF HandleData, DBTypeOK, Threads
  <2>2. service[j] = d /\ j \notin handled
    BY <2>1 DEF Distinct, VectorsOnce
  <2>3. /\ pushQueue[d] = None /\ handled' = handled \cup {j}
        /\ UNCHANGED <<service, owner>> /\ Asked' = Asked
    BY <1>4 DEF HandleData, requestVars, Asked
  <2>4. pushJob[d] = None
    BY <2>1, <2>3 DEF Shape
  <2> HIDE DEF j
  <2>5. CASE UNCHANGED vars /\ owner[j] = None
    BY <2>1, <2>2, <2>3, <2>4, <2>5 DEF Answered, vars, pushVars, history
  <2>6. CASE PushCount(d, owner[j], j) /\ owner[j] # None
    <3>1. /\ pushQueue' = [pushQueue EXCEPT ![d] = owner[j]]
          /\ pushJob' = [pushJob EXCEPT ![d] = j]
          /\ UNCHANGED <<home, by>>
      BY <2>6 DEF PushCount, history
    <3>2. /\ pushJob'[d] = j /\ pushQueue'[d] = owner[j]
          /\ \A t \in Threads \ {d} : pushJob'[t] = pushJob[t] /\ pushQueue'[t] = pushQueue[t]
      BY <2>1, <3>1 DEF TypeOK
    <3>3. \A k \in handled : owner[k] # None =>
            \/ pushJob'[service[k]] = k
            \/ home[k] = owner[k] /\ by[k] = service[k]
      <4>1. \A k \in handled : k # None /\ service[k] \in Threads
        BY <1>2 DEF DBTypeOK, Threads
      <4> QED
        BY <2>4, <3>2, <4>1 DEF Answered
    <3> QED
      BY <2>1, <2>2, <2>3, <3>1, <3>2, <3>3 DEF Answered, Threads
  <2> QED
    BY <1>4, <2>5, <2>6 DEF HandleData, j
<1>5. ASSUME NEW t \in LoopThreads, NEW q \in Queues, NEW j \in Jobs \ Asked,
             PushCount(t, q, j), UNCHANGED dbVars
      PROVE  Answered'
  <2>1. /\ t \in Threads /\ t \notin DBThreads /\ pushQueue[t] = None
        /\ pushQueue' = [pushQueue EXCEPT ![t] = q]
        /\ pushJob' = [pushJob EXCEPT ![t] = j]
        /\ UNCHANGED <<home, by>>
    BY <1>5 DEF PushCount, InUserCode, history, Threads
  <2>2. UNCHANGED <<asker, service, owner, handled>> /\ Asked' = Asked /\ handled \subseteq Asked
    BY <1>5 DEF dbVars, requestVars, Asked, DBTypeOK
  <2>3. /\ pushJob'[t] = j
        /\ \A u \in Threads \ {t} : pushJob'[u] = pushJob[u] /\ pushQueue'[u] = pushQueue[u]
    BY <2>1 DEF TypeOK
  <2> QED
    BY <1>2, <2>1, <2>2, <2>3 DEF Answered, Threads
<1>6. ASSUME NEW t \in Threads, PushEnqueue(t), UNCHANGED dbVars PROVE Answered'
  <2> DEFINE j == pushJob[t]
  <2>1. /\ j # None /\ pushQueue[t] # None /\ j \in Jobs
        /\ pushJob' = [pushJob EXCEPT ![t] = None]
        /\ home' = [home EXCEPT ![j] = pushQueue[t]]
        /\ by' = [by EXCEPT ![j] = t]
        /\ \A u \in Threads \ {t} : pushQueue'[u] = pushQueue[u]
    BY <1>6 DEF PushEnqueue, Shape, TypeOK
  <2>2. UNCHANGED <<asker, service, owner, handled>> /\ Asked' = Asked /\ handled \subseteq Asked
    BY <1>6 DEF dbVars, requestVars, Asked, DBTypeOK
  <2>3. /\ pushJob'[t] = None /\ \A u \in Threads \ {t} : pushJob'[u] = pushJob[u]
        /\ home'[j] = pushQueue[t] /\ by'[j] = t
        /\ \A k \in Jobs \ {j} : home'[k] = home[k] /\ by'[k] = by[k]
    BY <2>1 DEF TypeOK
  <2>4. j \in Asked =>
          t \in DBThreads /\ j \in handled /\ service[j] = t /\ owner[j] = pushQueue[t]
    BY <2>1 DEF Answered, Threads
  <2> HIDE DEF j
  <2>5. \A d \in DBThreads : pushJob'[d] # None =>
          /\ pushJob'[d] \in handled' /\ service'[pushJob'[d]] = d
          /\ owner'[pushJob'[d]] = pushQueue'[d]
    BY <2>1, <2>2, <2>3 DEF Answered, Threads
  <2>6. \A u \in LoopThreads : pushJob'[u] \notin Asked'
    BY <1>2, <2>2, <2>3 DEF Answered, Threads
  <2>7. \A k \in Asked' : k \notin handled' \/ owner'[k] = None => home'[k] = None
    BY <1>2, <2>1, <2>2, <2>3, <2>4 DEF Answered
  <2>8. \A k \in handled' : owner'[k] # None =>
          \/ pushJob'[service'[k]] = k
          \/ home'[k] = owner'[k] /\ by'[k] = service'[k]
    <3> SUFFICES ASSUME NEW k \in handled, owner[k] # None
                 PROVE  \/ pushJob'[service[k]] = k
                        \/ home'[k] = owner[k] /\ by'[k] = service[k]
      BY <2>2
    <3>1. k \in Asked /\ k \in Jobs /\ service[k] \in Threads
      BY <1>2, <2>2 DEF Threads
    <3>2. CASE k = j
      BY <2>3, <2>4, <3>1, <3>2
    <3>3. CASE k # j
      <4>1. home'[k] = home[k] /\ by'[k] = by[k]
        BY <2>3, <3>1, <3>3
      <4>2. pushJob[service[k]] = k => pushJob'[service[k]] = k
        BY <2>3, <3>1, <3>3 DEF j
      <4> QED
        BY <4>1, <4>2 DEF Answered
    <3> QED
      BY <3>2, <3>3
  <2> QED
    BY <2>5, <2>6, <2>7, <2>8 DEF Answered
<1>7. ASSUME NEW t \in Threads, PushExecute(t) \/ PushGlobal(t), UNCHANGED dbVars
      PROVE  Answered'
  <2>1. /\ pushJob[t] = None /\ UNCHANGED <<pushJob, home, by>>
        /\ pushQueue' = [pushQueue EXCEPT ![t] = None]
    BY <1>7 DEF PushExecute, PushGlobal, MustSchedule, PushReturn, history
  <2>2. UNCHANGED <<asker, service, owner, handled>> /\ Asked' = Asked
    BY <1>7 DEF dbVars, requestVars, Asked
  <2>3. \A u \in Threads : pushJob[u] # None => pushQueue'[u] = pushQueue[u]
    BY <2>1 DEF TypeOK
  <2> QED
    BY <2>1, <2>2, <2>3 DEF Answered, Threads
<1>8. CASE JobStep /\ UNCHANGED dbVars
  <2>1. ASSUME UNCHANGED <<pushVars, history>> PROVE Answered'
    BY <1>1, <1>8, <2>1 DEF dbVars, requestVars
  <2> QED
    BY <1>5, <1>6, <1>7, <1>8, <2>1, PushesOf
<1>9. ASSUME UNCHANGED <<vars, asker, service, owner, handled>> PROVE Answered'
  BY <1>1, <1>9 DEF vars
<1> QED
  BY <1>3, <1>4, <1>8, <1>9
  DEF DBNext, DBStep, AskEnqueue, Begin, Take, Filled, Subtract, dbVars, requestVars

\* When a response is enqueued, those its thread asked for before are in the queue's
\* history already, by the same database thread.
LEMMA PushedInOrderStep ==
  /\ DBTypeOK /\ Ahead /\ TypeOK /\ Shape /\ Answered /\ PushedInOrder
  /\ [DBNext]_<<vars, dbVars>>
  => PushedInOrder'
<1> SUFFICES ASSUME DBTypeOK, Ahead, TypeOK, Shape, Answered, PushedInOrder,
                    [DBNext]_<<vars, dbVars>>
             PROVE  PushedInOrder'
  OBVIOUS
<1> USE NoneAssumption, DBThreadsAssumption
<1>1. ASSUME UNCHANGED <<home, prior, owner, earlier>> PROVE PushedInOrder'
  BY <1>1 DEF PushedInOrder
<1>2. ASSUME NEW t \in LoopThreads, NEW j \in Jobs, NEW d \in DBThreads,
             Ask(t, j, d)
      PROVE  PushedInOrder'
  <2>1. j \notin Asked /\ home[j] = None
    BY <1>2, AskAsks DEF Ask, Fresh
  <2>2. /\ \A k \in Jobs \ {j} : owner'[k] = owner[k] /\ earlier'[k] = earlier[k]
        /\ UNCHANGED <<home, prior>>
    BY <1>2 DEF Ask, DBTypeOK, vars, history
  <2>3. \A k \in Jobs : j \notin earlier[k] /\ earlier[k] \subseteq Jobs
    BY <2>1, AskedFinite DEF DBTypeOK
  <2> QED
    BY <2>1, <2>2, <2>3 DEF PushedInOrder
<1>3. ASSUME NEW t \in Threads, PushEnqueue(t), UNCHANGED dbVars PROVE PushedInOrder'
  <2> DEFINE k == pushJob[t]
             q == pushQueue[t]
  <2>1. /\ k # None /\ k \in Jobs
        /\ \A i \in Jobs \ {k} : home'[i] = home[i] /\ prior'[i] = prior[i]
        /\ prior'[k] = {i \in Jobs : home[i] = q /\ by[i] = t}
        /\ UNCHANGED <<owner, earlier>>
    BY <1>3 DEF PushEnqueue, TypeOK, dbVars, requestVars
  <2> HIDE DEF k
  <2>2. ASSUME NEW j \in earlier[k], owner[j] = owner[k], owner[k] # None
        PROVE  j \in prior'[k]
    <3>1. /\ j \in Asked /\ k \in Asked /\ j # k /\ asker[j] = asker[k]
          /\ service[j] = service[k] /\ (k \in handled => j \in handled)
      BY <2>1, <2>2 DEF Ahead, EarlierOnes
    <3>2. k \in handled /\ service[k] = t /\ owner[k] = q
      BY <2>1, <3>1 DEF Answered, Threads, k
    <3>3. home[j] = q /\ by[j] = t /\ j \in Jobs
      BY <2>2, <3>1, <3>2, AskedFinite DEF Answered, k
    <3> QED
      BY <2>1, <3>3
  <2> QED
    BY <2>1, <2>2 DEF PushedInOrder
<1>4. CASE JobStep /\ UNCHANGED dbVars
  <2>1. ASSUME UNCHANGED <<home, prior>> PROVE PushedInOrder'
    BY <1>1, <1>4, <2>1 DEF dbVars, requestVars
  <2>2. ASSUME UNCHANGED <<pushVars, history>> PROVE PushedInOrder'
    BY <2>1, <2>2 DEF history
  <2> QED
    BY <1>3, <1>4, <2>1, <2>2, PushesOf
    DEF PushCount, PushExecute, PushGlobal, history
<1>5. ASSUME NEW d \in DBThreads, HandleData(d) PROVE PushedInOrder'
  BY <1>1, <1>5 DEF HandleData, requestVars, PushCount, history, vars
<1>6. ASSUME UNCHANGED <<vars, owner, earlier>> PROVE PushedInOrder'
  BY <1>1, <1>6 DEF vars, history
<1> QED
  BY <1>2, <1>4, <1>5, <1>6
  DEF DBNext, DBStep, AskEnqueue, Begin, Take, Filled, Subtract, dbVars, requestVars

\* A job that has begun or ended is in a queue's history.
LEMMA BegunHasHome ==
  ASSUME Shape, Place, NEW k \in finished \cup Running
  PROVE  home[k] \in Queues
<1>1. CASE k \in finished
  BY <1>1 DEF Place
<1>2. CASE k \in Running
  <2>1. PICK t \in Threads : current[t] = k /\ k # None
    BY <1>2 DEF Running
  <2>2. k \in jobs[t]
    BY <2>1 DEF Shape
  <2> QED
    BY <2>2 DEF Place
<1> QED
  BY <1>1, <1>2

\* A job begins when all its poster posted before to the queue has ended.
LEMMA RunsInOrderStep ==
  TypeOK /\ Shape /\ Place /\ Order /\ RunsInOrder /\ [Next]_vars => RunsInOrder'
<1> SUFFICES ASSUME TypeOK, Shape, Place, Order, RunsInOrder, [Next]_vars
             PROVE  RunsInOrder'
  OBVIOUS
<1> USE NoneAssumption
<1>1. ASSUME UNCHANGED <<current, finished, prior>> PROVE RunsInOrder'
  BY <1>1 DEF RunsInOrder, Running
<1>2. ASSUME NEW t \in Threads, PushEnqueue(t) PROVE RunsInOrder'
  <2>1. /\ home[pushJob[t]] = None /\ pushJob[t] # None
        /\ \A k \in Jobs \ {pushJob[t]} : prior'[k] = prior[k]
        /\ UNCHANGED <<current, finished>>
    BY <1>2 DEF PushEnqueue, Place, TypeOK
  <2>2. \A k \in finished \cup Running : k # pushJob[t] /\ k \in Jobs
    <3>1. finished \cup Running \subseteq Jobs
      BY DEF TypeOK, Running
    <3> QED
      BY <2>1, <3>1, BegunHasHome
  <2>3. Running' = Running
    BY <2>1 DEF Running
  <2> QED
    BY <2>1, <2>2, <2>3 DEF RunsInOrder
<1>3. ASSUME NEW t \in LoopThreads, RunJob(t) PROVE RunsInOrder'
  <2>1. PICK j \in Oldest(jobs[t] \ finished) : current' = [current EXCEPT ![t] = j]
    BY <1>3 DEF RunJob
  <2>2. prior[j] \subseteq finished
    BY <2>1 DEF Oldest, Order, Threads
  <2>3. Running' \subseteq Running \cup {j} /\ UNCHANGED <<finished, prior>>
    BY <1>3, <2>1 DEF RunJob, Running, TypeOK, history
  <2> QED
    BY <2>2, <2>3 DEF RunsInOrder
<1>4. ASSUME NEW t \in LoopThreads, JobReturn(t) PROVE RunsInOrder'
  <2>1. current[t] \in Running
    BY <1>4 DEF JobReturn, Shape, Running, TypeOK, Threads
  <2>2. /\ Running' \subseteq Running /\ finished' = finished \cup {current[t]}
        /\ UNCHANGED prior
    BY <1>4 DEF JobReturn, Running, TypeOK, history
  <2> QED
    BY <2>1, <2>2 DEF RunsInOrder
<1>5. ASSUME NEW t \in Threads, NEW q \in Queues, NEW j \in Jobs, PushCount(t, q, j)
      PROVE  RunsInOrder'
  BY <1>1, <1>5 DEF PushCount, history
<1>6. ASSUME NEW t \in Threads, PushExecute(t) \/ PushGlobal(t)
      PROVE  RunsInOrder'
  BY <1>1, <1>6 DEF PushExecute, PushGlobal, history
<1>7. ASSUME NEW t \in LoopThreads,
             \/ Drain(t) \/ DrainEnd(t) \/ ExecuteDone(t) \/ ExecuteMore(t)
             \/ ExecuteYield(t) \/ ExecuteAgain(t) \/ LoopStep(t)
             \/ \E q \in Queues : PopGlobal(t, q)
      PROVE  RunsInOrder'
  BY <1>1, <1>7 DEF Drain, DrainEnd, ExecuteDone, ExecuteMore, ExecuteYield,
                    ExecuteAgain, LoopStep, EnterGlobalJobs, LeaveGlobalJobs,
                    PopGlobal, history
<1>8. CASE Tick
  BY <1>1, <1>8 DEF Tick, history
<1>9. CASE UNCHANGED vars
  BY <1>1, <1>9 DEF vars, history
<1> QED
  BY <1>2, <1>3, <1>4, <1>5, <1>6, <1>7, <1>8, <1>9 DEF Next, PushStep, ExecuteStep

-----------------------------------------------------------------------------
\* Nothing is asked, and no job posted, at first.
LEMMA InitInvs == DBInit => RequestInv /\ AnswerInv
<1> SUFFICES ASSUME DBInit PROVE RequestInv /\ AnswerInv
  OBVIOUS
<1> USE NoneAssumption, BulkDBAssumption DEF DBInit
<1>1. Asked = {} /\ <<>> \in Seq(Asked) /\ Len(<<>>) = 0
  BY EmptySeq DEF Asked
<1>2. Stream(<<>>) = {} /\ Inj(<<>>)
  BY <1>1 DEF Stream, Inj
<1>3. DBTypeOK
  BY <1>1 DEF DBTypeOK
<1>4. Distinct
  BY <1>1, <1>2 DEF Distinct, AskingOnce, StreamsOnce, VectorsOnce, Kept
<1>5. PendingCounted
  <2>1. \A d \in DBThreads : Pending(d) = {}
    BY <1>1 DEF Pending
  <2>2. \A d \in DBThreads : mQueueCount[d] = 0 /\ taken[d] = 0
    OBVIOUS
  <2>3. \A d \in DBThreads : Cardinality(Pending(d)) = 0
    BY <2>1, FS_EmptySet
  <2> QED
    BY <2>2, <2>3 DEF PendingCounted
<1>6. Ahead
  BY <1>1 DEF Ahead, EarlierOnes, VectorsInOrder, StreamsInOrder
<1>7. AnswerInv
  BY <1>1 DEF Init, AnswerInv, Answered, PushedInOrder, RunsInOrder, Running, Threads
<1> QED
  BY <1>3, <1>4, <1>5, <1>6, <1>7 DEF RequestInv

\* Where the requests are, and in which order, in every reachable state.
THEOREM RequestInvariance == DBSpec => []RequestInv
<1>1. RequestInv /\ [DBNext]_<<vars, dbVars>> => RequestInv'
  BY DBTypeStep, DistinctStep, PendingStep, AheadStep DEF RequestInv
<1> QED
  BY InitInvs, <1>1, PTL DEF DBSpec

\* With the database threads around it, the job system does what it does alone.
THEOREM JobSystemInside == DBSpec => Spec
<1>1. DBInit => Init
  BY DEF DBInit
<1>2. RequestInv /\ [DBNext]_<<vars, dbVars>> => [Next]_vars
  BY StepOfJobSystem DEF RequestInv
<1> QED
  BY RequestInvariance, <1>1, <1>2, PTL DEF DBSpec, Spec

\* Where the answers are, and in which order, in every reachable state.
THEOREM AnswerInvariance == DBSpec => []AnswerInv
<1>1. RequestInv /\ IInv /\ AnswerInv /\ [DBNext]_<<vars, dbVars>> => AnswerInv'
  BY AnsweredStep, PushedInOrderStep, RunsInOrderStep, StepOfJobSystem
  DEF RequestInv, IInv, AnswerInv
<1> QED
  BY InitInvs, RequestInvariance, JobSystemInside, Invariance, <1>1, PTL DEF DBSpec

\* The variables of the services keep their types: no count falls below 0.
THEOREM DBTypeCorrect == DBSpec => []DBTypeOK
<1>1. RequestInv => DBTypeOK
  BY DEF RequestInv
<1> QED
  BY RequestInvariance, <1>1, PTL

\* No request is lost between its asker and its service, or handled twice.
THEOREM Once == DBSpec => []HandledOnce
<1>1. RequestInv => HandledOnce
  <2> SUFFICES ASSUME RequestInv, NEW d \in DBThreads
               PROVE  /\ Waiting(d) = Requests(d) \ handled
                      /\ \A s \in {dbJobs[d]} \cup {mDBQueue[d][t] : t \in LoopThreads} :
                           Len(s) = Cardinality(Stream(s))
    BY DEF HandledOnce
  <2> USE DEF RequestInv
  <2>1. \A s \in {dbJobs[d]} \cup {mDBQueue[d][t] : t \in LoopThreads} :
          s \in Seq(Asked) /\ Inj(s)
    BY DEF DBTypeOK, Distinct, StreamsOnce, VectorsOnce
  <2>2. \A s \in {dbJobs[d]} \cup {mDBQueue[d][t] : t \in LoopThreads} :
          Stream(s) \subseteq Asked /\ Len(s) = Cardinality(Stream(s))
    BY <2>1, StreamCardinality, ElementOfSeq DEF Stream
  <2>3. \A k : k \in Waiting(d) <=>
                \/ k \in Stream(dbJobs[d])
                \/ \E t \in LoopThreads : k \in Stream(mDBQueue[d][t])
                \/ k \in Asked /\ \E t \in LoopThreads : service[k] = d /\ asking[t] = k
    <3>1. \A k : k \in UNION {Stream(mDBQueue[d][t]) : t \in LoopThreads} <=>
                   \E t \in LoopThreads : k \in Stream(mDBQueue[d][t])
      BY Zenon
    <3> QED
      BY <3>1 DEF Waiting
  <2>4. Waiting(d) \subseteq Requests(d) \ handled
    <3>1. \A k \in Stream(dbJobs[d]) : k \in Requests(d) \ handled
      BY <2>2 DEF Distinct, VectorsOnce, Requests
    <3>2. \A t \in LoopThreads : \A k \in Stream(mDBQueue[d][t]) : k \in Requests(d) \ handled
      BY <2>2 DEF Distinct, StreamsOnce, Requests
    <3>3. \A t \in LoopThreads, k \in Asked :
            service[k] = d /\ asking[t] = k => k \in Requests(d) \ handled
      BY NoneAssumption DEF Distinct, AskingOnce, Requests, Asked
    <3> QED
      BY <2>3, <3>1, <3>2, <3>3
  <2>5. Requests(d) \ handled \subseteq Waiting(d)
    <3> SUFFICES ASSUME NEW k \in Requests(d) \ handled PROVE k \in Waiting(d)
      OBVIOUS
    <3>1. k \in Asked /\ asker[k] \in LoopThreads /\ service[k] = d
      BY DEF Requests, Asked, DBTypeOK
    <3>2. \/ asking[asker[k]] = k \/ k \in Stream(mDBQueue[d][asker[k]])
          \/ k \in Stream(dbJobs[d])
      BY <3>1 DEF Distinct, Kept
    <3> QED
      BY <2>3, <3>1, <3>2
  <2> QED
    BY <2>2, <2>4, <2>5
<1> QED
  BY RequestInvariance, <1>1, PTL

\* The count of a service is right between the counting, enqueueing, dequeueing and
\* subtracting of any threads.
THEOREM CountsRequests == DBSpec => []RequestsCounted
<1>1. RequestInv /\ HandledOnce => RequestsCounted
  <2> SUFFICES ASSUME RequestInv, HandledOnce, NEW d \in DBThreads
               PROVE  Waiting(d) \ Stream(dbJobs[d]) = Pending(d)
    BY DEF RequestsCounted, RequestInv, PendingCounted
  <2>1. Waiting(d) = Requests(d) \ handled
    BY DEF HandledOnce
  <2> QED
    BY <2>1 DEF Requests, Pending
<1> QED
  BY RequestInvariance, Once, <1>1, PTL

\* A thread that asks one service for one owner is answered in the order it asked: through
\* the service's queue and its vector, the pushes of the database thread, and the job
\* queue that runs the answers.
THEOREM OrderOfAnswers == DBSpec => []AnswersInOrder
<1>1. RequestInv /\ IInv /\ AnswerInv => AnswersInOrder
  <2> SUFFICES ASSUME RequestInv, IInv, AnswerInv,
                      NEW j \in Jobs, NEW k \in finished \cup Running, k \in Jobs,
                      j \in earlier[k], owner[j] = owner[k], owner[k] # None
               PROVE  j \in finished
    BY DEF AnswersInOrder
  <2>1. home[k] # None
    BY BegunHasHome, NoneAssumption DEF IInv
  <2>2. j \in prior[k]
    BY <2>1 DEF AnswerInv, PushedInOrder
  <2> QED
    BY <2>2 DEF AnswerInv, RunsInOrder
<1> QED
  BY RequestInvariance, AnswerInvariance, JobSystemInside, Invariance, <1>1, PTL

\* The job system that the database threads push to is still a serial executor.
THEOREM SerialWithDatabase == DBSpec => ImplementsSerialExecutor
BY JobSystemInside, Refinement
=============================================================================
