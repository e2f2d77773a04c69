--------------------------- MODULE JobTimerProofs ---------------------------
(***************************************************************************)
(* Proofs about JobTimer: one distributor, no timer lost, duplicated or    *)
(* fired early, for any numbers of threads and timers and any clock.       *)
(***************************************************************************)
EXTENDS JobTimer, TLAPS

\* How the control state of a thread goes with its local variables.
Control ==
  \A t \in Threads :
    /\ timerItem[t] # None <=> pc[t] = "pushback"
    /\ reserving[t] # None => pc[t] \in {"loop", "push"}
    /\ items[t] # <<>> => t \in Distributing
    /\ pc[t] \in {"push", "delete"} => items[t] # <<>>

\* What a vector holds was due when it was popped.
Ripe ==
  \A t \in Threads :
    /\ now[t] <= tick64
    /\ \A k \in 1..Len(items[t]) : executeTick[items[t][k]] <= tick64

\* An item whose job was pushed is deleted, or about to be by the thread that
\* pushed it, which still has it at the head of its vector.
Settled ==
  \A k \in 1..Len(pushed) :
    \/ jobData[pushed[k]] = "deleted"
    \/ \E t \in Threads : /\ pc[t] \in {"push", "delete"}
                          /\ Head(items[t]) = pushed[k]

IInv == /\ TypeOK /\ Control /\ OneDistributor /\ ItemInOnePlace
        /\ Ripe /\ Settled /\ FiresOnceAndNotEarly

\* A distributor gives an item up when it has pushed the job, or has found that
\* the owner has expired.
Decided ==
  \A t \in Threads :
    /\ pc[t] = "push" => Head(items[t]) \in Fired
    /\ pc[t] = "delete" => Head(items[t]) \in expired \cup Fired

-----------------------------------------------------------------------------
\* The initial state satisfies the invariant.
LEMMA InitIInv == Init => IInv
<1> SUFFICES ASSUME Init PROVE IInv
  OBVIOUS
<1>1. TypeOK
  <2>1. /\ items \in [Threads -> Seq(Items)]
        /\ pushed \in Seq(Items)
    BY DEF Init
  <2>2. /\ timerItem \in [Threads -> Items \cup {None}]
        /\ reserving \in [Threads -> Items \cup {None}]
    BY DEF Init
  <2>3. /\ executeTick \in [Items -> Nat]
        /\ now \in [Threads -> Nat]
        /\ tick64 \in Nat
    BY DEF Init
  <2> QED  BY <2>1, <2>2, <2>3 DEF Init, TypeOK
<1>2. Control /\ OneDistributor
  BY DEF Init, Control, OneDistributor, Distributing
<1>3. Ripe
  <2> SUFFICES ASSUME NEW t \in Threads
               PROVE  /\ now[t] <= tick64
                      /\ \A k \in 1..Len(items[t]) : executeTick[items[t][k]] <= tick64
    BY DEF Ripe
  <2>1. now[t] = 0 /\ tick64 = 0 /\ items[t] = <<>>
    BY DEF Init
  <2> QED  BY <2>1
<1>4. Settled /\ FiresOnceAndNotEarly
  BY DEF Init, Settled, FiresOnceAndNotEarly
<1>5. ItemInOnePlace
  BY NoneAssumption DEF Init, ItemInOnePlace, Holders, HeldOnce
<1> QED  BY <1>1, <1>2, <1>3, <1>4, <1>5 DEF IInv

\* Every step keeps the variables in their types.
LEMMA TypeStep == TypeOK /\ Control /\ [Next]_vars => TypeOK'
<1> SUFFICES ASSUME TypeOK, Control, [Next]_vars PROVE TypeOK'
  OBVIOUS
<1> USE DelaysAssumption, ClockAssumption
<1>1. ASSUME NEW t \in Threads, NEW i \in Items, NEW d \in Delays, ReserveTick(t, i, d)
      PROVE  TypeOK'
  BY <1>1 DEF TypeOK, ReserveTick
<1>2. ASSUME NEW t \in Threads, ReservePush(t) PROVE TypeOK'
  BY <1>2 DEF TypeOK, ReservePush
<1>3. ASSUME NEW t \in Threads, DistributeStep(t) PROVE TypeOK'
  <2>1. CASE ReadNow(t)
    BY <2>1 DEF TypeOK, ReadNow, Goto
  <2>2. CASE Enter(t)
    BY <2>2 DEF TypeOK, Enter, Goto
  <2>3. CASE PopDue(t)
    <3>1. PICK i \in Top(mTimerQueue) :
            /\ mTimerQueue' = mTimerQueue \ {i}
            /\ items' = [items EXCEPT ![t] = Append(@, i)]
      BY <2>3 DEF PopDue
    <3>2. i \in Items
      BY <3>1 DEF Top, TypeOK
    <3> QED  BY <2>3, <3>1, <3>2 DEF TypeOK, PopDue
  <2>4. CASE PopEarly(t)
    BY <2>4 DEF TypeOK, PopEarly, Goto, Top
  <2>5. CASE PopNothing(t)
    BY <2>5 DEF TypeOK, PopNothing, Goto
  <2>6. CASE PushBack(t)
    BY <2>6 DEF TypeOK, PushBack, Goto, Control
  <2>7. CASE Deliver(t)
    <3>1. Head(items[t]) \in Items
      <4>1. items[t] \in Seq(Items) /\ items[t] # <<>>
        BY <2>7 DEF TypeOK, Deliver
      <4> QED  BY <4>1
    <3>2. CASE Head(items[t]) \in expired
      BY <2>7, <3>2 DEF TypeOK, Deliver, Goto
    <3>3. CASE Head(items[t]) \notin expired
      <4>1. pushed \in Seq(Items) /\ pushed' = Append(pushed, Head(items[t]))
        BY <2>7, <3>3 DEF TypeOK, Deliver
      <4>2. pushed' \in Seq(Items)
        BY <3>1, <4>1
      <4> QED  BY <2>7, <3>3, <4>2 DEF TypeOK, Deliver, Goto
    <3> QED  BY <3>2, <3>3
  <2>8. CASE PushReturns(t)
    BY <2>8 DEF TypeOK, PushReturns, Goto
  <2>9. CASE Delete(t)
    <3>1. items[t] \in Seq(Items) /\ items[t] # <<>>
      BY <2>9 DEF TypeOK, Delete, Control
    <3>2. Tail(items[t]) \in Seq(Items)
      BY <3>1
    <3>3. items' \in [Threads -> Seq(Items)]
      BY <2>9, <3>2 DEF TypeOK, Delete
    <3>4. jobData' \in [Items -> {"none", "live", "deleted"}]
      BY <2>9 DEF TypeOK, Delete
    <3> QED  BY <2>9, <3>3, <3>4 DEF TypeOK, Delete, Goto
  <2>10. CASE Finish(t)
    BY <2>10 DEF TypeOK, Finish, Goto
  <2> QED
    BY <1>3, <2>1, <2>2, <2>3, <2>4, <2>5, <2>6, <2>7, <2>8, <2>9, <2>10 DEF DistributeStep
<1>4. CASE Tick
  BY <1>4 DEF TypeOK, Tick
<1>5. ASSUME NEW i \in Items, OwnerExpires(i) PROVE TypeOK'
  BY <1>5 DEF TypeOK, OwnerExpires
<1>6. CASE UNCHANGED vars
  BY <1>6 DEF TypeOK, vars
<1> QED  BY <1>1, <1>2, <1>3, <1>4, <1>5, <1>6 DEF Next

\* Every step keeps one distributor, and the control state of each thread in
\* step with its local variables.
LEMMA ControlStep ==
  TypeOK /\ Control /\ OneDistributor /\ [Next]_vars => Control' /\ OneDistributor'
<1> SUFFICES ASSUME TypeOK, Control, OneDistributor, [Next]_vars
             PROVE  Control' /\ OneDistributor'
  OBVIOUS
<1> USE NoneAssumption DEF OneDistributor, Distributing
<1>1. ASSUME NEW t \in Threads, NEW i \in Items, NEW d \in Delays, ReserveTick(t, i, d)
      PROVE  Control' /\ OneDistributor'
  BY <1>1 DEF TypeOK, Control, ReserveTick, InUserCode
<1>2. ASSUME NEW t \in Threads, ReservePush(t) PROVE Control' /\ OneDistributor'
  BY <1>2 DEF TypeOK, Control, ReservePush
<1>3. ASSUME NEW t \in Threads, DistributeStep(t) PROVE Control' /\ OneDistributor'
  <2>1. CASE ReadNow(t)
    BY <2>1 DEF TypeOK, Control, ReadNow, Goto
  <2>2. CASE Enter(t)
    BY <2>2 DEF TypeOK, Control, Enter, Goto
  <2>3. CASE PopDue(t)
    BY <2>3 DEF TypeOK, Control, PopDue
  <2>4. CASE PopEarly(t)
    <3>1. PICK i \in Items : timerItem' = [timerItem EXCEPT ![t] = i]
      BY <2>4 DEF PopEarly, Top, TypeOK
    <3> QED  BY <2>4, <3>1 DEF TypeOK, Control, PopEarly, Goto
  <2>5. CASE PopNothing(t)
    BY <2>5 DEF TypeOK, Control, PopNothing, Goto
  <2>6. CASE PushBack(t)
    BY <2>6 DEF TypeOK, Control, PushBack, Goto
  <2>7. CASE Deliver(t)
    <3>1. /\ pc[t] = "deliver" /\ items[t] # <<>>
          /\ \E step \in {"push", "delete"} : pc' = [pc EXCEPT ![t] = step]
          /\ UNCHANGED <<mIsDistributing, timerItem, items, reserving>>
      BY <2>7 DEF Deliver, Goto
    <3> QED  BY <3>1 DEF TypeOK, Control
  <2>8. CASE PushReturns(t)
    BY <2>8 DEF TypeOK, Control, PushReturns, Goto
  <2>9. CASE Delete(t)
    BY <2>9 DEF TypeOK, Control, Delete, Goto
  <2>10. CASE Finish(t)
    BY <2>10 DEF TypeOK, Control, Finish, Goto
  <2> QED
    BY <1>3, <2>1, <2>2, <2>3, <2>4, <2>5, <2>6, <2>7, <2>8, <2>9, <2>10 DEF DistributeStep
<1>4. CASE Tick
  BY <1>4 DEF Control, Tick
<1>5. ASSUME NEW i \in Items, OwnerExpires(i) PROVE Control' /\ OneDistributor'
  BY <1>5 DEF Control, OwnerExpires
<1>6. CASE UNCHANGED vars
  BY <1>6 DEF Control, vars
<1> QED  BY <1>1, <1>2, <1>3, <1>4, <1>5, <1>6 DEF Next

-----------------------------------------------------------------------------
In(i, s) == \E k \in 1..Len(s) : s[k] = i

\* What Append and Tail do to the items of a vector without repetitions.
LEMMA AppendItems ==
  ASSUME NEW s \in Seq(Items), NEW i \in Items
  PROVE  /\ Append(s, i) \in Seq(Items)
         /\ \A j \in Items : In(j, Append(s, i)) <=> In(j, s) \/ j = i
<1>1. /\ Append(s, i) \in Seq(Items)
      /\ Len(Append(s, i)) = Len(s) + 1 /\ Len(s) \in Nat
      /\ \A k \in 1..Len(s) : Append(s, i)[k] = s[k]
      /\ Append(s, i)[Len(s) + 1] = i
  OBVIOUS
<1>2. ASSUME NEW j \in Items, In(j, Append(s, i)) PROVE In(j, s) \/ j = i
  <2>1. PICK k \in 1..Len(s) + 1 : Append(s, i)[k] = j
    BY <1>1, <1>2 DEF In
  <2>2. CASE k = Len(s) + 1
    BY <1>1, <2>1, <2>2
  <2>3. CASE k \in 1..Len(s)
    BY <1>1, <2>1, <2>3 DEF In
  <2> QED  BY <1>1, <2>1, <2>2, <2>3
<1>3. ASSUME NEW j \in Items, In(j, s) \/ j = i PROVE In(j, Append(s, i))
  <2>1. CASE j = i
    <3>1. Len(s) + 1 \in 1..Len(Append(s, i))
      BY <1>1
    <3> QED  BY <1>1, <2>1, <3>1 DEF In
  <2>2. CASE In(j, s)
    <3>1. PICK k \in 1..Len(s) : s[k] = j
      BY <2>2 DEF In
    <3>2. k \in 1..Len(Append(s, i)) /\ Append(s, i)[k] = j
      BY <1>1, <3>1
    <3> QED  BY <3>2 DEF In
  <2> QED  BY <1>3, <2>1, <2>2
<1> QED  BY <1>1, <1>2, <1>3

\* Tail takes the first item away and leaves the others once each.
LEMMA TailItems ==
  ASSUME NEW s \in Seq(Items), s # <<>>,
         \A k, m \in 1..Len(s) : s[k] = s[m] => k = m
  PROVE  /\ Head(s) \in Items /\ In(Head(s), s)
         /\ Tail(s) \in Seq(Items)
         /\ \A j \in Items : In(j, Tail(s)) <=> In(j, s) /\ j # Head(s)
         /\ \A k, m \in 1..Len(Tail(s)) : Tail(s)[k] = Tail(s)[m] => k = m
<1>1. /\ Tail(s) \in Seq(Items)
      /\ Len(s) \in Nat \ {0} /\ Len(Tail(s)) = Len(s) - 1
      /\ \A k \in 1..Len(Tail(s)) : Tail(s)[k] = s[k + 1]
      /\ Head(s) = s[1] /\ s[1] \in Items
  OBVIOUS
<1>2. In(Head(s), s)
  BY <1>1 DEF In
<1>3. ASSUME NEW j \in Items, In(j, Tail(s)) PROVE In(j, s) /\ j # Head(s)
  <2>1. PICK k \in 1..Len(Tail(s)) : Tail(s)[k] = j
    BY <1>3 DEF In
  <2>2. k + 1 \in 1..Len(s) /\ s[k + 1] = j /\ k + 1 # 1 /\ 1 \in 1..Len(s)
    BY <1>1, <2>1
  <2> QED  BY <1>1, <2>2 DEF In
<1>4. ASSUME NEW j \in Items, In(j, s), j # Head(s) PROVE In(j, Tail(s))
  <2>1. PICK k \in 1..Len(s) : s[k] = j
    BY <1>4 DEF In
  <2>2. k # 1
    BY <1>1, <1>4, <2>1
  <2>3. k - 1 \in 1..Len(Tail(s)) /\ (k - 1) + 1 = k
    BY <1>1, <2>1, <2>2
  <2>4. Tail(s)[k - 1] = j
    BY <1>1, <2>1, <2>3
  <2> QED  BY <2>3, <2>4 DEF In
<1>5. ASSUME NEW k \in 1..Len(Tail(s)), NEW m \in 1..Len(Tail(s)), Tail(s)[k] = Tail(s)[m]
      PROVE  k = m
  <2>1. /\ k + 1 \in 1..Len(s) /\ m + 1 \in 1..Len(s)
        /\ s[k + 1] = s[m + 1]
    BY <1>1, <1>5
  <2>2. k + 1 = m + 1
    BY <2>1
  <2> QED  BY <2>2
<1> QED  BY <1>1, <1>2, <1>3, <1>4, <1>5

-----------------------------------------------------------------------------
Has(t, i) == reserving[t] = i \/ timerItem[t] = i \/ In(i, items[t])

Alone ==
  \A i \in Items :
    /\ jobData[i] = "live" <=> i \in mTimerQueue \/ \E t \in Threads : Has(t, i)
    /\ i \in mTimerQueue => \A t \in Threads : ~ Has(t, i)
    /\ \A t, u \in Threads : Has(t, i) /\ Has(u, i) => t = u

Held == \A t \in Threads : HeldOnce(t)

\* ItemInOnePlace, thread by thread instead of by sets of threads.
LEMMA PlaceForm == ItemInOnePlace <=> Held /\ Alone
<1>1. ASSUME NEW i \in Items
      PROVE  Holders(i) = {t \in Threads : Has(t, i)}
  BY DEF Holders, Has, In
<1>2. ASSUME NEW i \in Items
      PROVE  (IF jobData[i] = "live"
              THEN IF i \in mTimerQueue
                   THEN Holders(i) = {} ELSE \E t \in Threads : Holders(i) = {t}
              ELSE i \notin mTimerQueue /\ Holders(i) = {})
             <=>
             /\ jobData[i] = "live" <=> i \in mTimerQueue \/ \E t \in Threads : Has(t, i)
             /\ i \in mTimerQueue => \A t \in Threads : ~ Has(t, i)
             /\ \A t, u \in Threads : Has(t, i) /\ Has(u, i) => t = u
  <2>1. Holders(i) = {} <=> \A t \in Threads : ~ Has(t, i)
    BY <1>1
  <2>2. (\E t \in Threads : Holders(i) = {t})
          <=> /\ \E t \in Threads : Has(t, i)
              /\ \A t, u \in Threads : Has(t, i) /\ Has(u, i) => t = u
    <3>1. ASSUME NEW t \in Threads, Holders(i) = {t}
          PROVE  /\ Has(t, i)
                 /\ \A u, v \in Threads : Has(u, i) /\ Has(v, i) => u = v
      BY <1>1, <3>1
    <3>2. ASSUME NEW t \in Threads, Has(t, i),
                 \A u, v \in Threads : Has(u, i) /\ Has(v, i) => u = v
          PROVE  Holders(i) = {t}
      BY <1>1, <3>2
    <3> QED  BY <3>1, <3>2
  <2> QED  BY <2>1, <2>2
<1> QED  BY <1>2 DEF ItemInOnePlace, Held, Alone

\* A step that leaves every place as it is keeps each item in one.
LEMMA SamePlaces ==
  ASSUME Held, Alone,
         UNCHANGED <<mTimerQueue, jobData, timerItem, items, reserving>>
  PROVE  Held' /\ Alone'
BY DEF Held, HeldOnce, Alone, Has, In

\* Reserve, the passes of Distribute and the delivery move each item from one
\* place to the next.
LEMMA PlaceStep ==
  TypeOK /\ Control /\ OneDistributor /\ Held /\ Alone /\ [Next]_vars => Held' /\ Alone'
<1> SUFFICES ASSUME TypeOK, Control, OneDistributor, Held, Alone, [Next]_vars
             PROVE  Held' /\ Alone'
  OBVIOUS
<1> USE NoneAssumption
<1>1. ASSUME NEW t \in Threads, NEW i \in Items, NEW d \in Delays, ReserveTick(t, i, d)
      PROVE  Held' /\ Alone'
  <2>1. /\ reserving[t] = None /\ reserving' = [reserving EXCEPT ![t] = i]
        /\ jobData[i] = "none" /\ jobData' = [jobData EXCEPT ![i] = "live"]
        /\ UNCHANGED <<mTimerQueue, timerItem, items>>
    BY <1>1 DEF ReserveTick, InUserCode
  <2>2. i \notin mTimerQueue /\ \A u \in Threads : ~ Has(u, i)
    BY <2>1 DEF Alone
  <2>3. \A u \in Threads : \A j \in Items : Has(u, j)' <=> Has(u, j) \/ (u = t /\ j = i)
    BY <2>1 DEF Has, TypeOK
  <2>4. Held'
    BY <2>1, <2>2 DEF Held, HeldOnce, Has, In, TypeOK
  <2>5. Alone'
    BY <2>1, <2>2, <2>3 DEF Alone, TypeOK
  <2> QED  BY <2>4, <2>5
<1>2. ASSUME NEW t \in Threads, ReservePush(t) PROVE Held' /\ Alone'
  <2>1. PICK i \in Items : i = reserving[t]
    BY <1>2 DEF ReservePush, TypeOK
  <2>2. /\ mTimerQueue' = mTimerQueue \cup {i}
        /\ reserving' = [reserving EXCEPT ![t] = None]
        /\ UNCHANGED <<jobData, timerItem, items>>
    BY <1>2, <2>1 DEF ReservePush
  <2>3. timerItem[t] # i /\ ~ In(i, items[t])
    BY <2>1 DEF Control, Held, HeldOnce, In
  <2>4. \A u \in Threads : \A j \in Items : Has(u, j)' <=> Has(u, j) /\ ~ (u = t /\ j = i)
    BY <2>1, <2>2, <2>3 DEF Has, TypeOK
  <2>5. Has(t, i)
    BY <2>1 DEF Has
  <2>6. Held'
    BY <2>2 DEF Held, HeldOnce, TypeOK
  <2>7. Alone'
    BY <2>2, <2>4, <2>5 DEF Alone
  <2> QED  BY <2>6, <2>7
<1>3. ASSUME NEW t \in Threads, DistributeStep(t) PROVE Held' /\ Alone'
  <2>1. CASE ReadNow(t) \/ Enter(t) \/ PopNothing(t) \/ Deliver(t) \/ PushReturns(t) \/ Finish(t)
    BY <2>1, SamePlaces DEF ReadNow, Enter, PopNothing, Deliver, PushReturns, Finish
  <2>2. CASE PopDue(t)
    <3>1. PICK i \in Items :
            /\ i \in mTimerQueue
            /\ mTimerQueue' = mTimerQueue \ {i}
            /\ items' = [items EXCEPT ![t] = Append(items[t], i)]
      BY <2>2 DEF PopDue, Top, TypeOK
    <3>2. UNCHANGED <<jobData, timerItem, reserving>>
      BY <2>2 DEF PopDue
    <3>3. \A u \in Threads : ~ Has(u, i)
      BY <3>1 DEF Alone
    <3>4. /\ items[t] \in Seq(Items)
          /\ items'[t] = Append(items[t], i)
          /\ \A u \in Threads : u # t => items'[u] = items[u]
      BY <3>1 DEF TypeOK
    <3>5. \A j \in Items : In(j, items'[t]) <=> In(j, items[t]) \/ j = i
      BY <3>4, AppendItems
    <3>6. \A u \in Threads : \A j \in Items : Has(u, j)' <=> Has(u, j) \/ (u = t /\ j = i)
      BY <3>2, <3>4, <3>5 DEF Has
    <3>7. HeldOnce(t)'
      <4>1. /\ Len(items'[t]) = Len(items[t]) + 1 /\ Len(items[t]) \in Nat
            /\ \A k \in 1..Len(items[t]) : items'[t][k] = items[t][k]
            /\ items'[t][Len(items[t]) + 1] = i
        BY <3>4
      <4>2. reserving[t] # i /\ timerItem[t] # i /\ \A k \in 1..Len(items[t]) : items[t][k] # i
        BY <3>3 DEF Has, In
      <4>3. HeldOnce(t)
        BY DEF Held
      <4> DEFINE n == Len(items[t])
      <4>4. SUFFICES ASSUME NEW k \in 1..(n + 1)
                     PROVE  /\ items'[t][k] \notin {reserving[t], timerItem[t]}
                            /\ \A m \in 1..(n + 1) : items'[t][k] = items'[t][m] => k = m
        BY <3>2, <4>1 DEF HeldOnce
      <4>5. \A m \in 1..(n + 1) : m \in 1..n \/ m = n + 1
        BY <4>1
      <4>6. items'[t][k] \notin {reserving[t], timerItem[t]}
        BY <4>1, <4>2, <4>3, <4>5 DEF HeldOnce
      <4>7. ASSUME NEW m \in 1..(n + 1), items'[t][k] = items'[t][m]
            PROVE  k = m
        <5>1. CASE k \in 1..n /\ m \in 1..n
          BY <4>1, <4>3, <4>7, <5>1 DEF HeldOnce
        <5>2. CASE k = n + 1 \/ m = n + 1
          BY <4>1, <4>2, <4>5, <4>7, <5>2
        <5> QED  BY <4>5, <5>1, <5>2
      <4> QED  BY <4>6, <4>7
    <3>8. Held'
      BY <3>2, <3>4, <3>7 DEF Held, HeldOnce
    <3>9. Alone'
      BY <3>1, <3>2, <3>3, <3>6 DEF Alone
    <3> QED  BY <3>8, <3>9
  <2>3. CASE PopEarly(t)
    <3>1. PICK i \in Items :
            /\ i \in mTimerQueue
            /\ mTimerQueue' = mTimerQueue \ {i}
            /\ timerItem' = [timerItem EXCEPT ![t] = i]
      BY <2>3 DEF PopEarly, Top, TypeOK
    <3>2. UNCHANGED <<jobData, items, reserving>> /\ timerItem[t] = None
      BY <2>3 DEF PopEarly, Control
    <3>3. \A u \in Threads : ~ Has(u, i)
      BY <3>1 DEF Alone
    <3>4. \A u \in Threads : \A j \in Items : Has(u, j)' <=> Has(u, j) \/ (u = t /\ j = i)
      BY <3>1, <3>2 DEF Has, TypeOK
    <3>5. Held'
      BY <3>1, <3>2, <3>3 DEF Held, HeldOnce, Has, In, TypeOK
    <3>6. Alone'
      BY <3>1, <3>2, <3>3, <3>4 DEF Alone
    <3> QED  BY <3>5, <3>6
  <2>4. CASE PushBack(t)
    <3>1. PICK i \in Items : i = timerItem[t]
      BY <2>4 DEF PushBack, Control, TypeOK
    <3>2. /\ mTimerQueue' = mTimerQueue \cup {i}
          /\ timerItem' = [timerItem EXCEPT ![t] = None]
          /\ UNCHANGED <<jobData, items, reserving>>
      BY <2>4, <3>1 DEF PushBack
    <3>3. reserving[t] # i /\ ~ In(i, items[t])
      BY <2>4, <3>1 DEF PushBack, Control, Held, HeldOnce, In
    <3>4. \A u \in Threads : \A j \in Items : Has(u, j)' <=> Has(u, j) /\ ~ (u = t /\ j = i)
      BY <3>1, <3>2, <3>3 DEF Has, TypeOK
    <3>5. Has(t, i)
      BY <3>1 DEF Has
    <3>6. Held'
      BY <3>2 DEF Held, HeldOnce, TypeOK
    <3>7. Alone'
      BY <3>2, <3>4, <3>5 DEF Alone
    <3> QED  BY <3>6, <3>7
  <2>5. CASE Delete(t)
    <3>1. /\ pc[t] = "delete"
          /\ jobData' = [jobData EXCEPT ![Head(items[t])] = "deleted"]
          /\ items' = [items EXCEPT ![t] = Tail(items[t])]
          /\ UNCHANGED <<mTimerQueue, timerItem, reserving>>
      BY <2>5 DEF Delete
    <3>2. items[t] \in Seq(Items) /\ items[t] # <<>>
      BY <3>1 DEF TypeOK, Control
    <3>3. \A k, m \in 1..Len(items[t]) : items[t][k] = items[t][m] => k = m
      BY DEF Held, HeldOnce
    <3> DEFINE i == Head(items[t])
    <3>4. /\ i \in Items /\ In(i, items[t])
          /\ Tail(items[t]) \in Seq(Items)
          /\ \A j \in Items : In(j, Tail(items[t])) <=> In(j, items[t]) /\ j # i
          /\ \A k, m \in 1..Len(Tail(items[t])) :
               Tail(items[t])[k] = Tail(items[t])[m] => k = m
      BY <3>2, <3>3, TailItems
    <3>5. reserving[t] # i /\ timerItem[t] # i
      BY <3>4 DEF Held, HeldOnce, In
    <3>6. items'[t] = Tail(items[t]) /\ \A u \in Threads : u # t => items'[u] = items[u]
      BY <3>1 DEF TypeOK
    <3> HIDE DEF i
    <3>7. \A u \in Threads : \A j \in Items : Has(u, j)' <=> Has(u, j) /\ ~ (u = t /\ j = i)
      BY <3>1, <3>4, <3>5, <3>6 DEF Has
    <3>8. Has(t, i)
      BY <3>4 DEF Has
    <3>9. HeldOnce(t)'
      <4>1. HeldOnce(t)
        BY DEF Held
      <4>2. \A k \in 1..Len(items'[t]) :
              items'[t][k] \notin {reserving[t], timerItem[t]}
        <5>1. TAKE k \in 1..Len(items'[t])
        <5>2. items'[t][k] \in Items /\ In(items'[t][k], Tail(items[t]))
          BY <3>4, <3>6 DEF In
        <5>3. PICK m \in 1..Len(items[t]) : items[t][m] = items'[t][k]
          BY <3>4, <5>2 DEF In
        <5> QED  BY <4>1, <5>3 DEF HeldOnce
      <4> QED  BY <3>1, <3>4, <3>6, <4>2 DEF HeldOnce
    <3>10. Held'
      BY <3>1, <3>6, <3>9 DEF Held, HeldOnce
    <3>11. jobData[i] = "live" /\ i \notin mTimerQueue /\ \A u \in Threads : Has(u, i) => u = t
      BY <3>4, <3>8 DEF Alone
    <3>12. /\ jobData'[i] = "deleted"
           /\ \A j \in Items : j # i => jobData'[j] = jobData[j]
      BY <3>1, <3>4 DEF TypeOK, i
    <3>13. Alone'
      BY <3>1, <3>7, <3>11, <3>12 DEF Alone
    <3> QED  BY <3>10, <3>13
  <2> QED  BY <1>3, <2>1, <2>2, <2>3, <2>4, <2>5 DEF DistributeStep
<1>4. CASE Tick
  BY <1>4, SamePlaces DEF Tick
<1>5. ASSUME NEW i \in Items, OwnerExpires(i) PROVE Held' /\ Alone'
  BY <1>5, SamePlaces DEF OwnerExpires
<1>6. CASE UNCHANGED vars
  BY <1>6, SamePlaces DEF vars
<1> QED  BY <1>1, <1>2, <1>3, <1>4, <1>5, <1>6 DEF Next

-----------------------------------------------------------------------------
\* What a pass takes from the queue was due at a time the clock has reached.
LEMMA RipeStep ==
  TypeOK /\ Held /\ Alone /\ Ripe /\ [Next]_vars => Ripe'
<1> SUFFICES ASSUME TypeOK, Held, Alone, Ripe, [Next]_vars PROVE Ripe'
  OBVIOUS
<1> USE DelaysAssumption DEF Ripe
<1>1. ASSUME NEW t \in Threads, NEW i \in Items, NEW d \in Delays, ReserveTick(t, i, d)
      PROVE  Ripe'
  <2>1. /\ jobData[i] = "none" /\ executeTick' = [executeTick EXCEPT ![i] = tick64 + d]
        /\ UNCHANGED <<tick64, items, now>>
    BY <1>1 DEF ReserveTick
  <2>2. \A u \in Threads : ~ Has(u, i)
    BY <2>1 DEF Alone
  <2>3. \A u \in Threads : \A k \in 1..Len(items[u]) : items[u][k] \in Items \ {i}
    BY <2>2 DEF Has, In, TypeOK
  <2> QED  BY <2>1, <2>3 DEF TypeOK
<1>2. ASSUME NEW t \in Threads, ReadNow(t) PROVE Ripe'
  BY <1>2 DEF TypeOK, ReadNow
<1>3. ASSUME NEW t \in Threads, PopDue(t) PROVE Ripe'
  <2>1. PICK i \in Items :
          /\ now[t] >= executeTick[i]
          /\ items' = [items EXCEPT ![t] = Append(items[t], i)]
    BY <1>3 DEF PopDue, Due, Top, TypeOK
  <2>2. UNCHANGED <<tick64, executeTick, now>>
    BY <1>3 DEF PopDue
  <2>3. executeTick[i] <= tick64
    BY <2>1 DEF TypeOK
  <2>4. /\ Len(items'[t]) = Len(items[t]) + 1 /\ Len(items[t]) \in Nat
        /\ \A k \in 1..Len(items[t]) : items'[t][k] = items[t][k]
        /\ items'[t][Len(items[t]) + 1] = i
        /\ \A u \in Threads : u # t => items'[u] = items[u]
    BY <2>1 DEF TypeOK
  <2> QED  BY <2>2, <2>3, <2>4
<1>4. ASSUME NEW t \in Threads, Delete(t) PROVE Ripe'
  <2>1. /\ items' = [items EXCEPT ![t] = Tail(items[t])] /\ items[t] \in Seq(Items)
        /\ UNCHANGED <<tick64, executeTick, now>>
    BY <1>4 DEF Delete, TypeOK
  <2>2. ASSUME items[t] # <<>>
        PROVE  \A k \in 1..Len(items'[t]) :
                 k + 1 \in 1..Len(items[t]) /\ items'[t][k] = items[t][k + 1]
    BY <2>1, <2>2 DEF TypeOK
  <2>3. CASE items[t] # <<>>
    BY <2>1, <2>2, <2>3 DEF TypeOK
  <2>4. CASE items[t] = <<>>
    BY <2>1, <2>4 DEF TypeOK
  <2> QED  BY <2>3, <2>4
<1>5. CASE Tick
  BY <1>5 DEF TypeOK, Tick
<1>6. CASE UNCHANGED <<tick64, executeTick, now, items>>
  BY <1>6
<1>7. ASSUME NEW t \in Threads,
             ReservePush(t) \/ Enter(t) \/ PopEarly(t) \/ PopNothing(t) \/ PushBack(t)
               \/ Deliver(t) \/ PushReturns(t) \/ Finish(t)
      PROVE  UNCHANGED <<tick64, executeTick, now, items>>
  BY <1>7 DEF ReservePush, Enter, PopEarly, PopNothing, PushBack, Deliver, PushReturns, Finish
<1> QED
  BY <1>1, <1>2, <1>3, <1>4, <1>5, <1>6, <1>7 DEF Next, DistributeStep, OwnerExpires, vars

\* A job is pushed at the head of its pusher's vector only, so no second
\* thread can push it, and it was due.
LEMMA FiredStep ==
  /\ TypeOK /\ Control /\ OneDistributor /\ Held /\ Alone /\ Ripe
  /\ Settled /\ FiresOnceAndNotEarly /\ [Next]_vars
  => Settled' /\ FiresOnceAndNotEarly'
<1> SUFFICES ASSUME TypeOK, Control, OneDistributor, Held, Alone, Ripe,
                    Settled, FiresOnceAndNotEarly, [Next]_vars
             PROVE  Settled' /\ FiresOnceAndNotEarly'
  OBVIOUS
<1> USE DelaysAssumption
<1>0. pushed \in Seq(Items) /\ Len(pushed) \in Nat /\ \A k \in 1..Len(pushed) : pushed[k] \in Items
  BY DEF TypeOK
<1>1. ASSUME NEW t \in Threads, NEW i \in Items, NEW d \in Delays, ReserveTick(t, i, d)
      PROVE  Settled' /\ FiresOnceAndNotEarly'
  <2>1. /\ jobData[i] = "none" /\ executeTick' = [executeTick EXCEPT ![i] = tick64 + d]
        /\ jobData' = [jobData EXCEPT ![i] = "live"]
        /\ UNCHANGED <<tick64, items, pc, pushed>>
    BY <1>1 DEF ReserveTick
  <2>2. ASSUME NEW u \in Threads, pc[u] \in {"push", "delete"} PROVE Head(items[u]) # i
    <3>1. items[u] \in Seq(Items) /\ items[u] # <<>>
      BY <2>2 DEF TypeOK, Control
    <3>2. 1 \in 1..Len(items[u]) /\ Head(items[u]) = items[u][1]
      BY <3>1
    <3>3. ~ Has(u, i)
      BY <2>1 DEF Alone
    <3> QED  BY <3>2, <3>3 DEF Has, In
  <2>3. \A k \in 1..Len(pushed) : pushed[k] \in Items \ {i}
    BY <1>0, <2>1, <2>2 DEF Settled
  <2>4. Settled'
    BY <2>1, <2>3 DEF Settled, TypeOK
  <2>5. FiresOnceAndNotEarly'
    BY <2>1, <2>3 DEF FiresOnceAndNotEarly, TypeOK
  <2> QED  BY <2>4, <2>5
<1>2. ASSUME NEW t \in Threads, Deliver(t) PROVE Settled' /\ FiresOnceAndNotEarly'
  <2> DEFINE i == Head(items[t])
  <2>1. /\ pc[t] = "deliver" /\ items[t] \in Seq(Items) /\ items[t] # <<>>
        /\ UNCHANGED <<tick64, executeTick, jobData, items>>
    BY <1>2 DEF Deliver, TypeOK
  <2>2. 1 \in 1..Len(items[t]) /\ i = items[t][1] /\ i \in Items
    BY <2>1
  <2> HIDE DEF i
  <2>3. CASE pushed' = pushed /\ pc' = [pc EXCEPT ![t] = "delete"]
    <3>1. Settled'
      BY <1>0, <2>1, <2>3 DEF Settled, TypeOK
    <3>2. FiresOnceAndNotEarly'
      BY <2>1, <2>3 DEF FiresOnceAndNotEarly
    <3> QED  BY <3>1, <3>2
  <2>4. CASE pushed' = Append(pushed, i) /\ pc' = [pc EXCEPT ![t] = "push"]
    <3>1. Has(t, i)
      BY <2>2 DEF Has, In
    <3>2. jobData[i] = "live"
      BY <2>2, <3>1 DEF Alone
    <3>3. ASSUME NEW u \in Threads, pc[u] \in {"push", "delete"} PROVE Head(items[u]) # i
      <4>1. items[u] \in Seq(Items) /\ items[u] # <<>>
        BY <3>3 DEF TypeOK, Control
      <4>2. u = t
        BY <2>1, <3>3 DEF OneDistributor, Distributing
      <4> QED  BY <2>1, <3>3, <4>2
    <3>4. \A k \in 1..Len(pushed) : pushed[k] # i
      BY <3>2, <3>3 DEF Settled
    <3>5. executeTick[i] <= tick64
      BY <2>2 DEF Ripe
    <3>6. /\ Len(pushed') = Len(pushed) + 1
          /\ \A k \in 1..Len(pushed) : pushed'[k] = pushed[k]
          /\ pushed'[Len(pushed) + 1] = i
      BY <1>0, <2>2, <2>4
    <3>7. Settled'
      <4>1. pc'[t] = "push" /\ Head(items'[t]) = i
        BY <2>1, <2>4 DEF TypeOK, i
      <4>2. \A u \in Threads : pc[u] \in {"push", "delete"} => pc'[u] = pc[u]
        BY <2>1, <2>4 DEF TypeOK
      <4>3. ASSUME NEW k \in 1..Len(pushed)
            PROVE  \/ jobData'[pushed'[k]] = "deleted"
                   \/ \E u \in Threads : /\ pc'[u] \in {"push", "delete"}
                                         /\ Head(items'[u]) = pushed'[k]
        BY <2>1, <3>6, <4>2 DEF Settled
      <4> QED  BY <1>0, <3>6, <4>1, <4>3 DEF Settled
    <3>8. FiresOnceAndNotEarly'
      BY <1>0, <2>1, <3>4, <3>5, <3>6 DEF FiresOnceAndNotEarly
    <3> QED  BY <3>7, <3>8
  <2> QED  BY <1>2, <2>3, <2>4 DEF Deliver, Goto, i
<1>3. ASSUME NEW t \in Threads, Delete(t) PROVE Settled' /\ FiresOnceAndNotEarly'
  <2>1. /\ pc[t] = "delete" /\ pc' = [pc EXCEPT ![t] = "deliver"]
        /\ jobData' = [jobData EXCEPT ![Head(items[t])] = "deleted"]
        /\ items' = [items EXCEPT ![t] = Tail(items[t])]
        /\ UNCHANGED <<tick64, executeTick, pushed>>
    BY <1>3 DEF Delete, Goto
  <2>2. ASSUME NEW k \in 1..Len(pushed)
        PROVE  \/ jobData'[pushed[k]] = "deleted"
               \/ \E u \in Threads : /\ pc'[u] \in {"push", "delete"}
                                     /\ Head(items'[u]) = pushed[k]
    <3>1. CASE jobData[pushed[k]] = "deleted"
      BY <1>0, <2>1, <3>1 DEF TypeOK
    <3>2. ASSUME NEW u \in Threads, pc[u] \in {"push", "delete"}, Head(items[u]) = pushed[k]
          PROVE  jobData'[pushed[k]] = "deleted"
      <4>1. u = t
        BY <2>1, <3>2 DEF OneDistributor, Distributing
      <4> QED  BY <1>0, <2>1, <3>2, <4>1 DEF TypeOK
    <3> QED  BY <3>1, <3>2 DEF Settled
  <2>3. Settled'
    <3>1. pushed' = pushed
      BY <2>1
    <3> QED  BY ONLY <2>2, <3>1 DEF Settled
  <2>4. FiresOnceAndNotEarly'
    BY <2>1 DEF FiresOnceAndNotEarly
  <2> QED  BY <2>3, <2>4
<1>4. ASSUME NEW t \in Threads, PopDue(t) PROVE Settled' /\ FiresOnceAndNotEarly'
  <2>1. /\ pc[t] = "pop" /\ UNCHANGED <<tick64, executeTick, pushed, pc, jobData>>
        /\ \A u \in Threads : u # t => items'[u] = items[u]
    BY <1>4 DEF PopDue, TypeOK
  <2>2. Settled'
    BY <2>1 DEF Settled
  <2>3. FiresOnceAndNotEarly'
    BY <2>1 DEF FiresOnceAndNotEarly
  <2> QED  BY <2>2, <2>3
<1>5. CASE Tick
  BY <1>0, <1>5 DEF Tick, Settled, FiresOnceAndNotEarly, TypeOK
<1>6. ASSUME NEW t \in Threads,
             ReadNow(t) \/ Enter(t) \/ PopEarly(t) \/ PopNothing(t) \/ PushBack(t)
               \/ PushReturns(t) \/ Finish(t)
      PROVE  Settled' /\ FiresOnceAndNotEarly'
  <2>1. UNCHANGED <<tick64, executeTick, pushed, jobData, items>>
    BY <1>6 DEF ReadNow, Enter, PopEarly, PopNothing, PushBack, PushReturns, Finish
  <2>2. \A u \in Threads : pc[u] \in {"push", "delete"} => pc'[u] \in {"push", "delete"}
    BY <1>6 DEF ReadNow, Enter, PopEarly, PopNothing, PushBack, PushReturns, Finish, Goto, TypeOK
  <2>3. Settled'
    BY <2>1, <2>2 DEF Settled
  <2>4. FiresOnceAndNotEarly'
    BY <2>1 DEF FiresOnceAndNotEarly
  <2> QED  BY <2>3, <2>4
<1>7. CASE UNCHANGED <<tick64, executeTick, pushed, jobData, items, pc>>
  BY <1>7 DEF Settled, FiresOnceAndNotEarly
<1> QED
  BY <1>1, <1>2, <1>3, <1>4, <1>5, <1>6, <1>7
  DEF Next, DistributeStep, ReservePush, OwnerExpires, vars

-----------------------------------------------------------------------------
\* What Append adds to the jobs that were pushed.
LEMMA AppendFired ==
  ASSUME TypeOK, NEW i \in Items, pushed' = Append(pushed, i)
  PROVE  Fired' = Fired \cup {i}
<1>1. /\ pushed \in Seq(Items) /\ Len(pushed) \in Nat /\ Len(pushed') = Len(pushed) + 1
      /\ \A k \in 1..Len(pushed) : pushed'[k] = pushed[k]
      /\ pushed'[Len(pushed) + 1] = i
  BY DEF TypeOK
<1>2. \A k \in 1..Len(pushed') : k \in 1..Len(pushed) \/ k = Len(pushed) + 1
  BY <1>1
<1>3. \A k \in 1..Len(pushed) : k \in 1..Len(pushed')
  BY <1>1
<1>4. Len(pushed) + 1 \in 1..Len(pushed')
  BY <1>1
<1> QED  BY <1>1, <1>2, <1>3, <1>4 DEF Fired

\* The head of a distributor's vector is live and due.
LEMMA HeadDue ==
  ASSUME TypeOK, Alone, Ripe, NEW t \in Threads, items[t] # <<>>
  PROVE  /\ Head(items[t]) \in Items /\ jobData[Head(items[t])] = "live"
         /\ executeTick[Head(items[t])] <= tick64
<1>1. items[t] \in Seq(Items) /\ 1 \in 1..Len(items[t]) /\ Head(items[t]) = items[t][1]
  BY DEF TypeOK
<1>2. items[t][1] \in Items /\ Has(t, items[t][1])
  BY <1>1 DEF Has, In
<1> QED  BY <1>1, <1>2 DEF Alone, Ripe

\* Every step keeps what a distributor has decided about the item at its head.
LEMMA DecidedStep == TypeOK /\ Control /\ Decided /\ [Next]_vars => Decided'
<1> SUFFICES ASSUME TypeOK, Control, Decided, [Next]_vars PROVE Decided'
  OBVIOUS
<1>1. ASSUME NEW t \in Threads, Deliver(t) PROVE Decided'
  <2>1. /\ items' = items /\ expired' = expired
        /\ \A u \in Threads \ {t} : pc'[u] = pc[u]
    BY <1>1 DEF Deliver, Goto, TypeOK
  <2>2. CASE Head(items[t]) \in expired /\ pc'[t] = "delete" /\ pushed' = pushed
    <3>1. Fired' = Fired
      BY <2>2 DEF Fired
    <3> QED  BY <2>1, <2>2, <3>1 DEF Decided
  <2>3. CASE pc'[t] = "push" /\ pushed' = Append(pushed, Head(items[t]))
    <3>1. Head(items[t]) \in Items
      BY <1>1 DEF Deliver, TypeOK
    <3>2. Fired' = Fired \cup {Head(items[t])}
      BY <2>3, <3>1, AppendFired
    <3> QED  BY <2>1, <2>3, <3>2 DEF Decided
  <2> QED  BY <1>1, <2>2, <2>3 DEF Deliver, Goto, TypeOK
<1>2. ASSUME NEW t \in Threads, PopDue(t) \/ Delete(t) PROVE Decided'
  <2>1. /\ pushed' = pushed /\ expired' = expired /\ pc'[t] \in {"pop", "deliver"}
        /\ \A u \in Threads \ {t} : items'[u] = items[u] /\ pc'[u] = pc[u]
    BY <1>2 DEF PopDue, Delete, Goto, TypeOK
  <2> QED  BY <2>1 DEF Decided, Fired
<1>3. ASSUME NEW t \in Threads, PushReturns(t) PROVE Decided'
  BY <1>3 DEF PushReturns, Goto, Decided, Fired, TypeOK
<1>4. ASSUME NEW t \in Threads,
             ReadNow(t) \/ Enter(t) \/ PopEarly(t) \/ PopNothing(t) \/ PushBack(t)
               \/ Finish(t)
      PROVE  Decided'
  <2>1. UNCHANGED <<pushed, expired, items>>
        /\ \A u \in Threads : pc'[u] \in {"push", "delete"} => pc'[u] = pc[u]
    BY <1>4 DEF ReadNow, Enter, PopEarly, PopNothing, PushBack, Finish, Goto, TypeOK
  <2> QED  BY <2>1 DEF Decided, Fired
<1>5. CASE /\ UNCHANGED <<pushed, items, pc>>
           /\ expired \subseteq expired'
  BY <1>5 DEF Decided, Fired
<1> QED
  BY <1>1, <1>2, <1>3, <1>4, <1>5
  DEF Next, DistributeStep, ReserveTick, ReservePush, Tick, OwnerExpires, vars

-----------------------------------------------------------------------------
\* The inductive invariant of the timer (JobTimer.cpp:5-43).
THEOREM Invariance == Spec => []IInv
<1>1. IInv /\ [Next]_vars => IInv'
  <2> SUFFICES ASSUME IInv, [Next]_vars PROVE IInv'
    OBVIOUS
  <2>1. /\ TypeOK /\ Control /\ OneDistributor /\ Held /\ Alone
        /\ Ripe /\ Settled /\ FiresOnceAndNotEarly
    BY PlaceForm DEF IInv
  <2>2. TypeOK' /\ Control' /\ OneDistributor'
    BY <2>1, TypeStep, ControlStep
  <2>3. Held' /\ Alone'
    BY <2>1, PlaceStep
  <2>4. ItemInOnePlace'
    BY <2>3, PlaceForm, PTL
  <2>5. Ripe' /\ Settled' /\ FiresOnceAndNotEarly'
    BY <2>1, RipeStep, FiredStep
  <2> QED  BY <2>2, <2>4, <2>5 DEF IInv
<1> QED  BY InitIInv, <1>1, PTL DEF Spec

\* The variables of the timer keep their types.
THEOREM TypeCorrect == Spec => []TypeOK
BY Invariance, PTL DEF IInv

\* Never do two threads distribute at once, and mIsDistributing tells whether
\* one does (JobTimer.cpp:15-17, 42).
THEOREM Exclusive == Spec => []OneDistributor
BY Invariance, PTL DEF IInv

\* No timer is lost or duplicated, and no JobData is used after its deletion
\* (JobTimer.cpp:7-10, 23-38).
THEOREM Conserved == Spec => []ItemInOnePlace
BY Invariance, PTL DEF IInv

\* Every job is pushed at most once and not before its executeTick
\* (JobTimer.cpp:25, 36-37).
THEOREM OnTime == Spec => []FiresOnceAndNotEarly
BY Invariance, PTL DEF IInv

\* A job is pushed once, when it is due and its owner exists, and its timer is
\* given up only then or when the owner is gone (JobTimer.cpp:34-38).
THEOREM Refinement == Spec => ImplementsTimerService
<1>1. Init => Service!Init /\ Decided
  BY DEF Init, Service!Init, Decided, Fired
<1>2. IInv /\ Decided /\ [Next]_vars => [Service!Next]_(Service!vars)
  <2> SUFFICES ASSUME IInv, Decided, [Next]_vars
               PROVE  Service!Next \/ UNCHANGED Service!vars
    OBVIOUS
  <2>1. TypeOK /\ Control /\ OneDistributor /\ Alone /\ Ripe /\ Settled
    BY PlaceForm DEF IInv
  <2>2. pushed' = pushed => Fired' = Fired
    BY DEF Fired
  <2>3. ASSUME NEW t \in Threads, NEW i \in Items, NEW d \in Delays, ReserveTick(t, i, d)
        PROVE  Service!Next
    <3>1. Service!Reserve(i, d)
      BY <2>2, <2>3 DEF ReserveTick, Service!Reserve
    <3> QED  BY <3>1 DEF Service!Next
  <2>4. ASSUME NEW t \in Threads, Deliver(t) PROVE Service!Next \/ UNCHANGED Service!vars
    <3> DEFINE i == Head(items[t])
    <3>1. CASE i \in expired
      BY <2>2, <2>4, <3>1 DEF Deliver, Service!vars
    <3>2. CASE i \notin expired
      <4>1. i \in Items /\ jobData[i] = "live" /\ executeTick[i] <= tick64
        BY <2>1, <2>4, HeadDue DEF Deliver
      <4>2. Fired' = Fired \cup {i}
        BY <2>1, <2>4, <3>2, <4>1, AppendFired DEF Deliver
      <4>3. i \notin Fired
        <5>1. ASSUME NEW u \in Threads, pc[u] \in {"push", "delete"} PROVE Head(items[u]) # i
          <6>1. u = t
            BY <2>1, <2>4, <5>1 DEF Deliver, OneDistributor, Distributing
          <6> QED  BY <2>4, <5>1, <6>1 DEF Deliver
        <5> QED  BY <2>1, <4>1, <5>1 DEF Settled, Fired
      <4>4. Service!Fire(i)
        BY <2>4, <3>2, <4>1, <4>2, <4>3 DEF Deliver, Service!Fire, Service!Due
      <4> QED  BY <4>1, <4>4 DEF Service!Next
    <3> QED  BY <3>1, <3>2
  <2>5. ASSUME NEW t \in Threads, Delete(t) PROVE Service!Next
    <3>1. items[t] # <<>> /\ Head(items[t]) \in expired \cup Fired
      BY <2>1, <2>5 DEF Control, Delete, Decided
    <3>2. Service!GiveUp(Head(items[t])) /\ Head(items[t]) \in Items
      BY <2>1, <2>2, <2>5, <3>1, HeadDue DEF Delete, Service!GiveUp, Service!Due
    <3> QED  BY <3>2 DEF Service!Next
  <2>6. CASE Tick
    BY <2>2, <2>6 DEF Tick, Service!Tick, Service!Next
  <2>7. ASSUME NEW i \in Items, OwnerExpires(i) PROVE Service!Next
    BY <2>2, <2>7 DEF OwnerExpires, Service!OwnerExpires, Service!Next
  <2>8. CASE UNCHANGED <<tick64, executeTick, jobData, expired, pushed>>
    BY <2>2, <2>8 DEF Service!vars
  <2> QED
    BY <2>3, <2>4, <2>5, <2>6, <2>7, <2>8
    DEF Next, DistributeStep, ReservePush, ReadNow, Enter, PopDue, PopEarly, PopNothing,
        PushBack, PushReturns, Finish, vars
<1>3. IInv /\ Decided /\ [Next]_vars => Decided'
  BY DecidedStep DEF IInv
<1> QED
  BY Invariance, <1>1, <1>2, <1>3, PTL DEF Spec, ImplementsTimerService, Service!Spec

\* What the callers of Reserve rely on, in terms of states: no job before its time, and
\* no timer goes without its job having been pushed while the owner is there.
THEOREM PromiseKept == Spec => []Service!Promise
<1>1. Service!Init => Service!Promise
  BY DEF Service!Init, Service!Promise
<1>2. TypeOK /\ Service!Promise /\ [Service!Next]_(Service!vars) => Service!Promise'
  <2> SUFFICES ASSUME TypeOK, Service!Promise, [Service!Next]_(Service!vars)
               PROVE  Service!Promise'
    OBVIOUS
  <2>1. /\ tick64 \in Nat /\ executeTick \in [Items -> Nat]
        /\ jobData \in [Items -> {"none", "live", "deleted"}]
    BY DEF TypeOK
  <2>2. ASSUME NEW i \in Items, NEW d \in Delays, Service!Reserve(i, d)
        PROVE  Service!Promise'
    BY <2>1, <2>2 DEF Service!Reserve, Service!Promise
  <2>3. ASSUME NEW i \in Items, Service!Fire(i) PROVE Service!Promise'
    BY <2>1, <2>3 DEF Service!Fire, Service!Due, Service!Promise
  <2>4. ASSUME NEW i \in Items, Service!GiveUp(i) PROVE Service!Promise'
    BY <2>1, <2>4 DEF Service!GiveUp, Service!Promise
  <2>5. ASSUME NEW i \in Items, Service!OwnerExpires(i) PROVE Service!Promise'
    BY <2>1, <2>5 DEF Service!OwnerExpires, Service!Promise
  <2>6. CASE Service!Tick
    BY <2>1, <2>6 DEF Service!Tick, Service!Promise
  <2>7. CASE UNCHANGED Service!vars
    BY <2>7 DEF Service!vars, Service!Promise
  <2> QED
    BY <2>2, <2>3, <2>4, <2>5, <2>6, <2>7 DEF Service!Next
<1> QED
  BY Refinement, TypeCorrect, <1>1, <1>2, PTL DEF ImplementsTimerService, Service!Spec
=============================================================================
