-------------------------- MODULE SessionLifeProofs --------------------------
(***************************************************************************)
(* Proofs about SessionLife, for any threads, sessions and rooms, and      *)
(* whether or not the operating system's calls may fail.                   *)
(***************************************************************************)
EXTENDS SessionLife, FiniteSetTheorems, TLAPS

\* No thread is in the middle of something without a session.
Busy == \A t \in Threads : pc[t] # "idle" => session[t] \in Sessions

NotYet(s) ==
  /\ mIsConnected[s] = FALSE
  /\ s \notin mSessions \cup receiving \cup sending \cup disconnecting

\* Until AddSession a session is in one hand: that of CreateSession, of a
\* pending AcceptEx or of the thread that accepted it.
Unshared ==
  /\ unused \cap accepting = {}
  /\ \A s \in unused \cup accepting : NotYet(s)
  /\ \A s \in unused \cup accepting : \A t \in Threads : session[t] # s
  /\ \A t \in Threads : pc[t] = "connect" =>
       NotYet(session[t]) /\ \A u \in Threads : session[u] = session[t] => u = t

Leaves(t) == pc[t] \in {"unmanage", "leave", "release"}

\* ReleasedOnce without the count, by quantifiers over threads; Disconnect
\* has been won for what is leaving.
Leaving ==
  /\ \A s \in Sessions : mIsConnected[s] = TRUE => s \in mSessions
  /\ \A s \in disconnecting : s \in mSessions /\ mIsConnected[s] = FALSE
  /\ \A t \in Threads : Leaves(t) =>
       /\ session[t] \in mSessions \ disconnecting
       /\ mIsConnected[session[t]] = FALSE
       /\ \A u \in Threads : Leaves(u) /\ session[u] = session[t] => u = t

Counted == IsFiniteSet(mSessions) /\ mSessionCount = Cardinality(mSessions)

Watches(t) ==
  pc[t] \in {"buffers", "queue", "id", "manager", "enter", "receive", "post"}

\* Watched and Departing, by quantifiers over threads.
WatchedQ ==
  \A s \in mRecvBuffer \ recvRefused :
    mIsConnected[s] = TRUE =>
      s \in receiving \/ \E t \in Threads : session[t] = s /\ Watches(t)

DepartingQ ==
  \A s \in mSessions \ disconnectRefused :
    \/ mIsConnected[s] = TRUE
    \/ s \in disconnecting
    \/ \E t \in Threads : session[t] = s /\ Leaves(t)

\* A session that has its request queue, or is about to ask for one, is known
\* to no other thread and to no completion until ProcessConnect has gone on.
Early ==
  /\ mRioRQ \cap (unused \cup accepting) = {}
  /\ \A t \in Threads :
       pc[t] \in {"connect", "buffers", "queue"} => session[t] \notin mRioRQ
  /\ \A t \in Threads :
       \/ pc[t] \in {"buffers", "queue"}
       \/ pc[t] \in {"id", "manager"} /\ session[t] \in mRioRQ
       => /\ mIsConnected[session[t]] = TRUE
          /\ session[t] \notin receiving \cup sending
          /\ \A u \in Threads : session[u] = session[t] => u = t

\* The manager's part of Departing, by quantifiers over threads.
Managed ==
  \A s \in clients \cap mRioRQ :
    /\ s \in mSessions
    /\ \A t \in Threads : session[t] = s => pc[t] \notin {"leave", "release"}

IInv ==
  /\ TypeOK /\ Busy /\ Unshared /\ Leaving /\ Counted /\ WatchedQ /\ DepartingQ
  /\ Early /\ Managed

\* Who posts a receive has seen the buffer.
InUse ==
  /\ receiving \subseteq mRecvBuffer /\ sending \subseteq mSendBuffer
  /\ \A t \in Threads : pc[t] = "post" => session[t] \in mRecvBuffer

\* ~ Referenced, by quantifiers, and CreateSession does not return it again.
Forgotten(s) ==
  /\ s \notin unused \cup accepting \cup mSessions \cup clients
  /\ s \notin receiving \cup sending \cup disconnecting
  /\ \A t \in Threads : session[t] # s
  /\ \A r \in Rooms : s \notin mSessionList[r]
  /\ \A j \in RoomJobs : j.session = s /\ home[j] # None => j \in finished

Gone == \A s \in destroyed : s \notin mRecvBuffer \cup mSendBuffer /\ Forgotten(s)

-----------------------------------------------------------------------------
\* GetChatRoom yields a room for every session ID.
LEMMA RoomInRange == ASSUME TypeOK, NEW s \in Sessions PROVE GetChatRoom(s) \in Rooms
<1>1. mSessionID[s] \in Nat /\ ROOMS \in Nat \ {0}
  BY RoomAssumption DEF TypeOK
<1>2. \A n \in Nat, m \in Nat \ {0} : n % m \in 0..(m - 1)
  OBVIOUS
<1> QED
  BY <1>1, <1>2 DEF GetChatRoom, Rooms

\* Posting to a room keeps the types of the room's executor.
LEMMA PostType ==
  ASSUME TypeOK, Busy, NEW t \in Threads, pc[t] # "idle", NEW kind,
         PostToRoom(t, kind)
  PROVE  /\ home' \in [RoomJobs -> Rooms \cup {None}]
         /\ by' \in [RoomJobs -> Threads \cup {None}]
         /\ prior' \in [RoomJobs -> SUBSET RoomJobs]
         /\ finished' = finished
         /\ executor' \in [Rooms -> Threads \cup {Main, None}]
<1>1. GetChatRoom(session[t]) \in Rooms
  BY RoomInRange DEF Busy
<1> QED
  BY <1>1 DEF PostToRoom, Room!Post, TypeOK

\* What a thread works on is a session, and what it posts goes to a room.
LEMMA TypeStep ==
  TypeOK /\ Busy /\ [Next]_vars => TypeOK'
<1> SUFFICES ASSUME TypeOK, Busy, [Next]_vars PROVE TypeOK'
  OBVIOUS
<1> USE DEF TypeOK, Busy, Steps,
           TakeUp, Goto, ownVars, requests, members, roomVars,
           jobVars, idVars, threadVars
<1>1. ASSUME NEW t \in Threads, NEW s \in Sessions, ProcessAccept(t, s)
      PROVE  TypeOK'
  BY <1>1 DEF ProcessAccept
<1>2. ASSUME NEW t \in Threads, NEW s \in Sessions, ProcessRecv(t, s)
      PROVE  TypeOK'
  BY <1>2 DEF ProcessRecv
<1>3. ASSUME NEW t \in Threads, NEW s \in Sessions, ProcessRecvZero(t, s)
      PROVE  TypeOK'
  BY <1>3 DEF ProcessRecvZero, Disconnect, RegisterDisconnect
<1>4. ASSUME NEW t \in Threads, NEW s \in Sessions, ProcessSend(t, s)
      PROVE  TypeOK'
  BY <1>4 DEF ProcessSend, Disconnect, RegisterDisconnect
<1>5. ASSUME NEW t \in Threads, NEW s \in Sessions, ProcessDisconnect(t, s)
      PROVE  TypeOK'
  BY <1>5 DEF ProcessDisconnect
<1>6. ASSUME NEW t \in Threads, AddSession(t)
      PROVE  TypeOK'
  BY <1>6 DEF AddSession
<1>7. ASSUME NEW t \in Threads, RegisterRIOBuffer(t)
      PROVE  TypeOK'
  BY <1>7 DEF RegisterRIOBuffer
<1>8. ASSUME NEW t \in Threads, CreateRIORQ(t)
      PROVE  TypeOK'
  BY <1>8 DEF CreateRIORQ
<1>9. ASSUME NEW t \in Threads, CreateRIORQFails(t)
      PROVE  TypeOK'
  BY <1>9 DEF CreateRIORQFails, Disconnect, RegisterDisconnect
<1>10. ASSUME NEW t \in Threads, SetSessionID(t)
       PROVE  TypeOK'
  BY <1>10 DEF SetSessionID
<1>11. ASSUME NEW t \in Threads, OnConnected(t)
       PROVE  TypeOK'
  BY <1>11 DEF OnConnected
<1>12. ASSUME NEW t \in Threads, PushEnter(t)
       PROVE  TypeOK'
  <2>1. home' \in [RoomJobs -> Rooms \cup {None}]
        /\ by' \in [RoomJobs -> Threads \cup {None}]
        /\ prior' \in [RoomJobs -> SUBSET RoomJobs] /\ finished' = finished
        /\ executor' \in [Rooms -> Threads \cup {Main, None}]
    BY <1>12, PostType DEF PushEnter
  <2> QED
    BY <1>12, <2>1 DEF PushEnter
<1>13. ASSUME NEW t \in Threads, RegisterRecv(t)
       PROVE  TypeOK'
  BY <1>13 DEF RegisterRecv, Return
<1>14. ASSUME NEW t \in Threads, PostRecv(t)
       PROVE  TypeOK'
  BY <1>14 DEF PostRecv, Return
<1>15. ASSUME NEW t \in Threads, RegisterAccept(t)
       PROVE  TypeOK'
  BY <1>15 DEF RegisterAccept
<1>16. ASSUME NEW t \in Threads, OnDisconnected(t)
       PROVE  TypeOK'
  BY <1>16 DEF OnDisconnected
<1>17. ASSUME NEW t \in Threads, PushLeave(t)
       PROVE  TypeOK'
  <2>1. home' \in [RoomJobs -> Rooms \cup {None}]
        /\ by' \in [RoomJobs -> Threads \cup {None}]
        /\ prior' \in [RoomJobs -> SUBSET RoomJobs] /\ finished' = finished
        /\ executor' \in [Rooms -> Threads \cup {Main, None}]
    BY <1>17, PostType DEF PushLeave
  <2> QED
    BY <1>17, <2>1 DEF PushLeave
<1>18. ASSUME NEW t \in Threads, ReleaseSession(t)
       PROVE  TypeOK'
  BY <1>18 DEF ReleaseSession
<1>19. ASSUME NEW s \in Sessions, Destroy(s)
       PROVE  TypeOK'
  BY <1>19 DEF Destroy
<1>20. ASSUME NEW r \in Rooms, NEW j \in RoomJobs, RunJob(r, j)
       PROVE  TypeOK'
  <2>1. home[j] \in Rooms
    BY <1>20 DEF RunJob, Room!MayStart
  <2>2. mSessionList' \in [Rooms -> SUBSET Sessions]
    BY <1>20, <2>1 DEF RunJob, Enter, Leave, RoomJobs
  <2>3. mRoomID' \in [Sessions -> Rooms \cup {-1}]
    BY <1>20, <2>1 DEF RunJob, Enter, Leave
  <2> QED
    BY <1>20, <2>2, <2>3 DEF RunJob
<1>21. CASE UNCHANGED vars
  BY <1>21 DEF vars
<1>22. ASSUME NEW t \in Threads, NEW s \in Sessions, Dispatch(t, s)
       PROVE  TypeOK'
  BY <1>1, <1>2, <1>3, <1>4, <1>5, <1>22 DEF Dispatch
<1>23. ASSUME NEW t \in Threads, ConnectStep(t)
       PROVE  TypeOK'
  BY <1>6, <1>7, <1>8, <1>9, <1>10, <1>11, <1>12, <1>13, <1>14, <1>15,
     <1>23 DEF ConnectStep
<1>24. ASSUME NEW t \in Threads, DisconnectStep(t)
       PROVE  TypeOK'
  BY <1>16, <1>17, <1>18, <1>24 DEF DisconnectStep
<1>25. ASSUME NEW r \in Rooms, ExecuteEnds(r)
       PROVE  TypeOK'
  BY <1>25 DEF ExecuteEnds
<1>26. ASSUME NEW r \in Rooms, RoomStep(r)
       PROVE  TypeOK'
  BY <1>20, <1>25, <1>26 DEF RoomStep
<1> QED
  BY <1>19, <1>21, <1>22, <1>23, <1>24, <1>26 DEF Next

\* A thread takes a session up with its work and puts it down at the end.
LEMMA BusyStep ==
  TypeOK /\ Busy /\ [Next]_vars => Busy'
<1> SUFFICES ASSUME TypeOK, Busy, [Next]_vars PROVE Busy'
  OBVIOUS
<1> USE DEF TypeOK, Busy,
           TakeUp, Goto, ownVars, requests, members, roomVars,
           jobVars, idVars, threadVars
<1>1. ASSUME NEW t \in Threads, NEW s \in Sessions, ProcessAccept(t, s)
      PROVE  Busy'
  BY <1>1 DEF ProcessAccept
<1>2. ASSUME NEW t \in Threads, NEW s \in Sessions, ProcessRecv(t, s)
      PROVE  Busy'
  BY <1>2 DEF ProcessRecv
<1>3. ASSUME NEW t \in Threads, NEW s \in Sessions, ProcessRecvZero(t, s)
      PROVE  Busy'
  BY <1>3 DEF ProcessRecvZero, Disconnect, RegisterDisconnect
<1>4. ASSUME NEW t \in Threads, NEW s \in Sessions, ProcessSend(t, s)
      PROVE  Busy'
  BY <1>4 DEF ProcessSend, Disconnect, RegisterDisconnect
<1>5. ASSUME NEW t \in Threads, NEW s \in Sessions, ProcessDisconnect(t, s)
      PROVE  Busy'
  BY <1>5 DEF ProcessDisconnect
<1>6. ASSUME NEW t \in Threads, AddSession(t)
      PROVE  Busy'
  BY <1>6 DEF AddSession
<1>7. ASSUME NEW t \in Threads, RegisterRIOBuffer(t)
      PROVE  Busy'
  BY <1>7 DEF RegisterRIOBuffer
<1>8. ASSUME NEW t \in Threads, CreateRIORQ(t)
      PROVE  Busy'
  BY <1>8 DEF CreateRIORQ
<1>9. ASSUME NEW t \in Threads, CreateRIORQFails(t)
      PROVE  Busy'
  BY <1>9 DEF CreateRIORQFails, Disconnect, RegisterDisconnect
<1>10. ASSUME NEW t \in Threads, SetSessionID(t)
       PROVE  Busy'
  BY <1>10 DEF SetSessionID
<1>11. ASSUME NEW t \in Threads, OnConnected(t)
       PROVE  Busy'
  BY <1>11 DEF OnConnected
<1>12. ASSUME NEW t \in Threads, PushEnter(t)
       PROVE  Busy'
  BY <1>12 DEF PushEnter
<1>13. ASSUME NEW t \in Threads, RegisterRecv(t)
       PROVE  Busy'
  BY <1>13 DEF RegisterRecv, Return
<1>14. ASSUME NEW t \in Threads, PostRecv(t)
       PROVE  Busy'
  BY <1>14 DEF PostRecv, Return
<1>15. ASSUME NEW t \in Threads, RegisterAccept(t)
       PROVE  Busy'
  BY <1>15 DEF RegisterAccept
<1>16. ASSUME NEW t \in Threads, OnDisconnected(t)
       PROVE  Busy'
  BY <1>16 DEF OnDisconnected
<1>17. ASSUME NEW t \in Threads, PushLeave(t)
       PROVE  Busy'
  BY <1>17 DEF PushLeave
<1>18. ASSUME NEW t \in Threads, ReleaseSession(t)
       PROVE  Busy'
  BY <1>18 DEF ReleaseSession
<1>19. ASSUME NEW s \in Sessions, Destroy(s)
       PROVE  Busy'
  BY <1>19 DEF Destroy
<1>20. ASSUME NEW r \in Rooms, NEW j \in RoomJobs, RunJob(r, j)
       PROVE  Busy'
  BY <1>20 DEF RunJob
<1>21. CASE UNCHANGED vars
  BY <1>21 DEF vars
<1>22. ASSUME NEW t \in Threads, NEW s \in Sessions, Dispatch(t, s)
       PROVE  Busy'
  BY <1>1, <1>2, <1>3, <1>4, <1>5, <1>22 DEF Dispatch
<1>23. ASSUME NEW t \in Threads, ConnectStep(t)
       PROVE  Busy'
  BY <1>6, <1>7, <1>8, <1>9, <1>10, <1>11, <1>12, <1>13, <1>14, <1>15,
     <1>23 DEF ConnectStep
<1>24. ASSUME NEW t \in Threads, DisconnectStep(t)
       PROVE  Busy'
  BY <1>16, <1>17, <1>18, <1>24 DEF DisconnectStep
<1>25. ASSUME NEW r \in Rooms, ExecuteEnds(r)
       PROVE  Busy'
  BY <1>25 DEF ExecuteEnds
<1>26. ASSUME NEW r \in Rooms, RoomStep(r)
       PROVE  Busy'
  BY <1>20, <1>25, <1>26 DEF RoomStep
<1> QED
  BY <1>19, <1>21, <1>22, <1>23, <1>24, <1>26 DEF Next

\* Only the thread that accepted a session can add it.
LEMMA UnsharedStep ==
  TypeOK /\ Busy /\ Unshared /\ [Next]_vars => Unshared'
<1> SUFFICES ASSUME TypeOK, Busy, Unshared, [Next]_vars PROVE Unshared'
  OBVIOUS
<1> USE SessionAssumption DEF TypeOK, Busy, Unshared, NotYet,
           TakeUp, Goto, ownVars, requests, members, roomVars,
           jobVars, idVars, threadVars
<1>1. ASSUME NEW t \in Threads, NEW s \in Sessions, ProcessAccept(t, s)
      PROVE  Unshared'
  BY <1>1 DEF ProcessAccept
<1>2. ASSUME NEW t \in Threads, NEW s \in Sessions, ProcessRecv(t, s)
      PROVE  Unshared'
  BY <1>2 DEF ProcessRecv
<1>3. ASSUME NEW t \in Threads, NEW s \in Sessions, ProcessRecvZero(t, s)
      PROVE  Unshared'
  BY <1>3 DEF ProcessRecvZero, Disconnect, RegisterDisconnect
<1>4. ASSUME NEW t \in Threads, NEW s \in Sessions, ProcessSend(t, s)
      PROVE  Unshared'
  BY <1>4 DEF ProcessSend, Disconnect, RegisterDisconnect
<1>5. ASSUME NEW t \in Threads, NEW s \in Sessions, ProcessDisconnect(t, s)
      PROVE  Unshared'
  BY <1>5 DEF ProcessDisconnect
<1>6. ASSUME NEW t \in Threads, AddSession(t)
      PROVE  Unshared'
  BY <1>6 DEF AddSession
<1>7. ASSUME NEW t \in Threads, RegisterRIOBuffer(t)
      PROVE  Unshared'
  BY <1>7 DEF RegisterRIOBuffer
<1>8. ASSUME NEW t \in Threads, CreateRIORQ(t)
      PROVE  Unshared'
  BY <1>8 DEF CreateRIORQ
<1>9. ASSUME NEW t \in Threads, CreateRIORQFails(t)
      PROVE  Unshared'
  BY <1>9 DEF CreateRIORQFails, Disconnect, RegisterDisconnect
<1>10. ASSUME NEW t \in Threads, SetSessionID(t)
       PROVE  Unshared'
  BY <1>10 DEF SetSessionID
<1>11. ASSUME NEW t \in Threads, OnConnected(t)
       PROVE  Unshared'
  BY <1>11 DEF OnConnected
<1>12. ASSUME NEW t \in Threads, PushEnter(t)
       PROVE  Unshared'
  BY <1>12 DEF PushEnter
<1>13. ASSUME NEW t \in Threads, RegisterRecv(t)
       PROVE  Unshared'
  BY <1>13 DEF RegisterRecv, Return
<1>14. ASSUME NEW t \in Threads, PostRecv(t)
       PROVE  Unshared'
  BY <1>14 DEF PostRecv, Return
<1>15. ASSUME NEW t \in Threads, RegisterAccept(t)
       PROVE  Unshared'
  BY <1>15 DEF RegisterAccept
<1>16. ASSUME NEW t \in Threads, OnDisconnected(t)
       PROVE  Unshared'
  BY <1>16 DEF OnDisconnected
<1>17. ASSUME NEW t \in Threads, PushLeave(t)
       PROVE  Unshared'
  BY <1>17 DEF PushLeave
<1>18. ASSUME NEW t \in Threads, ReleaseSession(t)
       PROVE  Unshared'
  BY <1>18 DEF ReleaseSession
<1>19. ASSUME NEW s \in Sessions, Destroy(s)
       PROVE  Unshared'
  BY <1>19 DEF Destroy
<1>20. ASSUME NEW r \in Rooms, NEW j \in RoomJobs, RunJob(r, j)
       PROVE  Unshared'
  BY <1>20 DEF RunJob
<1>21. CASE UNCHANGED vars
  BY <1>21 DEF vars
<1>22. ASSUME NEW t \in Threads, NEW s \in Sessions, Dispatch(t, s)
       PROVE  Unshared'
  BY <1>1, <1>2, <1>3, <1>4, <1>5, <1>22 DEF Dispatch
<1>23. ASSUME NEW t \in Threads, ConnectStep(t)
       PROVE  Unshared'
  BY <1>6, <1>7, <1>8, <1>9, <1>10, <1>11, <1>12, <1>13, <1>14, <1>15,
     <1>23 DEF ConnectStep
<1>24. ASSUME NEW t \in Threads, DisconnectStep(t)
       PROVE  Unshared'
  BY <1>16, <1>17, <1>18, <1>24 DEF DisconnectStep
<1>25. ASSUME NEW r \in Rooms, ExecuteEnds(r)
       PROVE  Unshared'
  BY <1>25 DEF ExecuteEnds
<1>26. ASSUME NEW r \in Rooms, RoomStep(r)
       PROVE  Unshared'
  BY <1>20, <1>25, <1>26 DEF RoomStep
<1> QED
  BY <1>19, <1>21, <1>22, <1>23, <1>24, <1>26 DEF Next

\* The exchange in Disconnect lets one caller post DisconnectEx.
LEMMA LeavingStep ==
  TypeOK /\ Busy /\ Unshared /\ Leaving /\ [Next]_vars => Leaving'
<1> SUFFICES ASSUME TypeOK, Busy, Unshared, Leaving, [Next]_vars PROVE Leaving'
  OBVIOUS
<1> USE SessionAssumption DEF TypeOK, Busy, Unshared, NotYet, Leaving, Leaves,
           TakeUp, Goto, ownVars, requests, members, roomVars,
           jobVars, idVars, threadVars
<1>1. ASSUME NEW t \in Threads, NEW s \in Sessions, ProcessAccept(t, s)
      PROVE  Leaving'
  BY <1>1 DEF ProcessAccept
<1>2. ASSUME NEW t \in Threads, NEW s \in Sessions, ProcessRecv(t, s)
      PROVE  Leaving'
  BY <1>2 DEF ProcessRecv
<1>3. ASSUME NEW t \in Threads, NEW s \in Sessions, ProcessRecvZero(t, s)
      PROVE  Leaving'
  BY <1>3 DEF ProcessRecvZero, Disconnect, RegisterDisconnect
<1>4. ASSUME NEW t \in Threads, NEW s \in Sessions, ProcessSend(t, s)
      PROVE  Leaving'
  BY <1>4 DEF ProcessSend, Disconnect, RegisterDisconnect
<1>5. ASSUME NEW t \in Threads, NEW s \in Sessions, ProcessDisconnect(t, s)
      PROVE  Leaving'
  BY <1>5 DEF ProcessDisconnect
<1>6. ASSUME NEW t \in Threads, AddSession(t)
      PROVE  Leaving'
  BY <1>6 DEF AddSession
<1>7. ASSUME NEW t \in Threads, RegisterRIOBuffer(t)
      PROVE  Leaving'
  BY <1>7 DEF RegisterRIOBuffer
<1>8. ASSUME NEW t \in Threads, CreateRIORQ(t)
      PROVE  Leaving'
  BY <1>8 DEF CreateRIORQ
<1>9. ASSUME NEW t \in Threads, CreateRIORQFails(t)
      PROVE  Leaving'
  BY <1>9 DEF CreateRIORQFails, Disconnect, RegisterDisconnect
<1>10. ASSUME NEW t \in Threads, SetSessionID(t)
       PROVE  Leaving'
  BY <1>10 DEF SetSessionID
<1>11. ASSUME NEW t \in Threads, OnConnected(t)
       PROVE  Leaving'
  BY <1>11 DEF OnConnected
<1>12. ASSUME NEW t \in Threads, PushEnter(t)
       PROVE  Leaving'
  BY <1>12 DEF PushEnter
<1>13. ASSUME NEW t \in Threads, RegisterRecv(t)
       PROVE  Leaving'
  BY <1>13 DEF RegisterRecv, Return
<1>14. ASSUME NEW t \in Threads, PostRecv(t)
       PROVE  Leaving'
  BY <1>14 DEF PostRecv, Return
<1>15. ASSUME NEW t \in Threads, RegisterAccept(t)
       PROVE  Leaving'
  BY <1>15 DEF RegisterAccept
<1>16. ASSUME NEW t \in Threads, OnDisconnected(t)
       PROVE  Leaving'
  BY <1>16 DEF OnDisconnected
<1>17. ASSUME NEW t \in Threads, PushLeave(t)
       PROVE  Leaving'
  BY <1>17 DEF PushLeave
<1>18. ASSUME NEW t \in Threads, ReleaseSession(t)
       PROVE  Leaving'
  BY <1>18 DEF ReleaseSession
<1>19. ASSUME NEW s \in Sessions, Destroy(s)
       PROVE  Leaving'
  BY <1>19 DEF Destroy
<1>20. ASSUME NEW r \in Rooms, NEW j \in RoomJobs, RunJob(r, j)
       PROVE  Leaving'
  BY <1>20 DEF RunJob
<1>21. CASE UNCHANGED vars
  BY <1>21 DEF vars
<1>22. ASSUME NEW t \in Threads, NEW s \in Sessions, Dispatch(t, s)
       PROVE  Leaving'
  BY <1>1, <1>2, <1>3, <1>4, <1>5, <1>22 DEF Dispatch
<1>23. ASSUME NEW t \in Threads, ConnectStep(t)
       PROVE  Leaving'
  BY <1>6, <1>7, <1>8, <1>9, <1>10, <1>11, <1>12, <1>13, <1>14, <1>15,
     <1>23 DEF ConnectStep
<1>24. ASSUME NEW t \in Threads, DisconnectStep(t)
       PROVE  Leaving'
  BY <1>16, <1>17, <1>18, <1>24 DEF DisconnectStep
<1>25. ASSUME NEW r \in Rooms, ExecuteEnds(r)
       PROVE  Leaving'
  BY <1>25 DEF ExecuteEnds
<1>26. ASSUME NEW r \in Rooms, RoomStep(r)
       PROVE  Leaving'
  BY <1>20, <1>25, <1>26 DEF RoomStep
<1> QED
  BY <1>19, <1>21, <1>22, <1>23, <1>24, <1>26 DEF Next

\* Who adds a session adds one that is not there, who releases one takes away
\* one that is; nobody else touches set or count.
LEMMA CountedStep ==
  TypeOK /\ Busy /\ Unshared /\ Leaving /\ Counted /\ [Next]_vars => Counted'
<1> SUFFICES ASSUME TypeOK, Busy, Unshared, Leaving, Counted, [Next]_vars
             PROVE  Counted'
  OBVIOUS
<1> USE DEF Counted
<1>1. ASSUME NEW t \in Threads, AddSession(t)
      PROVE  Counted'
  <2>1. session[t] \notin mSessions
    BY <1>1 DEF AddSession, Unshared, NotYet
  <2> QED
    BY <1>1, <2>1, FS_AddElement DEF AddSession
<1>2. ASSUME NEW t \in Threads, ReleaseSession(t)
      PROVE  Counted'
  <2>1. session[t] \in mSessions
    BY <1>2 DEF ReleaseSession, Leaving, Leaves
  <2> QED
    BY <1>2, <2>1, FS_RemoveElement DEF ReleaseSession
<1>3. CASE UNCHANGED <<mSessions, mSessionCount>>
  BY <1>3
<1>4. \/ UNCHANGED <<mSessions, mSessionCount>>
      \/ \E t \in Threads : AddSession(t) \/ ReleaseSession(t)
  BY DEF Next, vars, members, Dispatch, ConnectStep, DisconnectStep,
         ProcessAccept, ProcessRecv, ProcessRecvZero, ProcessSend,
         ProcessDisconnect, RegisterRIOBuffer, CreateRIORQ, CreateRIORQFails,
         SetSessionID, OnConnected, PushEnter, RegisterRecv, PostRecv,
         RegisterAccept, OnDisconnected, PushLeave, Destroy, RoomStep, RunJob,
         ExecuteEnds
<1> QED
  BY <1>1, <1>2, <1>3, <1>4

\* The thread that takes a receive up posts the next one.
LEMMA WatchedStep ==
  TypeOK /\ Busy /\ Unshared /\ Leaving /\ WatchedQ /\ [Next]_vars => WatchedQ'
<1> SUFFICES ASSUME TypeOK, Busy, Unshared, Leaving, WatchedQ, [Next]_vars PROVE WatchedQ'
  OBVIOUS
<1> USE SessionAssumption DEF TypeOK, Busy, WatchedQ, Watches,
           TakeUp, Goto, ownVars, requests, members, roomVars,
           jobVars, idVars, threadVars
<1>1. ASSUME NEW t \in Threads, NEW s \in Sessions, ProcessAccept(t, s)
      PROVE  WatchedQ'
  BY <1>1 DEF ProcessAccept
<1>2. ASSUME NEW t \in Threads, NEW s \in Sessions, ProcessRecv(t, s)
      PROVE  WatchedQ'
  BY <1>2 DEF ProcessRecv
<1>3. ASSUME NEW t \in Threads, NEW s \in Sessions, ProcessRecvZero(t, s)
      PROVE  WatchedQ'
  BY <1>3 DEF ProcessRecvZero, Disconnect, RegisterDisconnect
<1>4. ASSUME NEW t \in Threads, NEW s \in Sessions, ProcessSend(t, s)
      PROVE  WatchedQ'
  BY <1>4 DEF ProcessSend, Disconnect, RegisterDisconnect
<1>5. ASSUME NEW t \in Threads, NEW s \in Sessions, ProcessDisconnect(t, s)
      PROVE  WatchedQ'
  BY <1>5 DEF ProcessDisconnect
<1>6. ASSUME NEW t \in Threads, AddSession(t)
      PROVE  WatchedQ'
  BY <1>6 DEF AddSession
<1>7. ASSUME NEW t \in Threads, RegisterRIOBuffer(t)
      PROVE  WatchedQ'
  BY <1>7 DEF RegisterRIOBuffer
<1>8. ASSUME NEW t \in Threads, CreateRIORQ(t)
      PROVE  WatchedQ'
  BY <1>8 DEF CreateRIORQ
<1>9. ASSUME NEW t \in Threads, CreateRIORQFails(t)
      PROVE  WatchedQ'
  BY <1>9 DEF CreateRIORQFails, Disconnect, RegisterDisconnect
<1>10. ASSUME NEW t \in Threads, SetSessionID(t)
       PROVE  WatchedQ'
  BY <1>10 DEF SetSessionID
<1>11. ASSUME NEW t \in Threads, OnConnected(t)
       PROVE  WatchedQ'
  BY <1>11 DEF OnConnected
<1>12. ASSUME NEW t \in Threads, PushEnter(t)
       PROVE  WatchedQ'
  BY <1>12 DEF PushEnter
<1>13. ASSUME NEW t \in Threads, RegisterRecv(t)
       PROVE  WatchedQ'
  BY <1>13 DEF RegisterRecv, Return
<1>14. ASSUME NEW t \in Threads, PostRecv(t)
       PROVE  WatchedQ'
  BY <1>14 DEF PostRecv, Return
<1>15. ASSUME NEW t \in Threads, RegisterAccept(t)
       PROVE  WatchedQ'
  BY <1>15 DEF RegisterAccept
<1>16. ASSUME NEW t \in Threads, OnDisconnected(t)
       PROVE  WatchedQ'
  BY <1>16 DEF OnDisconnected
<1>17. ASSUME NEW t \in Threads, PushLeave(t)
       PROVE  WatchedQ'
  BY <1>17 DEF PushLeave
<1>18. ASSUME NEW t \in Threads, ReleaseSession(t)
       PROVE  WatchedQ'
  BY <1>18 DEF ReleaseSession
<1>19. ASSUME NEW s \in Sessions, Destroy(s)
       PROVE  WatchedQ'
  BY <1>19 DEF Destroy
<1>20. ASSUME NEW r \in Rooms, NEW j \in RoomJobs, RunJob(r, j)
       PROVE  WatchedQ'
  BY <1>20 DEF RunJob
<1>21. CASE UNCHANGED vars
  BY <1>21 DEF vars
<1>22. ASSUME NEW t \in Threads, NEW s \in Sessions, Dispatch(t, s)
       PROVE  WatchedQ'
  BY <1>1, <1>2, <1>3, <1>4, <1>5, <1>22 DEF Dispatch
<1>23. ASSUME NEW t \in Threads, ConnectStep(t)
       PROVE  WatchedQ'
  BY <1>6, <1>7, <1>8, <1>9, <1>10, <1>11, <1>12, <1>13, <1>14, <1>15,
     <1>23 DEF ConnectStep
<1>24. ASSUME NEW t \in Threads, DisconnectStep(t)
       PROVE  WatchedQ'
  BY <1>16, <1>17, <1>18, <1>24 DEF DisconnectStep
<1>25. ASSUME NEW r \in Rooms, ExecuteEnds(r)
       PROVE  WatchedQ'
  BY <1>25 DEF ExecuteEnds
<1>26. ASSUME NEW r \in Rooms, RoomStep(r)
       PROVE  WatchedQ'
  BY <1>20, <1>25, <1>26 DEF RoomStep
<1> QED
  BY <1>19, <1>21, <1>22, <1>23, <1>24, <1>26 DEF Next

\* Who clears mIsConnected posts DisconnectEx.
LEMMA DepartingStep ==
  TypeOK /\ Busy /\ Leaving /\ DepartingQ /\ [Next]_vars => DepartingQ'
<1> SUFFICES ASSUME TypeOK, Busy, Leaving, DepartingQ, [Next]_vars PROVE DepartingQ'
  OBVIOUS
<1> USE SessionAssumption DEF TypeOK, Busy, Leaving, DepartingQ, Leaves,
           TakeUp, Goto, ownVars, requests, members, roomVars,
           jobVars, idVars, threadVars
<1>1. ASSUME NEW t \in Threads, NEW s \in Sessions, ProcessAccept(t, s)
      PROVE  DepartingQ'
  BY <1>1 DEF ProcessAccept
<1>2. ASSUME NEW t \in Threads, NEW s \in Sessions, ProcessRecv(t, s)
      PROVE  DepartingQ'
  BY <1>2 DEF ProcessRecv
<1>3. ASSUME NEW t \in Threads, NEW s \in Sessions, ProcessRecvZero(t, s)
      PROVE  DepartingQ'
  BY <1>3 DEF ProcessRecvZero, Disconnect, RegisterDisconnect
<1>4. ASSUME NEW t \in Threads, NEW s \in Sessions, ProcessSend(t, s)
      PROVE  DepartingQ'
  BY <1>4 DEF ProcessSend, Disconnect, RegisterDisconnect
<1>5. ASSUME NEW t \in Threads, NEW s \in Sessions, ProcessDisconnect(t, s)
      PROVE  DepartingQ'
  BY <1>5 DEF ProcessDisconnect
<1>6. ASSUME NEW t \in Threads, AddSession(t)
      PROVE  DepartingQ'
  BY <1>6 DEF AddSession
<1>7. ASSUME NEW t \in Threads, RegisterRIOBuffer(t)
      PROVE  DepartingQ'
  BY <1>7 DEF RegisterRIOBuffer
<1>8. ASSUME NEW t \in Threads, CreateRIORQ(t)
      PROVE  DepartingQ'
  BY <1>8 DEF CreateRIORQ
<1>9. ASSUME NEW t \in Threads, CreateRIORQFails(t)
      PROVE  DepartingQ'
  BY <1>9 DEF CreateRIORQFails, Disconnect, RegisterDisconnect
<1>10. ASSUME NEW t \in Threads, SetSessionID(t)
       PROVE  DepartingQ'
  BY <1>10 DEF SetSessionID
<1>11. ASSUME NEW t \in Threads, OnConnected(t)
       PROVE  DepartingQ'
  BY <1>11 DEF OnConnected
<1>12. ASSUME NEW t \in Threads, PushEnter(t)
       PROVE  DepartingQ'
  BY <1>12 DEF PushEnter
<1>13. ASSUME NEW t \in Threads, RegisterRecv(t)
       PROVE  DepartingQ'
  BY <1>13 DEF RegisterRecv, Return
<1>14. ASSUME NEW t \in Threads, PostRecv(t)
       PROVE  DepartingQ'
  BY <1>14 DEF PostRecv, Return
<1>15. ASSUME NEW t \in Threads, RegisterAccept(t)
       PROVE  DepartingQ'
  BY <1>15 DEF RegisterAccept
<1>16. ASSUME NEW t \in Threads, OnDisconnected(t)
       PROVE  DepartingQ'
  BY <1>16 DEF OnDisconnected
<1>17. ASSUME NEW t \in Threads, PushLeave(t)
       PROVE  DepartingQ'
  BY <1>17 DEF PushLeave
<1>18. ASSUME NEW t \in Threads, ReleaseSession(t)
       PROVE  DepartingQ'
  BY <1>18 DEF ReleaseSession
<1>19. ASSUME NEW s \in Sessions, Destroy(s)
       PROVE  DepartingQ'
  BY <1>19 DEF Destroy
<1>20. ASSUME NEW r \in Rooms, NEW j \in RoomJobs, RunJob(r, j)
       PROVE  DepartingQ'
  BY <1>20 DEF RunJob
<1>21. CASE UNCHANGED vars
  BY <1>21 DEF vars
<1>22. ASSUME NEW t \in Threads, NEW s \in Sessions, Dispatch(t, s)
       PROVE  DepartingQ'
  BY <1>1, <1>2, <1>3, <1>4, <1>5, <1>22 DEF Dispatch
<1>23. ASSUME NEW t \in Threads, ConnectStep(t)
       PROVE  DepartingQ'
  BY <1>6, <1>7, <1>8, <1>9, <1>10, <1>11, <1>12, <1>13, <1>14, <1>15,
     <1>23 DEF ConnectStep
<1>24. ASSUME NEW t \in Threads, DisconnectStep(t)
       PROVE  DepartingQ'
  BY <1>16, <1>17, <1>18, <1>24 DEF DisconnectStep
<1>25. ASSUME NEW r \in Rooms, ExecuteEnds(r)
       PROVE  DepartingQ'
  BY <1>25 DEF ExecuteEnds
<1>26. ASSUME NEW r \in Rooms, RoomStep(r)
       PROVE  DepartingQ'
  BY <1>20, <1>25, <1>26 DEF RoomStep
<1> QED
  BY <1>19, <1>21, <1>22, <1>23, <1>24, <1>26 DEF Next

\* Nobody disconnects a session with a request queue before its first receive.
LEMMA EarlyStep ==
  TypeOK /\ Busy /\ Unshared /\ Leaving /\ Early /\ [Next]_vars => Early'
<1> SUFFICES ASSUME TypeOK, Busy, Unshared, Leaving, Early, [Next]_vars
             PROVE  Early'
  OBVIOUS
<1> USE SessionAssumption DEF TypeOK, Busy, Unshared, NotYet, Early,
           TakeUp, Goto, ownVars, requests, members, roomVars,
           jobVars, idVars, threadVars
<1>1. ASSUME NEW t \in Threads, NEW s \in Sessions, ProcessAccept(t, s)
      PROVE  Early'
  BY <1>1 DEF ProcessAccept
<1>2. ASSUME NEW t \in Threads, NEW s \in Sessions, ProcessRecv(t, s)
      PROVE  Early'
  BY <1>2 DEF ProcessRecv
<1>3. ASSUME NEW t \in Threads, NEW s \in Sessions, ProcessRecvZero(t, s)
      PROVE  Early'
  BY <1>3 DEF ProcessRecvZero, Disconnect, RegisterDisconnect
<1>4. ASSUME NEW t \in Threads, NEW s \in Sessions, ProcessSend(t, s)
      PROVE  Early'
  BY <1>4 DEF ProcessSend, Disconnect, RegisterDisconnect
<1>5. ASSUME NEW t \in Threads, NEW s \in Sessions, ProcessDisconnect(t, s)
      PROVE  Early'
  BY <1>5 DEF ProcessDisconnect, Leaving
<1>6. ASSUME NEW t \in Threads, AddSession(t)
      PROVE  Early'
  BY <1>6 DEF AddSession
<1>7. ASSUME NEW t \in Threads, RegisterRIOBuffer(t)
      PROVE  Early'
  BY <1>7 DEF RegisterRIOBuffer
<1>8. ASSUME NEW t \in Threads, CreateRIORQ(t)
      PROVE  Early'
  BY <1>8 DEF CreateRIORQ
<1>9. ASSUME NEW t \in Threads, CreateRIORQFails(t)
      PROVE  Early'
  BY <1>9 DEF CreateRIORQFails, Disconnect, RegisterDisconnect
<1>10. ASSUME NEW t \in Threads, SetSessionID(t)
       PROVE  Early'
  BY <1>10 DEF SetSessionID
<1>11. ASSUME NEW t \in Threads, OnConnected(t)
       PROVE  Early'
  BY <1>11 DEF OnConnected
<1>12. ASSUME NEW t \in Threads, PushEnter(t)
       PROVE  Early'
  BY <1>12 DEF PushEnter
<1>13. ASSUME NEW t \in Threads, RegisterRecv(t)
       PROVE  Early'
  BY <1>13 DEF RegisterRecv, Return
<1>14. ASSUME NEW t \in Threads, PostRecv(t)
       PROVE  Early'
  BY <1>14 DEF PostRecv, Return
<1>15. ASSUME NEW t \in Threads, RegisterAccept(t)
       PROVE  Early'
  BY <1>15 DEF RegisterAccept
<1>16. ASSUME NEW t \in Threads, OnDisconnected(t)
       PROVE  Early'
  BY <1>16 DEF OnDisconnected
<1>17. ASSUME NEW t \in Threads, PushLeave(t)
       PROVE  Early'
  BY <1>17 DEF PushLeave
<1>18. ASSUME NEW t \in Threads, ReleaseSession(t)
       PROVE  Early'
  BY <1>18 DEF ReleaseSession
<1>19. ASSUME NEW s \in Sessions, Destroy(s)
       PROVE  Early'
  BY <1>19 DEF Destroy
<1>20. ASSUME NEW r \in Rooms, NEW j \in RoomJobs, RunJob(r, j)
       PROVE  Early'
  BY <1>20 DEF RunJob
<1>21. CASE UNCHANGED vars
  BY <1>21 DEF vars
<1>22. ASSUME NEW t \in Threads, NEW s \in Sessions, Dispatch(t, s)
       PROVE  Early'
  BY <1>1, <1>2, <1>3, <1>4, <1>5, <1>22 DEF Dispatch
<1>23. ASSUME NEW t \in Threads, ConnectStep(t)
       PROVE  Early'
  BY <1>6, <1>7, <1>8, <1>9, <1>10, <1>11, <1>12, <1>13, <1>14, <1>15,
     <1>23 DEF ConnectStep
<1>24. ASSUME NEW t \in Threads, DisconnectStep(t)
       PROVE  Early'
  BY <1>16, <1>17, <1>18, <1>24 DEF DisconnectStep
<1>25. ASSUME NEW r \in Rooms, ExecuteEnds(r)
       PROVE  Early'
  BY <1>25 DEF ExecuteEnds
<1>26. ASSUME NEW r \in Rooms, RoomStep(r)
       PROVE  Early'
  BY <1>20, <1>25, <1>26 DEF RoomStep
<1> QED
  BY <1>19, <1>21, <1>22, <1>23, <1>24, <1>26 DEF Next

\* So a session with a request queue enters the manager before it can leave it.
LEMMA ManagedStep ==
  TypeOK /\ Busy /\ Early /\ Leaving /\ Managed /\ [Next]_vars => Managed'
<1> SUFFICES ASSUME TypeOK, Busy, Early, Leaving, Managed, [Next]_vars
             PROVE  Managed'
  OBVIOUS
<1> USE SessionAssumption DEF TypeOK, Busy, Early, Leaving, Leaves, Managed,
           TakeUp, Goto, ownVars, requests, members, roomVars,
           jobVars, idVars, threadVars
<1>1. ASSUME NEW t \in Threads, NEW s \in Sessions, ProcessAccept(t, s)
      PROVE  Managed'
  BY <1>1 DEF ProcessAccept
<1>2. ASSUME NEW t \in Threads, NEW s \in Sessions, ProcessRecv(t, s)
      PROVE  Managed'
  BY <1>2 DEF ProcessRecv
<1>3. ASSUME NEW t \in Threads, NEW s \in Sessions, ProcessRecvZero(t, s)
      PROVE  Managed'
  BY <1>3 DEF ProcessRecvZero, Disconnect, RegisterDisconnect
<1>4. ASSUME NEW t \in Threads, NEW s \in Sessions, ProcessSend(t, s)
      PROVE  Managed'
  BY <1>4 DEF ProcessSend, Disconnect, RegisterDisconnect
<1>5. ASSUME NEW t \in Threads, NEW s \in Sessions, ProcessDisconnect(t, s)
      PROVE  Managed'
  BY <1>5 DEF ProcessDisconnect
<1>6. ASSUME NEW t \in Threads, AddSession(t)
      PROVE  Managed'
  BY <1>6 DEF AddSession
<1>7. ASSUME NEW t \in Threads, RegisterRIOBuffer(t)
      PROVE  Managed'
  BY <1>7 DEF RegisterRIOBuffer
<1>8. ASSUME NEW t \in Threads, CreateRIORQ(t)
      PROVE  Managed'
  BY <1>8 DEF CreateRIORQ
<1>9. ASSUME NEW t \in Threads, CreateRIORQFails(t)
      PROVE  Managed'
  BY <1>9 DEF CreateRIORQFails, Disconnect, RegisterDisconnect
<1>10. ASSUME NEW t \in Threads, SetSessionID(t)
       PROVE  Managed'
  BY <1>10 DEF SetSessionID
<1>11. ASSUME NEW t \in Threads, OnConnected(t)
       PROVE  Managed'
  BY <1>11 DEF OnConnected
<1>12. ASSUME NEW t \in Threads, PushEnter(t)
       PROVE  Managed'
  BY <1>12 DEF PushEnter
<1>13. ASSUME NEW t \in Threads, RegisterRecv(t)
       PROVE  Managed'
  BY <1>13 DEF RegisterRecv, Return
<1>14. ASSUME NEW t \in Threads, PostRecv(t)
       PROVE  Managed'
  BY <1>14 DEF PostRecv, Return
<1>15. ASSUME NEW t \in Threads, RegisterAccept(t)
       PROVE  Managed'
  BY <1>15 DEF RegisterAccept
<1>16. ASSUME NEW t \in Threads, OnDisconnected(t)
       PROVE  Managed'
  BY <1>16 DEF OnDisconnected
<1>17. ASSUME NEW t \in Threads, PushLeave(t)
       PROVE  Managed'
  BY <1>17 DEF PushLeave
<1>18. ASSUME NEW t \in Threads, ReleaseSession(t)
       PROVE  Managed'
  BY <1>18 DEF ReleaseSession
<1>19. ASSUME NEW s \in Sessions, Destroy(s)
       PROVE  Managed'
  BY <1>19 DEF Destroy
<1>20. ASSUME NEW r \in Rooms, NEW j \in RoomJobs, RunJob(r, j)
       PROVE  Managed'
  BY <1>20 DEF RunJob
<1>21. CASE UNCHANGED vars
  BY <1>21 DEF vars
<1>22. ASSUME NEW t \in Threads, NEW s \in Sessions, Dispatch(t, s)
       PROVE  Managed'
  BY <1>1, <1>2, <1>3, <1>4, <1>5, <1>22 DEF Dispatch
<1>23. ASSUME NEW t \in Threads, ConnectStep(t)
       PROVE  Managed'
  BY <1>6, <1>7, <1>8, <1>9, <1>10, <1>11, <1>12, <1>13, <1>14, <1>15,
     <1>23 DEF ConnectStep
<1>24. ASSUME NEW t \in Threads, DisconnectStep(t)
       PROVE  Managed'
  BY <1>16, <1>17, <1>18, <1>24 DEF DisconnectStep
<1>25. ASSUME NEW r \in Rooms, ExecuteEnds(r)
       PROVE  Managed'
  BY <1>25 DEF ExecuteEnds
<1>26. ASSUME NEW r \in Rooms, RoomStep(r)
       PROVE  Managed'
  BY <1>20, <1>25, <1>26 DEF RoomStep
<1> QED
  BY <1>19, <1>21, <1>22, <1>23, <1>24, <1>26 DEF Next

\* A buffer is given back by the destructor only, which no request outlives.
LEMMA InUseStep ==
  TypeOK /\ Busy /\ InUse /\ [Next]_vars => InUse'
<1> SUFFICES ASSUME TypeOK, Busy, InUse, [Next]_vars PROVE InUse'
  OBVIOUS
<1> USE SessionAssumption DEF TypeOK, Busy, InUse,
           TakeUp, Goto, ownVars, requests, members, roomVars,
           jobVars, idVars, threadVars
<1>1. ASSUME NEW t \in Threads, NEW s \in Sessions, ProcessAccept(t, s)
      PROVE  InUse'
  BY <1>1 DEF ProcessAccept
<1>2. ASSUME NEW t \in Threads, NEW s \in Sessions, ProcessRecv(t, s)
      PROVE  InUse'
  BY <1>2 DEF ProcessRecv
<1>3. ASSUME NEW t \in Threads, NEW s \in Sessions, ProcessRecvZero(t, s)
      PROVE  InUse'
  BY <1>3 DEF ProcessRecvZero, Disconnect, RegisterDisconnect
<1>4. ASSUME NEW t \in Threads, NEW s \in Sessions, ProcessSend(t, s)
      PROVE  InUse'
  BY <1>4 DEF ProcessSend, Disconnect, RegisterDisconnect
<1>5. ASSUME NEW t \in Threads, NEW s \in Sessions, ProcessDisconnect(t, s)
      PROVE  InUse'
  BY <1>5 DEF ProcessDisconnect
<1>6. ASSUME NEW t \in Threads, AddSession(t)
      PROVE  InUse'
  BY <1>6 DEF AddSession
<1>7. ASSUME NEW t \in Threads, RegisterRIOBuffer(t)
      PROVE  InUse'
  BY <1>7 DEF RegisterRIOBuffer
<1>8. ASSUME NEW t \in Threads, CreateRIORQ(t)
      PROVE  InUse'
  BY <1>8 DEF CreateRIORQ
<1>9. ASSUME NEW t \in Threads, CreateRIORQFails(t)
      PROVE  InUse'
  BY <1>9 DEF CreateRIORQFails, Disconnect, RegisterDisconnect
<1>10. ASSUME NEW t \in Threads, SetSessionID(t)
       PROVE  InUse'
  BY <1>10 DEF SetSessionID
<1>11. ASSUME NEW t \in Threads, OnConnected(t)
       PROVE  InUse'
  BY <1>11 DEF OnConnected
<1>12. ASSUME NEW t \in Threads, PushEnter(t)
       PROVE  InUse'
  BY <1>12 DEF PushEnter
<1>13. ASSUME NEW t \in Threads, RegisterRecv(t)
       PROVE  InUse'
  BY <1>13 DEF RegisterRecv, Return
<1>14. ASSUME NEW t \in Threads, PostRecv(t)
       PROVE  InUse'
  BY <1>14 DEF PostRecv, Return
<1>15. ASSUME NEW t \in Threads, RegisterAccept(t)
       PROVE  InUse'
  BY <1>15 DEF RegisterAccept
<1>16. ASSUME NEW t \in Threads, OnDisconnected(t)
       PROVE  InUse'
  BY <1>16 DEF OnDisconnected
<1>17. ASSUME NEW t \in Threads, PushLeave(t)
       PROVE  InUse'
  BY <1>17 DEF PushLeave
<1>18. ASSUME NEW t \in Threads, ReleaseSession(t)
       PROVE  InUse'
  BY <1>18 DEF ReleaseSession
<1>19. ASSUME NEW s \in Sessions, Destroy(s)
       PROVE  InUse'
  BY <1>19 DEF Destroy, Referenced
<1>20. ASSUME NEW r \in Rooms, NEW j \in RoomJobs, RunJob(r, j)
       PROVE  InUse'
  BY <1>20 DEF RunJob
<1>21. CASE UNCHANGED vars
  BY <1>21 DEF vars
<1>22. ASSUME NEW t \in Threads, NEW s \in Sessions, Dispatch(t, s)
       PROVE  InUse'
  BY <1>1, <1>2, <1>3, <1>4, <1>5, <1>22 DEF Dispatch
<1>23. ASSUME NEW t \in Threads, ConnectStep(t)
       PROVE  InUse'
  BY <1>6, <1>7, <1>8, <1>9, <1>10, <1>11, <1>12, <1>13, <1>14, <1>15,
     <1>23 DEF ConnectStep
<1>24. ASSUME NEW t \in Threads, DisconnectStep(t)
       PROVE  InUse'
  BY <1>16, <1>17, <1>18, <1>24 DEF DisconnectStep
<1>25. ASSUME NEW r \in Rooms, ExecuteEnds(r)
       PROVE  InUse'
  BY <1>25 DEF ExecuteEnds
<1>26. ASSUME NEW r \in Rooms, RoomStep(r)
       PROVE  InUse'
  BY <1>20, <1>25, <1>26 DEF RoomStep
<1> QED
  BY <1>19, <1>21, <1>22, <1>23, <1>24, <1>26 DEF Next

\* Whatever happens to a session happens to one that something refers to.
LEMMA GoneStep ==
  TypeOK /\ Busy /\ InUse /\ Gone /\ [Next]_vars => Gone'
<1> SUFFICES ASSUME TypeOK, Busy, InUse, Gone, [Next]_vars PROVE Gone'
  OBVIOUS
<1> USE SessionAssumption DEF TakeUp, Goto, ownVars, requests, members, roomVars,
           jobVars, idVars, threadVars
<1>0. /\ session \in [Threads -> Sessions \cup {None}]
       /\ destroyed \subseteq Sessions /\ None \notin Sessions
  BY DEF TypeOK
<1>1. ASSUME NEW t \in Threads, NEW s \in Sessions, ProcessAccept(t, s)
      PROVE  Gone'
  BY <1>0, <1>1 DEF ProcessAccept, Gone, Forgotten
<1>2. ASSUME NEW t \in Threads, NEW s \in Sessions, ProcessRecv(t, s)
      PROVE  Gone'
  BY <1>2 DEF ProcessRecv, Gone, Forgotten
<1>3. ASSUME NEW t \in Threads, NEW s \in Sessions, ProcessRecvZero(t, s)
      PROVE  Gone'
  BY <1>3 DEF ProcessRecvZero, Disconnect, RegisterDisconnect, Gone, Forgotten
<1>4. ASSUME NEW t \in Threads, NEW s \in Sessions, ProcessSend(t, s)
      PROVE  Gone'
  BY <1>4 DEF ProcessSend, Disconnect, RegisterDisconnect, Gone, Forgotten
<1>5. ASSUME NEW t \in Threads, NEW s \in Sessions, ProcessDisconnect(t, s)
      PROVE  Gone'
  BY <1>5 DEF ProcessDisconnect, Gone, Forgotten
<1>6. ASSUME NEW t \in Threads, AddSession(t)
      PROVE  Gone'
  BY <1>6 DEF AddSession, Gone, Forgotten
<1>7. ASSUME NEW t \in Threads, RegisterRIOBuffer(t)
      PROVE  Gone'
  BY <1>7 DEF RegisterRIOBuffer, Gone, Forgotten
<1>8. ASSUME NEW t \in Threads, CreateRIORQ(t)
      PROVE  Gone'
  BY <1>8 DEF CreateRIORQ, Gone, Forgotten
<1>9. ASSUME NEW t \in Threads, CreateRIORQFails(t)
      PROVE  Gone'
  BY <1>9 DEF CreateRIORQFails, Disconnect, RegisterDisconnect, Gone, Forgotten
<1>10. ASSUME NEW t \in Threads, SetSessionID(t)
       PROVE  Gone'
  BY <1>10 DEF SetSessionID, Gone, Forgotten
<1>11. ASSUME NEW t \in Threads, OnConnected(t)
       PROVE  Gone'
  BY <1>11 DEF OnConnected, Gone, Forgotten
<1>12. ASSUME NEW t \in Threads, PushEnter(t)
       PROVE  Gone'
  <2>1. Room!Post(t, GetChatRoom(session[t]), [kind |-> "enter", session |-> session[t]])
    BY <1>12 DEF PushEnter, PostToRoom
  <2>2. session[t] \in Sessions
    BY <1>12 DEF PushEnter, Busy
  <2>3. \A j \in RoomJobs : j.session # session[t] => home'[j] = home[j]
    BY <2>1, <2>2 DEF Room!Post, TypeOK, RoomJobs
  <2>4. \A s \in destroyed : s # session[t]
    BY DEF Gone, Forgotten
  <2> QED
    BY <1>12, <2>1, <2>3, <2>4 DEF PushEnter, Room!Post, Gone, Forgotten
<1>13. ASSUME NEW t \in Threads, RegisterRecv(t)
       PROVE  Gone'
  BY <1>0, <1>13 DEF RegisterRecv, Return, Gone, Forgotten
<1>14. ASSUME NEW t \in Threads, PostRecv(t)
       PROVE  Gone'
  BY <1>0, <1>14 DEF PostRecv, Return, Gone, Forgotten
<1>15. ASSUME NEW t \in Threads, RegisterAccept(t)
       PROVE  Gone'
  BY <1>0, <1>15 DEF RegisterAccept, Gone, Forgotten
<1>16. ASSUME NEW t \in Threads, OnDisconnected(t)
       PROVE  Gone'
  BY <1>16 DEF OnDisconnected, Gone, Forgotten
<1>17. ASSUME NEW t \in Threads, PushLeave(t)
       PROVE  Gone'
  <2>1. Room!Post(t, GetChatRoom(session[t]), [kind |-> "leave", session |-> session[t]])
    BY <1>17 DEF PushLeave, PostToRoom
  <2>2. session[t] \in Sessions
    BY <1>17 DEF PushLeave, Busy
  <2>3. \A j \in RoomJobs : j.session # session[t] => home'[j] = home[j]
    BY <2>1, <2>2 DEF Room!Post, TypeOK, RoomJobs
  <2>4. \A s \in destroyed : s # session[t]
    BY DEF Gone, Forgotten
  <2> QED
    BY <1>17, <2>1, <2>3, <2>4 DEF PushLeave, Room!Post, Gone, Forgotten
<1>18. ASSUME NEW t \in Threads, ReleaseSession(t)
       PROVE  Gone'
  BY <1>0, <1>18 DEF ReleaseSession, Gone, Forgotten
<1>19. ASSUME NEW s \in Sessions, Destroy(s)
       PROVE  Gone'
  <2>1. Forgotten(s)
    BY <1>19 DEF Destroy, Referenced, Forgotten, Posted
  <2> QED
    BY <1>19, <2>1 DEF Destroy, Gone, Forgotten
<1>20. ASSUME NEW r \in Rooms, NEW j \in RoomJobs, RunJob(r, j)
       PROVE  Gone'
  <2>1. /\ home[j] \in Rooms /\ home[j] # None /\ j \notin finished
        /\ finished' = finished \cup {j} /\ mSessionList \in [Rooms -> SUBSET Sessions]
    BY <1>20, RoomAssumption DEF RunJob, Room!MayStart, Rooms, TypeOK
  <2>2. \A s \in destroyed : s # j.session
    BY <2>1 DEF Gone, Forgotten
  <2>3. \A room \in Rooms : mSessionList'[room] \subseteq mSessionList[room] \cup {j.session}
    BY <1>20, <2>1 DEF RunJob, Enter, Leave
  <2> QED
    BY <1>20, <2>1, <2>2, <2>3 DEF RunJob, Gone, Forgotten
<1>21. CASE UNCHANGED vars
  BY <1>21 DEF vars, Gone, Forgotten
<1>22. ASSUME NEW t \in Threads, NEW s \in Sessions, Dispatch(t, s)
       PROVE  Gone'
  BY <1>1, <1>2, <1>3, <1>4, <1>5, <1>22 DEF Dispatch
<1>23. ASSUME NEW t \in Threads, ConnectStep(t)
       PROVE  Gone'
  BY <1>6, <1>7, <1>8, <1>9, <1>10, <1>11, <1>12, <1>13, <1>14, <1>15,
     <1>23 DEF ConnectStep
<1>24. ASSUME NEW t \in Threads, DisconnectStep(t)
       PROVE  Gone'
  BY <1>16, <1>17, <1>18, <1>24 DEF DisconnectStep
<1>25. ASSUME NEW r \in Rooms, ExecuteEnds(r)
       PROVE  Gone'
  BY <1>25 DEF ExecuteEnds, Gone, Forgotten
<1>26. ASSUME NEW r \in Rooms, RoomStep(r)
       PROVE  Gone'
  BY <1>20, <1>25, <1>26 DEF RoomStep
<1> QED
  BY <1>19, <1>21, <1>22, <1>23, <1>24, <1>26 DEF Next

-----------------------------------------------------------------------------
\* The inductive invariant holds before the first connection.
LEMMA InitIInv == Init => IInv
<1> SUFFICES ASSUME Init PROVE IInv
  OBVIOUS
<1>1. TypeOK
  BY SessionAssumption DEF Init, TypeOK, Steps, Room!Init
<1>2. Busy /\ Unshared /\ Leaving
  BY SessionAssumption DEF Init, Busy, Unshared, NotYet, Leaving, Leaves
<1>3. Counted
  BY FS_EmptySet DEF Init, Counted
<1>4. WatchedQ /\ DepartingQ /\ Early /\ Managed
  BY DEF Init, WatchedQ, DepartingQ, Early, Managed
<1> QED
  BY <1>1, <1>2, <1>3, <1>4 DEF IInv

\* The inductive invariant holds in every reachable state.
THEOREM Invariance == Spec => []IInv
<1>1. IInv /\ [Next]_vars => IInv'
  BY TypeStep, BusyStep, UnsharedStep, LeavingStep, CountedStep, WatchedStep,
     DepartingStep, EarlyStep, ManagedStep DEF IInv
<1> QED
  BY InitIInv, <1>1, PTL DEF Spec

\* The variables keep their types: every job is posted to a room that exists.
THEOREM TypeCorrect == Spec => []TypeOK
<1>1. IInv => TypeOK
  BY DEF IInv
<1> QED
  BY Invariance, <1>1, PTL

\* However many threads disconnect a session, it is released once.
THEOREM Released == Spec => []ReleasedOnce
<1>1. IInv => ReleasedOnce
  <2> SUFFICES ASSUME IInv PROVE ReleasedOnce
    OBVIOUS
  <2>1. \A s \in Sessions : \A t \in LeavingThreads(s) :
          t \in Threads /\ Leaves(t) /\ session[t] = s
    BY DEF LeavingThreads, Leaves
  <2>2. disconnecting \subseteq Sessions
    BY DEF IInv, TypeOK
  <2> QED
    BY <2>1, <2>2 DEF IInv, Leaving, Counted, ReleasedOnce
<1> QED
  BY Invariance, <1>1, PTL

\* A connected session with a receive buffer listens to its peer, until RIOReceive
\* refuses a request.
THEOREM Listens == Spec => []Watched
<1>1. IInv => Watched
  <2>1. \A s : \A t \in Threads :
          session[t] = s /\ Watches(t) => t \in WatchingThreads(s)
    BY DEF WatchingThreads, Watches
  <2> QED
    BY <2>1 DEF IInv, WatchedQ, Watched
<1> QED
  BY Invariance, <1>1, PTL

\* A disconnected session is not forgotten in the service, unless its DisconnectEx
\* failed, nor in the client manager, unless its request queue could not be created.
THEOREM Departs == Spec => []Departing
<1>1. IInv => Departing
  <2> SUFFICES ASSUME IInv PROVE Departing
    OBVIOUS
  <2>1. \A s \in mSessions : \A t \in Threads :
          session[t] = s /\ Leaves(t) => t \in LeavingThreads(s)
    BY DEF LeavingThreads, Leaves
  <2>2. \A s \in mSessions \ disconnectRefused :
          mIsConnected[s] \/ s \in disconnecting \/ LeavingThreads(s) # {}
    BY <2>1 DEF IInv, DepartingQ
  <2>3. \A s \in clients \cap mRioRQ :
          s \in mSessions /\ \A t \in LeavingThreads(s) : pc[t] = "unmanage"
    BY DEF IInv, Managed, LeavingThreads
  <2> QED
    BY <2>2, <2>3 DEF Departing
<1> QED
  BY Invariance, <1>1, PTL

\* No request works on a buffer that has gone back to the pool, and nothing refers
\* to a session that has been destroyed.
THEOREM BuffersStay == Spec => []BuffersHeld
<1>1. Init => InUse /\ Gone
  BY DEF Init, InUse, Gone
<1>2. IInv => TypeOK /\ Busy
  BY DEF IInv
<1>3. InUse /\ Gone => BuffersHeld
  BY DEF InUse, Gone, Forgotten, BuffersHeld, Referenced, Posted
<1> QED
  BY Invariance, InUseStep, GoneStep, <1>1, <1>2, <1>3, PTL DEF Spec
=============================================================================
