----------------------------- MODULE SessionLife -----------------------------
(***************************************************************************)
(* The life of the sessions of a ListenerService: accept, ProcessConnect,  *)
(* the receive requests that watch the connection, Disconnect,             *)
(* ProcessDisconnect, the session sets of the service and of the client    *)
(* manager, the chat rooms, and the destructor once the last shared_ptr is *)
(* gone.                                                                   *)
(*                                                                         *)
(* The rooms are JobQueues: their Enter and Leave jobs are run by a        *)
(* SerialExecutor, which JobQueue implements, and a worker that posts to   *)
(* an idle room executes it before it goes on.  What is received and sent  *)
(* is left out, save that a reply may be under way (SessionSend).  Acquire *)
(* of a buffer may return nullptr at any time (BufferPool).                *)
(***************************************************************************)
EXTENDS Integers, FiniteSets

CONSTANTS Threads,             \* the threads that call ProcessDispatch
          Sessions,            \* the sessions CreateSession may return: a bound
          Accepting,           \* the sessions of the first accept contexts
          ROOMS,               \* MAX_CHATROOM_COUNT
          RioQueueMayFail,     \* whether RIOCreateRequestQueue can fail
          Main,                \* the thread that takes from the GlobalQueue
          None

ASSUME SessionAssumption == None \notin Sessions /\ Accepting \subseteq Sessions
ASSUME RoomAssumption == ROOMS \in Nat \ {0} /\ None \notin 0 .. ROOMS - 1
ASSUME FailAssumption == RioQueueMayFail \in BOOLEAN
ASSUME ThreadAssumption == Main # None /\ Threads \cap {Main, None} = {}

Rooms == 0 .. ROOMS - 1
RoomJobs == [kind : {"enter", "leave"}, session : Sessions]

VARIABLES
  unused,        \* the sessions CreateSession has not returned yet
  accepting,     \* AcceptContext::mSession of the pending AcceptEx calls
  mIsConnected, mSessionID, mRoomID,  \* per session
  sSessionID,    \* the static of SetSessionID
  mRecvBuffer, mSendBuffer, mRioRQ,   \* the sessions that have one
  receiving, sending, disconnecting,  \* sessions with such a request pending
  recvRefused, disconnectRefused,  \* history: sessions whose last RIOReceive, whose
                                   \* DisconnectEx failed at once
  mSessions, mSessionCount,           \* of the Service
  clients,       \* ClientSessionManager::_sessions
  mSessionList,  \* per room
  destroyed,     \* the sessions whose destructor has run
  pc,            \* per thread: what it does next
  session,       \* per thread: the session it works on
  accepted,      \* per thread: it is in ProcessAccept
  home, by, prior, finished, \* the rooms' jobs, see SerialExecutor
  executor       \* per room: the thread in Execute; Main if it is handed over

Room == INSTANCE SerialExecutor
          WITH Queues <- Rooms, Jobs <- RoomJobs, running <- {}

ownVars == <<mRecvBuffer, mSendBuffer, mRioRQ>>
requests == <<receiving, sending, disconnecting, recvRefused,
              disconnectRefused>>
members == <<mSessions, mSessionCount, clients>>
roomVars == <<mSessionList, mRoomID>>
jobVars == <<home, by, prior, finished, executor>>
idVars == <<mSessionID, sSessionID>>
threadVars == <<pc, session, accepted>>
vars == <<unused, accepting, mIsConnected, idVars, ownVars, requests,
          members, roomVars, destroyed, threadVars, jobVars>>

Steps == {"idle", "connect", "buffers", "queue", "id", "manager", "enter",
          "receive", "post", "rearm", "unmanage", "leave", "release"}

TypeOK ==
  /\ unused \subseteq Sessions /\ accepting \subseteq Sessions
  /\ mIsConnected \in [Sessions -> BOOLEAN]
  /\ mSessionID \in [Sessions -> Nat] /\ sSessionID \in Nat \ {0}
  /\ mRoomID \in [Sessions -> Rooms \cup {-1}]
  /\ mRecvBuffer \subseteq Sessions /\ mSendBuffer \subseteq Sessions
  /\ mRioRQ \subseteq Sessions
  /\ receiving \subseteq Sessions /\ sending \subseteq Sessions
  /\ disconnecting \subseteq Sessions
  /\ recvRefused \subseteq Sessions /\ disconnectRefused \subseteq Sessions
  /\ mSessions \subseteq Sessions /\ mSessionCount \in Int
  /\ clients \subseteq Sessions
  /\ mSessionList \in [Rooms -> SUBSET Sessions]
  /\ destroyed \subseteq Sessions
  /\ pc \in [Threads -> Steps]
  /\ session \in [Threads -> Sessions \cup {None}]
  /\ accepted \in [Threads -> BOOLEAN]
  /\ home \in [RoomJobs -> Rooms \cup {None}]
  /\ by \in [RoomJobs -> Threads \cup {None}]
  /\ prior \in [RoomJobs -> SUBSET RoomJobs]
  /\ finished \subseteq RoomJobs
  /\ executor \in [Rooms -> Threads \cup {Main, None}]

\* StartAccept has armed the accept contexts.
Init ==
  /\ unused = Sessions \ Accepting /\ accepting = Accepting
  /\ mIsConnected = [s \in Sessions |-> FALSE]
  /\ mSessionID = [s \in Sessions |-> 0] /\ sSessionID = 1
  /\ mRoomID = [s \in Sessions |-> -1]
  /\ mRecvBuffer = {} /\ mSendBuffer = {} /\ mRioRQ = {}
  /\ receiving = {} /\ sending = {} /\ disconnecting = {}
  /\ recvRefused = {} /\ disconnectRefused = {}
  /\ mSessions = {} /\ mSessionCount = 0 /\ clients = {}
  /\ mSessionList = [r \in Rooms |-> {}]
  /\ destroyed = {}
  /\ pc = [t \in Threads |-> "idle"]
  /\ session = [t \in Threads |-> None]
  /\ accepted = [t \in Threads |-> FALSE]
  /\ Room!Init
  /\ executor = [r \in Rooms |-> None]

Goto(t, step) == pc' = [pc EXCEPT ![t] = step]

\* A thread that has nothing to do takes up session s.
TakeUp(t, s, step) ==
  /\ pc[t] = "idle"
  /\ Goto(t, step)
  /\ session' = [session EXCEPT ![t] = s]

-----------------------------------------------------------------------------
(* Disconnect *)

\* If DisconnectEx fails at once nothing is pending, and nobody tries again.
RegisterDisconnect(s) ==
  \/ disconnecting' = disconnecting \cup {s} /\ UNCHANGED disconnectRefused
  \/ disconnectRefused' = disconnectRefused \cup {s} /\ UNCHANGED disconnecting

\* A variant that does not look at what the exchange returned.
DisconnectAgain(s) ==
  /\ mIsConnected' = [mIsConnected EXCEPT ![s] = FALSE]
  /\ RegisterDisconnect(s)

\* A variant that forgets to post DisconnectEx.
DisconnectSilently(s) ==
  /\ mIsConnected' = [mIsConnected EXCEPT ![s] = FALSE]
  /\ UNCHANGED <<disconnecting, disconnectRefused>>

\* The first caller posts DisconnectEx.
Disconnect(s) ==
  /\ mIsConnected' = [mIsConnected EXCEPT ![s] = FALSE]
  /\ \/ mIsConnected[s] /\ RegisterDisconnect(s)
     \/ ~ mIsConnected[s] /\ UNCHANGED <<disconnecting, disconnectRefused>>

-----------------------------------------------------------------------------
(* Listener::ProcessAccept and NetworkSession::ProcessConnect *)

\* An AcceptEx has completed; if the socket is no good any more (lines 111-124)
\* the session is dropped and the context armed again.
ProcessAccept(t, s) ==
  /\ s \in accepting
  /\ accepting' = accepting \ {s}
  /\ \/ TakeUp(t, s, "connect")
     \/ TakeUp(t, s, "rearm")
  /\ accepted' = [accepted EXCEPT ![t] = TRUE]
  /\ UNCHANGED <<unused, mIsConnected, idVars, ownVars, requests, members,
                 roomVars, destroyed, jobVars>>

\* Nobody else has the session yet: line 377 sets mIsConnected in this step.
AddSession(t) ==
  /\ pc[t] = "connect"
  /\ mIsConnected' = [mIsConnected EXCEPT ![session[t]] = TRUE]
  /\ mSessions' = mSessions \cup {session[t]}
  /\ mSessionCount' = mSessionCount + 1
  /\ Goto(t, "buffers")
  /\ UNCHANGED <<unused, accepting, idVars, ownVars, requests, clients,
                 roomVars, destroyed, session, accepted, jobVars>>

\* The first nullptr ends RegisterRIOBuffer; what it returns is not looked at.
RegisterRIOBuffer(t) ==
  /\ pc[t] = "buffers"
  /\ \/ UNCHANGED <<mRecvBuffer, mSendBuffer>>
     \/ /\ mRecvBuffer' = mRecvBuffer \cup {session[t]}
        /\ \/ UNCHANGED mSendBuffer
           \/ mSendBuffer' = mSendBuffer \cup {session[t]}
  /\ Goto(t, "queue")
  /\ UNCHANGED <<unused, accepting, mIsConnected, idVars, mRioRQ, requests,
                 members, roomVars, destroyed, session, accepted, jobVars>>

CreateRIORQ(t) ==
  /\ pc[t] = "queue"
  /\ mRioRQ' = mRioRQ \cup {session[t]}
  /\ Goto(t, "id")
  /\ UNCHANGED <<unused, accepting, mIsConnected, idVars, mRecvBuffer,
                 mSendBuffer, requests, members, roomVars, destroyed, session,
                 accepted, jobVars>>

\* Lines 93-98: the session is disconnected, and ProcessConnect goes on.
CreateRIORQFails(t) ==
  /\ RioQueueMayFail
  /\ pc[t] = "queue"
  /\ Disconnect(session[t])
  /\ Goto(t, "id")
  /\ UNCHANGED <<unused, accepting, idVars, ownVars, receiving, sending,
                 recvRefused, members, roomVars, destroyed, session, accepted,
                 jobVars>>

SetSessionID(t) ==
  /\ pc[t] = "id"
  /\ mSessionID' = [mSessionID EXCEPT ![session[t]] = sSessionID]
  /\ sSessionID' = sSessionID + 1
  /\ Goto(t, "manager")
  /\ UNCHANGED <<unused, accepting, mIsConnected, ownVars, requests, members,
                 roomVars, destroyed, session, accepted, jobVars>>

\* ClientSession::OnConnected: the manager's set, then the room's queue.
OnConnected(t) ==
  /\ pc[t] = "manager"
  /\ clients' = clients \cup {session[t]}
  /\ Goto(t, "enter")
  /\ UNCHANGED <<unused, accepting, mIsConnected, idVars, ownVars, requests,
                 mSessions, mSessionCount, roomVars, destroyed, session,
                 accepted, jobVars>>

GetChatRoom(s) == mSessionID[s] % ROOMS

\* DoAsync: the worker executes a room that had no job (JobQueue.cpp:11-17).
PostToRoom(t, kind) ==
  LET r == GetChatRoom(session[t])
  IN  /\ Room!Post(t, r, [kind |-> kind, session |-> session[t]])
      /\ executor' = [executor EXCEPT ![r] = IF @ = None THEN t ELSE @]

\* While it does, it has not returned from DoAsync.
InExecute(t) == \E r \in Rooms : executor[r] = t

PushEnter(t) ==
  /\ pc[t] = "enter"
  /\ PostToRoom(t, "enter")
  /\ Goto(t, "receive")
  /\ UNCHANGED <<unused, accepting, mIsConnected, idVars, ownVars, requests,
                 members, roomVars, destroyed, session, accepted>>

-----------------------------------------------------------------------------
(* RegisterRecv, called by ProcessConnect and by ProcessRecv *)

\* ProcessConnect returns to ProcessAccept, ProcessRecv to the worker's loop.
Return(t) ==
  /\ Goto(t, IF accepted[t] THEN "rearm" ELSE "idle")
  /\ session' = IF accepted[t] THEN session ELSE [session EXCEPT ![t] = None]

\* Lines 249-252.
RegisterRecv(t) ==
  LET s == session[t]
  IN  /\ pc[t] = "receive" /\ ~ InExecute(t)
      /\ IF mIsConnected[s] /\ s \in mRecvBuffer
         THEN Goto(t, "post") /\ UNCHANGED session
         ELSE Return(t)
      /\ UNCHANGED <<unused, accepting, mIsConnected, idVars, ownVars,
                     requests, members, roomVars, destroyed, accepted,
                     jobVars>>

\* Lines 264-270.  RIOReceive needs the request queue, and may fail with it:
\* HandleError does nothing, the session stays connected, and nothing is pending.
PostRecv(t) ==
  LET s == session[t]
  IN  /\ pc[t] = "post"
      /\ \/ /\ s \in mRioRQ
            /\ receiving' = receiving \cup {s}
            /\ UNCHANGED recvRefused
         \/ recvRefused' = recvRefused \cup {s} /\ UNCHANGED receiving
      /\ Return(t)
      /\ UNCHANGED <<unused, accepting, mIsConnected, idVars, ownVars,
                     sending, disconnecting, disconnectRefused, members,
                     roomVars, destroyed, accepted, jobVars>>

\* Listener::RegisterAccept with a new session, while the bound allows one.
RegisterAccept(t) ==
  /\ pc[t] = "rearm"
  /\ \/ \E s \in unused : /\ unused' = unused \ {s}
                          /\ accepting' = accepting \cup {s}
     \/ unused = {} /\ UNCHANGED <<unused, accepting>>
  /\ accepted' = [accepted EXCEPT ![t] = FALSE]
  /\ session' = [session EXCEPT ![t] = None]
  /\ Goto(t, "idle")
  /\ UNCHANGED <<mIsConnected, idVars, ownVars, requests, members, roomVars,
                 destroyed, jobVars>>

-----------------------------------------------------------------------------
(* Completions of requests, each taken up by some worker *)

\* A variant that does not wait for the next packet.
ProcessRecvOnce(t, s) ==
  /\ s \in receiving
  /\ TakeUp(t, s, "idle")
  /\ receiving' = receiving \ {s}
  /\ UNCHANGED <<unused, accepting, mIsConnected, idVars, ownVars, sending,
                 disconnecting, recvRefused, disconnectRefused, members,
                 roomVars, destroyed, accepted, jobVars>>

\* ProcessRecv with data; the handler of a packet may send a reply.
ProcessRecv(t, s) ==
  /\ s \in receiving
  /\ TakeUp(t, s, "receive")
  /\ receiving' = receiving \ {s}
  /\ \/ s \in mSendBuffer /\ mIsConnected[s] /\ sending' = sending \cup {s}
     \/ UNCHANGED sending
  /\ UNCHANGED <<unused, accepting, mIsConnected, idVars, ownVars,
                 disconnecting, recvRefused, disconnectRefused, members,
                 roomVars, destroyed, accepted, jobVars>>

\* ProcessRecv, lines 416-420: the peer has closed, the socket is disconnected,
\* or the receive buffer had no room left, so that line 258 asked for 0 bytes.
ProcessRecvZero(t, s) ==
  /\ pc[t] = "idle"
  /\ s \in receiving
  /\ receiving' = receiving \ {s}
  /\ Disconnect(s)
  /\ UNCHANGED <<unused, accepting, idVars, ownVars, sending, recvRefused,
                 members, roomVars, destroyed, threadVars, jobVars>>

\* ProcessSend: the replies are through, or the session is disconnected for 0
\* bytes or for the size of its send queue.
ProcessSend(t, s) ==
  /\ pc[t] = "idle"
  /\ s \in sending
  /\ sending' = sending \ {s}
  /\ \/ UNCHANGED <<mIsConnected, disconnecting, disconnectRefused>>
     \/ Disconnect(s)
  /\ UNCHANGED <<unused, accepting, idVars, ownVars, receiving, recvRefused,
                 members, roomVars, destroyed, threadVars, jobVars>>

-----------------------------------------------------------------------------
(* ProcessDisconnect *)

ProcessDisconnect(t, s) ==
  /\ s \in disconnecting
  /\ disconnecting' = disconnecting \ {s}
  /\ TakeUp(t, s, "unmanage")
  /\ UNCHANGED <<unused, accepting, mIsConnected, idVars, ownVars, receiving,
                 sending, recvRefused, disconnectRefused, members, roomVars,
                 destroyed, accepted, jobVars>>

\* A variant that ends with the manager, as if OnDisconnected had thrown.
OnDisconnectedOnly(t) ==
  /\ pc[t] = "unmanage"
  /\ clients' = clients \ {session[t]}
  /\ Goto(t, "idle")
  /\ session' = [session EXCEPT ![t] = None]
  /\ UNCHANGED <<unused, accepting, mIsConnected, idVars, ownVars, requests,
                 mSessions, mSessionCount, roomVars, destroyed, accepted,
                 jobVars>>

\* ClientSession::OnDisconnected: the manager's set, then the room's queue.
OnDisconnected(t) ==
  /\ pc[t] = "unmanage"
  /\ clients' = clients \ {session[t]}
  /\ Goto(t, "leave")
  /\ UNCHANGED <<unused, accepting, mIsConnected, idVars, ownVars, requests,
                 mSessions, mSessionCount, roomVars, destroyed, session,
                 accepted, jobVars>>

PushLeave(t) ==
  /\ pc[t] = "leave"
  /\ PostToRoom(t, "leave")
  /\ Goto(t, "release")
  /\ UNCHANGED <<unused, accepting, mIsConnected, idVars, ownVars, requests,
                 members, roomVars, destroyed, session, accepted>>

\* A variant that gives the buffers back here, with requests still pending.
ReleaseSessionAndBuffers(t) ==
  /\ pc[t] = "release" /\ ~ InExecute(t)
  /\ mSessions' = mSessions \ {session[t]}
  /\ mSessionCount' = mSessionCount - 1
  /\ mRecvBuffer' = mRecvBuffer \ {session[t]}
  /\ mSendBuffer' = mSendBuffer \ {session[t]}
  /\ session' = [session EXCEPT ![t] = None]
  /\ Goto(t, "idle")
  /\ UNCHANGED <<unused, accepting, mIsConnected, idVars, mRioRQ, requests,
                 clients, roomVars, destroyed, accepted, jobVars>>

ReleaseSession(t) ==
  /\ pc[t] = "release" /\ ~ InExecute(t)
  /\ mSessions' = mSessions \ {session[t]}
  /\ mSessionCount' = mSessionCount - 1
  /\ session' = [session EXCEPT ![t] = None]
  /\ Goto(t, "idle")
  /\ UNCHANGED <<unused, accepting, mIsConnected, idVars, ownVars, requests,
                 clients, roomVars, destroyed, accepted, jobVars>>

-----------------------------------------------------------------------------
(* ChatRoom::Enter and ChatRoom::Leave *)

Enter(j) ==
  /\ j.kind = "enter"
  /\ mSessionList' = [mSessionList EXCEPT ![home[j]] = @ \cup {j.session}]
  /\ mRoomID' = [mRoomID EXCEPT ![j.session] = home[j]]

Leave(j) ==
  /\ j.kind = "leave"
  /\ mSessionList' = [mSessionList EXCEPT ![home[j]] = @ \ {j.session}]
  /\ mRoomID' = [mRoomID EXCEPT ![j.session] = -1]

\* The executor of a room runs a job; nothing else sees the middle of it.
RunJob(r, j) ==
  /\ home[j] = r /\ executor[r] # None
  /\ Room!MayStart(j)
  /\ finished' = finished \cup {j}
  /\ Enter(j) \/ Leave(j)
  /\ UNCHANGED <<unused, accepting, mIsConnected, idVars, ownVars, requests,
                 members, destroyed, threadVars, home, by, prior, executor>>

\* A worker leaves after the batch that its own job is in, main when the count
\* is 0: to the worker, whose LEndTickCount is 0, main's slice has always begun.
ExecuteEnds(r) ==
  /\ executor[r] # None
  /\ \A j \in RoomJobs : home[j] = r /\ by[j] = executor[r] => j \in finished
  /\ executor' = [executor EXCEPT ![r] =
       IF \A j \in RoomJobs : home[j] = r => j \in finished THEN None ELSE Main]
  /\ UNCHANGED <<unused, accepting, mIsConnected, idVars, ownVars, requests,
                 members, roomVars, destroyed, threadVars, home, by, prior,
                 finished>>

-----------------------------------------------------------------------------
(* ~NetworkSession, on the thread that drops the last reference *)

Posted(s) == {j \in RoomJobs : j.session = s /\ home[j] # None}

Referenced(s) ==
  \/ s \in accepting \cup mSessions \cup clients
  \/ s \in receiving \cup sending \cup disconnecting
  \/ \E t \in Threads : session[t] = s
  \/ \E r \in Rooms : s \in mSessionList[r]
  \/ ~ Posted(s) \subseteq finished

\* The destructor gives the buffers back.
Destroy(s) ==
  /\ s \notin unused \cup destroyed
  /\ ~ Referenced(s)
  /\ destroyed' = destroyed \cup {s}
  /\ mRecvBuffer' = mRecvBuffer \ {s}
  /\ mSendBuffer' = mSendBuffer \ {s}
  /\ UNCHANGED <<unused, accepting, mIsConnected, idVars, mRioRQ, requests,
                 members, roomVars, threadVars, jobVars>>

-----------------------------------------------------------------------------
ConnectStep(t) ==
  \/ AddSession(t) \/ RegisterRIOBuffer(t)
  \/ CreateRIORQ(t) \/ CreateRIORQFails(t) \/ SetSessionID(t)
  \/ OnConnected(t) \/ PushEnter(t)
  \/ RegisterRecv(t) \/ PostRecv(t) \/ RegisterAccept(t)

DisconnectStep(t) == OnDisconnected(t) \/ PushLeave(t) \/ ReleaseSession(t)

RoomStep(r) == ExecuteEnds(r) \/ \E j \in RoomJobs : RunJob(r, j)

Dispatch(t, s) ==
  \/ ProcessAccept(t, s) \/ ProcessRecv(t, s) \/ ProcessRecvZero(t, s)
  \/ ProcessSend(t, s) \/ ProcessDisconnect(t, s)

Next ==
  \/ \E t \in Threads, s \in Sessions : Dispatch(t, s)
  \/ \E t \in Threads : ConnectStep(t) \/ DisconnectStep(t)
  \/ \E s \in Sessions : Destroy(s)
  \/ \E r \in Rooms : RoomStep(r)

Spec == Init /\ [][Next]_vars

\* Threads keep running their code, and the completion port, a FIFO queue,
\* hands out the completion of DisconnectEx some time.
Fairness ==
  /\ \A t \in Threads :
       WF_vars(ConnectStep(t) \/ DisconnectStep(t)
                 \/ \E r \in Rooms : executor[r] = t /\ RoomStep(r))
  /\ \A s \in Sessions : SF_vars(\E t \in Threads : ProcessDisconnect(t, s))

FairSpec == Spec /\ Fairness

-----------------------------------------------------------------------------
(* Correctness *)

LeavingThreads(s) ==
  {t \in Threads : session[t] = s /\ pc[t] \in {"unmanage", "leave", "release"}}

\* ProcessDisconnect runs at most once for a session, whoever disconnects it
\* and how often, and never before the session was added: a session that is
\* being disconnected is still in mSessions, in one place, and mSessionCount
\* is the number of sessions there.
ReleasedOnce ==
  /\ mSessionCount = Cardinality(mSessions)
  /\ \A s \in disconnecting : s \in mSessions /\ LeavingThreads(s) = {}
  /\ \A s \in Sessions : \A t, u \in LeavingThreads(s) : s \in mSessions /\ t = u

WatchingThreads(s) ==
  {t \in Threads :
     session[t] = s
     /\ pc[t] \in {"buffers", "queue", "id", "manager", "enter", "receive", "post"}}

\* A connected session that has a receive buffer will learn that its peer is
\* gone: it has a receive pending, which then completes with 0 bytes, or a thread
\* on its way to RegisterRecv; the only others are those whose RIOReceive failed.
Watched ==
  \A s \in mRecvBuffer \ recvRefused :
    mIsConnected[s] =>
      s \in receiving \/ WatchingThreads(s) # {}

\* A session in the service is connected, or its ProcessDisconnect is pending
\* or on its way: the only ones forgotten there are those whose DisconnectEx failed.
\* A session in the client manager has not left it: OnConnected inserts none that
\* OnDisconnected has erased, save one that CreateRIORQ disconnected (line 97).
Departing ==
  /\ \A s \in mSessions \ disconnectRefused :
       mIsConnected[s] \/ s \in disconnecting \/ LeavingThreads(s) # {}
  /\ \A s \in clients \cap mRioRQ :
       s \in mSessions /\ \A t \in LeavingThreads(s) : pc[t] = "unmanage"

\* RIO works on no buffer that has gone back to the pool: a buffer stays with its
\* session until the last request on it has completed, and once the session is
\* destroyed nothing leads to it any more, whatever order requests, jobs of the
\* rooms and ProcessDisconnect end in.
BuffersHeld ==
  /\ receiving \subseteq mRecvBuffer /\ sending \subseteq mSendBuffer
  /\ \A s \in destroyed : s \notin mRecvBuffer \cup mSendBuffer /\ ~ Referenced(s)

\* A session that was disconnected leaves the service, however busy the threads
\* are with the other sessions and with the rooms, unless its DisconnectEx failed.
DepartureCompletes ==
  \A s \in Sessions :
    s \in mSessions /\ ~ mIsConnected[s] /\ s \notin disconnectRefused
      ~> s \notin mSessions

-----------------------------------------------------------------------------
(* What the code does not do. *)

\* ClientSession.cpp:15 posts a Leave for every session that goes: when the
\* room has run its jobs, the session is no member any more and its last
\* shared_ptr can go, so that the buffers README.md:13 wants used again return
\* to their pools.
DepartedLeavesRoom ==
  \A s \in Sessions :
    Cardinality(Posted(s)) = 2 /\ Posted(s) \subseteq finished =>
      \A r \in Rooms : s \notin mSessionList[r]

=============================================================================
