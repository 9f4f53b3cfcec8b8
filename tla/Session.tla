------------------------------ MODULE Session ------------------------------
(***************************************************************************)
(* Life cycle of a Session (Session.cpp, Network.cpp) while the server is  *)
(* running: the accept thread creates it, IOCP workers handle its          *)
(* completions, the single game thread consumes the jobs about it and      *)
(* sends to it, any of them may close it, and a worker destroys it.        *)
(*                                                                         *)
(* The grain is one access to shared memory, or one call into the kernel,  *)
(* per step; a thread's local work between two of them is part of the      *)
(* next step.  A thread holds a raw Session*: after the object is deleted  *)
(* it still reads the contents the object had, the most benign outcome of  *)
(* a use after free.  Here every Session has an address of its own;        *)
(* SessionReuse lets the allocator hand a freed address out again.         *)
(***************************************************************************)
EXTENDS Naturals, Sequences, FiniteSets

CONSTANTS
  Sessions,       \* the Session objects, one per accepted connection
  Workers,        \* the IOCP worker threads
  GameThread,
  AcceptThread,
  NoSession,      \* the null Session*
  MaxPackets,     \* bound: packets a client sends over a connection's life
  MaxSends        \* bound: sends of a session in the kernel's hands at once

Threads == Workers \cup {GameThread, AcceptThread}

ASSUME SessionAssumption ==
  /\ IsFiniteSet(Workers)
  /\ GameThread \notin Workers
  /\ AcceptThread \notin Workers \cup {GameThread}
  /\ NoSession \notin Sessions
  /\ MaxPackets \in Nat
  /\ MaxSends \in Nat \ {0}

VARIABLES
  \* the fields of the Session objects
  mem,              \* "unborn", "live" or "freed"
  state,            \* SessionState
  gameCleanupDone,
  pendingIO,
  destroying,
  recvPosted,
  closeIssued,
  sockOpen,         \* the handle in sock is open
  m_sessions,       \* Network's registry
  \* the kernel
  recvIo,           \* receives of a session in the kernel or in the IOCP
  sendIo,           \* sends, likewise
  cleanupMsgs,      \* queued completions with a null overlapped
  packets,          \* packets the client may still send
  \* GameServer
  jobQueue,
  players,          \* the sessions that have a Player
  inRoom,           \* those whose Player is in a Room
  task,             \* what the game thread is busy with
  subject,          \* the session of that job
  todo,             \* the sessions the job still has to send to
  \* the threads
  pc,
  cur,              \* the Session* a thread works on
  ret               \* where RequestClose returns to

objVars    == <<mem, state, gameCleanupDone, pendingIO, destroying,
                recvPosted, closeIssued, sockOpen, m_sessions>>
kernelVars == <<recvIo, sendIo, cleanupMsgs, packets>>
gameVars   == <<jobQueue, players, inRoom, task, subject, todo>>
threadVars == <<pc, cur, ret>>
vars       == <<objVars, kernelVars, gameVars, threadVars>>

\* All of the objects but one field.
butState      == <<mem, gameCleanupDone, pendingIO, destroying, recvPosted,
                   closeIssued, sockOpen, m_sessions>>
butPendingIO  == <<mem, state, gameCleanupDone, destroying, recvPosted,
                   closeIssued, sockOpen, m_sessions>>
butRecvPosted == <<mem, state, gameCleanupDone, pendingIO, destroying,
                   closeIssued, sockOpen, m_sessions>>

ObjectStates == {"Connected", "Closing", "Closed"}
JobTypes     == {"Connect", "Packet", "Disconnect"}
Jobs         == [type : JobTypes, session : Sessions]
Tasks        == {"none", "packet", "reject", "disconnect"}

\* Where a thread stands, by the function it executes.
AcceptLabels  == {"ac_job"}
ReceiveLabels == {"rx_flag", "rx_count", "rx_state", "rx_parse", "rx_push", "kick"}
PostRecvLabels == {"pr_state", "pr_claim", "pr_count", "pr_call", "pr_release",
                   "pr_uncount"}
SendLabels    == {"sp_state", "ps_state", "ps_count", "ps_call", "ps_uncount"}
CloseLabels   == {"rc_claim", "rc_close", "rc_closed", "rc_job"}
DestroyLabels == {"td_state", "td_clean", "td_count", "td_claim", "td_remove",
                  "td_delete"}
GameLabels    == {"g_loop", "gm_mark", "gm_post"}
Labels == {"idle", "tx_count"} \cup AcceptLabels \cup ReceiveLabels
            \cup PostRecvLabels \cup SendLabels \cup CloseLabels
            \cup DestroyLabels \cup GameLabels

\* Where RequestClose returns to.
ReturnLabels == {"idle", "g_loop", "kick", "rx_parse", "td_state"}

InitShared ==
  /\ mem = [s \in Sessions |-> "unborn"]
  /\ state = [s \in Sessions |-> "Connected"]
  /\ gameCleanupDone = [s \in Sessions |-> FALSE]
  /\ pendingIO = [s \in Sessions |-> 0]
  /\ destroying = [s \in Sessions |-> FALSE]
  /\ recvPosted = [s \in Sessions |-> FALSE]
  /\ closeIssued = [s \in Sessions |-> FALSE]
  /\ sockOpen = [s \in Sessions |-> FALSE]
  /\ m_sessions = {}
  /\ recvIo = [s \in Sessions |-> 0]
  /\ sendIo = [s \in Sessions |-> 0]
  /\ cleanupMsgs = [s \in Sessions |-> 0]
  /\ packets = [s \in Sessions |-> MaxPackets]
  /\ jobQueue = <<>>
  /\ players = {}
  /\ inRoom = {}
  /\ task = "none"
  /\ subject = NoSession
  /\ todo = {}

InitThreads(T) ==
  /\ pc = [t \in T |-> "idle"]
  /\ cur = [t \in T |-> NoSession]
  /\ ret = [t \in T |-> "idle"]

Init == InitShared /\ InitThreads(Threads)

-----------------------------------------------------------------------------
(* Control flow of a thread.                                               *)

\* A thread out of work, or back in the game thread's loop, holds no Session*.
Forgets(l) == l \in {"idle", "g_loop"}

Goto(t, l) ==
  /\ pc' = [pc EXCEPT ![t] = l]
  /\ cur' = IF Forgets(l) THEN [cur EXCEPT ![t] = NoSession] ELSE cur
  /\ ret' = ret

\* An idle thread takes up session s.
Start(t, l, s) ==
  /\ pc' = [pc EXCEPT ![t] = l]
  /\ cur' = [cur EXCEPT ![t] = s]
  /\ ret' = ret

\* Call session->RequestClose(); it returns to label l.
CallRequestClose(t, l) ==
  /\ pc' = [pc EXCEPT ![t] = "rc_claim"]
  /\ cur' = cur
  /\ ret' = [ret EXCEPT ![t] = l]

ReturnFromClose(t) ==
  /\ pc' = [pc EXCEPT ![t] = ret[t]]
  /\ cur' = IF Forgets(ret[t]) THEN [cur EXCEPT ![t] = NoSession] ELSE cur
  /\ ret' = [ret EXCEPT ![t] = "idle"]

\* The callers of SendPacket: ProcessPacket's kick, and the game thread.
AfterSend(t) == IF t = GameThread THEN "g_loop" ELSE "kick"

\* The callers of PostRecv: OnRecvComplete, and the accept thread.
AfterRecv(t) == IF t = AcceptThread THEN "idle" ELSE "td_state"

\* Fault: jobs are pushed at the end Pop takes them from.
PushAtFront(type, s) == jobQueue' = <<[type |-> type, session |-> s]>> \o jobQueue

\* GameJobQueue::Push, under the queue's lock.
Push(type, s) == jobQueue' = Append(jobQueue, [type |-> type, session |-> s])

\* Fault: the counter is left alone.
CountNothing(s) == pendingIO' = pendingIO

\* pendingIO.fetch_add(1), fetch_sub(1)
CountIO(s) == pendingIO' = [pendingIO EXCEPT ![s] = @ + 1]
UncountIO(s) == pendingIO' = [pendingIO EXCEPT ![s] = @ - 1]

-----------------------------------------------------------------------------
(* AcceptThread.                                                           *)

\* accept() returned: new Session(client), then AddSession.
AcceptClient(s) ==
  /\ pc[AcceptThread] = "idle"
  /\ mem[s] = "unborn"
  /\ mem' = [mem EXCEPT ![s] = "live"]
  /\ sockOpen' = [sockOpen EXCEPT ![s] = TRUE]
  /\ m_sessions' = m_sessions \cup {s}
  /\ Start(AcceptThread, "ac_job", s)
  /\ UNCHANGED <<state, gameCleanupDone, pendingIO, destroying, recvPosted,
                 closeIssued, kernelVars, gameVars>>

\* EnqueueConnectJob; associating the socket with the IOCP changes nothing
\* that can be seen before the first receive is posted.
EnqueueConnectJob(t) ==
  /\ pc[t] = "ac_job"
  /\ Push("Connect", cur[t])
  /\ Goto(t, "pr_state")
  /\ UNCHANGED <<objVars, kernelVars, players, inRoom, task, subject, todo>>

-----------------------------------------------------------------------------
(* Session::PostRecv.                                                      *)

PostRecvCheck(t) ==
  /\ pc[t] = "pr_state"
  /\ Goto(t, IF state[cur[t]] = "Connected" THEN "pr_claim" ELSE AfterRecv(t))
  /\ UNCHANGED <<objVars, kernelVars, gameVars>>

PostRecvClaim(t) ==
  /\ pc[t] = "pr_claim"
  /\ recvPosted' = [recvPosted EXCEPT ![cur[t]] = TRUE]
  /\ Goto(t, IF recvPosted[cur[t]] THEN AfterRecv(t) ELSE "pr_count")
  /\ UNCHANGED <<butRecvPosted, kernelVars, gameVars>>

PostRecvCount(t) ==
  /\ pc[t] = "pr_count"
  /\ CountIO(cur[t])
  /\ Goto(t, "pr_call")
  /\ UNCHANGED <<butPendingIO, kernelVars, gameVars>>

\* WSARecv on an open socket is accepted, or fails (a reset connection); on a
\* closed one it fails.
PostRecvCall(t) ==
  /\ pc[t] = "pr_call"
  /\ \/ /\ sockOpen[cur[t]]
        /\ recvIo' = [recvIo EXCEPT ![cur[t]] = @ + 1]
        /\ Goto(t, AfterRecv(t))
     \/ /\ recvIo' = recvIo
        /\ Goto(t, "pr_release")
  /\ UNCHANGED <<objVars, sendIo, cleanupMsgs, packets, gameVars>>

PostRecvRelease(t) ==
  /\ pc[t] = "pr_release"
  /\ recvPosted' = [recvPosted EXCEPT ![cur[t]] = FALSE]
  /\ Goto(t, "pr_uncount")
  /\ UNCHANGED <<butRecvPosted, kernelVars, gameVars>>

PostRecvUncount(t) ==
  /\ pc[t] = "pr_uncount"
  /\ UncountIO(cur[t])
  /\ CallRequestClose(t, AfterRecv(t))
  /\ UNCHANGED <<butPendingIO, kernelVars, gameVars>>

PostRecv(t) ==
  PostRecvCheck(t) \/ PostRecvClaim(t) \/ PostRecvCount(t) \/ PostRecvCall(t)
    \/ PostRecvRelease(t) \/ PostRecvUncount(t)

-----------------------------------------------------------------------------
(* Session::SendPacket and Session::PostSend.                              *)

SendPacketCheck(t) ==
  /\ pc[t] = "sp_state"
  /\ Goto(t, IF state[cur[t]] = "Connected" THEN "ps_state" ELSE AfterSend(t))
  /\ UNCHANGED <<objVars, kernelVars, gameVars>>

PostSendCheck(t) ==
  /\ pc[t] = "ps_state"
  /\ Goto(t, IF state[cur[t]] # "Closed" THEN "ps_count" ELSE AfterSend(t))
  /\ UNCHANGED <<objVars, kernelVars, gameVars>>

PostSendCount(t) ==
  /\ pc[t] = "ps_count"
  /\ CountIO(cur[t])
  /\ Goto(t, "ps_call")
  /\ UNCHANGED <<butPendingIO, kernelVars, gameVars>>

\* WSASend: as WSARecv; beyond MaxSends outstanding sends it only fails.
PostSendCall(t) ==
  /\ pc[t] = "ps_call"
  /\ \/ /\ sockOpen[cur[t]]
        /\ sendIo[cur[t]] < MaxSends
        /\ sendIo' = [sendIo EXCEPT ![cur[t]] = @ + 1]
        /\ Goto(t, AfterSend(t))
     \/ /\ sendIo' = sendIo
        /\ Goto(t, "ps_uncount")
  /\ UNCHANGED <<objVars, recvIo, cleanupMsgs, packets, gameVars>>

PostSendUncount(t) ==
  /\ pc[t] = "ps_uncount"
  /\ UncountIO(cur[t])
  /\ CallRequestClose(t, AfterSend(t))
  /\ UNCHANGED <<butPendingIO, kernelVars, gameVars>>

SendPacket(t) ==
  SendPacketCheck(t) \/ PostSendCheck(t) \/ PostSendCount(t) \/ PostSendCall(t)
    \/ PostSendUncount(t)

-----------------------------------------------------------------------------
(* Session::RequestClose and Session::Close.                               *)

\* Fault: any session not closed yet passes.
NotClosed(s) == state[s] # "Closed"

\* The compare-exchange from Connected that lets one caller through.
MayClose(s) == state[s] = "Connected"

RequestCloseClaim(t) ==
  /\ pc[t] = "rc_claim"
  /\ IF MayClose(cur[t])
       THEN state' = [state EXCEPT ![cur[t]] = "Closing"] /\ Goto(t, "rc_close")
       ELSE state' = state /\ ReturnFromClose(t)
  /\ UNCHANGED <<butState, kernelVars, gameVars>>

\* closesocket aborts the receives and sends that are still outstanding.
CloseSocket(t) ==
  /\ pc[t] = "rc_close"
  /\ closeIssued' = [closeIssued EXCEPT ![cur[t]] = TRUE]
  /\ IF closeIssued[cur[t]]
       THEN sockOpen' = sockOpen /\ Goto(t, "rc_job")
       ELSE sockOpen' = [sockOpen EXCEPT ![cur[t]] = FALSE] /\ Goto(t, "rc_closed")
  /\ UNCHANGED <<mem, state, gameCleanupDone, pendingIO, destroying, recvPosted,
                 m_sessions, kernelVars, gameVars>>

CloseDone(t) ==
  /\ pc[t] = "rc_closed"
  /\ state' = [state EXCEPT ![cur[t]] = "Closed"]
  /\ Goto(t, "rc_job")
  /\ UNCHANGED <<butState, kernelVars, gameVars>>

EnqueueDisconnectJob(t) ==
  /\ pc[t] = "rc_job"
  /\ Push("Disconnect", cur[t])
  /\ ReturnFromClose(t)
  /\ UNCHANGED <<objVars, kernelVars, players, inRoom, task, subject, todo>>

RequestClose(t) ==
  RequestCloseClaim(t) \/ CloseSocket(t) \/ CloseDone(t) \/ EnqueueDisconnectJob(t)

-----------------------------------------------------------------------------
(* WorkerThread: Session::OnRecvComplete and ProcessPacket.                *)

TakeRecv(w, s) ==
  /\ pc[w] = "idle"
  /\ recvIo[s] > 0
  /\ recvIo' = [recvIo EXCEPT ![s] = @ - 1]
  /\ Start(w, "rx_flag", s)
  /\ UNCHANGED <<objVars, sendIo, cleanupMsgs, packets, gameVars>>

RecvCompleteFlag(t) ==
  /\ pc[t] = "rx_flag"
  /\ recvPosted' = [recvPosted EXCEPT ![cur[t]] = FALSE]
  /\ Goto(t, "rx_count")
  /\ UNCHANGED <<butRecvPosted, kernelVars, gameVars>>

\* The completion brought data, or it failed or ended the stream.
RecvCompleteCount(t) ==
  /\ pc[t] = "rx_count"
  /\ UncountIO(cur[t])
  /\ \/ Goto(t, "rx_state")
     \/ CallRequestClose(t, "td_state")
  /\ UNCHANGED <<butPendingIO, kernelVars, gameVars>>

RecvCompleteCheck(t) ==
  /\ pc[t] = "rx_state"
  /\ Goto(t, IF state[cur[t]] = "Connected" THEN "rx_parse" ELSE "td_state")
  /\ UNCHANGED <<objVars, kernelVars, gameVars>>

\* recvRing holds no complete packet any more.
ParseDone(t) ==
  /\ pc[t] = "rx_parse"
  /\ Goto(t, "pr_state")
  /\ UNCHANGED <<objVars, kernelVars, gameVars>>

\* A size field out of bounds.
ParseFail(t) ==
  /\ pc[t] = "rx_parse"
  /\ CallRequestClose(t, "td_state")
  /\ UNCHANGED <<objVars, kernelVars, gameVars>>

\* ProcessPacket: nothing while Closing; a known packet becomes a job, an
\* unknown one is answered with SC_KICK.
ParsePacket(t) ==
  /\ pc[t] = "rx_parse"
  /\ packets[cur[t]] > 0
  /\ packets' = [packets EXCEPT ![cur[t]] = @ - 1]
  /\ IF state[cur[t]] = "Closing"
       THEN Goto(t, "rx_parse")
       ELSE Goto(t, "rx_push") \/ Goto(t, "sp_state")
  /\ UNCHANGED <<objVars, recvIo, sendIo, cleanupMsgs, gameVars>>

EnqueuePacketJob(t) ==
  /\ pc[t] = "rx_push"
  /\ Push("Packet", cur[t])
  /\ Goto(t, "rx_parse")
  /\ UNCHANGED <<objVars, kernelVars, players, inRoom, task, subject, todo>>

\* The close that follows SC_KICK; the parse loop then goes on.
Kick(t) ==
  /\ pc[t] = "kick"
  /\ CallRequestClose(t, "rx_parse")
  /\ UNCHANGED <<objVars, kernelVars, gameVars>>

OnRecvComplete(t) ==
  RecvCompleteFlag(t) \/ RecvCompleteCount(t) \/ RecvCompleteCheck(t)
    \/ ParseDone(t) \/ ParseFail(t) \/ ParsePacket(t) \/ EnqueuePacketJob(t)
    \/ Kick(t)

-----------------------------------------------------------------------------
(* WorkerThread: Session::OnSendComplete.                                  *)

TakeSend(w, s) ==
  /\ pc[w] = "idle"
  /\ sendIo[s] > 0
  /\ sendIo' = [sendIo EXCEPT ![s] = @ - 1]
  /\ Start(w, "tx_count", s)
  /\ UNCHANGED <<objVars, recvIo, cleanupMsgs, packets, gameVars>>

\* Faults: a send completion posts a receive, or forgets TryDestroySession.
PostsReceive == "pr_state"
Forgotten    == "idle"

\* What the worker does after OnSendComplete.
AfterSendComplete == "td_state"

OnSendComplete(t) ==
  /\ pc[t] = "tx_count"
  /\ UncountIO(cur[t])
  /\ \/ Goto(t, AfterSendComplete)
     \/ CallRequestClose(t, AfterSendComplete)
  /\ UNCHANGED <<butPendingIO, kernelVars, gameVars>>

-----------------------------------------------------------------------------
(* WorkerThread: TryDestroySession, after every completion.                *)

TakeCleanup(w, s) ==
  /\ pc[w] = "idle"
  /\ cleanupMsgs[s] > 0
  /\ cleanupMsgs' = [cleanupMsgs EXCEPT ![s] = @ - 1]
  /\ Start(w, "td_state", s)
  /\ UNCHANGED <<objVars, recvIo, sendIo, packets, gameVars>>

\* Faults: a condition is not waited for, or not claimed.
Always(s) == TRUE

IsGameCleanupDone(s) == gameCleanupDone[s]
IsIODone(s)          == pendingIO[s] = 0

\* The compare-exchange of TryBeginDestroy.
MayDestroy(s) == ~destroying[s]

DestroyCheckState(t) ==
  /\ pc[t] = "td_state"
  /\ Goto(t, IF state[cur[t]] = "Connected" THEN "idle" ELSE "td_clean")
  /\ UNCHANGED <<objVars, kernelVars, gameVars>>

DestroyCheckCleanup(t) ==
  /\ pc[t] = "td_clean"
  /\ Goto(t, IF IsGameCleanupDone(cur[t]) THEN "td_count" ELSE "idle")
  /\ UNCHANGED <<objVars, kernelVars, gameVars>>

DestroyCheckIO(t) ==
  /\ pc[t] = "td_count"
  /\ Goto(t, IF IsIODone(cur[t]) THEN "td_claim" ELSE "idle")
  /\ UNCHANGED <<objVars, kernelVars, gameVars>>

TryBeginDestroy(t) ==
  /\ pc[t] = "td_claim"
  /\ destroying' = [destroying EXCEPT ![cur[t]] = TRUE]
  /\ Goto(t, IF MayDestroy(cur[t]) THEN "td_remove" ELSE "idle")
  /\ UNCHANGED <<mem, state, gameCleanupDone, pendingIO, recvPosted, closeIssued,
                 sockOpen, m_sessions, kernelVars, gameVars>>

RemoveSession(t) ==
  /\ pc[t] = "td_remove"
  /\ m_sessions' = m_sessions \ {cur[t]}
  /\ Goto(t, "td_delete")
  /\ UNCHANGED <<mem, state, gameCleanupDone, pendingIO, destroying, recvPosted,
                 closeIssued, sockOpen, kernelVars, gameVars>>

DeleteSession(t) ==
  /\ pc[t] = "td_delete"
  /\ mem' = [mem EXCEPT ![cur[t]] = "freed"]
  /\ Goto(t, "idle")
  /\ UNCHANGED <<state, gameCleanupDone, pendingIO, destroying, recvPosted, closeIssued,
                 sockOpen, m_sessions, kernelVars, gameVars>>

TryDestroySession(t) ==
  DestroyCheckState(t) \/ DestroyCheckCleanup(t) \/ DestroyCheckIO(t)
    \/ TryBeginDestroy(t) \/ RemoveSession(t) \/ DeleteSession(t)

-----------------------------------------------------------------------------
(* The game thread: one job at a time, in the order of the queue.          *)

NextJob(type) ==
  /\ pc[GameThread] = "idle"
  /\ jobQueue # <<>>
  /\ Head(jobQueue).type = type
  /\ jobQueue' = Tail(jobQueue)

\* OnSessionConnected: new Player(s).
PopConnect ==
  /\ NextJob("Connect")
  /\ players' = players \cup {Head(jobQueue).session}
  /\ UNCHANGED <<objVars, kernelVars, threadVars, inRoom, task, subject, todo>>

\* OnPacket: dropped without a Player.  Otherwise the handler may put the
\* player in a room, and answers the sender or players in rooms (Lobby says
\* whom), or it refuses a HELLO: an error, then a close.
PopPacket ==
  /\ NextJob("Packet")
  /\ LET s == Head(jobQueue).session IN
       \/ /\ s \notin players
          /\ UNCHANGED <<threadVars, inRoom, task, subject, todo>>
       \/ /\ s \in players
          /\ task' = "packet"
          /\ inRoom' \in {inRoom, inRoom \cup {s}}
          /\ todo' \in SUBSET (inRoom' \cup {s})
          /\ subject' = s
          /\ Goto(GameThread, "g_loop")
       \/ /\ s \in players
          /\ task' = "reject"
          /\ inRoom' = inRoom
          /\ todo' = {s}
          /\ subject' = s
          /\ Goto(GameThread, "g_loop")
  /\ UNCHANGED <<objVars, kernelVars, players>>

\* OnSessionDisconnected: the Player is erased, and the room told.
PopDisconnect ==
  /\ NextJob("Disconnect")
  /\ players' = players \ {Head(jobQueue).session}
  /\ inRoom' = inRoom \ {Head(jobQueue).session}
  /\ task' = "disconnect"
  /\ todo' \in SUBSET inRoom'
  /\ subject' = Head(jobQueue).session
  /\ Goto(GameThread, "g_loop")
  /\ UNCHANGED <<objVars, kernelVars>>

\* One send of the job's, to some session.  HandleReady may send a session two
\* packets; here a job sends it one, and sends of several causes still overlap.
GameSend ==
  /\ pc[GameThread] = "g_loop"
  /\ \E s \in todo :
       /\ todo' = todo \ {s}
       /\ Start(GameThread, "sp_state", s)
  /\ UNCHANGED <<objVars, kernelVars, jobQueue, players, inRoom, task, subject>>

GameHandled ==
  /\ pc[GameThread] = "g_loop"
  /\ todo = {}
  /\ task = "packet"
  /\ task' = "none"
  /\ subject' = NoSession
  /\ Goto(GameThread, "idle")
  /\ UNCHANGED <<objVars, kernelVars, jobQueue, players, inRoom, todo>>

GameReject ==
  /\ pc[GameThread] = "g_loop"
  /\ todo = {}
  /\ task = "reject"
  /\ task' = "none"
  /\ subject' = NoSession
  /\ pc' = [pc EXCEPT ![GameThread] = "rc_claim"]
  /\ cur' = [cur EXCEPT ![GameThread] = subject]
  /\ ret' = [ret EXCEPT ![GameThread] = "idle"]
  /\ UNCHANGED <<objVars, kernelVars, jobQueue, players, inRoom, todo>>

GameDisconnected ==
  /\ pc[GameThread] = "g_loop"
  /\ todo = {}
  /\ task = "disconnect"
  /\ Start(GameThread, "gm_mark", subject)
  /\ UNCHANGED <<objVars, kernelVars, gameVars>>

MarkGameCleanupDone ==
  /\ pc[GameThread] = "gm_mark"
  /\ gameCleanupDone' = [gameCleanupDone EXCEPT ![subject] = TRUE]
  /\ Goto(GameThread, "gm_post")
  /\ UNCHANGED <<mem, state, pendingIO, destroying, recvPosted, closeIssued,
                 sockOpen, m_sessions, kernelVars, gameVars>>

\* PostQueuedCompletionStatus(hIocp, 0, s, nullptr).  The game thread passes
\* the address on and touches the object no more.
PostCleanup ==
  /\ pc[GameThread] = "gm_post"
  /\ cleanupMsgs' = [cleanupMsgs EXCEPT ![subject] = @ + 1]
  /\ task' = "none"
  /\ subject' = NoSession
  /\ Goto(GameThread, "idle")
  /\ UNCHANGED <<objVars, recvIo, sendIo, packets, jobQueue, players, inRoom, todo>>

GamePop  == PopConnect \/ PopPacket \/ PopDisconnect
GameStep == GameSend \/ GameHandled \/ GameReject \/ GameDisconnected
              \/ MarkGameCleanupDone \/ PostCleanup

-----------------------------------------------------------------------------
ThreadStep(t) ==
  \/ EnqueueConnectJob(t)
  \/ PostRecv(t)
  \/ SendPacket(t)
  \/ RequestClose(t)
  \/ OnRecvComplete(t)
  \/ OnSendComplete(t)
  \/ TryDestroySession(t)

\* Every connection the clients will make has come and gone.
AllServed ==
  /\ \A s \in Sessions : mem[s] = "freed"
  /\ \A t \in Threads : pc[t] = "idle"
  /\ UNCHANGED vars

Next ==
  \/ \E s \in Sessions : AcceptClient(s)
  \/ \E w \in Workers, s \in Sessions :
       TakeRecv(w, s) \/ TakeSend(w, s) \/ TakeCleanup(w, s)
  \/ \E t \in Threads : ThreadStep(t)
  \/ GamePop
  \/ GameStep
  \/ AllServed

Spec == Init /\ [][Next]_vars

\* The operating system runs every thread.  The IOCP is a queue that several
\* workers drain: a completion in it is taken by some worker even if others
\* keep arriving, hence SF.  A receive or send of a closed socket completes
\* (it is aborted); one of an open socket need not.
Fairness ==
  /\ \A t \in Threads : WF_vars(ThreadStep(t))
  /\ WF_vars(GamePop)
  /\ WF_vars(GameStep)
  /\ \A s \in Sessions :
       /\ SF_vars(\E w \in Workers : TakeCleanup(w, s))
       /\ SF_vars(~sockOpen[s] /\ \E w \in Workers : TakeRecv(w, s))
       /\ SF_vars(~sockOpen[s] /\ \E w \in Workers : TakeSend(w, s))

FairSpec == Spec /\ Fairness

-----------------------------------------------------------------------------
(* Properties.                                                             *)

OtherTypes ==
  /\ mem \in [Sessions -> {"unborn", "live", "freed"}]
  /\ state \in [Sessions -> ObjectStates]
  /\ gameCleanupDone \in [Sessions -> BOOLEAN]
  /\ destroying \in [Sessions -> BOOLEAN]
  /\ recvPosted \in [Sessions -> BOOLEAN]
  /\ closeIssued \in [Sessions -> BOOLEAN]
  /\ sockOpen \in [Sessions -> BOOLEAN]
  /\ m_sessions \in SUBSET Sessions
  /\ recvIo \in [Sessions -> Nat]
  /\ sendIo \in [Sessions -> 0 .. MaxSends]
  /\ cleanupMsgs \in [Sessions -> Nat]
  /\ packets \in [Sessions -> Nat]
  /\ jobQueue \in Seq(Jobs)
  /\ players \in SUBSET Sessions
  /\ inRoom \in SUBSET players
  /\ task \in Tasks
  /\ subject \in Sessions \cup {NoSession}
  /\ todo \in SUBSET Sessions
  /\ pc \in [Threads -> Labels]
  /\ cur \in [Threads -> Sessions \cup {NoSession}]
  /\ ret \in [Threads -> ReturnLabels]

\* Every variable keeps its type; a pending I/O count below zero, a send
\* beyond the bound or a job without a session would break it.
TypeOK == OtherTypes /\ pendingIO \in [Sessions -> Nat]

\* A thread that has counted an I/O the kernel does not hold (yet, or any more).
CountedLabels == {"pr_call", "pr_release", "pr_uncount", "ps_call", "ps_uncount",
                  "rx_flag", "rx_count", "tx_count"}
Counted(t, s) == cur[t] = s /\ pc[t] \in CountedLabels

Counting(s) == {t \in Threads : Counted(t, s)}

\* README, "pendingIO is raised just before an I/O and lowered on completion":
\* the counter is exactly the I/O in the kernel plus that in a thread's hands.
PendingIOCounts ==
  \A s \in Sessions :
    pendingIO[s] = recvIo[s] + sendIo[s] + Cardinality(Counting(s))

\* The kernel never holds a buffer of a deleted session: what the pendingIO
\* condition of TryDestroySession is for.
KernelSafe ==
  \A s \in Sessions : recvIo[s] + sendIo[s] > 0 => mem[s] = "live"

\* A thread on its way through OnRecvComplete, or to the first PostRecv.
Receives(t, s) ==
  /\ cur[t] = s
  /\ t # GameThread
  /\ \/ pc[t] \in AcceptLabels \cup ReceiveLabels \cup SendLabels
     \/ pc[t] \in {"pr_state", "pr_claim", "pr_count", "pr_call"}
     \/ pc[t] \in CloseLabels /\ ret[t] \in {"rx_parse", "kick"}

\* recvContext and recvRing have no lock: at any time one receive, or one
\* thread, has them to itself.
OneReceiver ==
  \A s \in Sessions :
    recvIo[s] + Cardinality({t \in Threads : Receives(t, s)}) <= 1

DisconnectJobs(s) ==
  {i \in DOMAIN jobQueue : jobQueue[i] = [type |-> "Disconnect", session |-> s]}

Closers(s) == {t \in Threads : cur[t] = s /\ pc[t] \in CloseLabels \ {"rc_claim"}}

\* However many threads detect the end of a connection, the game is told of
\* it once: one thread is closing, or one job is queued, or one is being
\* handled, or the cleanup is done, or none.
DisconnectOnce ==
  \A s \in Sessions :
    Cardinality(Closers(s)) + Cardinality(DisconnectJobs(s))
      + (IF task = "disconnect" /\ subject = s THEN 1 ELSE 0)
      + (IF gameCleanupDone[s] /\ ~(task = "disconnect" /\ subject = s) THEN 1 ELSE 0)
      <= 1

\* The game thread and the accept thread never work on a deleted session: what
\* the IsGamecleanupDone condition of TryDestroySession is for.
GameThreadSafe ==
  /\ \A t \in {GameThread, AcceptThread} :
       cur[t] # NoSession /\ pc[t] # "gm_post" => mem[cur[t]] = "live"
  /\ \A s \in players \cup todo : mem[s] = "live"

\* One thread at a time is destroying a session, and the session is there.
NoDoubleFree ==
  \A t \in Threads :
    pc[t] \in {"td_remove", "td_delete"} =>
      /\ mem[cur[t]] = "live"
      /\ \A u \in Threads \ {t} :
           cur[u] = cur[t] => pc[u] \notin {"td_remove", "td_delete"}

\* The session's Player is gone, or is going: OnSessionDisconnected has begun.
Disconnected(s) == gameCleanupDone[s] \/ (task = "disconnect" /\ subject = s)

\* The jobs of a session reach the game thread in an order it can handle: a
\* packet finds the Player until the disconnect, and the disconnect finds it.
JobOrder ==
  jobQueue # <<>> =>
    LET job == Head(jobQueue) IN
      /\ job.type = "Packet" => job.session \in players \/ Disconnected(job.session)
      /\ job.type = "Disconnect" => job.session \in players

\* The phase of a session in its abstract life cycle.
Phase(s) ==
  IF mem[s] # "live" THEN mem[s]
  ELSE IF gameCleanupDone[s] THEN "retired"
  ELSE IF sockOpen[s] THEN "open" ELSE "closed"

Life == INSTANCE SessionLife WITH
          phase <- [s \in Sessions |-> Phase(s)],
          held  <- [s \in Sessions |-> recvIo[s] + sendIo[s]]

\* The flags, the counter and the threads of the code implement the abstract
\* life cycle: no I/O is started after the close, the game lets go after the
\* close, and the memory is freed after that, with no I/O in the kernel.
ImplementsLife == Life!Spec

\* A connection that ended is fully cleaned up: RequestClose leads to delete.
ClosedIsFreed ==
  \A s \in Sessions :
    mem[s] = "live" /\ state[s] # "Connected" ~> mem[s] = "freed"

=============================================================================
