------------------------------ MODULE Shutdown ------------------------------
(***************************************************************************)
(* The stop of the server, over the threads of Session: a console event    *)
(* runs ConsoleHandler in a thread of its own, which wakes the accept      *)
(* thread, tells and closes every registered session, and stops the game   *)
(* thread and the workers; main, meanwhile, waits for the accept thread    *)
(* and ends the process, whatever the others are at.                       *)
(*                                                                         *)
(* The accept thread's loop, m_lock and the tests of IsShuttingDown, which *)
(* Session leaves out as they decide nothing while the server runs, are    *)
(* here.  Two loads of values that only move forward are one step where    *)
(* the outcomes are the same.  The IOCP is a bag as in Session: a worker   *)
(* may take its exit message before a completion queued ahead of it.       *)
(***************************************************************************)
EXTENDS Session

CONSTANTS
  Handlers,    \* the threads that console events run ConsoleHandler in
  Main,
  NoThread     \* the owner of m_lock when nobody has it

ASSUME ShutdownAssumption ==
  /\ IsFiniteSet(Handlers)
  /\ Handlers \cap Threads = {}
  /\ Main \notin Threads \cup Handlers
  /\ NoThread \notin Handlers

VARIABLES
  serverState,     \* GameServer's state
  m_running,
  listenOpen,      \* the listen socket is open
  m_lock,          \* its owner
  unsent,          \* the registered sessions its owner has yet to tell
  exitMessages     \* completions with a null session and a null overlapped

stopVars == <<serverState, m_running, listenOpen, m_lock, unsent, exitMessages>>
allVars  == <<vars, stopVars>>

AllThreads == Threads \cup Handlers \cup {Main}

HandlerLabels == {"h_listen", "h_state", "h_lock", "h_next", "h_job", "h_stop",
                  "h_wait", "h_done"}
AcceptLoopLabels == {"ac_accept", "ac_add", "ac_push"}
AllLabels == Labels \cup HandlerLabels \cup AcceptLoopLabels
               \cup {"rx_queue", "exited"}

ShutdownJob == [type |-> "Shutdown", session |-> NoSession]

StopInit ==
  /\ InitShared
  /\ InitThreads(AllThreads)
  /\ serverState = "Running"
  /\ m_running = TRUE
  /\ listenOpen = TRUE
  /\ m_lock = NoThread
  /\ unsent = {}
  /\ exitMessages = 0

IsShuttingDown == serverState = "ShuttingDown"

\* Fault: a thread enters the critical section whoever is in it.
Barge == TRUE

LockIsFree == m_lock = NoThread

-----------------------------------------------------------------------------
(* AcceptThread, whose loop runs while m_running.                          *)

AcceptLoop ==
  /\ pc[AcceptThread] = "idle"
  /\ Goto(AcceptThread, IF m_running THEN "ac_accept" ELSE "exited")
  /\ UNCHANGED <<objVars, kernelVars, gameVars, stopVars>>

\* accept() returned a client: new Session(client).
AcceptSession(s) ==
  /\ pc[AcceptThread] = "ac_accept"
  /\ listenOpen
  /\ mem[s] = "unborn"
  /\ mem' = [mem EXCEPT ![s] = "live"]
  /\ sockOpen' = [sockOpen EXCEPT ![s] = TRUE]
  /\ Start(AcceptThread, "ac_add", s)
  /\ UNCHANGED <<state, gameCleanupDone, pendingIO, destroying, recvPosted,
                 closeIssued, m_sessions, kernelVars, gameVars, stopVars>>

\* accept() failed: the listen socket is closed.  A call that fails while the
\* socket is open is not shown: the loop comes back to accept(), or it ends, as
\* AcceptLoop does, because m_running is cleared already.
AcceptFail ==
  /\ pc[AcceptThread] = "ac_accept"
  /\ ~listenOpen
  /\ Goto(AcceptThread, IF m_running THEN "idle" ELSE "exited")
  /\ UNCHANGED <<objVars, kernelVars, gameVars, stopVars>>

AddSession ==
  /\ pc[AcceptThread] = "ac_add"
  /\ LockIsFree
  /\ m_sessions' = m_sessions \cup {cur[AcceptThread]}
  /\ Goto(AcceptThread, "ac_job")
  /\ UNCHANGED <<mem, state, gameCleanupDone, pendingIO, destroying, recvPosted,
                 closeIssued, sockOpen, kernelVars, gameVars, stopVars>>

\* Fault: the flag that is cleared earlier is tested.
NotRunning == ~m_running

ConnectIsDropped == IsShuttingDown

\* EnqueueConnectJob drops the job once the server is shutting down; the
\* accept thread goes on with the session all the same.
ConnectJobCheck ==
  /\ pc[AcceptThread] = "ac_job"
  /\ Goto(AcceptThread, IF ConnectIsDropped THEN "pr_state" ELSE "ac_push")
  /\ UNCHANGED <<objVars, kernelVars, gameVars, stopVars>>

ConnectJobPush ==
  /\ pc[AcceptThread] = "ac_push"
  /\ Push("Connect", cur[AcceptThread])
  /\ Goto(AcceptThread, "pr_state")
  /\ UNCHANGED <<objVars, kernelVars, players, inRoom, task, subject, todo, stopVars>>

AcceptStep ==
  AcceptLoop \/ AcceptFail \/ AddSession \/ ConnectJobCheck \/ ConnectJobPush

-----------------------------------------------------------------------------
(* What a stopping server changes in the paths of packets.                 *)

\* SendPacket, for every packet but SC_SHUTDOWN.
StopSendCheck(t) ==
  IF IsShuttingDown
    THEN /\ pc[t] = "sp_state"
         /\ Goto(t, AfterSend(t))
         /\ UNCHANGED <<objVars, kernelVars, gameVars>>
    ELSE SendPacketCheck(t)

\* ProcessPacket: the packet is taken from the ring and forgotten.
StopParsePacket(t) ==
  IF IsShuttingDown
    THEN /\ pc[t] = "rx_parse"
         /\ packets[cur[t]] > 0
         /\ packets' = [packets EXCEPT ![cur[t]] = @ - 1]
         /\ UNCHANGED <<objVars, recvIo, sendIo, cleanupMsgs, gameVars, threadVars>>
    ELSE ParsePacket(t)

PacketJobCheck(t) ==
  /\ pc[t] = "rx_push"
  /\ Goto(t, IF IsShuttingDown THEN "rx_parse" ELSE "rx_queue")
  /\ UNCHANGED <<objVars, kernelVars, gameVars>>

PacketJobPush(t) ==
  /\ pc[t] = "rx_queue"
  /\ Push("Packet", cur[t])
  /\ Goto(t, "rx_parse")
  /\ UNCHANGED <<objVars, kernelVars, players, inRoom, task, subject, todo>>

\* RemoveSession searches and erases in the critical section.
LockedRemoveSession(t) == LockIsFree /\ RemoveSession(t)

\* The steps of workers, accept thread and game thread that stopping leaves
\* as they are in Session.
UnchangedStep(t) ==
  \/ PostRecv(t)
  \/ PostSendCheck(t) \/ PostSendCount(t) \/ PostSendCall(t) \/ PostSendUncount(t)
  \/ RequestClose(t)
  \/ RecvCompleteFlag(t) \/ RecvCompleteCount(t) \/ RecvCompleteCheck(t)
  \/ ParseDone(t) \/ ParseFail(t) \/ Kick(t)
  \/ OnSendComplete(t)
  \/ DestroyCheckState(t) \/ DestroyCheckCleanup(t) \/ DestroyCheckIO(t)
  \/ TryBeginDestroy(t) \/ DeleteSession(t)

RunningStep(t) ==
  /\ \/ UnchangedStep(t)
     \/ StopSendCheck(t)
     \/ StopParsePacket(t) \/ PacketJobCheck(t) \/ PacketJobPush(t)
     \/ LockedRemoveSession(t)
  /\ UNCHANGED stopVars

-----------------------------------------------------------------------------
(* ConsoleHandler: SignalStop, then GameServer::Shutdown.                  *)

\* A console event; m_running is cleared first.
StopRunning(h) ==
  /\ pc[h] = "idle"
  /\ m_running' = FALSE
  /\ Goto(h, "h_listen")
  /\ UNCHANGED <<objVars, kernelVars, gameVars, serverState, listenOpen, m_lock, unsent,
                 exitMessages>>

\* Fault: the accept thread is left waiting.
LeaveOpen == listenOpen

ListenAfterStop == FALSE

\* closesocket on the listen socket, which wakes accept().  A second handler
\* finds INVALID_SOCKET, or closes a closed one.
CloseListen(h) ==
  /\ pc[h] = "h_listen"
  /\ listenOpen' = ListenAfterStop
  /\ Goto(h, "h_state")
  /\ UNCHANGED <<objVars, kernelVars, gameVars, serverState, m_running, m_lock, unsent,
                 exitMessages>>

\* The compare-exchange from Running lets one handler through.
ShutdownClaim(h) ==
  /\ pc[h] = "h_state"
  /\ serverState' = "ShuttingDown"
  /\ Goto(h, IF serverState = "Running" THEN "h_lock" ELSE "h_done")
  /\ UNCHANGED <<objVars, kernelVars, gameVars, m_running, listenOpen, m_lock, unsent,
                 exitMessages>>

\* RequestShutdownAllSessions, up to its loop.
BroadcastBegin(h) ==
  /\ pc[h] = "h_lock"
  /\ LockIsFree
  /\ m_lock' = h
  /\ unsent' = m_sessions
  /\ Goto(h, "h_next")
  /\ UNCHANGED <<objVars, kernelVars, gameVars, serverState, m_running, listenOpen,
                 exitMessages>>

\* SendPacket of SC_SHUTDOWN, which tests neither the session's state nor the
\* server's, goes straight to PostSend.
BroadcastNext(h) ==
  /\ pc[h] = "h_next"
  /\ \E s \in unsent :
       /\ unsent' = unsent \ {s}
       /\ Start(h, "ps_state", s)
  /\ UNCHANGED <<objVars, kernelVars, gameVars, serverState, m_running, listenOpen,
                 m_lock, exitMessages>>

\* The send is over (AfterSend): the session is closed.
BroadcastClose(h) ==
  /\ pc[h] = "kick"
  /\ CallRequestClose(h, "h_next")
  /\ UNCHANGED <<objVars, kernelVars, gameVars, stopVars>>

BroadcastEnd(h) ==
  /\ pc[h] = "h_next"
  /\ unsent = {}
  /\ m_lock' = NoThread
  /\ pc' = [pc EXCEPT ![h] = "h_job"]
  /\ cur' = [cur EXCEPT ![h] = NoSession]
  /\ ret' = ret
  /\ UNCHANGED <<objVars, kernelVars, gameVars, serverState, m_running, listenOpen, unsent,
                 exitMessages>>

EnqueueShutdownJob(h) ==
  /\ pc[h] = "h_job"
  /\ jobQueue' = Append(jobQueue, ShutdownJob)
  /\ Goto(h, "h_stop")
  /\ UNCHANGED <<objVars, kernelVars, players, inRoom, task, subject, todo, stopVars>>

\* StopWorkerThreads, up to its wait: an exit message for every worker.
PostExits(h) ==
  /\ pc[h] = "h_stop"
  /\ exitMessages' = exitMessages + Cardinality(Workers)
  /\ Goto(h, "h_wait")
  /\ UNCHANGED <<objVars, kernelVars, gameVars, serverState, m_running, listenOpen, m_lock,
                 unsent>>

WaitForWorkers(h) ==
  /\ pc[h] = "h_wait"
  /\ \A w \in Workers : pc[w] = "exited"
  /\ Goto(h, "h_done")
  /\ UNCHANGED <<objVars, kernelVars, gameVars, stopVars>>

HandlerStep(h) ==
  \/ CloseListen(h) \/ ShutdownClaim(h)
  \/ BroadcastBegin(h) \/ BroadcastNext(h) \/ BroadcastClose(h) \/ BroadcastEnd(h)
  \/ EnqueueShutdownJob(h) \/ PostExits(h) \/ WaitForWorkers(h)
  \/ /\ \/ PostSendCheck(h) \/ PostSendCount(h) \/ PostSendCall(h) \/ PostSendUncount(h)
        \/ RequestClose(h)
     /\ UNCHANGED stopVars

-----------------------------------------------------------------------------
(* The ends of the other threads.                                          *)

WorkerExit(w) ==
  /\ pc[w] = "idle"
  /\ exitMessages > 0
  /\ exitMessages' = exitMessages - 1
  /\ Goto(w, "exited")
  /\ UNCHANGED <<objVars, kernelVars, gameVars, serverState, m_running, listenOpen, m_lock,
                 unsent>>

\* running = false: the jobs behind the Shutdown job are never handled.
PopShutdown ==
  /\ NextJob("Shutdown")
  /\ Goto(GameThread, "exited")
  /\ UNCHANGED <<objVars, kernelVars, players, inRoom, task, subject, todo, stopVars>>

\* main's polling loop is over, JoinAcceptThread too; then WSACleanup and
\* return: the process, with all of its threads, is gone.
MainReturns ==
  /\ pc[Main] = "idle"
  /\ ~m_running
  /\ pc[AcceptThread] = "exited"
  /\ Goto(Main, "exited")
  /\ UNCHANGED <<objVars, kernelVars, gameVars, stopVars>>

-----------------------------------------------------------------------------
GameSteps == (GamePop \/ GameStep) /\ UNCHANGED stopVars

\* A step of the threads that have a bounded number of them.
OthersStep ==
  \/ RunningStep(AcceptThread) \/ AcceptStep
  \/ RunningStep(GameThread) \/ GameSteps \/ PopShutdown
  \/ \E h \in Handlers : HandlerStep(h)

Exits == \E w \in Workers : WorkerExit(w)

ServerStep ==
  \/ OthersStep
  \/ \E w \in Workers : RunningStep(w)
  \/ Exits
  \/ \E s \in Sessions : AcceptSession(s)
  \/ \E w \in Workers, s \in Sessions :
       (TakeRecv(w, s) \/ TakeSend(w, s) \/ TakeCleanup(w, s)) /\ UNCHANGED stopVars
  \/ \E h \in Handlers : StopRunning(h)

\* All threads have ended; main is all there is.
AllStopped ==
  /\ \A t \in Threads : pc[t] = "exited"
  /\ \A h \in Handlers : pc[h] = "h_done"
  /\ UNCHANGED allVars

\* The stop while main sleeps, and with main.
StopNext == ServerStep \/ AllStopped

Ended == pc[Main] = "exited"

ExitNext == ~Ended /\ (ServerStep \/ MainReturns)

StopSpec == StopInit /\ [][StopNext]_allVars
ExitSpec == StopInit /\ [][ExitNext]_allVars

\* The system runs every worker, and does not leave the other threads, which
\* cannot go on for ever, all idle while one can run.  The IOCP hands an exit
\* message to some worker even while completions keep arriving.
StopFairness ==
  /\ \A w \in Workers : WF_allVars(RunningStep(w))
  /\ WF_allVars(OthersStep)
  /\ SF_allVars(Exits)

FairStopSpec == StopSpec /\ StopFairness

-----------------------------------------------------------------------------
(* Properties.                                                             *)

\* Every variable keeps its type, those of the handlers and main included.
StopTypeOK ==
  /\ pendingIO \in [Sessions -> Nat]
  /\ recvIo \in [Sessions -> Nat]
  /\ sendIo \in [Sessions -> 0 .. MaxSends]
  /\ jobQueue \in Seq(Jobs \cup {ShutdownJob})
  /\ inRoom \in SUBSET players
  /\ pc \in [AllThreads -> AllLabels]
  /\ cur \in [AllThreads -> Sessions \cup {NoSession}]
  /\ ret \in [AllThreads -> ReturnLabels \cup {"h_next"}]
  /\ serverState \in {"Running", "ShuttingDown"}
  /\ m_running \in BOOLEAN
  /\ listenOpen \in BOOLEAN
  /\ m_lock \in Handlers \cup {NoThread}
  /\ unsent \in SUBSET Sessions
  /\ exitMessages \in 0 .. Cardinality(Workers)

\* RequestShutdownAllSessions walks m_sessions by raw pointers while workers
\* delete sessions: what it has before it, and all that is registered, exists.
RegistrySafe ==
  /\ \A s \in m_sessions \cup unsent : mem[s] = "live"
  /\ \A h \in Handlers : cur[h] # NoSession => mem[cur[h]] = "live"

\* When RequestShutdownAllSessions returns, no registered session is connected:
\* none was added behind its back or skipped.
BroadcastCloses ==
  [][\A h \in Handlers : m_lock = h /\ m_lock' # h =>
       \A s \in m_sessions' : state'[s] # "Connected"]_allVars

\* A session whose Connect job was dropped never gets a packet to the game: its
\* packets are dropped too, though the tests of IsShuttingDown are made by
\* different threads, and apart from the pushes.
PacketsFindPlayer ==
  jobQueue # <<>> /\ Head(jobQueue).type = "Packet" =>
    Head(jobQueue).session \in players \/ Disconnected(Head(jobQueue).session)

AllClosers(s) == {t \in AllThreads : cur[t] = s /\ pc[t] \in CloseLabels \ {"rc_claim"}}

\* A session that the broadcast closes while a worker or the accept thread does
\* is still reported to the game once.
DisconnectOnceStopping ==
  \A s \in Sessions :
    Cardinality(AllClosers(s)) + Cardinality(DisconnectJobs(s))
      + (IF Disconnected(s) THEN 1 ELSE 0) <= 1

\* Once a console event came, all threads end, if main leaves them the time: the
\* handler, the workers, the accept thread and the game thread do not wait for
\* each other for ever.
ThreadsEnd ==
  \A h \in Handlers :
    pc[h] # "idle" ~>
      pc[h] = "h_done" /\ \A t \in Threads : pc[t] = "exited"

\* README.md:78: Ctrl+C ends the server after the sessions were told and the
\* workers have ended.
EndsInOrder ==
  Ended => \A w \in Workers : pc[w] = "exited"

=============================================================================
