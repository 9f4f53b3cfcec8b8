-------------------------- MODULE SessionJobProofs --------------------------
(***************************************************************************)
(* Proofs about Session, for any number of sessions and workers: the end   *)
(* of a connection is reported to the game once, the jobs of a session     *)
(* reach the game thread in an order it can handle, neither the game       *)
(* thread nor the accept thread ever works on a deleted session, a session *)
(* is deleted by one thread and once, its receive buffer is in one place   *)
(* at a time although nothing locks it, and the threads, flags and         *)
(* counters of the code implement the life cycle of SessionLife.           *)
(*                                                                         *)
(* The first three are proved together.  The report is a token: from the   *)
(* won compare-exchange of RequestClose it passes from the closing thread  *)
(* to the queue, to the game thread and into gameCleanupDone (Once).  The  *)
(* Connect job is ahead of every other job of its session (Ordered), since *)
(* nobody else knows the session before the accept thread has queued it    *)
(* (Sole).  And the game forgets a session when it takes up the report, so *)
(* what it knows has not been cleaned up, let alone deleted (Tasked).      *)
(***************************************************************************)
EXTENDS SessionProofs

-----------------------------------------------------------------------------
(* The inductive invariant.                                                *)

\* Past the compare-exchange of RequestClose.
Past == CloseLabels \ {"rc_claim"}

\* Which thread executes what, and where it returns to from RequestClose.
Roles ==
  /\ \A t \in Threads : Forgets(pc[t]) => cur[t] = NoSession
  /\ pc[GameThread] \in GameLabels \cup SendLabels \cup CloseLabels \cup {"idle"}
  /\ pc[GameThread] \in CloseLabels => ret[GameThread] \in {"idle", "g_loop"}
  /\ pc[AcceptThread] \in AcceptLabels \cup PostRecvLabels \cup CloseLabels \cup {"idle"}
  /\ pc[AcceptThread] \in CloseLabels => ret[AcceptThread] = "idle"
  /\ \A w \in Workers :
       /\ pc[w] \notin AcceptLabels \cup GameLabels
       /\ pc[w] \in CloseLabels => ret[w] \in {"rx_parse", "kick", "td_state"}

\* What the game thread is at, and with whom.
Tasked ==
  /\ pc[GameThread] = "idle" => task = "none"
  /\ pc[GameThread] \in CloseLabels /\ ret[GameThread] = "idle" => task = "none"
  /\ pc[GameThread] \in {"gm_mark", "gm_post"} => cur[GameThread] = subject
  /\ pc[GameThread] \in SendLabels \cup CloseLabels => cur[GameThread] \in players
  /\ task = "none" => subject = NoSession
  /\ task = "disconnect" => (gameCleanupDone[subject] <=> pc[GameThread] = "gm_post")
  /\ task \in {"packet", "reject"} => subject \in players
  /\ todo \subseteq players

\* The sessions that have a job of a type in the queue.
SessionsOf(type) ==
  {s \in Sessions : \E i \in 1 .. Len(jobQueue) :
                      jobQueue[i].type = type /\ jobQueue[i].session = s}

Connecting == SessionsOf("Connect")
Sending    == SessionsOf("Packet")
Reported   == SessionsOf("Disconnect")

\* Those whose end the game has learnt of.
Gone == {s \in Sessions : Disconnected(s)}

\* There is one Disconnect job of a session, and no job before its Connect job.
ReportsDiffer ==
  \A i, j \in 1 .. Len(jobQueue) :
    jobQueue[i].type = "Disconnect" /\ jobQueue[j].type = "Disconnect" /\ i # j
      => jobQueue[i].session # jobQueue[j].session

ConnectFirst ==
  \A i, j \in 1 .. Len(jobQueue) :
    jobQueue[i].type = "Connect" /\ j < i => jobQueue[j].session # jobQueue[i].session

\* The report of a session's end is in one place at a time, and nowhere while
\* the session is connected.
Once ==
  /\ \A t, u \in Threads :
       pc[t] \in Past /\ pc[u] \in Past /\ cur[t] = cur[u] => t = u
  /\ ReportsDiffer
  /\ \A t \in Threads : pc[t] \in Past =>
       state[cur[t]] # "Connected" /\ cur[t] \notin Reported \cup Gone
  /\ \A s \in Reported : s \notin Gone
  /\ \A s \in Reported \cup Gone : state[s] # "Connected"

\* The game was told, or will be told, that these are connected.
Announced == Connecting \cup players \cup Gone

\* The Connect job is the first, players have not been disconnected, and
\* whatever happens to a session happens after the accept thread announced it.
Ordered ==
  /\ ConnectFirst
  /\ \A s \in Connecting : s \notin players \cup Gone
  /\ \A s \in players : s \notin Gone
  /\ Sending \cup Reported \subseteq Announced
  /\ \A t \in Threads : ~Forgets(pc[t]) /\ pc[t] # "ac_job" => cur[t] \in Announced
  /\ \A s \in Sessions :
       recvIo[s] > 0 \/ sendIo[s] > 0 \/ cleanupMsgs[s] > 0 => s \in Announced

\* The session the accept thread works on is known to the game at most as a
\* player, and to nobody else.
Sole ==
  \A s \in Sessions : cur[AcceptThread] = s =>
    /\ pc[AcceptThread] \notin Past => state[s] = "Connected"
    /\ pc[AcceptThread] = "ac_job" => s \notin Announced
    /\ \A t \in Threads : cur[t] = s => t = AcceptThread
    /\ recvIo[s] = 0 /\ sendIo[s] = 0 /\ cleanupMsgs[s] = 0
    /\ s \notin todo \cup inRoom \cup Sending \cup Reported
    /\ subject # s

\* Memory follows the cleanup.
Retired ==
  /\ \A t \in Threads :
       pc[t] \in {"td_count"} \cup ClaimLabels => gameCleanupDone[cur[t]]
  /\ \A s \in Sessions : mem[s] = "freed" => gameCleanupDone[s]
  /\ \A s \in Sessions : mem[s] = "unborn" => state[s] = "Connected"

JInv == Roles /\ Tasked /\ Once /\ Ordered /\ Sole /\ Retired

-----------------------------------------------------------------------------
(* The roles of the threads.                                               *)

\* A move of thread t keeps the roles, if what t comes to is of its role.
LEMMA RolesKept ==
  ASSUME TypeInv, TypeInv', Roles, NEW t \in Threads, NEW l, NEW c, Moves(t, l, c),
         \A u \in Threads : u # t => ret'[u] = ret[u],
         Forgets(l) => c = NoSession,
         t = GameThread => /\ l \in GameLabels \cup SendLabels \cup CloseLabels \cup {"idle"}
                           /\ l \in CloseLabels => ret'[t] \in {"idle", "g_loop"},
         t = AcceptThread =>
           /\ l \in AcceptLabels \cup PostRecvLabels \cup CloseLabels \cup {"idle"}
           /\ l \in CloseLabels => ret'[t] = "idle",
         t \in Workers => /\ l \notin AcceptLabels \cup GameLabels
                          /\ l \in CloseLabels => ret'[t] \in {"rx_parse", "kick", "td_state"}
  PROVE  Roles'
<1>1. /\ \A u \in Threads : u # t => pc'[u] = pc[u] /\ cur'[u] = cur[u]
      /\ pc'[t] = l /\ cur'[t] = c
  BY DEF Moves, TypeInv, Control
<1>2. GameThread \in Threads /\ AcceptThread \in Threads /\ Workers \subseteq Threads
  BY DEF Threads
<1>3. QED
  BY <1>1, <1>2 DEF Roles

-----------------------------------------------------------------------------
(* What the steps of a thread do, as far as the jobs are concerned.        *)

USE DEF objVars, kernelVars, gameVars, threadVars, butState, butPendingIO,
        butRecvPosted

\* The thread goes on with the session it works on, or lets go of it.
Advances(t) ==
  /\ ~Forgets(pc[t])
  /\ Moves(t, pc'[t], Keeps(t, pc'[t]))
  /\ \A u \in Threads : u # t => ret'[u] = ret[u]

\* The compare-exchange of RequestClose is won.
Claims(t) ==
  /\ pc[t] = "rc_claim" /\ pc'[t] = "rc_close"
  /\ state[cur[t]] = "Connected"
  /\ state' = [state EXCEPT ![cur[t]] = "Closing"]
  /\ jobQueue' = jobQueue

\* Close has come to its end.
Closes(t) ==
  /\ pc[t] = "rc_closed" /\ pc'[t] = "rc_job"
  /\ state' = [state EXCEPT ![cur[t]] = "Closed"]
  /\ jobQueue' = jobQueue

\* The end of the connection is reported.
Reports(t) ==
  /\ pc[t] = "rc_job" /\ pc'[t] = ret[t]
  /\ state' = state
  /\ Push("Disconnect", cur[t])

\* The accept thread announces the session.
Announces(t) ==
  /\ pc[t] = "ac_job" /\ pc'[t] = "pr_state"
  /\ state' = state
  /\ Push("Connect", cur[t])

\* A packet is handed on.
Delivers(t) ==
  /\ pc[t] = "rx_push" /\ pc'[t] = "rx_parse"
  /\ state' = state
  /\ Push("Packet", cur[t])

\* Neither the session's state nor the queue changes.
Works(t) ==
  /\ pc[t] \notin AcceptLabels \cup GameLabels
  /\ pc'[t] \notin AcceptLabels \cup {"gm_mark", "gm_post"}
  /\ pc[t] \in Past <=> pc'[t] \in Past
  /\ state' = state
  /\ jobQueue' = jobQueue

\* The game's view of the sessions is left alone, and so is the kernel's but
\* for the session the thread works on.
Undisturbed(t) ==
  /\ UNCHANGED <<gameCleanupDone, players, inRoom, task, subject, todo, cleanupMsgs>>
  /\ \A s \in Sessions : s # cur[t] => recvIo'[s] = recvIo[s] /\ sendIo'[s] = sendIo[s]
  /\ \A s \in Sessions : mem'[s] = "unborn" => mem[s] = "unborn"

\* The game thread is idle again only after a close that it called with no task
\* left; from one called by PostSend it goes back to its task.
Resumes(t) == t = GameThread =>
  /\ pc[t] \in SendLabels \cup CloseLabels
  /\ pc'[t] = "idle" => pc[t] \in CloseLabels /\ ret[t] = "idle"
  /\ pc'[t] \in CloseLabels /\ ret'[t] = "idle" => pc[t] \in CloseLabels /\ ret[t] = "idle"

\* With the receive it posts, the accept thread lets go of the session.
HandsOver(t) == t = AcceptThread =>
  Forgets(pc'[t]) \/ UNCHANGED <<recvIo, sendIo>>

Acts(t) ==
  Claims(t) \/ Closes(t) \/ Reports(t) \/ Announces(t) \/ Delivers(t) \/ Works(t)

\* The three ways to advance.
LEMMA GotoAdvances ==
  ASSUME TypeInv, NEW t \in Threads, NEW l \in Labels, ~Forgets(pc[t]), Goto(t, l)
  PROVE  Advances(t) /\ pc'[t] = l /\ ret' = ret
BY DEF TypeInv, Control, Goto, Advances, Moves, Keeps, Forgets

\* A call of RequestClose advances.
LEMMA CallAdvances ==
  ASSUME TypeInv, NEW t \in Threads, NEW l \in ReturnLabels, ~Forgets(pc[t]),
         CallRequestClose(t, l)
  PROVE  Advances(t) /\ pc'[t] = "rc_claim" /\ ret'[t] = l
BY DEF TypeInv, Control, CallRequestClose, Advances, Moves, Keeps, Forgets

\* So does the return from it, to where it was called.
LEMMA ReturnAdvances ==
  ASSUME TypeInv, NEW t \in Threads, ~Forgets(pc[t]), ReturnFromClose(t)
  PROVE  Advances(t) /\ pc'[t] = ret[t] /\ ret'[t] = "idle"
BY DEF TypeInv, Control, ReturnFromClose, Advances, Moves, Keeps, Forgets

\* Every step of a thread is one of these, and is of the thread's role.
LEMMA PostRecvActs ==
  ASSUME TypeInv, TypeInv', Roles, NEW t \in Threads, PostRecv(t)
  PROVE  Advances(t) /\ Undisturbed(t) /\ HandsOver(t) /\ Works(t) /\ t # GameThread /\ Roles'
<1> USE LabelsOK DEF PostRecvCheck, PostRecvClaim, PostRecvCount, PostRecvCall,
        PostRecvRelease, PostRecvUncount
<1> DEFINE L == {"pr_claim", "pr_count", "pr_call", "pr_release", "pr_uncount"}
<1>1. ~Forgets(pc[t])
  BY DEF PostRecv, Forgets
<1>2. L \subseteq Labels
  BY DEF Labels, PostRecvLabels
<1>3. Undisturbed(t)
  BY DEF PostRecv, Undisturbed, KernelTypes, ObjectTypes, TypeInv
<1>4. PICK l \in L \cup {AfterRecv(t)} : Goto(t, l) \/ CallRequestClose(t, AfterRecv(t))
  BY DEF PostRecv
<1>5. /\ Advances(t)
      /\ \/ pc'[t] = l /\ ret' = ret
         \/ pc'[t] = "rc_claim" /\ ret'[t] = AfterRecv(t)
  BY <1>1, <1>2, <1>4, GotoAdvances, CallAdvances
<1>6. Works(t)
  BY <1>4, <1>5 DEF PostRecv, Works, AfterRecv, Past, CloseLabels, AcceptLabels, GameLabels
<1>7. pc[t] \in PostRecvLabels
  BY DEF PostRecv, PostRecvLabels
<1>8. t # GameThread
  BY <1>7 DEF Roles, PostRecvLabels, GameLabels, SendLabels, CloseLabels
<1>9. Roles'
  BY <1>5, <1>8, RolesKept, SessionAssumption
  DEF Advances, Keeps, Threads, PostRecvLabels, AcceptLabels, CloseLabels, GameLabels,
      AfterRecv, Forgets
<1>10. HandsOver(t)
  <2>1. CASE PostRecvCall(t) /\ recvIo' # recvIo
    <3>1. Goto(t, AfterRecv(t)) /\ AfterRecv(t) \in Labels
      BY <2>1
    <3>2. QED
      BY <1>1, <2>1, <3>1, GotoAdvances DEF HandsOver, AfterRecv, Forgets
  <2>2. CASE ~(PostRecvCall(t) /\ recvIo' # recvIo)
    BY <2>2 DEF PostRecv, HandsOver
  <2>3. QED
    BY <2>1, <2>2
<1>11. QED
  BY <1>3, <1>5, <1>6, <1>8, <1>9, <1>10

\* SendPacket is run by a worker that kicks or by the game thread.
LEMMA SendPacketActs ==
  ASSUME TypeInv, TypeInv', Roles, NEW t \in Threads, SendPacket(t)
  PROVE  Advances(t) /\ Undisturbed(t) /\ t # AcceptThread /\ Works(t) /\ Resumes(t) /\ Roles'
<1> USE LabelsOK DEF SendPacketCheck, PostSendCheck, PostSendCount, PostSendCall,
        PostSendUncount
<1> DEFINE L == {"ps_state", "ps_count", "ps_call", "ps_uncount"}
<1>1. ~Forgets(pc[t])
  BY DEF SendPacket, Forgets
<1>2. L \subseteq Labels
  BY DEF Labels, SendLabels
<1>3. Undisturbed(t)
  BY DEF SendPacket, Undisturbed, KernelTypes, ObjectTypes, TypeInv
<1>4. PICK l \in L \cup {AfterSend(t)} : Goto(t, l) \/ CallRequestClose(t, AfterSend(t))
  BY DEF SendPacket
<1>5. /\ Advances(t)
      /\ \/ pc'[t] = l /\ ret' = ret
         \/ pc'[t] = "rc_claim" /\ ret'[t] = AfterSend(t)
  BY <1>1, <1>2, <1>4, GotoAdvances, CallAdvances
<1>6. Works(t)
  BY <1>4, <1>5 DEF SendPacket, Works, AfterSend, Past, CloseLabels, AcceptLabels, GameLabels
<1>7. pc[t] \in SendLabels
  BY DEF SendPacket, SendLabels
<1>8. t # AcceptThread
  BY <1>7 DEF Roles, PostRecvLabels, AcceptLabels, SendLabels, CloseLabels
<1>9. Roles'
  BY <1>5, <1>8, RolesKept, SessionAssumption
  DEF Advances, Keeps, Threads, SendLabels, AcceptLabels, CloseLabels, GameLabels,
      AfterSend, Forgets
<1>10. Resumes(t)
  BY <1>5, <1>7 DEF Resumes, SendLabels, CloseLabels, AfterSend
<1>11. QED
  BY <1>3, <1>5, <1>6, <1>8, <1>9, <1>10

\* OnRecvComplete is the workers', and pushes the Packet jobs.
LEMMA ReceiveActs ==
  ASSUME TypeInv, TypeInv', Roles, NEW t \in Threads, OnRecvComplete(t)
  PROVE  Advances(t) /\ Undisturbed(t) /\ t # AcceptThread /\ (Works(t) \/ Delivers(t)) /\ t # GameThread /\ Roles'
<1> USE LabelsOK DEF RecvCompleteFlag, RecvCompleteCount, RecvCompleteCheck, ParseDone,
        ParseFail, ParsePacket, EnqueuePacketJob, Kick
<1> DEFINE L == {"rx_count", "rx_state", "rx_parse", "rx_push", "pr_state", "sp_state",
                 "td_state"}
<1>1. ~Forgets(pc[t])
  BY DEF OnRecvComplete, Forgets
<1>2. L \subseteq Labels /\ {"td_state", "rx_parse"} \subseteq ReturnLabels
  BY DEF Labels, ReceiveLabels, PostRecvLabels, SendLabels, DestroyLabels, ReturnLabels
<1>3. Undisturbed(t)
  BY DEF OnRecvComplete, Undisturbed, KernelTypes, ObjectTypes, TypeInv
<1>4. PICK l \in L : \/ Goto(t, l)
                     \/ l \in {"td_state", "rx_parse"} /\ CallRequestClose(t, l)
  BY DEF OnRecvComplete
<1>5. /\ Advances(t)
      /\ \/ pc'[t] = l /\ ret' = ret
         \/ pc'[t] = "rc_claim" /\ ret'[t] = l /\ l \in {"td_state", "rx_parse"}
  BY <1>1, <1>2, <1>4, GotoAdvances, CallAdvances
<1>6. Works(t) \/ Delivers(t)
  <2>1. CASE EnqueuePacketJob(t)
    BY <1>1, <1>2, <2>1, GotoAdvances DEF Delivers
  <2>2. CASE ~EnqueuePacketJob(t)
    BY <1>4, <1>5, <2>2 DEF OnRecvComplete, Works, Past, CloseLabels, AcceptLabels, GameLabels
  <2>3. QED
    BY <2>1, <2>2
<1>7. pc[t] \in ReceiveLabels
  BY DEF OnRecvComplete, ReceiveLabels
<1>8. t # AcceptThread /\ t # GameThread
  BY <1>7 DEF Roles, PostRecvLabels, AcceptLabels, SendLabels, CloseLabels, ReceiveLabels,
              GameLabels
<1>9. Roles'
  BY <1>5, <1>8, RolesKept, SessionAssumption
  DEF Advances, Keeps, Threads, AcceptLabels, CloseLabels, GameLabels, Forgets
<1>10. QED
  BY <1>3, <1>5, <1>6, <1>9, <1>8

\* TryDestroySession and the send completion are the workers' too.
LEMMA DestroyActs ==
  ASSUME TypeInv, TypeInv', Roles, NEW t \in Threads, TryDestroySession(t) \/ OnSendComplete(t)
  PROVE  Advances(t) /\ Undisturbed(t) /\ t # AcceptThread /\ Works(t) /\ t # GameThread /\ Roles'
<1> USE LabelsOK DEF DestroyCheckState, DestroyCheckCleanup, DestroyCheckIO,
        TryBeginDestroy, RemoveSession, DeleteSession, OnSendComplete, AfterSendComplete
<1> DEFINE L == {"idle", "td_state", "td_clean", "td_count", "td_claim", "td_remove",
                 "td_delete"}
<1>1. ~Forgets(pc[t])
  BY DEF TryDestroySession, Forgets
<1>2. L \subseteq Labels
  BY DEF Labels, DestroyLabels
<1>3. Undisturbed(t)
  BY DEF TryDestroySession, Undisturbed, KernelTypes, ObjectTypes, TypeInv
<1>4. PICK l \in L : Goto(t, l) \/ CallRequestClose(t, "td_state")
  BY DEF TryDestroySession
<1>5. /\ Advances(t)
      /\ \/ pc'[t] = l /\ ret' = ret
         \/ pc'[t] = "rc_claim" /\ ret'[t] = "td_state"
  BY <1>1, <1>2, <1>4, GotoAdvances, CallAdvances
<1>6. Works(t)
  BY <1>4, <1>5 DEF TryDestroySession, Works, Past, CloseLabels, AcceptLabels, GameLabels
<1>7. pc[t] \in DestroyLabels \cup {"tx_count"}
  BY DEF TryDestroySession, DestroyLabels
<1>8. t # AcceptThread /\ t # GameThread
  BY <1>7 DEF Roles, PostRecvLabels, AcceptLabels, SendLabels, CloseLabels, DestroyLabels,
              GameLabels
<1>9. Roles'
  BY <1>5, <1>8, RolesKept, SessionAssumption
  DEF Advances, Keeps, Threads, AcceptLabels, CloseLabels, GameLabels, Forgets
<1>10. QED
  BY <1>3, <1>5, <1>6, <1>9, <1>8

\* RequestClose claims, closes and reports, in whatever thread calls it.
LEMMA RequestCloseActs ==
  ASSUME TypeInv, TypeInv', Roles, NEW t \in Threads, RequestClose(t)
  PROVE  /\ Advances(t) /\ Undisturbed(t) /\ HandsOver(t) /\ Resumes(t) /\ Roles'
         /\ Works(t) \/ Claims(t) \/ Closes(t) \/ Reports(t)
<1> USE LabelsOK DEF RequestCloseClaim, CloseSocket, CloseDone, EnqueueDisconnectJob,
        MayClose
<1>1. ~Forgets(pc[t]) /\ pc[t] \in CloseLabels
  BY DEF RequestClose, Forgets, CloseLabels
<1>2. {"rc_close", "rc_closed", "rc_job"} \subseteq Labels
  BY DEF Labels, CloseLabels
<1>3. Undisturbed(t)
  BY DEF RequestClose, Undisturbed
<1>4. PICK l \in {"rc_close", "rc_closed", "rc_job"} : Goto(t, l) \/ ReturnFromClose(t)
  BY DEF RequestClose
<1>5. /\ Advances(t)
      /\ \/ pc'[t] = l /\ ret' = ret
         \/ pc'[t] = ret[t] /\ ret'[t] = "idle"
  BY <1>1, <1>2, <1>4, GotoAdvances, ReturnAdvances
<1>6. ret[t] \in ReturnLabels
  BY DEF TypeInv, Control
<1>7. Works(t) \/ Claims(t) \/ Closes(t) \/ Reports(t)
  <2>1. CASE RequestCloseClaim(t)
    BY <1>1, <1>2, <1>6, <2>1, GotoAdvances, ReturnAdvances
    DEF Works, Claims, Past, CloseLabels, ReturnLabels, AcceptLabels, GameLabels
  <2>2. CASE CloseSocket(t)
    BY <1>1, <1>2, <2>2, GotoAdvances DEF Works, Past, CloseLabels, AcceptLabels, GameLabels
  <2>3. CASE CloseDone(t)
    BY <1>1, <1>2, <2>3, GotoAdvances DEF Closes
  <2>4. CASE EnqueueDisconnectJob(t)
    BY <1>1, <2>4, ReturnAdvances DEF Reports
  <2>5. QED
    BY <2>1, <2>2, <2>3, <2>4 DEF RequestClose
<1>8. Roles'
  <2>1. t = GameThread => ret[t] \in {"idle", "g_loop"}
    BY <1>1 DEF Roles
  <2>2. t = AcceptThread => ret[t] = "idle"
    BY <1>1 DEF Roles
  <2>3. t \in Workers => ret[t] \in {"rx_parse", "kick", "td_state"}
    BY <1>1 DEF Roles
  <2>4. QED
    BY <1>5, <2>1, <2>2, <2>3, RolesKept, SessionAssumption
    DEF Advances, Keeps, Threads, AcceptLabels, CloseLabels, GameLabels, Forgets
<1>9. Resumes(t)
  BY <1>1, <1>5, <1>6 DEF Resumes, CloseLabels, ReturnLabels
<1>10. HandsOver(t)
  BY DEF RequestClose, HandsOver
<1>11. QED
  BY <1>3, <1>5, <1>7, <1>8, <1>9, <1>10

\* The accept thread announces the session.
LEMMA ConnectActs ==
  ASSUME TypeInv, TypeInv', Roles, NEW t \in Threads, EnqueueConnectJob(t)
  PROVE  Advances(t) /\ Undisturbed(t) /\ HandsOver(t) /\ Announces(t) /\ t # GameThread /\ Roles'
<1> USE DEF EnqueueConnectJob
<1>1. ~Forgets(pc[t]) /\ "pr_state" \in Labels
  BY DEF Forgets, Labels, PostRecvLabels
<1>2. Advances(t) /\ pc'[t] = "pr_state" /\ ret' = ret
  BY <1>1, GotoAdvances
<1>3. Undisturbed(t) /\ Announces(t) /\ HandsOver(t)
  BY <1>2 DEF Undisturbed, Announces, HandsOver
<1>4. t # GameThread
  BY DEF Roles, GameLabels, SendLabels, CloseLabels
<1>5. Roles'
  BY <1>2, <1>4, RolesKept, SessionAssumption
  DEF Advances, Keeps, Threads, AcceptLabels, CloseLabels, GameLabels, Forgets,
      PostRecvLabels
<1>6. QED
  BY <1>2, <1>3, <1>5, <1>4

\* Together: what any step of a thread does.
LEMMA ThreadActs ==
  ASSUME TypeInv, TypeInv', Roles, NEW t \in Threads, ThreadStep(t)
  PROVE  Advances(t) /\ Undisturbed(t) /\ Acts(t) /\ Resumes(t) /\ HandsOver(t) /\ Roles'
BY ConnectActs, PostRecvActs, SendPacketActs, RequestCloseActs, ReceiveActs, DestroyActs
   DEF ThreadStep, Acts, Resumes, HandsOver

-----------------------------------------------------------------------------
(* Those steps keep the invariant.                                         *)

\* A push adds one job, at the end of the queue.
LEMMA PushJobs ==
  ASSUME TypeInv, NEW type, NEW s \in Sessions, Push(type, s)
  PROVE  /\ Len(jobQueue) \in Nat /\ Len(jobQueue') = Len(jobQueue) + 1
         /\ \A i \in 1 .. Len(jobQueue) : jobQueue'[i] = jobQueue[i]
         /\ jobQueue'[Len(jobQueue) + 1] = [type |-> type, session |-> s]
         /\ Connecting' = IF type = "Connect" THEN Connecting \cup {s} ELSE Connecting
         /\ Sending' = IF type = "Packet" THEN Sending \cup {s} ELSE Sending
         /\ Reported' = IF type = "Disconnect" THEN Reported \cup {s} ELSE Reported
<1>1. /\ Len(jobQueue) \in Nat /\ Len(jobQueue') = Len(jobQueue) + 1
      /\ \A i \in 1 .. Len(jobQueue) : jobQueue'[i] = jobQueue[i]
      /\ jobQueue'[Len(jobQueue) + 1] = [type |-> type, session |-> s]
  BY DEF TypeInv, GameTypes, Push
<1>2. \A i : i \in 1 .. Len(jobQueue') <=> i \in 1 .. Len(jobQueue) \/ i = Len(jobQueue) + 1
  BY <1>1
<1>3. ASSUME NEW ty, NEW x \in Sessions
      PROVE  (\E i \in 1 .. Len(jobQueue') :
                jobQueue'[i].type = ty /\ jobQueue'[i].session = x)
             <=> \/ \E i \in 1 .. Len(jobQueue) :
                      jobQueue[i].type = ty /\ jobQueue[i].session = x
                 \/ ty = type /\ x = s
  BY <1>1, <1>2
<1>4. QED
  BY <1>1, <1>3 DEF Connecting, Sending, Reported, SessionsOf

\* What thread t leaves alone in any step of its own.
LEMMA Others ==
  ASSUME TypeInv, NEW t \in Threads, Advances(t)
  PROVE  /\ \A u \in Threads : u # t => /\ pc'[u] = pc[u] /\ cur'[u] = cur[u]
                                        /\ ret'[u] = ret[u]
         /\ cur'[t] = IF Forgets(pc'[t]) THEN NoSession ELSE cur[t]
         /\ cur[t] \in Sessions
         /\ ~Forgets(pc[t])
BY DEF Advances, Moves, Keeps, TypeInv, Control

\* The game thread's task.
LEMMA ThreadTasked ==
  ASSUME TypeInv, TypeInv', Roles, Tasked, NEW t \in Threads,
         Advances(t), Undisturbed(t), Acts(t), Resumes(t)
  PROVE  Tasked'
<1>1. GameThread \in Threads
  BY DEF Threads
<1>2. CASE t # GameThread
  BY <1>1, <1>2, Others DEF Tasked, Undisturbed
<1>3. CASE t = GameThread
  <2>1. pc[t] \in SendLabels \cup CloseLabels /\ cur[t] \in players
    BY <1>3 DEF Resumes, Tasked
  <2>2. pc'[t] \notin {"gm_mark", "gm_post"} /\ pc[t] \notin {"gm_mark", "gm_post"}
    BY <1>3, <2>1
    DEF Acts, Claims, Closes, Reports, Announces, Delivers, Works, TypeInv, Control,
        ReturnLabels, SendLabels, CloseLabels
  <2>3. ~Forgets(pc'[t]) => cur'[t] = cur[t]
    BY Others
  <2>4. pc'[t] \in SendLabels \cup CloseLabels => cur'[t] \in players
    BY <2>1, <2>3 DEF SendLabels, CloseLabels, Forgets
  <2>5. QED
    BY <1>3, <2>1, <2>2, <2>4 DEF Tasked, Undisturbed, Resumes
<1>4. QED
  BY <1>2, <1>3

\* The report.
LEMMA ThreadOnce ==
  ASSUME TypeInv, TypeInv', Once, NEW t \in Threads,
         Advances(t), Undisturbed(t), Acts(t)
  PROVE  Once'
<1> USE DEF Once
<1>1. /\ \A u \in Threads : u # t => pc'[u] = pc[u] /\ cur'[u] = cur[u]
      /\ pc'[t] \in Past => cur'[t] = cur[t]
      /\ cur[t] \in Sessions
  BY Others DEF Past, CloseLabels, Forgets
<1>2. Gone' = Gone
  BY DEF Undisturbed, Disconnected, Gone
<1>3. ASSUME UNCHANGED jobQueue PROVE Reported' = Reported /\ ReportsDiffer'
  BY <1>3 DEF Reported, SessionsOf, ReportsDiffer
<1>4. Reported \subseteq Sessions /\ Gone \subseteq Sessions
  BY DEF Reported, SessionsOf, Gone
<1>5. CASE Works(t)
  BY <1>1, <1>2, <1>3, <1>5 DEF Works
<1>6. CASE Claims(t)
  <2>1. /\ \A s \in Sessions : s # cur[t] => state'[s] = state[s]
        /\ state'[cur[t]] # "Connected"
    BY <1>1, <1>6 DEF Claims, TypeInv, ObjectTypes
  <2>2. pc[t] \notin Past /\ state[cur[t]] = "Connected"
    BY <1>6 DEF Claims, Past
  <2>3. QED
    BY <1>1, <1>2, <1>3, <1>4, <1>6, <2>1, <2>2 DEF Claims
<1>7. CASE Closes(t)
  <2>1. /\ \A s \in Sessions : s # cur[t] => state'[s] = state[s]
        /\ state'[cur[t]] # "Connected"
    BY <1>1, <1>7 DEF Closes, TypeInv, ObjectTypes
  <2>2. pc[t] \in Past
    BY <1>7 DEF Closes, Past, CloseLabels
  <2>3. QED
    BY <1>1, <1>2, <1>3, <1>4, <1>7, <2>1, <2>2 DEF Closes
<1>8. CASE Reports(t)
  <2>1. pc[t] \in Past /\ pc'[t] \notin Past /\ state' = state
    BY <1>8 DEF Reports, Past, CloseLabels, TypeInv, Control, ReturnLabels
  <2>2. Push("Disconnect", cur[t])
    BY <1>8 DEF Reports
  <2>3. Reported' = Reported \cup {cur[t]}
    BY <1>1, <2>2, PushJobs
  <2>4. ReportsDiffer'
    <3>1. \A i \in 1 .. Len(jobQueue) :
            jobQueue[i].type = "Disconnect" => jobQueue[i].session # cur[t]
      BY <1>1, <2>1 DEF Reported, SessionsOf
    <3>2. /\ Len(jobQueue') = Len(jobQueue) + 1 /\ Len(jobQueue) \in Nat
          /\ \A i \in 1 .. Len(jobQueue) : jobQueue'[i] = jobQueue[i]
          /\ jobQueue'[Len(jobQueue) + 1].session = cur[t]
      BY <1>1, <2>2 DEF TypeInv, GameTypes, Push
    <3>3. QED
      BY <3>1, <3>2 DEF ReportsDiffer
  <2>5. \A u \in Threads : pc'[u] \in Past => cur'[u] # cur[t]
    BY <1>1, <2>1
  <2>6. QED
    BY <1>1, <1>2, <2>1, <2>3, <2>4, <2>5
<1>9. CASE Announces(t) \/ Delivers(t)
  <2>1. PICK type \in {"Connect", "Packet"} : Push(type, cur[t])
    BY <1>9 DEF Announces, Delivers
  <2>2. pc'[t] \notin Past /\ state' = state
    BY <1>9 DEF Announces, Delivers, Past, CloseLabels
  <2>3. Reported' = Reported
    BY <1>1, <2>1, PushJobs
  <2>4. ReportsDiffer'
    <3>1. /\ Len(jobQueue') = Len(jobQueue) + 1 /\ Len(jobQueue) \in Nat
          /\ \A i \in 1 .. Len(jobQueue) : jobQueue'[i] = jobQueue[i]
          /\ jobQueue'[Len(jobQueue) + 1].type # "Disconnect"
      BY <1>1, <2>1 DEF TypeInv, GameTypes, Push
    <3>2. QED
      BY <3>1 DEF ReportsDiffer
  <2>5. QED
    BY <1>1, <1>2, <2>2, <2>3, <2>4
<1>10. QED
  BY <1>5, <1>6, <1>7, <1>8, <1>9 DEF Acts

\* Every job is of one of the three types.
LEMMA JobSessions ==
  ASSUME TypeInv
  PROVE  \A i \in 1 .. Len(jobQueue) :
           jobQueue[i].session \in Connecting \cup Sending \cup Reported
<1>1. SUFFICES ASSUME NEW i \in 1 .. Len(jobQueue)
               PROVE  jobQueue[i].session \in Connecting \cup Sending \cup Reported
  OBVIOUS
<1>2. jobQueue[i] \in Jobs
  BY DEF TypeInv, GameTypes
<1>3. jobQueue[i].type \in JobTypes /\ jobQueue[i].session \in Sessions
  BY <1>2 DEF Jobs
<1>4. QED
  BY <1>3 DEF JobTypes, Connecting, Sending, Reported, SessionsOf

\* A step that leaves the queue alone leaves the sets of its sessions alone.
LEMMA SameJobs ==
  ASSUME UNCHANGED jobQueue
  PROVE  /\ UNCHANGED <<Connecting, Sending, Reported>>
         /\ ReportsDiffer => ReportsDiffer'
         /\ ConnectFirst => ConnectFirst'
BY DEF Connecting, Sending, Reported, SessionsOf, ReportsDiffer, ConnectFirst

\* A push keeps the Connect job ahead of the others of its session.
LEMMA PushOrdered ==
  ASSUME TypeInv, ConnectFirst, NEW type, NEW s \in Sessions, Push(type, s),
         type = "Connect" => s \notin Connecting \cup Sending \cup Reported
  PROVE  ConnectFirst'
<1>1. /\ Len(jobQueue) \in Nat /\ Len(jobQueue') = Len(jobQueue) + 1
      /\ \A i \in 1 .. Len(jobQueue) : jobQueue'[i] = jobQueue[i]
      /\ jobQueue'[Len(jobQueue) + 1].type = type
      /\ jobQueue'[Len(jobQueue) + 1].session = s
  BY DEF TypeInv, GameTypes, Push
<1>2. type = "Connect" => \A i \in 1 .. Len(jobQueue) : jobQueue[i].session # s
  BY JobSessions
<1>3. QED
  BY <1>1, <1>2 DEF ConnectFirst

\* The order of the jobs.
LEMMA ThreadOrdered ==
  ASSUME TypeInv, TypeInv', Roles, Ordered, Sole, NEW t \in Threads,
         Advances(t), Undisturbed(t), Acts(t)
  PROVE  Ordered'
<1> USE DEF Ordered
<1>1. /\ \A u \in Threads : u # t => pc'[u] = pc[u] /\ cur'[u] = cur[u]
      /\ ~Forgets(pc'[t]) => cur'[t] = cur[t]
      /\ cur[t] \in Sessions
      /\ ~Forgets(pc[t])
  BY Others
<1>2. Gone' = Gone /\ players' = players
  BY DEF Undisturbed, Disconnected, Gone
<1>3. CASE Announces(t)
  <2>1. t = AcceptThread
    BY <1>3, SessionAssumption
    DEF Announces, Roles, Threads, AcceptLabels, GameLabels, SendLabels, CloseLabels
  <2>2. cur[t] \notin Announced
    BY <1>1, <1>3, <2>1 DEF Announces, Sole
  <2>3. cur[t] \notin Connecting \cup Sending \cup Reported
    BY <2>2 DEF Announced
  <2>4. /\ Connecting' = Connecting \cup {cur[t]}
        /\ Sending' = Sending /\ Reported' = Reported
    BY <1>1, <1>3, PushJobs DEF Announces
  <2>5. ConnectFirst'
    BY <1>1, <1>3, <2>3, PushOrdered DEF Announces
  <2>6. Announced' = Announced \cup {cur[t]}
    BY <1>2, <2>4 DEF Announced
  <2>7. \A s \in Connecting' : s \notin players' \cup Gone'
    BY <1>2, <2>2, <2>4 DEF Announced
  <2>8. \A s \in Sessions :
          recvIo'[s] > 0 \/ sendIo'[s] > 0 \/ cleanupMsgs'[s] > 0 => s \in Announced'
    BY <2>6 DEF Undisturbed
  <2>9. QED
    BY <1>1, <1>2, <1>3, <2>4, <2>5, <2>6, <2>7, <2>8 DEF Announces
<1>4. CASE ~Announces(t)
  <2>1. pc[t] # "ac_job" /\ pc'[t] # "ac_job" /\ cur[t] \in Announced
    BY <1>1, <1>4
    DEF Acts, Claims, Closes, Reports, Delivers, Works, AcceptLabels, TypeInv, Control,
        ReturnLabels
  <2>2. /\ Connecting' = Connecting
        /\ Sending' \cup Reported' \subseteq Sending \cup Reported \cup {cur[t]}
        /\ ConnectFirst'
    <3>1. CASE UNCHANGED jobQueue
      BY <3>1, SameJobs
    <3>2. CASE Reports(t)
      BY <1>1, <3>2, PushJobs, PushOrdered DEF Reports
    <3>3. CASE Delivers(t)
      BY <1>1, <3>3, PushJobs, PushOrdered DEF Delivers
    <3>4. QED
      BY <1>4, <3>1, <3>2, <3>3 DEF Acts, Claims, Closes, Works
  <2>3. Announced' = Announced
    BY <1>2, <2>2 DEF Announced
  <2>4. \A s \in Sessions :
          recvIo'[s] > 0 \/ sendIo'[s] > 0 \/ cleanupMsgs'[s] > 0 => s \in Announced'
    BY <2>1, <2>3 DEF Undisturbed
  <2>5. QED
    BY <1>1, <1>2, <2>1, <2>2, <2>3, <2>4
<1>5. QED
  BY <1>3, <1>4

\* The session of the accept thread.
LEMMA ThreadSole ==
  ASSUME TypeInv, TypeInv', Roles, Roles', Ordered, Sole, NEW t \in Threads,
         Advances(t), Undisturbed(t), Acts(t), HandsOver(t)
  PROVE  Sole'
<1> SUFFICES ASSUME NEW s \in Sessions, cur'[AcceptThread] = s
             PROVE  /\ pc'[AcceptThread] \notin Past => state'[s] = "Connected"
                    /\ pc'[AcceptThread] = "ac_job" => s \notin Announced'
                    /\ \A u \in Threads : cur'[u] = s => u = AcceptThread
                    /\ recvIo'[s] = 0 /\ sendIo'[s] = 0 /\ cleanupMsgs'[s] = 0
                    /\ s \notin todo' \cup inRoom' \cup Sending' \cup Reported'
                    /\ subject' # s
  BY DEF Sole
<1> DEFINE A == AcceptThread
<1>1. /\ \A u \in Threads : u # t => pc'[u] = pc[u] /\ cur'[u] = cur[u]
      /\ cur'[t] = IF Forgets(pc'[t]) THEN NoSession ELSE cur[t]
      /\ cur[t] \in Sessions
      /\ A \in Threads
  BY Others DEF Threads
<1>2. cur[A] = s
  BY <1>1, SessionAssumption
<1>3. /\ pc[A] \notin Past => state[s] = "Connected"
      /\ pc[A] = "ac_job" => s \notin Announced
      /\ \A u \in Threads : cur[u] = s => u = A
      /\ recvIo[s] = 0 /\ sendIo[s] = 0 /\ cleanupMsgs[s] = 0
      /\ s \notin todo \cup inRoom \cup Sending \cup Reported
      /\ subject # s
  BY <1>2 DEF Sole
<1>4. \A u \in Threads : cur'[u] = s => u = A
  BY <1>1, <1>3, SessionAssumption
<1>5. s \notin todo' \cup inRoom' /\ subject' # s /\ cleanupMsgs'[s] = 0
  BY <1>3 DEF Undisturbed
<1>6. CASE t # A
  <2>1. cur[t] # s /\ pc'[A] = pc[A]
    BY <1>1, <1>3, <1>6
  <2>2. recvIo'[s] = 0 /\ sendIo'[s] = 0
    BY <1>3, <2>1 DEF Undisturbed
  <2>3. state'[s] = state[s]
    BY <1>1, <2>1
    DEF Acts, Claims, Closes, Reports, Announces, Delivers, Works, TypeInv, ObjectTypes
  <2>4. s \notin Sending' \cup Reported' /\ Connecting' \subseteq Connecting \cup {cur[t]}
    <3>1. CASE UNCHANGED jobQueue
      BY <1>3, <3>1, SameJobs
    <3>2. CASE ~UNCHANGED jobQueue
      <4>1. PICK type \in JobTypes : Push(type, cur[t])
        BY <3>2 DEF Acts, Claims, Closes, Reports, Announces, Delivers, Works, JobTypes
      <4>2. /\ Sending' \subseteq Sending \cup {cur[t]}
            /\ Reported' \subseteq Reported \cup {cur[t]}
            /\ Connecting' \subseteq Connecting \cup {cur[t]}
        BY <1>1, <4>1, PushJobs
      <4>3. QED
        BY <1>3, <2>1, <4>2
    <3>3. QED
      BY <3>1, <3>2
  <2>5. pc'[A] = "ac_job" => s \notin Announced'
    BY <1>3, <2>1, <2>4 DEF Announced, Undisturbed, Gone, Disconnected
  <2>6. QED
    BY <1>3, <1>4, <1>5, <2>1, <2>2, <2>3, <2>4, <2>5
<1>7. CASE t = A
  <2>1. ~Forgets(pc'[A])
    BY <1>1, <1>7, SessionAssumption
  <2>2. recvIo'[s] = 0 /\ sendIo'[s] = 0
    BY <1>3, <1>7, <2>1 DEF HandsOver
  <2>3. ~Reports(t) /\ ~Delivers(t)
    BY <1>7, <2>1
    DEF Reports, Delivers, Roles, Forgets, CloseLabels, AcceptLabels, PostRecvLabels
  <2>4. pc'[A] # "ac_job"
    BY <1>7, <2>3 DEF Acts, Claims, Closes, Announces, Works, AcceptLabels
  <2>5. Sending' = Sending /\ Reported' = Reported
    <3>1. CASE UNCHANGED jobQueue
      BY <3>1, SameJobs
    <3>2. CASE Announces(t)
      BY <1>1, <3>2, PushJobs DEF Announces
    <3>3. QED
      BY <2>3, <3>1, <3>2 DEF Acts, Claims, Closes, Works
  <2>6. pc'[A] \notin Past => state'[s] = "Connected"
    BY <1>3, <1>7, <2>3
    DEF Acts, Claims, Closes, Announces, Works, Past, CloseLabels
  <2>7. QED
    BY <1>3, <1>4, <1>5, <2>2, <2>4, <2>5, <2>6
<1>8. QED
  BY <1>6, <1>7

\* Only TryDestroySession comes to its own labels and touches what they are about.
LEMMA OtherFunctions ==
  ASSUME TypeInv, NEW t \in Threads, ThreadStep(t), ~TryDestroySession(t)
  PROVE  /\ pc'[t] \notin {"td_clean", "td_count"} \cup ClaimLabels
         /\ UNCHANGED <<mem, destroying>>
<1> USE DEF ClaimLabels
<1>1. CASE EnqueueConnectJob(t) \/ OnSendComplete(t)
  BY <1>1
  DEF EnqueueConnectJob, OnSendComplete, AfterSendComplete, Goto, CallRequestClose,
      TypeInv, Control
<1>2. CASE PostRecv(t)
  BY <1>2
  DEF PostRecv, PostRecvCheck, PostRecvClaim, PostRecvCount, PostRecvCall,
      PostRecvRelease, PostRecvUncount, AfterRecv, Goto, CallRequestClose, TypeInv, Control
<1>3. CASE SendPacket(t)
  BY <1>3
  DEF SendPacket, SendPacketCheck, PostSendCheck, PostSendCount, PostSendCall,
      PostSendUncount, AfterSend, Goto, CallRequestClose, TypeInv, Control
<1>4. CASE RequestClose(t)
  <2>1. ret[t] \in ReturnLabels
    BY DEF TypeInv, Control
  <2>2. QED
    BY <1>4, <2>1
    DEF RequestClose, RequestCloseClaim, CloseSocket, CloseDone, EnqueueDisconnectJob,
        Goto, ReturnFromClose, ReturnLabels, TypeInv, Control
<1>5. CASE OnRecvComplete(t)
  BY <1>5
  DEF OnRecvComplete, RecvCompleteFlag, RecvCompleteCount, RecvCompleteCheck, ParseDone,
      ParseFail, ParsePacket, EnqueuePacketJob, Kick, Goto, CallRequestClose, TypeInv,
      Control
<1>6. QED
  BY <1>1, <1>2, <1>3, <1>4, <1>5 DEF ThreadStep

\* The memory of the sessions.
LEMMA ThreadRetired ==
  ASSUME TypeInv, Born, Retired, NEW t \in Threads, ThreadStep(t),
         Advances(t), Undisturbed(t), Acts(t)
  PROVE  Retired'
<1> DEFINE R == {"td_count"} \cup ClaimLabels
<1> USE DEF ClaimLabels
<1>1. /\ \A u \in Threads : u # t => pc'[u] = pc[u] /\ cur'[u] = cur[u]
      /\ ~Forgets(pc'[t]) => cur'[t] = cur[t]
      /\ cur[t] \in Sessions
      /\ ~Forgets(pc[t])
      /\ ret[t] \in ReturnLabels
  BY Others DEF TypeInv, Control
<1>2. gameCleanupDone' = gameCleanupDone
  BY DEF Undisturbed
<1>3. pc'[t] \in R => pc[t] \in R \/ gameCleanupDone[cur[t]]
  <2>1. CASE TryDestroySession(t)
    BY <2>1
    DEF TryDestroySession, DestroyCheckState, DestroyCheckCleanup, DestroyCheckIO,
        TryBeginDestroy, RemoveSession, DeleteSession, IsGameCleanupDone, Goto, TypeInv,
        Control
  <2>2. QED
    BY <2>1, OtherFunctions
<1>4. \A s \in Sessions :
        mem'[s] = "freed" => mem[s] = "freed" \/ (s = cur[t] /\ pc[t] = "td_delete")
  <2>1. CASE DeleteSession(t)
    BY <1>1, <2>1 DEF DeleteSession, TypeInv, ObjectTypes
  <2>2. CASE ~DeleteSession(t)
    BY <2>2, OtherFunctions
    DEF TryDestroySession, DestroyCheckState, DestroyCheckCleanup, DestroyCheckIO,
        TryBeginDestroy, RemoveSession
  <2>3. QED
    BY <2>1, <2>2
<1>5. ASSUME NEW s \in Sessions, mem'[s] = "unborn" PROVE state'[s] = "Connected"
  <2>1. mem[s] = "unborn" /\ s # cur[t]
    BY <1>1, <1>5 DEF Undisturbed, Born
  <2>2. state'[s] = state[s]
    BY <1>1, <2>1
    DEF Acts, Claims, Closes, Reports, Announces, Delivers, Works, TypeInv, ObjectTypes
  <2>3. QED
    BY <2>1, <2>2 DEF Retired
<1>6. \A u \in Threads : pc'[u] \in R => gameCleanupDone'[cur'[u]]
  BY <1>1, <1>2, <1>3 DEF Retired, Forgets
<1>7. QED
  BY <1>2, <1>4, <1>5, <1>6 DEF Retired

\* The steps of a thread keep the invariant.
LEMMA ThreadKeepsJobs ==
  ASSUME IInv, TypeInv', JInv, NEW t \in Threads, ThreadStep(t)
  PROVE  JInv'
BY ThreadActs, ThreadTasked, ThreadOnce, ThreadOrdered, ThreadSole, ThreadRetired
   DEF IInv, JInv

-----------------------------------------------------------------------------
(* Taking up a session: the accept thread a new one, a worker a completion.*)

\* Nobody knows a session that was not created.
LEMMA UnbornUnknown ==
  ASSUME IInv, Roles, Tasked, NEW s \in Sessions, mem[s] = "unborn"
  PROVE  /\ \A t \in Threads : cur[t] # s
         /\ s \notin Announced \cup Sending \cup Reported \cup todo \cup inRoom
         /\ subject # s
         /\ recvIo[s] = 0 /\ sendIo[s] = 0 /\ cleanupMsgs[s] = 0
<1> USE DEF IInv
<1>1. \A t \in Threads : cur[t] # s
  BY SessionAssumption DEF Roles, Born
<1>2. s \notin Connecting \cup Sending \cup Reported
  BY DEF Born, Connecting, Sending, Reported, SessionsOf
<1>3. subject # s
  BY SessionAssumption DEF Born, Tasked
<1>4. s \notin Gone
  BY <1>3 DEF ClosedBefore, Shut, Gone, Disconnected
<1>5. s \notin players \cup todo \cup inRoom
  BY DEF Born, TypeInv, GameTypes
<1>6. recvIo[s] = 0 /\ sendIo[s] = 0 /\ cleanupMsgs[s] = 0
  BY DEF NothingHeld, Born, TypeInv, KernelTypes
<1>7. QED
  BY <1>1, <1>2, <1>3, <1>4, <1>5, <1>6 DEF Announced

\* Accepting a client keeps the invariant.
LEMMA AcceptKeepsJobs ==
  ASSUME IInv, TypeInv', JInv, NEW s \in Sessions, AcceptClient(s)
  PROVE  JInv'
<1> USE DEF IInv, JInv
<1> DEFINE A == AcceptThread
<1>1. A \in Threads /\ GameThread \in Threads /\ A # GameThread /\ A \notin Workers
  BY SessionAssumption DEF Threads
<1>2. /\ \A u \in Threads : u # A => pc'[u] = pc[u] /\ cur'[u] = cur[u]
      /\ pc[A] = "idle" /\ pc'[A] = "ac_job" /\ cur'[A] = s
      /\ ret' = ret
      /\ Moves(A, "ac_job", s)
  BY <1>1 DEF AcceptClient, Start, TypeInv, Control, Moves
<1>3. /\ mem[s] = "unborn" /\ mem'[s] = "live"
      /\ \A x \in Sessions : x # s => mem'[x] = mem[x]
      /\ UNCHANGED <<state, gameCleanupDone, kernelVars, gameVars>>
  BY DEF AcceptClient, TypeInv, ObjectTypes
<1>4. /\ \A t \in Threads : cur[t] # s
      /\ s \notin Announced \cup Sending \cup Reported \cup todo \cup inRoom
      /\ subject # s
      /\ recvIo[s] = 0 /\ sendIo[s] = 0 /\ cleanupMsgs[s] = 0
  BY <1>3, UnbornUnknown
<1>5. Gone' = Gone /\ Announced' = Announced
  BY <1>3, SameJobs DEF Gone, Disconnected, Announced
<1>6. Connecting' = Connecting /\ Sending' = Sending /\ Reported' = Reported
  BY <1>3, SameJobs
<1>7. Roles'
  BY <1>1, <1>2, RolesKept DEF Forgets, AcceptLabels, CloseLabels
<1>8. Tasked'
  BY <1>1, <1>2, <1>3 DEF Tasked
<1>9. Once'
  <2>1. ReportsDiffer' /\ "ac_job" \notin Past
    BY <1>3, SameJobs DEF Once, Past, CloseLabels
  <2>2. QED
    BY <1>2, <1>3, <1>5, <1>6, <2>1 DEF Once
<1>10. Ordered'
  <2>1. ConnectFirst'
    BY <1>3, SameJobs DEF Ordered
  <2>2. QED
    BY <1>2, <1>3, <1>5, <1>6, <2>1 DEF Ordered
<1>11. Sole'
  BY <1>2, <1>3, <1>4, <1>5, <1>6 DEF Sole, Retired
<1>12. Retired'
  BY <1>2, <1>3 DEF Retired, ClaimLabels
<1>13. QED
  BY <1>7, <1>8, <1>9, <1>10, <1>11, <1>12

\* A worker that takes up a completion keeps the invariant.
LEMMA TakeKeepsJobs ==
  ASSUME IInv, TypeInv', JInv, NEW w \in Workers, NEW s \in Sessions,
         TakeRecv(w, s) \/ TakeSend(w, s) \/ TakeCleanup(w, s)
  PROVE  JInv'
<1> USE DEF IInv, JInv, TakeRecv, TakeSend, TakeCleanup
<1>1. /\ w \in Threads /\ w # GameThread /\ w # AcceptThread
      /\ GameThread \in Threads /\ AcceptThread \in Threads
  BY SessionAssumption DEF Threads
<1>2. PICK l \in {"rx_flag", "tx_count", "td_state"} : Start(w, l, s)
  OBVIOUS
<1>3. /\ \A u \in Threads : u # w => pc'[u] = pc[u] /\ cur'[u] = cur[u]
      /\ pc[w] = "idle" /\ pc'[w] = l /\ cur'[w] = s
      /\ ret' = ret
      /\ Moves(w, l, s)
  BY <1>1, <1>2 DEF Start, TypeInv, Control, Moves
<1>4. UNCHANGED <<objVars, gameVars>>
  OBVIOUS
<1>5. /\ recvIo[s] > 0 \/ sendIo[s] > 0 \/ cleanupMsgs[s] > 0
      /\ \A x \in Sessions : /\ recvIo'[x] > 0 => recvIo[x] > 0
                             /\ sendIo'[x] > 0 => sendIo[x] > 0
                             /\ cleanupMsgs'[x] > 0 => cleanupMsgs[x] > 0
                             /\ recvIo[x] = 0 => recvIo'[x] = 0
                             /\ sendIo[x] = 0 => sendIo'[x] = 0
                             /\ cleanupMsgs[x] = 0 => cleanupMsgs'[x] = 0
  BY SessionAssumption DEF TypeInv, KernelTypes
<1>6. s \in Announced /\ cur[AcceptThread] # s
  BY <1>5 DEF Ordered, Sole
<1>7. Gone' = Gone /\ Announced' = Announced
  BY <1>4, SameJobs DEF Gone, Disconnected, Announced
<1>8. Connecting' = Connecting /\ Sending' = Sending /\ Reported' = Reported
  BY <1>4, SameJobs
<1>9. Roles'
  BY <1>1, <1>3, RolesKept DEF Forgets, AcceptLabels, CloseLabels, GameLabels
<1>10. Tasked'
  BY <1>1, <1>3, <1>4 DEF Tasked
<1>11. Once'
  <2>1. ReportsDiffer' /\ l \notin Past
    BY <1>4, SameJobs DEF Once, Past, CloseLabels
  <2>2. QED
    BY <1>3, <1>4, <1>7, <1>8, <2>1 DEF Once
<1>12. Ordered'
  <2>1. ConnectFirst'
    BY <1>4, SameJobs DEF Ordered
  <2>2. QED
    BY <1>3, <1>4, <1>5, <1>6, <1>7, <1>8, <2>1 DEF Ordered
<1>13. Sole'
  BY <1>1, <1>3, <1>4, <1>5, <1>6, <1>7, <1>8 DEF Sole
<1>14. Retired'
  BY <1>3, <1>4 DEF Retired, ClaimLabels
<1>15. QED
  BY <1>9, <1>10, <1>11, <1>12, <1>13, <1>14

-----------------------------------------------------------------------------
(* The game thread's steps keep the invariant.                             *)

\* A pop takes the first job out of the queue.
LEMMA PopJobs ==
  ASSUME TypeInv, jobQueue # <<>>, jobQueue' = Tail(jobQueue),
         NEW type, type = Head(jobQueue).type, NEW s, s = Head(jobQueue).session
  PROVE  /\ s \in Sessions
         /\ s \in SessionsOf(type)
         /\ Connecting' \subseteq Connecting
         /\ Sending' \subseteq Sending
         /\ Reported' \subseteq Reported
         /\ Connecting \subseteq Connecting' \cup (IF type = "Connect" THEN {s} ELSE {})
         /\ ConnectFirst => ConnectFirst' /\ s \notin Connecting'
         /\ ReportsDiffer =>
              ReportsDiffer' /\ (type = "Disconnect" => s \notin Reported')
<1>1. /\ Len(jobQueue) \in Nat /\ Len(jobQueue) > 0
      /\ jobQueue[1].type = type /\ jobQueue[1].session = s
  BY DEF TypeInv, GameTypes
<1>2. /\ Len(jobQueue') = Len(jobQueue) - 1
      /\ \A i \in 1 .. Len(jobQueue') : jobQueue'[i] = jobQueue[i + 1]
      /\ s \in Sessions
  BY HeadTypes DEF TypeInv
<1>3. \A i \in 1 .. Len(jobQueue') : i + 1 \in 1 .. Len(jobQueue)
  BY <1>1, <1>2
<1>4. \A i \in 1 .. Len(jobQueue) : i # 1 => i - 1 \in 1 .. Len(jobQueue')
                                              /\ jobQueue'[i - 1] = jobQueue[i]
  BY <1>1, <1>2
<1>5. 1 \in 1 .. Len(jobQueue)
  BY <1>1
<1>6. s \in SessionsOf(type)
  BY <1>1, <1>2, <1>5 DEF SessionsOf
<1>7. ASSUME NEW ty, NEW x \in Sessions,
             NEW i \in 1 .. Len(jobQueue'), jobQueue'[i].type = ty, jobQueue'[i].session = x
      PROVE  \E j \in 1 .. Len(jobQueue) : jobQueue[j].type = ty /\ jobQueue[j].session = x
  BY <1>2, <1>3, <1>7
<1>8. /\ Connecting' \subseteq Connecting
      /\ Sending' \subseteq Sending
      /\ Reported' \subseteq Reported
  BY <1>7 DEF Connecting, Sending, Reported, SessionsOf
<1>9. ASSUME NEW x \in Connecting, type = "Connect" => x # s PROVE x \in Connecting'
  <2>1. PICK i \in 1 .. Len(jobQueue) :
          jobQueue[i].type = "Connect" /\ jobQueue[i].session = x
    BY DEF Connecting, SessionsOf
  <2>2. i # 1
    BY <1>1, <1>9, <2>1
  <2>3. QED
    BY <1>4, <2>1, <2>2 DEF Connecting, SessionsOf
<1>10. ASSUME ConnectFirst PROVE ConnectFirst' /\ s \notin Connecting'
  <2>1. ConnectFirst'
    BY <1>2, <1>3, <1>10 DEF ConnectFirst
  <2>2. ASSUME NEW i \in 1 .. Len(jobQueue'), jobQueue'[i].type = "Connect"
        PROVE  jobQueue'[i].session # s
    BY <1>1, <1>2, <1>3, <1>5, <1>10, <2>2 DEF ConnectFirst
  <2>3. QED
    BY <2>1, <2>2 DEF Connecting, SessionsOf
<1>11. ASSUME ReportsDiffer
       PROVE  ReportsDiffer' /\ (type = "Disconnect" => s \notin Reported')
  <2>1. ReportsDiffer'
    BY <1>2, <1>3, <1>11 DEF ReportsDiffer
  <2>2. ASSUME type = "Disconnect", NEW i \in 1 .. Len(jobQueue'),
               jobQueue'[i].type = "Disconnect"
        PROVE  jobQueue'[i].session # s
    BY <1>1, <1>2, <1>3, <1>5, <1>11, <2>2 DEF ReportsDiffer
  <2>3. QED
    BY <2>1, <2>2 DEF Reported, SessionsOf
<1>12. QED
  BY <1>2, <1>6, <1>8, <1>9, <1>10, <1>11

\* A step of the game thread keeps all but Tasked if it only takes up sessions
\* that were announced, and only reports of the queue are acted upon.
LEMMA GameMovesJobs ==
  ASSUME IInv, TypeInv', JInv,
         NEW l \in {"idle", "g_loop", "gm_mark", "gm_post", "sp_state", "rc_claim"},
         NEW c, Moves(GameThread, l, c),
         Forgets(l) => c = NoSession,
         ~Forgets(l) => c \in Announced /\ cur[AcceptThread] # c,
         \A u \in Threads : u # GameThread => ret'[u] = ret[u],
         l = "rc_claim" => ret'[GameThread] = "idle",
         UNCHANGED <<mem, state, recvIo, sendIo>>,
         Announced' = Announced,
         Sending' \subseteq Sending, Reported' \subseteq Reported,
         ReportsDiffer', ConnectFirst',
         \A s \in Sessions : gameCleanupDone[s] => gameCleanupDone'[s],
         \A s \in Gone' : s \in Gone \/ (s \in Reported /\ s \notin Reported'),
         \A s \in Connecting' : s \notin players' \cup Gone',
         \A s \in players' : s \notin Gone',
         \A s \in Sessions :
           cleanupMsgs'[s] > 0 => s \in Announced /\ cur[AcceptThread] # s,
         \A s \in Sessions : cur[AcceptThread] = s =>
           s \notin todo' \cup inRoom' /\ subject' # s
  PROVE  Roles' /\ Once' /\ Ordered' /\ Sole' /\ Retired'
<1> USE DEF IInv, JInv
<1> DEFINE G == GameThread
<1>1. /\ G \in Threads /\ AcceptThread \in Threads /\ G # AcceptThread /\ G \notin Workers
  BY SessionAssumption DEF Threads
<1>2. /\ \A u \in Threads : u # G => pc'[u] = pc[u] /\ cur'[u] = cur[u]
      /\ pc'[G] = l /\ cur'[G] = c
  BY <1>1 DEF Moves, TypeInv, Control
<1>3. Roles'
  BY <1>1, RolesKept DEF GameLabels, SendLabels, CloseLabels, Forgets
<1>4. Once'
  <2>1. l \notin Past
    BY DEF Past, CloseLabels
  <2>2. \A t \in Threads : pc'[t] \in Past => t # G /\ pc[t] \in Past
    BY <1>2, <2>1
  <2>3. Reported \subseteq Sessions
    BY DEF Reported, SessionsOf
  <2>4. QED
    BY <1>2, <2>2, <2>3 DEF Once
<1>5. Ordered'
  BY <1>2 DEF Ordered, Forgets
<1>6. Sole'
  <2>1. ASSUME NEW s \in Sessions, cur'[AcceptThread] = s
        PROVE  /\ pc'[AcceptThread] \notin Past => state'[s] = "Connected"
               /\ pc'[AcceptThread] = "ac_job" => s \notin Announced'
               /\ \A t \in Threads : cur'[t] = s => t = AcceptThread
               /\ recvIo'[s] = 0 /\ sendIo'[s] = 0 /\ cleanupMsgs'[s] = 0
               /\ s \notin todo' \cup inRoom' \cup Sending' \cup Reported'
               /\ subject' # s
    <3>1. cur[AcceptThread] = s /\ pc'[AcceptThread] = pc[AcceptThread]
      BY <1>1, <1>2, <2>1
    <3>2. \A t \in Threads : cur'[t] = s => t = AcceptThread
      BY <1>2, <3>1, SessionAssumption DEF Sole
    <3>3. cleanupMsgs'[s] = 0
      BY <3>1 DEF TypeInv, KernelTypes
    <3>4. QED
      BY <3>1, <3>2, <3>3 DEF Sole
  <2>2. QED
    BY <2>1 DEF Sole
<1>7. Retired'
  <2>1. \A t \in Threads : pc'[t] \in {"td_count"} \cup ClaimLabels
                             => t # G /\ cur[t] \in Sessions
    BY <1>2 DEF ClaimLabels, TypeInv, Control, Forgets
  <2>2. QED
    BY <1>2, <2>1 DEF Retired
<1>8. QED
  BY <1>3, <1>4, <1>5, <1>6, <1>7

\* Popping a job keeps the invariant.
LEMMA PopKeepsJobs ==
  ASSUME IInv, TypeInv', JInv, GamePop
  PROVE  JInv'
<1> USE DEF IInv, JInv
<1> DEFINE G == GameThread
           s == Head(jobQueue).session
           type == Head(jobQueue).type
<1>1. /\ pc[G] = "idle" /\ G \in Threads
      /\ jobQueue # <<>> /\ jobQueue' = Tail(jobQueue)
      /\ UNCHANGED <<objVars, kernelVars, ret>>
  BY DEF GamePop, PopConnect, PopPacket, PopDisconnect, NextJob, Goto, Threads
<1>2. task = "none" /\ subject = NoSession /\ cur[G] = NoSession /\ pc[AcceptThread] \in Labels
  BY <1>1 DEF Tasked, Roles, Forgets, TypeInv, Control, Threads
<1>3. /\ s \in Sessions
      /\ s \in SessionsOf(type)
      /\ Connecting' \subseteq Connecting
      /\ Sending' \subseteq Sending
      /\ Reported' \subseteq Reported
      /\ Connecting \subseteq Connecting' \cup (IF type = "Connect" THEN {s} ELSE {})
      /\ ConnectFirst' /\ s \notin Connecting'
      /\ ReportsDiffer' /\ (type = "Disconnect" => s \notin Reported')
  BY <1>1, PopJobs DEF Ordered, Once
<1> HIDE DEF s, type
<1>4. Gone = {x \in Sessions : gameCleanupDone[x]}
  BY <1>2 DEF Gone, Disconnected
<1>5. s # NoSession
  BY <1>3, SessionAssumption
<1>6. \A x \in Sessions : cur[AcceptThread] = x => cleanupMsgs'[x] = 0 /\ ~(cleanupMsgs'[x] > 0)
  BY <1>1 DEF Sole
<1>7. \A x \in Sessions :
        cleanupMsgs'[x] > 0 => x \in Announced /\ cur[AcceptThread] # x
  BY <1>1, <1>6 DEF Ordered
<1>8. \A x \in Sessions : gameCleanupDone[x] => gameCleanupDone'[x]
  BY <1>1
<1>9. UNCHANGED <<mem, state, recvIo, sendIo>>
  BY <1>1
<1>10. \A x \in Sessions : cur[AcceptThread] = x =>
         x \notin todo \cup inRoom \cup Sending \cup Reported /\ x # NoSession
  BY SessionAssumption DEF Sole
<1>11. CASE PopConnect
  <2>1. type = "Connect" /\ players' = players \cup {s} /\ UNCHANGED <<inRoom, task, subject, todo>>
    BY <1>11 DEF PopConnect, NextJob, type, s
  <2>2. Moves(G, "idle", NoSession) /\ Forgets("idle")
    BY <1>1, <1>2, <1>11 DEF PopConnect, Moves, TypeInv, Control, Forgets
  <2>3. s \in Connecting
    BY <1>3, <2>1 DEF Connecting
  <2>4. Gone' = Gone
    BY <1>1, <2>1 DEF Gone, Disconnected
  <2>5. Announced' = Announced
    BY <1>3, <2>1, <2>3, <2>4 DEF Announced
  <2>6. \A x \in Connecting' : x \notin players' \cup Gone'
    BY <1>3, <2>1, <2>4 DEF Ordered
  <2>7. \A x \in players' : x \notin Gone'
    BY <2>1, <2>3, <2>4 DEF Ordered
  <2>8. Roles' /\ Once' /\ Ordered' /\ Sole' /\ Retired'
    BY <1>1, <1>3, <1>7, <1>8, <1>9, <1>10, <1>2, <2>1, <2>2, <2>4, <2>5, <2>6, <2>7, GameMovesJobs
  <2>9. Tasked'
    BY <1>1, <1>2, <1>11, <2>1 DEF Tasked, PopConnect, SendLabels, CloseLabels
  <2>10. QED
    BY <2>8, <2>9
<1>12. CASE PopPacket
  <2>1. type = "Packet" /\ players' = players
    BY <1>12 DEF PopPacket, NextJob, type
  <2>2. s \in Sending
    BY <1>3, <2>1 DEF Sending
  <2>3. PICK l \in {"idle", "g_loop"} : Moves(G, l, NoSession) /\ Forgets(l)
    BY <1>1, <1>2, <1>12 DEF PopPacket, Moves, Goto, TypeInv, Control, Forgets
  <2>4. /\ \/ UNCHANGED <<inRoom, task, subject, todo>> /\ pc' = pc
           \/ /\ s \in players /\ task' \in {"packet", "reject"} /\ subject' = s
              /\ inRoom' \subseteq inRoom \cup {s} /\ todo' \subseteq inRoom \cup {s}
              /\ pc'[G] = "g_loop"
    BY <1>1, <1>12 DEF PopPacket, Goto, s, TypeInv, Control
  <2>5. Gone' = Gone
    BY <1>1, <1>2, <2>4 DEF Gone, Disconnected
  <2>6. Announced' = Announced
    BY <1>3, <2>1, <2>5 DEF Announced
  <2>7. \A x \in Connecting' : x \notin players' \cup Gone'
    BY <1>3, <2>1, <2>5 DEF Ordered
  <2>8. \A x \in players' : x \notin Gone'
    BY <2>1, <2>5 DEF Ordered
  <2>9. \A x \in Sessions : cur[AcceptThread] = x => x \notin todo' \cup inRoom' /\ subject' # x
    BY <1>2, <1>10, <2>2, <2>4
  <2>10. Roles' /\ Once' /\ Ordered' /\ Sole' /\ Retired'
    BY <1>1, <1>3, <1>7, <1>8, <1>9, <2>3, <2>5, <2>6, <2>7, <2>8, <2>9, GameMovesJobs
  <2>11. Tasked'
    <3>1. inRoom \subseteq players /\ todo \subseteq players
      BY DEF Tasked, TypeInv, GameTypes
    <3>2. CASE UNCHANGED <<inRoom, task, subject, todo>> /\ pc' = pc
      BY <1>1, <1>2, <2>1, <3>1, <3>2 DEF Tasked, SendLabels, CloseLabels
    <3>3. CASE ~(UNCHANGED <<inRoom, task, subject, todo>> /\ pc' = pc)
      BY <1>1, <1>2, <2>1, <2>4, <3>1, <3>3 DEF Tasked, SendLabels, CloseLabels
    <3>4. QED
      BY <3>2, <3>3
  <2>12. QED
    BY <2>10, <2>11
<1>13. CASE PopDisconnect
  <2>1. /\ type = "Disconnect" /\ players' = players \ {s} /\ inRoom' = inRoom \ {s}
        /\ task' = "disconnect" /\ todo' \subseteq inRoom' /\ subject' = s
    BY <1>13 DEF PopDisconnect, NextJob, type, s
  <2>2. s \in Reported
    BY <1>3, <2>1 DEF Reported
  <2>3. Moves(G, "g_loop", NoSession) /\ Forgets("g_loop") /\ pc'[G] = "g_loop"
    BY <1>1, <1>13 DEF PopDisconnect, Moves, Goto, TypeInv, Control, Forgets
  <2>4. Gone' = Gone \cup {s}
    BY <1>1, <1>3, <1>4, <2>1 DEF Gone, Disconnected
  <2>5. s \in Announced /\ s \notin Gone
    BY <2>2 DEF Ordered, Once
  <2>6. Announced' = Announced
    BY <1>3, <2>1, <2>4, <2>5 DEF Announced
  <2>7. \A x \in Connecting' : x \notin players' \cup Gone'
    BY <1>3, <2>1, <2>4 DEF Ordered
  <2>8. \A x \in players' : x \notin Gone'
    BY <2>1, <2>4 DEF Ordered
  <2>9. \A x \in Sessions : cur[AcceptThread] = x => x \notin todo' \cup inRoom' /\ subject' # x
    BY <1>10, <2>1, <2>2
  <2>10. s \notin Reported'
    BY <1>3, <2>1
  <2>11. Roles' /\ Once' /\ Ordered' /\ Sole' /\ Retired'
    BY <1>1, <1>3, <1>7, <1>8, <1>9, <2>2, <2>3, <2>4, <2>6, <2>7, <2>8, <2>9, <2>10,
       GameMovesJobs
  <2>12. Tasked'
    <3>1. inRoom' \subseteq players'
      BY DEF TypeInv, GameTypes
    <3>2. ~gameCleanupDone[s]
      BY <1>3, <1>4, <2>5
    <3>3. QED
      BY <1>1, <2>1, <2>3, <3>1, <3>2 DEF Tasked, SendLabels, CloseLabels
  <2>13. QED
    BY <2>11, <2>12
<1>14. QED
  BY <1>11, <1>12, <1>13 DEF GamePop

\* Every other step of the game thread keeps the invariant.
LEMMA GameStepKeepsJobs ==
  ASSUME IInv, TypeInv', JInv, GameStep
  PROVE  JInv'
<1> USE DEF IInv, JInv
<1> DEFINE G == GameThread
<1>1. /\ G \in Threads
      /\ UNCHANGED <<mem, state, recvIo, sendIo, jobQueue, players, inRoom>>
  BY DEF GameStep, GameSend, GameHandled, GameReject, GameDisconnected,
         MarkGameCleanupDone, PostCleanup, Threads
<1>2. /\ UNCHANGED <<Connecting, Sending, Reported>>
      /\ ReportsDiffer' /\ ConnectFirst'
  BY <1>1, SameJobs DEF Once, Ordered
<1>3. /\ \A x \in Sessions : cleanupMsgs[x] > 0 => x \in Announced /\ cur[AcceptThread] # x
      /\ \A x \in Sessions : cur[AcceptThread] = x =>
           x \notin todo \cup inRoom /\ subject # x /\ x # NoSession
  BY SessionAssumption DEF Ordered, Sole
<1>4. /\ \A x \in Connecting : x \notin players \cup Gone
      /\ \A x \in players : x \notin Gone
      /\ players \subseteq Announced /\ Gone \subseteq Announced
      /\ todo \subseteq players
  BY DEF Ordered, Announced, Tasked
<1>5. task # "none" => subject \in Sessions
  BY DEF TypeInv, GameTypes
<1>6. task = "disconnect" => subject \in Gone
  BY <1>5 DEF Gone, Disconnected
\* The steps after which the same sessions are gone.
<1>7. ASSUME NEW l \in {"idle", "g_loop", "gm_mark", "gm_post", "sp_state", "rc_claim"},
             NEW c, Moves(G, l, c),
             Forgets(l) => c = NoSession,
             ~Forgets(l) => c \in Announced /\ cur[AcceptThread] # c,
             \A u \in Threads : u # G => ret'[u] = ret[u],
             l = "rc_claim" => ret'[G] = "idle",
             Gone' = Gone,
             \A x \in Sessions : gameCleanupDone[x] => gameCleanupDone'[x],
             \A x \in Sessions :
               cleanupMsgs'[x] > 0 => x \in Announced /\ cur[AcceptThread] # x,
             todo' \subseteq todo,
             subject' \in {subject, NoSession}
      PROVE  Roles' /\ Once' /\ Ordered' /\ Sole' /\ Retired'
  <2>1. Announced' = Announced
    BY <1>1, <1>2, <1>7 DEF Announced
  <2>2. \A x \in Sessions : cur[AcceptThread] = x => x \notin todo' \cup inRoom' /\ subject' # x
    BY <1>1, <1>3, <1>7
  <2>3. QED
    BY <1>1, <1>2, <1>4, <1>7, <2>1, <2>2, GameMovesJobs
<1>8. CASE GameSend
  <2>1. PICK x \in todo : todo' = todo \ {x} /\ Start(G, "sp_state", x)
    BY <1>8 DEF GameSend
  <2>2. Moves(G, "sp_state", x) /\ ret' = ret /\ pc'[G] = "sp_state" /\ cur'[G] = x
    BY <1>1, <2>1 DEF Start, Moves, TypeInv, Control
  <2>3. UNCHANGED <<task, subject, gameCleanupDone, cleanupMsgs>> /\ pc[G] = "g_loop"
    BY <1>8 DEF GameSend
  <2>4. Gone' = Gone
    BY <2>3 DEF Gone, Disconnected
  <2>5. x \in Announced /\ cur[AcceptThread] # x /\ x \in players
    BY <1>3, <1>4 DEF TypeInv, GameTypes
  <2>6. Roles' /\ Once' /\ Ordered' /\ Sole' /\ Retired'
    BY <1>3, <1>7, <2>1, <2>2, <2>3, <2>4, <2>5 DEF Forgets
  <2>7. Tasked'
    BY <1>1, <1>4, <2>1, <2>2, <2>3, <2>5 DEF Tasked, SendLabels, CloseLabels
  <2>8. QED
    BY <2>6, <2>7
<1>9. CASE GameHandled
  <2>1. Moves(G, "idle", NoSession) /\ ret' = ret /\ pc'[G] = "idle"
    BY <1>1, <1>9 DEF GameHandled, Goto, Moves, Forgets, TypeInv, Control
  <2>2. /\ UNCHANGED <<todo, gameCleanupDone, cleanupMsgs>>
        /\ task = "packet" /\ task' = "none" /\ subject' = NoSession
    BY <1>9 DEF GameHandled
  <2>3. Gone' = Gone
    BY <2>2 DEF Gone, Disconnected
  <2>4. Roles' /\ Once' /\ Ordered' /\ Sole' /\ Retired'
    BY <1>3, <1>7, <2>1, <2>2, <2>3 DEF Forgets
  <2>5. Tasked'
    BY <1>1, <1>4, <2>1, <2>2 DEF Tasked, SendLabels, CloseLabels
  <2>6. QED
    BY <2>4, <2>5
<1>10. CASE GameReject
  <2>1. /\ Moves(G, "rc_claim", subject) /\ pc'[G] = "rc_claim" /\ cur'[G] = subject
        /\ ret'[G] = "idle" /\ \A u \in Threads : u # G => ret'[u] = ret[u]
    BY <1>1, <1>10 DEF GameReject, Moves, TypeInv, Control
  <2>2. /\ UNCHANGED <<todo, gameCleanupDone, cleanupMsgs>>
        /\ task = "reject" /\ task' = "none" /\ subject' = NoSession
    BY <1>10 DEF GameReject
  <2>3. Gone' = Gone
    BY <2>2 DEF Gone, Disconnected
  <2>4. subject \in players /\ subject \in Announced /\ cur[AcceptThread] # subject
    BY <1>3, <1>4, <1>5, <2>2 DEF Tasked
  <2>5. Roles' /\ Once' /\ Ordered' /\ Sole' /\ Retired'
    BY <1>3, <1>7, <2>1, <2>2, <2>3, <2>4 DEF Forgets
  <2>6. Tasked'
    BY <1>1, <1>4, <2>1, <2>2, <2>4 DEF Tasked, SendLabels, CloseLabels
  <2>7. QED
    BY <2>5, <2>6
<1>11. CASE GameDisconnected
  <2>1. /\ Moves(G, "gm_mark", subject) /\ ret' = ret
        /\ pc'[G] = "gm_mark" /\ cur'[G] = subject /\ pc[G] = "g_loop"
    BY <1>1, <1>11 DEF GameDisconnected, Start, Moves, TypeInv, Control
  <2>2. UNCHANGED <<todo, gameCleanupDone, cleanupMsgs, task, subject>> /\ task = "disconnect"
    BY <1>11 DEF GameDisconnected
  <2>3. Gone' = Gone
    BY <2>2 DEF Gone, Disconnected
  <2>4. subject \in Announced /\ cur[AcceptThread] # subject
    BY <1>3, <1>4, <1>5, <1>6, <2>2
  <2>5. Roles' /\ Once' /\ Ordered' /\ Sole' /\ Retired'
    BY <1>3, <1>7, <2>1, <2>2, <2>3, <2>4 DEF Forgets
  <2>6. Tasked'
    BY <1>1, <1>4, <2>1, <2>2 DEF Tasked, SendLabels, CloseLabels
  <2>7. QED
    BY <2>5, <2>6
<1>12. CASE MarkGameCleanupDone
  <2>1. /\ pc[G] = "gm_mark" /\ task = "disconnect" /\ cur[G] = subject
        /\ subject \in Sessions
    BY <1>5, <1>12 DEF MarkGameCleanupDone, TypeInv, Marking, Tasked
  <2>2. /\ Moves(G, "gm_post", subject) /\ ret' = ret
        /\ pc'[G] = "gm_post" /\ cur'[G] = subject
    BY <1>1, <1>12, <2>1
    DEF MarkGameCleanupDone, Goto, Moves, Forgets, TypeInv, Control
  <2>3. /\ UNCHANGED <<todo, cleanupMsgs, task, subject>>
        /\ gameCleanupDone'[subject] = TRUE
        /\ \A x \in Sessions : x # subject => gameCleanupDone'[x] = gameCleanupDone[x]
    BY <1>12, <2>1 DEF MarkGameCleanupDone, TypeInv, ObjectTypes
  <2>4. Gone' = Gone
    BY <2>1, <2>3 DEF Gone, Disconnected
  <2>5. subject \in Announced /\ cur[AcceptThread] # subject
    BY <1>3, <1>4, <1>5, <1>6, <2>1
  <2>6. Roles' /\ Once' /\ Ordered' /\ Sole' /\ Retired'
    BY <1>3, <1>7, <2>2, <2>3, <2>4, <2>5 DEF Forgets
  <2>7. Tasked'
    BY <1>1, <1>4, <2>1, <2>2, <2>3 DEF Tasked, SendLabels, CloseLabels
  <2>8. QED
    BY <2>6, <2>7
<1>13. CASE PostCleanup
  <2>1. /\ pc[G] = "gm_post" /\ task = "disconnect" /\ subject \in Sessions
        /\ gameCleanupDone[subject]
    BY <1>5, <1>13 DEF PostCleanup, TypeInv, Marking, Tasked
  <2>2. Moves(G, "idle", NoSession) /\ ret' = ret /\ pc'[G] = "idle"
    BY <1>1, <1>13 DEF PostCleanup, Goto, Moves, Forgets, TypeInv, Control
  <2>3. /\ UNCHANGED <<todo, gameCleanupDone>>
        /\ task' = "none" /\ subject' = NoSession
        /\ \A x \in Sessions : x # subject => cleanupMsgs'[x] = cleanupMsgs[x]
    BY <1>13, <2>1 DEF PostCleanup, TypeInv, KernelTypes
  <2>4. Gone' = Gone
    BY <2>1, <2>3 DEF Gone, Disconnected
  <2>5. subject \in Announced /\ cur[AcceptThread] # subject
    BY <1>3, <1>4, <1>6, <2>1
  <2>6. Roles' /\ Once' /\ Ordered' /\ Sole' /\ Retired'
    BY <1>3, <1>7, <2>2, <2>3, <2>4, <2>5 DEF Forgets
  <2>7. Tasked'
    BY <1>1, <1>4, <2>1, <2>2, <2>3 DEF Tasked, SendLabels, CloseLabels
  <2>8. QED
    BY <2>6, <2>7
<1>14. QED
  BY <1>8, <1>9, <1>10, <1>11, <1>12, <1>13 DEF GameStep

-----------------------------------------------------------------------------
(* The theorems.                                                           *)

\* The invariant holds initially.
LEMMA InitKeepsJobs == Init => JInv
<1> SUFFICES ASSUME Init PROVE JInv
  OBVIOUS
<1> USE DEF Init, InitShared, InitThreads
<1>1. /\ GameThread \in Threads /\ AcceptThread \in Threads /\ Workers \subseteq Threads
      /\ GameThread # AcceptThread
  BY SessionAssumption DEF Threads
<1>2. Connecting = {} /\ Sending = {} /\ Reported = {} /\ Gone = {} /\ Announced = {}
  BY SessionAssumption
  DEF Connecting, Sending, Reported, SessionsOf, Gone, Disconnected, Announced
<1>3. Roles /\ Tasked
  BY <1>1 DEF Roles, Tasked, Forgets, CloseLabels, SendLabels, AcceptLabels, GameLabels
<1>4. Once
  BY <1>2 DEF Once, Past, CloseLabels, ReportsDiffer
<1>5. Ordered
  BY <1>2 DEF Ordered, ConnectFirst, Forgets
<1>6. Sole /\ Retired
  BY <1>1, SessionAssumption DEF Sole, Retired, ClaimLabels
<1>7. QED
  BY <1>3, <1>4, <1>5, <1>6 DEF JInv

\* Every step keeps the invariant.
LEMMA StepKeepsJobs == IInv /\ JInv /\ [Next]_vars => JInv'
<1> SUFFICES ASSUME IInv, JInv, [Next]_vars PROVE JInv'
  OBVIOUS
<1>1. TypeInv'
  BY TypesStep DEF IInv
<1>2. CASE UNCHANGED vars \/ AllServed
  <2>1. UNCHANGED <<objVars, kernelVars, gameVars, threadVars>>
    BY <1>2 DEF AllServed, vars
  <2>2. /\ UNCHANGED <<Connecting, Sending, Reported, Gone, Announced>>
        /\ ReportsDiffer' /\ ConnectFirst'
    BY <2>1, SameJobs DEF JInv, Once, Ordered, Gone, Disconnected, Announced
  <2>3. Roles' /\ Tasked' /\ Retired'
    BY <2>1 DEF JInv, Roles, Tasked, Retired
  <2>4. Once' /\ Ordered' /\ Sole'
    BY <2>1, <2>2 DEF JInv, Once, Ordered, Sole
  <2>5. QED
    BY <2>3, <2>4 DEF JInv
<1>3. QED
  BY <1>1, <1>2, ThreadKeepsJobs, AcceptKeepsJobs, TakeKeepsJobs, PopKeepsJobs,
     GameStepKeepsJobs DEF Next

\* The invariant about jobs holds in every reachable state.
THEOREM JInvInvariant == Spec => []JInv
BY IInvInvariant, InitKeepsJobs, StepKeepsJobs, PTL DEF Spec

\* A set whose elements are all the same has at most one.
LEMMA AtMostOne ==
  ASSUME NEW S, \A x, y \in S : x = y
  PROVE  \/ S = {} /\ Cardinality(S) = 0
         \/ S # {} /\ Cardinality(S) = 1
<1>1. CASE S = {}
  BY <1>1, FS_EmptySet
<1>2. CASE S # {}
  <2>1. PICK x \in S : S = {x}
    BY <1>2
  <2>2. Cardinality(S) = 1
    BY <2>1, FS_Singleton
  <2>3. QED
    BY <1>2, <2>2
<1>3. QED
  BY <1>1, <1>2

\* However many threads call RequestClose on a session at once, and whoever of
\* them wins, the game is told of the end of the connection at most once.
THEOREM DisconnectedOnce == Spec => []DisconnectOnce
<1>1. ASSUME IInv, JInv, NEW s \in Sessions
      PROVE  Cardinality(Closers(s)) + Cardinality(DisconnectJobs(s))
               + (IF task = "disconnect" /\ subject = s THEN 1 ELSE 0)
               + (IF gameCleanupDone[s] /\ ~(task = "disconnect" /\ subject = s) THEN 1 ELSE 0)
               <= 1
  <2>1. Once
    BY <1>1 DEF JInv
  <2>2. \A t, u \in Closers(s) : t = u
    BY <2>1 DEF Once, Closers, Past
  <2>3. Closers(s) # {} => s \notin Reported \cup Gone
    BY <2>1 DEF Once, Closers, Past
  <2>4. \A i \in DisconnectJobs(s) : /\ i \in 1 .. Len(jobQueue)
                                     /\ jobQueue[i].type = "Disconnect"
                                     /\ jobQueue[i].session = s
    BY <1>1 DEF DisconnectJobs, IInv, TypeInv, GameTypes
  <2>5. \A i, j \in DisconnectJobs(s) : i = j
    BY <2>1, <2>4 DEF Once, ReportsDiffer
  <2>6. DisconnectJobs(s) # {} => s \in Reported /\ s \notin Gone
    BY <2>1, <2>4 DEF Once, Reported, SessionsOf
  <2>7. s \in Gone <=> gameCleanupDone[s] \/ (task = "disconnect" /\ subject = s)
    BY DEF Gone, Disconnected
  <2>8. \/ Closers(s) = {} /\ Cardinality(Closers(s)) = 0
        \/ Closers(s) # {} /\ Cardinality(Closers(s)) = 1
    BY <2>2, AtMostOne
  <2>9. \/ DisconnectJobs(s) = {} /\ Cardinality(DisconnectJobs(s)) = 0
        \/ DisconnectJobs(s) # {} /\ Cardinality(DisconnectJobs(s)) = 1
    BY <2>5, AtMostOne
  <2>10. QED
    BY <2>3, <2>6, <2>7, <2>8, <2>9
<1>2. IInv /\ JInv => DisconnectOnce
  BY <1>1 DEF DisconnectOnce
<1>3. QED
  BY <1>2, IInvInvariant, JInvInvariant, PTL

\* The game thread pops a session's jobs in an order it can handle: Connect is
\* first, a packet finds the Player or comes after the disconnect began, and the
\* disconnect finds the Player.
THEOREM JobsInOrder == Spec => []JobOrder
<1>1. ASSUME IInv, JInv, jobQueue # <<>>,
             NEW s, s = Head(jobQueue).session, NEW type, type = Head(jobQueue).type,
             type \in {"Packet", "Disconnect"}
      PROVE  /\ type = "Packet" => s \in players \/ Disconnected(s)
             /\ type = "Disconnect" => s \in players
  <2>1. /\ Len(jobQueue) \in Nat /\ Len(jobQueue) > 0
        /\ jobQueue[1].type = type /\ jobQueue[1].session = s
        /\ s \in Sessions
    BY <1>1, HeadTypes DEF IInv, TypeInv, GameTypes
  <2>2. 1 \in 1 .. Len(jobQueue)
    BY <2>1
  <2>3. s \notin Connecting
    <3>1. ASSUME NEW i \in 1 .. Len(jobQueue), jobQueue[i].type = "Connect",
                 jobQueue[i].session = s
          PROVE  FALSE
      BY <1>1, <2>1, <2>2, <3>1 DEF JInv, Ordered, ConnectFirst
    <3>2. QED
      BY <3>1 DEF Connecting, SessionsOf
  <2>4. /\ type = "Packet" => s \in Sending
        /\ type = "Disconnect" => s \in Reported
    BY <2>1, <2>2 DEF Sending, Reported, SessionsOf
  <2>5. s \in players \cup Gone
    BY <1>1, <2>3, <2>4 DEF JInv, Ordered, Announced
  <2>6. type = "Disconnect" => s \notin Gone
    BY <1>1, <2>4 DEF JInv, Once
  <2>7. QED
    BY <2>5, <2>6 DEF Gone
<1>2. IInv /\ JInv => JobOrder
  BY <1>1 DEF JobOrder
<1>3. QED
  BY <1>2, IInvInvariant, JInvInvariant, PTL

\* What the invariant says of the sessions the game or the accept thread knows.
LEMMA KnownIsLive ==
  ASSUME IInv, JInv
  PROVE  GameThreadSafe
<1> USE DEF IInv, JInv
<1>1. GameThread \in Threads /\ AcceptThread \in Threads
  BY DEF Threads
<1>2. \A s \in Sessions : mem[s] # "unborn" /\ s \notin Gone => mem[s] = "live"
  BY DEF Retired, Gone, Disconnected, TypeInv, ObjectTypes
<1>3. \A s \in players \cup todo : s \in Sessions /\ s \notin Gone /\ mem[s] = "live"
  BY <1>2 DEF Tasked, Ordered, Born, TypeInv, GameTypes
<1>4. ASSUME NEW t \in {GameThread, AcceptThread}, cur[t] # NoSession, pc[t] # "gm_post"
      PROVE  mem[cur[t]] = "live"
  <2>1. ~Forgets(pc[t]) /\ cur[t] \in Sessions /\ mem[cur[t]] # "unborn"
    BY <1>1, <1>4 DEF Roles, Born, TypeInv, Control
  <2>2. CASE t = GameThread
    <3>1. CASE pc[t] = "gm_mark"
      <4>1. task = "disconnect" /\ cur[t] = subject /\ ~gameCleanupDone[subject]
        BY <2>2, <3>1 DEF TypeInv, Marking, Tasked
      <4>2. QED
        BY <2>1, <4>1 DEF Retired, TypeInv, ObjectTypes
    <3>2. CASE pc[t] # "gm_mark"
      <4>1. pc[t] \in SendLabels \cup CloseLabels
        BY <1>4, <2>1, <2>2, <3>2 DEF Roles, GameLabels, Forgets
      <4>2. QED
        BY <1>3, <2>2, <4>1 DEF Tasked
    <3>3. QED
      BY <3>1, <3>2
  <2>3. CASE t = AcceptThread
    <3>1. cur[t] \notin Gone
      BY <1>1, <2>1, <2>3 DEF Sole, Once, Announced
    <3>2. QED
      BY <1>2, <2>1, <3>1
  <2>4. QED
    BY <2>2, <2>3
<1>5. QED
  BY <1>3, <1>4 DEF GameThreadSafe

\* Neither the game thread nor the accept thread works on a deleted Session, and
\* the game keeps no pointer to one: TryDestroySession waits for the game's
\* cleanup, and the game forgets the session when the cleanup begins.
THEOREM GameThreadIsSafe == Spec => []GameThreadSafe
<1>1. IInv /\ JInv => GameThreadSafe
  BY KnownIsLive
<1>2. QED
  BY <1>1, IInvInvariant, JInvInvariant, PTL

-----------------------------------------------------------------------------
(* One thread deletes a session.                                           *)

DeleteLabels == {"td_remove", "td_delete"}

\* The flag destroying is claimed by one thread, and for good.
Destroying ==
  /\ \A t \in Threads :
       pc[t] \in DeleteLabels => destroying[cur[t]] /\ mem[cur[t]] = "live"
  /\ \A t, u \in Threads :
       pc[t] \in DeleteLabels /\ pc[u] \in DeleteLabels /\ cur[t] = cur[u] => t = u
  /\ \A s \in Sessions : mem[s] = "freed" => destroying[s]

\* Accepting a client, taking up a completion and the game thread's steps put
\* no thread at these labels.
LEMMA OthersDestroying ==
  ASSUME TypeInv, Destroying,
         \A t \in Threads : pc'[t] \in DeleteLabels => pc[t] = pc'[t] /\ cur'[t] = cur[t],
         destroying' = destroying,
         \A s \in Sessions : mem'[s] = mem[s] \/ (mem[s] = "unborn" /\ mem'[s] = "live")
  PROVE  Destroying'
<1>1. \A t \in Threads : pc'[t] \in DeleteLabels => cur[t] \in Sessions
  BY DEF TypeInv, Control, Forgets, DeleteLabels
<1>2. QED
  BY <1>1 DEF Destroying

\* The steps of a thread keep the claim.
LEMMA ThreadDestroying ==
  ASSUME TypeInv, Born, Destroying, NEW t \in Threads, ThreadStep(t), Advances(t)
  PROVE  Destroying'
<1> USE DEF DeleteLabels
<1>1. /\ \A u \in Threads : u # t => pc'[u] = pc[u] /\ cur'[u] = cur[u]
      /\ ~Forgets(pc'[t]) => cur'[t] = cur[t]
      /\ cur[t] \in Sessions /\ mem[cur[t]] # "unborn"
      /\ pc[t] \in Labels
  BY Others DEF TypeInv, Control, Born
<1>2. \A u \in Threads : pc[u] \in DeleteLabels => cur[u] \in Sessions
  BY DEF TypeInv, Control, Forgets
<1>3. CASE TryBeginDestroy(t)
  <2>1. CASE destroying[cur[t]]
    <3>1. destroying' = destroying /\ mem' = mem /\ pc'[t] = "idle"
      BY <1>1, <1>3, <2>1 DEF TryBeginDestroy, MayDestroy, Goto, TypeInv, Control, ObjectTypes
    <3>2. QED
      BY <1>1, <3>1, OthersDestroying
  <2>2. CASE ~destroying[cur[t]]
    <3>1. /\ mem' = mem /\ pc'[t] = "td_remove" /\ cur'[t] = cur[t]
          /\ destroying'[cur[t]]
          /\ \A s \in Sessions : destroying[s] => destroying'[s]
      BY <1>1, <1>3, <2>2
      DEF TryBeginDestroy, MayDestroy, Goto, Forgets, TypeInv, Control, ObjectTypes
    <3>2. mem[cur[t]] = "live"
      BY <1>1, <2>2 DEF Destroying, TypeInv, ObjectTypes
    <3>3. \A u \in Threads : pc[u] \in DeleteLabels => cur[u] # cur[t]
      BY <2>2 DEF Destroying
    <3>4. QED
      BY <1>1, <1>2, <3>1, <3>2, <3>3 DEF Destroying
  <2>3. QED
    BY <2>1, <2>2
<1>4. CASE RemoveSession(t)
  <2>1. /\ mem' = mem /\ destroying' = destroying
        /\ pc[t] = "td_remove" /\ pc'[t] = "td_delete" /\ cur'[t] = cur[t]
    BY <1>1, <1>4 DEF RemoveSession, Goto, Forgets, TypeInv, Control
  <2>2. QED
    BY <1>1, <2>1 DEF Destroying
<1>5. CASE DeleteSession(t)
  <2>1. /\ destroying' = destroying
        /\ pc[t] = "td_delete" /\ pc'[t] = "idle"
        /\ \A s \in Sessions : s # cur[t] => mem'[s] = mem[s]
        /\ destroying[cur[t]]
    BY <1>1, <1>5 DEF DeleteSession, Goto, TypeInv, Control, ObjectTypes, Destroying
  <2>2. \A u \in Threads : u # t /\ pc[u] \in DeleteLabels => cur[u] # cur[t]
    BY <2>1 DEF Destroying
  <2>3. QED
    BY <1>1, <1>2, <2>1, <2>2 DEF Destroying
<1>6. CASE ~(TryBeginDestroy(t) \/ RemoveSession(t) \/ DeleteSession(t))
  <2>1. pc'[t] \notin DeleteLabels /\ UNCHANGED <<mem, destroying>>
    BY <1>6, OtherFunctions
    DEF ClaimLabels, TryDestroySession, DestroyCheckState, DestroyCheckCleanup,
        DestroyCheckIO, Goto, TypeInv, Control
  <2>2. QED
    BY <1>1, <2>1, OthersDestroying
<1>7. QED
  BY <1>3, <1>4, <1>5, <1>6

\* A thread that is given a new label and session, the others left alone.
LEMMA StartChanges ==
  ASSUME TypeInv, NEW t \in Threads, NEW l, NEW s, Start(t, l, s)
  PROVE  /\ \A u \in Threads : u # t => pc'[u] = pc[u] /\ cur'[u] = cur[u]
         /\ pc'[t] = l /\ cur'[t] = s /\ ret' = ret
BY DEF TypeInv, Control, Start

\* The game thread's own steps change no other thread and no flag but the game's.
LEMMA GameChanges ==
  ASSUME TypeInv, GamePop \/ GameStep
  PROVE  /\ \A u \in Threads : u # GameThread =>
              pc'[u] = pc[u] /\ cur'[u] = cur[u] /\ ret'[u] = ret[u]
         /\ pc'[GameThread] \in {"idle", "g_loop", "gm_mark", "gm_post", "sp_state", "rc_claim"}
         /\ UNCHANGED <<mem, state, pendingIO, destroying, recvPosted, closeIssued, sockOpen,
                        m_sessions, recvIo, sendIo, packets>>
<1>1. GameThread \in Threads
  BY DEF Threads
<1>2. CASE GamePop
  BY <1>1, <1>2
  DEF GamePop, PopConnect, PopPacket, PopDisconnect, NextJob, Goto, TypeInv, Control
<1>3. CASE GameStep
  BY <1>1, <1>3
  DEF GameStep, GameSend, GameHandled, GameReject, GameDisconnected, MarkGameCleanupDone,
      PostCleanup, Goto, Start, TypeInv, Control
<1>4. QED
  BY <1>2, <1>3

\* Every step keeps the claim.
LEMMA StepDestroying == IInv /\ JInv /\ Destroying /\ [Next]_vars => Destroying'
<1> SUFFICES ASSUME IInv, JInv, Destroying, [Next]_vars PROVE Destroying'
  OBVIOUS
<1>1. TypeInv /\ TypeInv' /\ Born /\ Roles
  BY TypesStep DEF IInv, JInv
<1>2. CASE UNCHANGED vars \/ AllServed
  BY <1>2 DEF AllServed, vars, Destroying
<1>3. CASE \E t \in Threads : ThreadStep(t)
  BY <1>1, <1>3, ThreadActs, ThreadDestroying
<1>4. ASSUME NEW s \in Sessions, AcceptClient(s) PROVE Destroying'
  <2>1. AcceptThread \in Threads /\ "ac_job" \notin DeleteLabels
    BY DEF Threads, DeleteLabels
  <2>2. /\ Start(AcceptThread, "ac_job", s) /\ destroying' = destroying
        /\ \A x \in Sessions : mem'[x] = mem[x] \/ (mem[x] = "unborn" /\ mem'[x] = "live")
    BY <1>1, <1>4 DEF AcceptClient, TypeInv, ObjectTypes
  <2>3. QED
    BY <1>1, <2>1, <2>2, StartChanges, OthersDestroying
<1>5. ASSUME NEW w \in Workers, NEW s \in Sessions,
             TakeRecv(w, s) \/ TakeSend(w, s) \/ TakeCleanup(w, s)
      PROVE  Destroying'
  <2>1. PICK l \in {"rx_flag", "tx_count", "td_state"} : Start(w, l, s)
    BY <1>5 DEF TakeRecv, TakeSend, TakeCleanup
  <2>2. w \in Threads /\ l \notin DeleteLabels /\ UNCHANGED <<mem, destroying>>
    BY <1>5 DEF Threads, DeleteLabels, TakeRecv, TakeSend, TakeCleanup
  <2>3. QED
    BY <1>1, <2>1, <2>2, StartChanges, OthersDestroying
<1>6. CASE GamePop \/ GameStep
  BY <1>1, <1>6, GameChanges, OthersDestroying DEF DeleteLabels
<1>7. QED
  BY <1>2, <1>3, <1>4, <1>5, <1>6 DEF Next

\* So the claim holds in every reachable state.
LEMMA DestroyingInvariant == Spec => []Destroying
<1>1. Init => Destroying
  BY DEF Init, InitShared, InitThreads, Destroying, DeleteLabels
<1>2. QED
  BY <1>1, StepDestroying, IInvInvariant, JInvInvariant, PTL DEF Spec

\* Of the workers that find a session ready to be deleted one claims it, and the
\* object is there until that one deletes it.
THEOREM DeletedOnce == Spec => []NoDoubleFree
<1>1. Destroying => NoDoubleFree
  BY DEF Destroying, NoDoubleFree, DeleteLabels
<1>2. QED
  BY <1>1, DestroyingInvariant, PTL

-----------------------------------------------------------------------------
(* One receive, or one thread, has the receive buffer.                     *)

\* OneReceiver, without counting.
Receiving ==
  /\ \A s \in Sessions :
       recvIo[s] > 0 => recvIo[s] = 1 /\ \A t \in Threads : ~Receives(t, s)
  /\ \A s \in Sessions : \A t, u \in Threads : Receives(t, s) /\ Receives(u, s) => t = u

\* Thread t is at one of the labels of Receives.
AtReceive(t) ==
  \/ pc[t] \in AcceptLabels \cup ReceiveLabels \cup SendLabels
  \/ pc[t] \in {"pr_state", "pr_claim", "pr_count", "pr_call"}
  \/ pc[t] \in CloseLabels /\ ret[t] \in {"rx_parse", "kick"}

\* A thread does not come to these labels from others, and with the receive it
\* posts it leaves them.
Follows(t) ==
  /\ AtReceive(t)' => AtReceive(t)
  /\ \/ recvIo' = recvIo
     \/ /\ AtReceive(t) /\ ~AtReceive(t)'
        /\ recvIo' = [recvIo EXCEPT ![cur[t]] = @ + 1]

USE DEF AcceptLabels, ReceiveLabels, SendLabels, CloseLabels

\* PostRecv is left with the receive it posts.
LEMMA PostRecvFollows ==
  ASSUME TypeInv, NEW t \in Threads, PostRecv(t)
  PROVE  Follows(t)
BY DEF PostRecv, PostRecvCheck, PostRecvClaim, PostRecvCount, PostRecvCall,
       PostRecvRelease, PostRecvUncount, AfterRecv, Goto, CallRequestClose, TypeInv,
       Control, Follows, AtReceive

\* A kick is sent on the way through OnRecvComplete, which goes on after it.
LEMMA SendPacketFollows ==
  ASSUME TypeInv, NEW t \in Threads, SendPacket(t)
  PROVE  Follows(t)
BY DEF SendPacket, SendPacketCheck, PostSendCheck, PostSendCount, PostSendCall,
       PostSendUncount, AfterSend, Goto, CallRequestClose, TypeInv, Control, Follows,
       AtReceive

\* RequestClose returns to the parse loop only if it was called from there.
LEMMA RequestCloseFollows ==
  ASSUME TypeInv, NEW t \in Threads, RequestClose(t)
  PROVE  Follows(t)
<1>1. ret[t] \in ReturnLabels
  BY DEF TypeInv, Control
<1>2. QED
  BY <1>1
  DEF RequestClose, RequestCloseClaim, CloseSocket, CloseDone, EnqueueDisconnectJob,
      Goto, ReturnFromClose, ReturnLabels, TypeInv, Control, Follows, AtReceive

\* OnRecvComplete stays within its labels until it leaves them for good.
LEMMA ReceiveFollows ==
  ASSUME TypeInv, NEW t \in Threads, OnRecvComplete(t)
  PROVE  Follows(t)
BY DEF OnRecvComplete, RecvCompleteFlag, RecvCompleteCount, RecvCompleteCheck, ParseDone,
       ParseFail, ParsePacket, EnqueuePacketJob, Kick, Goto, CallRequestClose, TypeInv,
       Control, Follows, AtReceive

\* Neither a send completion nor TryDestroySession leads back to the buffer.
LEMMA DestroyFollows ==
  ASSUME TypeInv, NEW t \in Threads, TryDestroySession(t) \/ OnSendComplete(t)
  PROVE  Follows(t)
BY DEF TryDestroySession, DestroyCheckState, DestroyCheckCleanup, DestroyCheckIO,
       TryBeginDestroy, RemoveSession, DeleteSession, OnSendComplete, AfterSendComplete,
       Goto, CallRequestClose, TypeInv, Control, Follows, AtReceive

\* The accept thread goes on to the first receive.
LEMMA ConnectFollows ==
  ASSUME TypeInv, NEW t \in Threads, EnqueueConnectJob(t)
  PROVE  Follows(t)
BY DEF EnqueueConnectJob, Goto, TypeInv, Control, Follows, AtReceive

\* Every step of a thread follows its course.
LEMMA ThreadFollows ==
  ASSUME TypeInv, NEW t \in Threads, ThreadStep(t)
  PROVE  Follows(t)
BY PostRecvFollows, SendPacketFollows, RequestCloseFollows, ReceiveFollows, DestroyFollows,
   ConnectFollows DEF ThreadStep

\* The steps of a thread keep the receiver alone.
LEMMA ThreadReceiving ==
  ASSUME TypeInv, TypeInv', Roles, Receiving, NEW t \in Threads, ThreadStep(t), Advances(t)
  PROVE  Receiving'
<1>1. /\ \A u \in Threads : u # t => pc'[u] = pc[u] /\ cur'[u] = cur[u] /\ ret'[u] = ret[u]
      /\ cur'[t] = IF Forgets(pc'[t]) THEN NoSession ELSE cur[t]
      /\ cur[t] \in Sessions
  BY Others
<1>2. Follows(t)
  BY ThreadFollows
<1>3. ASSUME NEW u \in Threads, NEW s \in Sessions, Receives(u, s)'
      PROVE  Receives(u, s)
  <2>1. CASE u # t
    BY <1>1, <1>3, <2>1 DEF Receives
  <2>2. CASE u = t
    <3>1. cur[t] = s
      BY <1>1, <1>3, <2>2, SessionAssumption DEF Receives
    <3>2. QED
      BY <1>2, <1>3, <2>2, <3>1 DEF Receives, Follows, AtReceive
  <2>3. QED
    BY <2>1, <2>2
<1>4. CASE recvIo' = recvIo
  BY <1>3, <1>4 DEF Receiving
<1>5. CASE recvIo' # recvIo
  <2>1. /\ AtReceive(t) /\ ~AtReceive(t)'
        /\ recvIo' = [recvIo EXCEPT ![cur[t]] = @ + 1]
    BY <1>2, <1>5 DEF Follows
  <2>2. PostRecvCall(t)
    BY <1>5
    DEF ThreadStep, EnqueueConnectJob, PostRecv, PostRecvCheck, PostRecvClaim,
        PostRecvCount, PostRecvRelease, PostRecvUncount, SendPacket,
        SendPacketCheck, PostSendCheck, PostSendCount, PostSendCall, PostSendUncount,
        RequestClose, RequestCloseClaim, CloseSocket, CloseDone, EnqueueDisconnectJob,
        OnRecvComplete, RecvCompleteFlag, RecvCompleteCount, RecvCompleteCheck, ParseDone,
        ParseFail, ParsePacket, EnqueuePacketJob, Kick, OnSendComplete, TryDestroySession,
        DestroyCheckState, DestroyCheckCleanup, DestroyCheckIO, TryBeginDestroy,
        RemoveSession, DeleteSession
  <2>3. t # GameThread
    BY <2>2 DEF PostRecvCall, Roles, GameLabels
  <2>4. PICK c \in Sessions : c = cur[t]
    BY <1>1
  <2>5. Receives(t, c)
    BY <2>1, <2>3, <2>4 DEF Receives, AtReceive
  <2>6. /\ recvIo[c] = 0 /\ recvIo'[c] = 1
        /\ \A s \in Sessions : s # c => recvIo'[s] = recvIo[s]
    BY <2>1, <2>4, <2>5 DEF Receiving, TypeInv, KernelTypes
  <2>7. \A u \in Threads : ~Receives(u, c)'
    <3>1. ASSUME NEW u \in Threads, Receives(u, c)' PROVE FALSE
      <4>1. u = t
        BY <1>3, <2>5, <3>1 DEF Receiving
      <4>2. QED
        BY <2>1, <3>1, <4>1 DEF Receives, AtReceive
    <3>2. QED
      BY <3>1
  <2>8. QED
    BY <1>3, <2>6, <2>7 DEF Receiving
<1>6. QED
  BY <1>4, <1>5

\* Every step keeps the receiver alone.
LEMMA StepReceiving == IInv /\ JInv /\ Receiving /\ [Next]_vars => Receiving'
<1> SUFFICES ASSUME IInv, JInv, Receiving, [Next]_vars PROVE Receiving'
  OBVIOUS
<1>1. TypeInv /\ TypeInv' /\ Roles
  BY TypesStep DEF IInv, JInv
<1>2. CASE UNCHANGED vars \/ AllServed
  BY <1>2 DEF AllServed, vars, Receiving, Receives
<1>3. CASE \E t \in Threads : ThreadStep(t)
  BY <1>1, <1>3, ThreadActs, ThreadReceiving
<1>4. ASSUME NEW s \in Sessions, AcceptClient(s) PROVE Receiving'
  <2>1. AcceptThread \in Threads
    BY DEF Threads
  <2>2. Start(AcceptThread, "ac_job", s) /\ recvIo' = recvIo /\ mem[s] = "unborn"
    BY <1>4 DEF AcceptClient
  <2>3. recvIo[s] = 0 /\ \A t \in Threads : cur[t] # s
    BY <2>2, UnbornUnknown DEF JInv
  <2>4. /\ \A u \in Threads : u # AcceptThread =>
             pc'[u] = pc[u] /\ cur'[u] = cur[u] /\ ret'[u] = ret[u]
        /\ cur'[AcceptThread] = s
    BY <1>1, <2>1, <2>2, StartChanges
  <2>5. \A u \in Threads : \A x \in Sessions :
          Receives(u, x)' => Receives(u, x) \/ (u = AcceptThread /\ x = s)
    BY <2>4 DEF Receives
  <2>6. \A u \in Threads : ~Receives(u, s)
    BY <2>3 DEF Receives
  <2>7. QED
    BY <2>2, <2>3, <2>4, <2>5, <2>6 DEF Receiving, Receives
<1>5. ASSUME NEW w \in Workers, NEW s \in Sessions, TakeRecv(w, s) PROVE Receiving'
  <2>1. w \in Threads
    BY DEF Threads
  <2>2. /\ Start(w, "rx_flag", s) /\ pc[w] = "idle" /\ recvIo[s] = 1 /\ recvIo'[s] = 0
        /\ \A x \in Sessions : x # s => recvIo'[x] = recvIo[x]
    BY <1>1, <1>5 DEF TakeRecv, Receiving, TypeInv, KernelTypes
  <2>3. \A u \in Threads : ~Receives(u, s)
    BY <2>2 DEF Receiving
  <2>4. /\ \A u \in Threads : u # w => pc'[u] = pc[u] /\ cur'[u] = cur[u] /\ ret'[u] = ret[u]
        /\ cur'[w] = s
    BY <1>1, <2>1, <2>2, StartChanges
  <2>5. \A u \in Threads : \A x \in Sessions :
          Receives(u, x)' => Receives(u, x) \/ (u = w /\ x = s)
    BY <2>4 DEF Receives
  <2>6. QED
    BY <2>2, <2>3, <2>4, <2>5 DEF Receiving, Receives
<1>6. ASSUME NEW w \in Workers, NEW s \in Sessions, TakeSend(w, s) \/ TakeCleanup(w, s)
      PROVE  Receiving'
  <2>1. w \in Threads
    BY DEF Threads
  <2>2. PICK l \in {"tx_count", "td_state"} : Start(w, l, s)
    BY <1>6 DEF TakeSend, TakeCleanup
  <2>3. recvIo' = recvIo
    BY <1>6 DEF TakeSend, TakeCleanup
  <2>4. /\ \A u \in Threads : u # w => pc'[u] = pc[u] /\ cur'[u] = cur[u] /\ ret'[u] = ret[u]
        /\ pc'[w] = l
    BY <1>1, <2>1, <2>2, StartChanges
  <2>5. \A u \in Threads : \A x \in Sessions : Receives(u, x)' => Receives(u, x)
    BY <2>4 DEF Receives
  <2>6. QED
    BY <2>3, <2>5 DEF Receiving
<1>7. CASE GamePop \/ GameStep
  <2>1. /\ \A u \in Threads : u # GameThread =>
             pc'[u] = pc[u] /\ cur'[u] = cur[u] /\ ret'[u] = ret[u]
        /\ recvIo' = recvIo
    BY <1>1, <1>7, GameChanges
  <2>2. \A u \in Threads : \A x \in Sessions : Receives(u, x)' => Receives(u, x)
    BY <2>1 DEF Receives
  <2>3. QED
    BY <2>1, <2>2 DEF Receiving
<1>8. QED
  BY <1>2, <1>3, <1>4, <1>5, <1>6, <1>7 DEF Next

\* recvContext and recvRing, which no lock protects, belong to one receive in the
\* kernel or to one thread at a time, from the accept thread's first PostRecv on.
THEOREM ReceiverAlone == Spec => []OneReceiver
<1>1. Init => Receiving
  BY DEF Init, InitShared, InitThreads, Receiving, Receives
<1>2. ASSUME Receiving, TypeInv, NEW s \in Sessions
      PROVE  recvIo[s] + Cardinality({t \in Threads : Receives(t, s)}) <= 1
  <2>1. recvIo[s] \in Nat
    BY <1>2 DEF TypeInv, KernelTypes
  <2>2. \/ /\ {t \in Threads : Receives(t, s)} = {}
           /\ Cardinality({t \in Threads : Receives(t, s)}) = 0
        \/ /\ {t \in Threads : Receives(t, s)} # {}
           /\ Cardinality({t \in Threads : Receives(t, s)}) = 1
    BY <1>2, AtMostOne DEF Receiving
  <2>3. recvIo[s] > 0 => recvIo[s] = 1 /\ {t \in Threads : Receives(t, s)} = {}
    BY <1>2 DEF Receiving
  <2>4. QED
    BY <2>1, <2>2, <2>3
<1>3. IInv /\ Receiving => OneReceiver
  BY <1>2 DEF OneReceiver, IInv
<1>4. QED
  BY <1>1, <1>3, StepReceiving, IInvInvariant, JInvInvariant, PTL DEF Spec

-----------------------------------------------------------------------------
(* Session implements SessionLife.                                         *)

Held(s) == recvIo[s] + sendIo[s]

\* A step that changes neither the phase of a session nor what is held is a
\* stutter of the abstract life cycle.
LEMMA LifeStutters ==
  ASSUME UNCHANGED <<mem, gameCleanupDone, sockOpen, recvIo, sendIo>>
  PROVE  UNCHANGED Life!lifeVars
BY DEF Life!lifeVars, Phase

\* One that changes the phase of one session is its step,
LEMMA LifeMoves ==
  ASSUME NEW s \in Sessions, NEW from, NEW to, Phase(s) = from, Phase(s)' = to,
         \A x \in Sessions : x # s => Phase(x)' = Phase(x),
         UNCHANGED <<recvIo, sendIo>>
  PROVE  Life!Move(s, from, to)
BY DEF Life!Move

\* and so is one that changes what is held of it.
LEMMA LifeHolds ==
  ASSUME NEW s \in Sessions, UNCHANGED <<mem, gameCleanupDone, sockOpen>>,
         \A x \in Sessions : x # s => Held(x)' = Held(x)
  PROVE  /\ Phase(s) = "open" /\ Held(s)' = Held(s) + 1 => Life!StartIO(s)
         /\ Held(s) > 0 /\ Held(s)' = Held(s) - 1 => Life!FinishIO(s)
BY DEF Life!StartIO, Life!FinishIO, Held, Phase

\* An open socket is that of a session whose life is not over.
LEMMA OpenPhase ==
  ASSUME TypeInv, Born, ClosedBefore, NEW s \in Sessions, sockOpen[s]
  PROVE  Phase(s) = "open"
BY DEF Phase, Born, ClosedBefore, Shut, TypeInv, ObjectTypes

\* The steps of a thread.
LEMMA ThreadLife ==
  ASSUME IInv, JInv, Destroying, NEW t \in Threads, ThreadStep(t)
  PROVE  [Life!Next]_(Life!lifeVars)
<1> USE DEF IInv, JInv
<1>1. /\ \A c \in Sessions : cur[t] = c /\ sockOpen[c] => Phase(c) = "open"
      /\ ~Forgets(pc[t]) => cur[t] \in Sessions /\ mem[cur[t]] # "unborn"
  BY OpenPhase DEF TypeInv, Control, Born
<1>2. CASE CloseSocket(t)
  <2>1. PICK c \in Sessions : c = cur[t]
    BY <1>1, <1>2 DEF CloseSocket, Forgets
  <2>2. CASE sockOpen[c] /\ ~closeIssued[c]
    <3>1. /\ sockOpen' = [sockOpen EXCEPT ![c] = FALSE]
          /\ UNCHANGED <<mem, gameCleanupDone, recvIo, sendIo>>
      BY <1>2, <2>1, <2>2 DEF CloseSocket
    <3>2. Phase(c) = "open"
      BY <1>1, <2>1, <2>2
    <3>3. Phase(c)' = "closed" /\ \A x \in Sessions : x # c => Phase(x)' = Phase(x)
      BY <3>1, <3>2 DEF Phase, TypeInv, ObjectTypes
    <3>4. Life!Close(c)
      BY <3>1, <3>2, <3>3, LifeMoves DEF Life!Close
    <3>5. QED
      BY <3>4 DEF Life!Next
  <2>3. CASE ~(sockOpen[c] /\ ~closeIssued[c])
    <3>1. UNCHANGED <<mem, gameCleanupDone, recvIo, sendIo>>
      BY <1>2 DEF CloseSocket
    <3>2. sockOpen' = sockOpen
      <4>1. CASE closeIssued[c]
        BY <1>2, <2>1, <4>1 DEF CloseSocket
      <4>2. CASE ~closeIssued[c]
        <5>1. sockOpen' = [sockOpen EXCEPT ![c] = FALSE]
          BY <1>2, <2>1, <4>2 DEF CloseSocket
        <5>2. sockOpen \in [Sessions -> BOOLEAN] /\ ~sockOpen[c]
          BY <2>3, <4>2 DEF TypeInv, ObjectTypes
        <5>3. QED
          BY <5>1, <5>2
      <4>3. QED
        BY <4>1, <4>2
    <3>3. QED
      BY <3>1, <3>2, LifeStutters
  <2>4. QED
    BY <2>2, <2>3
<1>3. CASE DeleteSession(t)
  <2>1. PICK c \in Sessions : c = cur[t]
    BY <1>1, <1>3 DEF DeleteSession, Forgets
  <2>2. /\ mem[c] = "live" /\ gameCleanupDone[c] /\ recvIo[c] = 0 /\ sendIo[c] = 0
    BY <1>3, <2>1
    DEF DeleteSession, Destroying, DeleteLabels, Retired, NothingHeld, ClaimLabels
  <2>3. mem' = [mem EXCEPT ![c] = "freed"]
        /\ UNCHANGED <<gameCleanupDone, sockOpen, recvIo, sendIo>>
    BY <1>3, <2>1 DEF DeleteSession
  <2>4. /\ Phase(c) = "retired" /\ Phase(c)' = "freed"
        /\ \A x \in Sessions : x # c => Phase(x)' = Phase(x)
    BY <2>2, <2>3 DEF Phase, TypeInv, ObjectTypes
  <2>5. Life!Free(c)
    BY <2>2, <2>3, <2>4, LifeMoves DEF Life!Free
  <2>6. QED
    BY <2>5 DEF Life!Next
<1>4. CASE /\ PostRecvCall(t) \/ PostSendCall(t)
           /\ recvIo' # recvIo \/ sendIo' # sendIo
  <2>1. PICK c \in Sessions : c = cur[t]
    BY <1>1, <1>4 DEF PostRecvCall, PostSendCall, Forgets
  <2>2. /\ sockOpen[c]
        /\ UNCHANGED <<mem, gameCleanupDone, sockOpen>>
        /\ \/ recvIo' = [recvIo EXCEPT ![c] = @ + 1] /\ sendIo' = sendIo
           \/ sendIo' = [sendIo EXCEPT ![c] = @ + 1] /\ recvIo' = recvIo
    BY <1>4, <2>1 DEF PostRecvCall, PostSendCall
  <2>3. Phase(c) = "open"
    BY <1>1, <2>1, <2>2
  <2>4. /\ \A x \in Sessions : x # c => Held(x)' = Held(x)
        /\ Held(c)' = Held(c) + 1
    BY <2>2 DEF Held, TypeInv, KernelTypes
  <2>5. Life!StartIO(c)
    BY <2>2, <2>3, <2>4, LifeHolds
  <2>6. QED
    BY <2>5 DEF Life!Next
<1>5. CASE ~( \/ CloseSocket(t)
              \/ DeleteSession(t)
              \/ /\ PostRecvCall(t) \/ PostSendCall(t)
                 /\ recvIo' # recvIo \/ sendIo' # sendIo)
  <2>1. UNCHANGED <<mem, gameCleanupDone, sockOpen, recvIo, sendIo>>
    BY <1>5
    DEF ThreadStep, EnqueueConnectJob, PostRecv, PostRecvCheck, PostRecvClaim,
        PostRecvCount, PostRecvCall, PostRecvRelease, PostRecvUncount, SendPacket,
        SendPacketCheck, PostSendCheck, PostSendCount, PostSendCall, PostSendUncount,
        RequestClose, RequestCloseClaim, CloseDone, EnqueueDisconnectJob,
        OnRecvComplete, RecvCompleteFlag, RecvCompleteCount, RecvCompleteCheck, ParseDone,
        ParseFail, ParsePacket, EnqueuePacketJob, Kick, OnSendComplete, TryDestroySession,
        DestroyCheckState, DestroyCheckCleanup, DestroyCheckIO, TryBeginDestroy,
        RemoveSession
  <2>2. QED
    BY <2>1, LifeStutters
<1>6. QED
  BY <1>2, <1>3, <1>4, <1>5

\* Every step is one of the abstract life cycle, or a stutter.
LEMMA StepLife ==
  IInv /\ JInv /\ Destroying /\ [Next]_vars => [Life!Next]_(Life!lifeVars)
<1> SUFFICES ASSUME IInv, JInv, Destroying, [Next]_vars
             PROVE  [Life!Next]_(Life!lifeVars)
  OBVIOUS
<1> USE DEF IInv, JInv
<1>1. CASE UNCHANGED vars \/ AllServed
  BY <1>1, LifeStutters DEF AllServed, vars
<1>2. CASE \E t \in Threads : ThreadStep(t)
  BY <1>2, ThreadLife
<1>3. ASSUME NEW s \in Sessions, AcceptClient(s) PROVE [Life!Next]_(Life!lifeVars)
  <2>1. /\ mem[s] = "unborn" /\ mem' = [mem EXCEPT ![s] = "live"]
        /\ sockOpen' = [sockOpen EXCEPT ![s] = TRUE]
        /\ UNCHANGED <<gameCleanupDone, recvIo, sendIo>>
    BY <1>3 DEF AcceptClient
  <2>2. ~gameCleanupDone[s]
    BY <2>1 DEF ClosedBefore, Shut
  <2>3. /\ Phase(s) = "unborn" /\ Phase(s)' = "open"
        /\ \A x \in Sessions : x # s => Phase(x)' = Phase(x)
    BY <2>1, <2>2 DEF Phase, TypeInv, ObjectTypes
  <2>4. Life!Open(s)
    BY <2>1, <2>3, LifeMoves DEF Life!Open
  <2>5. QED
    BY <2>4 DEF Life!Next
<1>4. ASSUME NEW w \in Workers, NEW s \in Sessions, TakeRecv(w, s) \/ TakeSend(w, s)
      PROVE  [Life!Next]_(Life!lifeVars)
  <2>1. /\ UNCHANGED <<mem, gameCleanupDone, sockOpen>>
        /\ \/ recvIo[s] > 0 /\ recvIo' = [recvIo EXCEPT ![s] = @ - 1] /\ sendIo' = sendIo
           \/ sendIo[s] > 0 /\ sendIo' = [sendIo EXCEPT ![s] = @ - 1] /\ recvIo' = recvIo
    BY <1>4 DEF TakeRecv, TakeSend
  <2>2. /\ \A x \in Sessions : x # s => Held(x)' = Held(x)
        /\ Held(s) > 0 /\ Held(s)' = Held(s) - 1
    BY <2>1, SessionAssumption DEF Held, TypeInv, KernelTypes
  <2>3. Life!FinishIO(s)
    BY <2>1, <2>2, LifeHolds
  <2>4. QED
    BY <2>3 DEF Life!Next
<1>5. ASSUME NEW w \in Workers, NEW s \in Sessions, TakeCleanup(w, s)
      PROVE  [Life!Next]_(Life!lifeVars)
  BY <1>5, LifeStutters DEF TakeCleanup
<1>6. CASE MarkGameCleanupDone
  <2>1. PICK s \in Sessions : s = subject
    BY <1>6 DEF MarkGameCleanupDone, TypeInv, Marking, GameTypes
  <2>2. task = "disconnect" /\ pc[GameThread] = "gm_mark"
    BY <1>6 DEF MarkGameCleanupDone, TypeInv, Marking
  <2>3. ~sockOpen[s] /\ ~gameCleanupDone[s] /\ mem[s] = "live"
    BY <2>1, <2>2 DEF ClosedBefore, Shut, Tasked, Retired, TypeInv, ObjectTypes
  <2>4. /\ gameCleanupDone' = [gameCleanupDone EXCEPT ![s] = TRUE]
        /\ UNCHANGED <<mem, sockOpen, recvIo, sendIo>>
    BY <1>6, <2>1 DEF MarkGameCleanupDone
  <2>5. /\ Phase(s) = "closed" /\ Phase(s)' = "retired"
        /\ \A x \in Sessions : x # s => Phase(x)' = Phase(x)
    BY <2>3, <2>4 DEF Phase, TypeInv, ObjectTypes
  <2>6. Life!Retire(s)
    BY <2>4, <2>5, LifeMoves DEF Life!Retire
  <2>7. QED
    BY <2>6 DEF Life!Next
<1>7. CASE GamePop \/ (GameStep /\ ~MarkGameCleanupDone)
  <2>1. UNCHANGED <<mem, gameCleanupDone, sockOpen, recvIo, sendIo>>
    BY <1>7
    DEF GamePop, PopConnect, PopPacket, PopDisconnect, GameStep, GameSend, GameHandled,
        GameReject, GameDisconnected, PostCleanup
  <2>2. QED
    BY <2>1, LifeStutters
<1>8. QED
  BY <1>1, <1>2, <1>3, <1>4, <1>5, <1>6, <1>7 DEF Next, GameStep

\* The flags, the counter and the interleaved threads of Session, Network and
\* GameServer implement the life cycle: a connection is closed once, I/O starts
\* only while it is open, the game lets go of it after the close, and its memory is
\* freed once, after that and with no buffer of it in the kernel.
THEOREM LifeImplemented == Spec => ImplementsLife
<1>1. Init => Life!Init
  BY DEF Init, InitShared, Life!Init, Phase
<1>2. QED
  BY <1>1, StepLife, IInvInvariant, JInvInvariant, DestroyingInvariant, PTL
  DEF Spec, ImplementsLife, Life!Spec

=============================================================================
