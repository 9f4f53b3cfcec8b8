--------------------------- MODULE ShutdownProofs ---------------------------
(***************************************************************************)
(* Proofs about Shutdown, for any number of sessions, workers and console  *)
(* events: the broadcast walks sessions that exist, and when it is done no *)
(* registered session is connected; the end of a connection is reported    *)
(* once; a packet finds the Player or its end.                             *)
(*                                                                         *)
(* A session that the accept thread is about to register is known to       *)
(* nobody else (Strangers), so nobody deletes it.  A session is            *)
(* unregistered before it is deleted, by a thread that waits for the lock  *)
(* (Registered).  Whoever has the lock is at the labels of the broadcast,  *)
(* the registry unchanged meanwhile (Locked, Told).  The report of a       *)
(* connection's end is in one place at a time (Once).  Nobody receives     *)
(* from a session that was not announced to the game while the server      *)
(* runs (Receivers).                                                       *)
(***************************************************************************)
EXTENDS Shutdown, SessionProofs

-----------------------------------------------------------------------------
(* The inductive invariant.                                                *)

\* Where a thread may be without a session.
Carefree == {"idle", "g_loop", "ac_accept", "exited"} \cup HandlerLabels

\* Whoever works, works on a session.
AllControl ==
  /\ pc \in [AllThreads -> AllLabels]
  /\ cur \in [AllThreads -> Sessions \cup {NoSession}]
  /\ ret \in [AllThreads -> ReturnLabels \cup {"h_next"}]
  /\ \A t \in AllThreads : pc[t] \notin Carefree => cur[t] \in Sessions

StopGameTypes ==
  /\ jobQueue \in Seq(Jobs \cup {ShutdownJob})
  /\ players \in SUBSET Sessions
  /\ inRoom \in SUBSET players
  /\ task \in Tasks
  /\ subject \in Sessions \cup {NoSession}
  /\ task # "none" => subject \in Sessions
  /\ todo \in SUBSET Sessions

\* The game thread marks the cleanup of a disconnect only.
StopTypes ==
  /\ AllControl /\ ObjectTypes /\ KernelTypes /\ StopGameTypes
  /\ pc[GameThread] \in {"gm_mark", "gm_post"} => task = "disconnect"

\* The labels of RequestShutdownAllSessions after it took the lock; those at
\* which it has a session in hand that it has yet to close.
InBroadcast == {"h_next", "kick", "ps_state", "ps_count", "ps_call", "ps_uncount"}
                 \cup CloseLabels
Untold      == InBroadcast \ {"h_next", "rc_close", "rc_closed", "rc_job"}

\* From the won compare-exchange to the exit messages, one handler.
Claimed == InBroadcast \cup {"h_lock", "h_job", "h_stop"}

OneHandler ==
  /\ serverState \in {"Running", "ShuttingDown"}
  /\ m_running \in BOOLEAN /\ listenOpen \in BOOLEAN
  /\ exitMessages \in 0 .. Cardinality(Workers)
  /\ \A h \in Handlers : pc[h] \in InBroadcast \cup HandlerLabels \cup {"idle"}
  /\ \A h, k \in Handlers : pc[h] \in Claimed /\ pc[k] \in Claimed => h = k
  /\ \A h \in Handlers : pc[h] \in Claimed =>
       serverState = "ShuttingDown" /\ exitMessages = 0
  /\ serverState = "Running" => exitMessages = 0

\* Whoever broadcasts has the lock, and its session is registered.
Locked ==
  /\ m_lock \in Handlers \cup {NoThread}
  /\ unsent \subseteq m_sessions
  /\ m_lock = NoThread => unsent = {}
  /\ \A h \in Handlers :
       /\ pc[h] \in InBroadcast => m_lock = h
       /\ cur[h] # NoSession => pc[h] \in InBroadcast /\ cur[h] \in m_sessions
       /\ pc[h] \in CloseLabels => ret[h] \in {"kick", "h_next"}

\* What the broadcast has behind it is closed, or being closed.
Told ==
  \A h \in Handlers : m_lock = h =>
    \A s \in m_sessions :
      s \in unsent \/ state[s] # "Connected" \/ (cur[h] = s /\ pc[h] \in Untold)

\* What is registered, or will be, exists; what is deleted, is not registered.
Registered ==
  /\ \A s \in m_sessions : mem[s] = "live"
  /\ \A t \in AllThreads : pc[t] = "td_delete" => cur[t] \notin m_sessions
  /\ pc[AcceptThread] = "ac_add" => mem[cur[AcceptThread]] = "live"

\* The kernel or the game know s.
Known(s) ==
  \/ recvIo[s] > 0 \/ sendIo[s] > 0 \/ cleanupMsgs[s] > 0
  \/ s \in players \cup todo \cup inRoom
  \/ subject = s
  \/ \E i \in 1 .. Len(jobQueue) : jobQueue[i].session = s

Adding(t) == t = AcceptThread /\ pc[t] = "ac_add"

\* Somebody but the accept thread, until it has registered s, knows s.
Reached(s) ==
  \/ Known(s)
  \/ s \in m_sessions
  \/ \E t \in AllThreads : cur[t] = s /\ ~Adding(t)

\* Nobody knows a session before it is registered.
Strangers ==
  \A s \in Sessions : Reached(s) =>
    mem[s] # "unborn" /\ ~(pc[AcceptThread] = "ac_add" /\ cur[AcceptThread] = s)

RInv == StopTypes /\ OneHandler /\ Locked /\ Told /\ Registered /\ Strangers

-----------------------------------------------------------------------------
(* The threads' control.                                                   *)

USE DEF objVars, kernelVars, gameVars, threadVars, stopVars, butState, butPendingIO,
        butRecvPosted

\* Thread t goes to label l and keeps its session, or has none any more.
Goes(t, l) ==
  /\ pc' = [pc EXCEPT ![t] = l]
  /\ cur'[t] \in {cur[t], NoSession}
  /\ \A u \in AllThreads : u # t => cur'[u] = cur[u] /\ ret'[u] = ret[u]

\* The threads and their labels.
LEMMA WhoIsWho ==
  /\ Threads \subseteq AllThreads /\ Handlers \subseteq AllThreads
  /\ AcceptThread \in Threads /\ GameThread \in Threads /\ Workers \subseteq Threads
  /\ AcceptThread \notin Handlers /\ GameThread \notin Handlers
  /\ AcceptThread # GameThread /\ AcceptThread \notin Workers /\ GameThread \notin Workers
  /\ NoSession \notin Sessions /\ NoThread \notin Handlers
  /\ MaxSends \in Nat
BY SessionAssumption, ShutdownAssumption DEF Threads, AllThreads

\* Goto moves one thread,
LEMMA GotoGoes ==
  ASSUME AllControl, NEW t \in AllThreads, NEW l \in AllLabels, Goto(t, l),
         l \in Carefree \/ cur[t] \in Sessions
  PROVE  AllControl' /\ Goes(t, l) /\ ret' = ret /\ (~Forgets(l) => cur' = cur)
BY DEF AllControl, Goto, Goes, Forgets, Carefree

\* so does the call of RequestClose,
LEMMA CallGoes ==
  ASSUME AllControl, NEW t \in AllThreads, NEW l \in ReturnLabels \cup {"h_next"},
         CallRequestClose(t, l), cur[t] \in Sessions
  PROVE  AllControl' /\ Goes(t, "rc_claim") /\ cur' = cur /\ ret'[t] = l
BY DEF AllControl, CallRequestClose, Goes, AllLabels, Labels, CloseLabels

\* and the return from it.
LEMMA ReturnGoes ==
  ASSUME AllControl, NEW t \in AllThreads, ReturnFromClose(t), cur[t] \in Sessions
  PROVE  /\ AllControl' /\ Goes(t, ret[t]) /\ ret[t] \in ReturnLabels \cup {"h_next"}
         /\ ~Forgets(ret[t]) => cur' = cur
<1>1. ret[t] \in ReturnLabels \cup {"h_next"} /\ ret[t] \in AllLabels /\ "idle" \in ReturnLabels
  BY DEF AllControl, ReturnLabels, AllLabels, HandlerLabels, Labels, GameLabels, ReceiveLabels,
         DestroyLabels
<1>2. Forgets(ret[t]) => ret[t] \in Carefree
  BY DEF Forgets, Carefree
<1>3. QED
  BY <1>1, <1>2 DEF AllControl, ReturnFromClose, Goes

\* A thread takes up a session.
LEMMA StartGoes ==
  ASSUME AllControl, NEW t \in AllThreads, NEW l \in AllLabels, NEW s \in Sessions,
         Start(t, l, s)
  PROVE  /\ AllControl' /\ pc' = [pc EXCEPT ![t] = l] /\ cur' = [cur EXCEPT ![t] = s]
         /\ ret' = ret
BY DEF AllControl, Start

-----------------------------------------------------------------------------
(* Steps that the registry does not notice.                                *)

\* Thread t goes to l; no session becomes known that nobody knew, or connected.
Calm(t, l) ==
  /\ pc' = [pc EXCEPT ![t] = l]
  /\ \A u \in AllThreads : u # t => cur'[u] = cur[u] /\ ret'[u] = ret[u]
  /\ l \notin {"ac_add", "td_delete"} /\ ~Adding(t)
  /\ UNCHANGED <<mem, m_sessions>>
  /\ \A s \in Sessions : state'[s] = "Connected" => state[s] = "Connected"
  /\ \A s \in Sessions : cur'[t] = s \/ Known(s)' => Reached(s)

\* Such a step makes no stranger known,
LEMMA StrangersKept ==
  ASSUME AllControl, Strangers, NEW t \in AllThreads, NEW l, Calm(t, l)
  PROVE  Strangers'
<1> SUFFICES ASSUME NEW s \in Sessions, Reached(s)'
             PROVE  mem'[s] # "unborn" /\ ~(pc'[AcceptThread] = "ac_add" /\ cur'[AcceptThread] = s)
  BY DEF Strangers
<1>1. Reached(s)
  <2>1. CASE Known(s)' \/ s \in m_sessions'
    BY <2>1 DEF Calm, Reached
  <2>2. ASSUME NEW u \in AllThreads, cur'[u] = s, ~(u = AcceptThread /\ pc'[u] = "ac_add")
        PROVE  Reached(s)
    <3>1. CASE u = t
      BY <2>2, <3>1 DEF Calm
    <3>2. CASE u # t
      BY <2>2, <3>2 DEF Calm, Reached, Adding, AllControl
    <3>3. QED
      BY <3>1, <3>2
  <2>3. QED
    BY <2>1, <2>2 DEF Reached, Adding
<1>2. mem[s] # "unborn" /\ ~(pc[AcceptThread] = "ac_add" /\ cur[AcceptThread] = s)
  BY <1>1 DEF Strangers
<1>3. AcceptThread \in AllThreads
  BY WhoIsWho
<1>4. QED
  BY <1>2, <1>3 DEF Calm, AllControl

\* deletes nothing,
LEMMA RegisteredKept ==
  ASSUME AllControl, Registered, NEW t \in AllThreads, NEW l, Calm(t, l)
  PROVE  Registered'
<1>1. \A u \in AllThreads : pc'[u] \in {"ac_add", "td_delete"} => u # t /\ pc[u] = pc'[u] /\ cur'[u] = cur[u]
  BY DEF Calm, AllControl
<1>2. AcceptThread \in AllThreads /\ mem' = mem /\ m_sessions' = m_sessions
  BY WhoIsWho DEF Calm
<1>3. QED
  BY <1>1, <1>2 DEF Registered

\* and, if it is none of a handler, leaves the broadcast where it is.
LEMMA BroadcastKept ==
  ASSUME AllControl, ObjectTypes, Locked, Told, NEW t \in AllThreads \ Handlers, NEW l, Calm(t, l),
         UNCHANGED <<m_lock, unsent>>
  PROVE  Locked' /\ Told'
<1>1. \A h \in Handlers : pc'[h] = pc[h] /\ cur'[h] = cur[h] /\ ret'[h] = ret[h]
  BY WhoIsWho DEF Calm, AllControl
<1>2. m_sessions' = m_sessions /\ \A s \in Sessions : state'[s] = "Connected" => state[s] = "Connected"
  BY DEF Calm
<1>3. Locked'
  BY <1>1, <1>2 DEF Locked
<1>4. Told'
  <2> SUFFICES ASSUME NEW h \in Handlers, m_lock' = h, NEW s \in m_sessions'
               PROVE  s \in unsent' \/ state'[s] # "Connected" \/ (cur'[h] = s /\ pc'[h] \in Untold)
    BY DEF Told
  <2>1. s \in m_sessions /\ s \in Sessions
    BY <1>2 DEF ObjectTypes
  <2>2. s \in unsent \/ state[s] # "Connected" \/ (cur[h] = s /\ pc[h] \in Untold)
    BY <2>1 DEF Told
  <2>3. QED
    BY <1>1, <1>2, <2>1, <2>2
<1>5. QED
  BY <1>3, <1>4


\* Such a step that also keeps the types.
Quiet(t) == StopTypes' /\ \E l \in AllLabels : Calm(t, l)

\* The labels that have nothing to do with the registry.
Common == AllLabels \ {"ac_add", "td_delete", "gm_mark", "gm_post"}

\* A move is calm if all that becomes known is the thread's own session.
LEMMA MoveIsCalm ==
  ASSUME AllControl, NEW t \in AllThreads, NEW l \in Common, ~Adding(t), Goes(t, l),
         UNCHANGED <<mem, m_sessions>>,
         \A s \in Sessions : state'[s] = "Connected" => state[s] = "Connected",
         \A s \in Sessions : Known(s)' => Known(s) \/ s = cur[t]
  PROVE  Calm(t, l)
<1>1. \A s \in Sessions : s = cur[t] => Reached(s)
  BY DEF Reached
<1>2. \A s \in Sessions : cur'[t] = s => s = cur[t]
  BY WhoIsWho DEF Goes
<1>3. \A s \in Sessions : Known(s) => Reached(s)
  BY DEF Reached
<1>4. \A s \in Sessions : cur'[t] = s \/ Known(s)' => Reached(s)
  BY <1>1, <1>2, <1>3
<1>5. QED
  BY <1>4 DEF Calm, Goes, Common

\* What is known depends on these variables only.
LEMMA KnownKept ==
  ASSUME UNCHANGED <<recvIo, sendIo, cleanupMsgs, jobQueue, players, inRoom, subject, todo>>,
         NEW s, Known(s)'
  PROVE  Known(s)
BY DEF Known

\* A step that touches neither the kernel nor the game.
LEMMA PlainStep ==
  ASSUME StopTypes, NEW t \in AllThreads, NEW l \in Common, ~Adding(t), Goes(t, l), AllControl',
         ObjectTypes', UNCHANGED <<mem, m_sessions, kernelVars, gameVars>>,
         \A s \in Sessions : state'[s] = "Connected" => state[s] = "Connected"
  PROVE  Quiet(t)
<1>1. Calm(t, l)
  BY KnownKept, MoveIsCalm DEF StopTypes
<1>2. KernelTypes' /\ StopGameTypes'
  BY DEF StopTypes, KernelTypes, StopGameTypes
<1>3. pc'[GameThread] \in {"gm_mark", "gm_post"} => task' = "disconnect"
  BY WhoIsWho DEF StopTypes, AllControl, Goes, Common
<1>4. QED
  BY <1>1, <1>2, <1>3 DEF Quiet, StopTypes, Common

\* A step that queues a job about the thread's session.
LEMMA PushStep ==
  ASSUME StopTypes, NEW t \in AllThreads, NEW l \in Common, ~Adding(t), Goes(t, l), AllControl',
         NEW type \in JobTypes, cur[t] \in Sessions, Push(type, cur[t]),
         UNCHANGED <<objVars, kernelVars, players, inRoom, task, subject, todo>>
  PROVE  Quiet(t)
<1> DEFINE J == Jobs \cup {ShutdownJob}
           job == [type |-> type, session |-> cur[t]]
<1>1. jobQueue \in Seq(J) /\ job \in J
  BY DEF StopTypes, StopGameTypes, Jobs
<1>2. jobQueue' = Append(jobQueue, job) /\ job.session = cur[t]
  BY DEF Push
<1> HIDE DEF J, job
<1>3. /\ jobQueue' \in Seq(J) /\ Len(jobQueue) \in Nat /\ Len(jobQueue') = Len(jobQueue) + 1
      /\ \A i \in 1 .. Len(jobQueue) : jobQueue'[i] = jobQueue[i]
      /\ jobQueue'[Len(jobQueue) + 1] = job
  BY <1>1, <1>2, AppendProperties, LenProperties
<1>4. ASSUME NEW s \in Sessions, \E i \in 1 .. Len(jobQueue') : jobQueue'[i].session = s
      PROVE  s = cur[t] \/ \E i \in 1 .. Len(jobQueue) : jobQueue[i].session = s
  BY <1>2, <1>3, <1>4
<1>5. \A s \in Sessions : Known(s)' => Known(s) \/ s = cur[t]
  BY <1>4 DEF Known
<1>6. Calm(t, l)
  BY <1>5, MoveIsCalm DEF StopTypes
<1>7. ObjectTypes' /\ KernelTypes'
  BY DEF StopTypes, KernelTypes, ObjectTypes
<1>8. StopGameTypes'
  BY <1>3 DEF StopTypes, StopGameTypes, J
<1>9. pc'[GameThread] \in {"gm_mark", "gm_post"} => task' = "disconnect"
  BY WhoIsWho DEF StopTypes, AllControl, Goes, Common
<1>10. QED
  BY <1>6, <1>7, <1>8, <1>9 DEF Quiet, StopTypes, Common

-----------------------------------------------------------------------------
(* The functions of the code, for any thread that runs them.               *)

\* Names for the labels.
LEMMA CommonLabels ==
  /\ Labels \ {"gm_mark", "gm_post", "td_delete"} \subseteq Common
  /\ {"ac_accept", "ac_push", "rx_queue", "exited"} \cup HandlerLabels \subseteq Common
  /\ ReturnLabels \cup {"h_next"} \subseteq Common
  /\ \A t : AfterSend(t) \in {"g_loop", "kick"} /\ AfterRecv(t) \in {"idle", "td_state"}
  /\ AfterSendComplete = "td_state" /\ {"kick", "g_loop", "idle", "td_state", "rx_parse"} \subseteq ReturnLabels
BY DEF Common, AllLabels, Labels, HandlerLabels, AcceptLoopLabels, ReturnLabels, AcceptLabels,
       ReceiveLabels, PostRecvLabels, SendLabels, CloseLabels, DestroyLabels, GameLabels,
       AfterSend, AfterRecv, AfterSendComplete


\* Whoever is at work has a session, and not one it has yet to register.
LEMMA AtWork ==
  ASSUME AllControl, NEW t \in AllThreads, pc[t] \notin Carefree \cup {"ac_add"}
  PROVE  cur[t] \in Sessions /\ ~Adding(t)
BY DEF AllControl, Adding

\* Session::PostRecv.
LEMMA PostRecvQuiet ==
  ASSUME StopTypes, NEW t \in AllThreads, PostRecv(t)
  PROVE  Quiet(t)
<1> USE CommonLabels
<1>1. pc[t] \notin Carefree \cup {"ac_add"}
  BY DEF PostRecv, PostRecvCheck, PostRecvClaim, PostRecvCount, PostRecvCall, PostRecvRelease,
         PostRecvUncount, Carefree, HandlerLabels
<1>2. cur[t] \in Sessions /\ ~Adding(t) /\ AllControl /\ ObjectTypes
  BY <1>1, AtWork DEF StopTypes
<1>3. {"pr_claim", "pr_count", "pr_call", "pr_release", "pr_uncount", "rc_claim"} \subseteq Common
  BY DEF Labels, PostRecvLabels, CloseLabels
<1>4. Common \subseteq AllLabels
  BY DEF Common
<1>5. CASE PostRecvCheck(t)
  BY <1>2, <1>3, <1>4, <1>5, GotoGoes, PlainStep DEF PostRecvCheck, ObjectTypes
<1>6. CASE PostRecvClaim(t)
  BY <1>2, <1>3, <1>4, <1>6, GotoGoes, PlainStep DEF PostRecvClaim, ObjectTypes
<1>7. CASE PostRecvCount(t)
  BY <1>2, <1>3, <1>4, <1>7, GotoGoes, PlainStep DEF PostRecvCount, ObjectTypes, CountIO
<1>8. CASE PostRecvCall(t)
  <2>1. PICK l \in Common : Goto(t, l)
    BY <1>3, <1>8 DEF PostRecvCall
  <2>2. AllControl' /\ Goes(t, l)
    BY <1>2, <1>4, <2>1, GotoGoes
  <2>3. \A s \in Sessions : Known(s)' => Known(s) \/ s = cur[t]
    BY <1>2, <1>8 DEF PostRecvCall, Known, StopTypes, KernelTypes
  <2>4. Calm(t, l)
    BY <1>2, <1>8, <2>2, <2>3, MoveIsCalm DEF PostRecvCall
  <2>5. ObjectTypes' /\ KernelTypes' /\ StopGameTypes'
    <3>1. KernelTypes'
      BY <1>2, <1>8 DEF PostRecvCall, StopTypes, KernelTypes
    <3>2. ObjectTypes' /\ StopGameTypes'
      BY <1>8 DEF PostRecvCall, StopTypes, ObjectTypes, StopGameTypes
    <3>3. QED
      BY <3>1, <3>2
  <2>6. pc'[GameThread] \in {"gm_mark", "gm_post"} => task' = "disconnect"
    BY <1>8, <2>2, WhoIsWho DEF PostRecvCall, StopTypes, AllControl, Goes, Common
  <2>7. QED
    BY <1>4, <2>2, <2>4, <2>5, <2>6 DEF Quiet, StopTypes
<1>9. CASE PostRecvRelease(t)
  BY <1>2, <1>3, <1>4, <1>9, GotoGoes, PlainStep DEF PostRecvRelease, ObjectTypes
<1>10. CASE PostRecvUncount(t)
  BY <1>2, <1>3, <1>4, <1>10, CallGoes, PlainStep DEF PostRecvUncount, ObjectTypes, UncountIO
<1>11. QED
  BY <1>5, <1>6, <1>7, <1>8, <1>9, <1>10 DEF PostRecv

\* Session::PostSend.
LEMMA PostSendQuiet ==
  ASSUME StopTypes, NEW t \in AllThreads,
         PostSendCheck(t) \/ PostSendCount(t) \/ PostSendCall(t) \/ PostSendUncount(t)
  PROVE  Quiet(t)
<1> USE CommonLabels
<1>1. pc[t] \notin Carefree \cup {"ac_add"}
  BY DEF PostSendCheck, PostSendCount, PostSendCall, PostSendUncount, Carefree, HandlerLabels
<1>2. cur[t] \in Sessions /\ ~Adding(t) /\ AllControl /\ ObjectTypes
  BY <1>1, AtWork DEF StopTypes
<1>3. {"ps_count", "ps_call", "ps_uncount", "rc_claim", "kick", "g_loop"} \subseteq Common
  BY DEF Labels, SendLabels, CloseLabels
<1>4. Common \subseteq AllLabels
  BY DEF Common
<1>5. CASE PostSendCheck(t)
  BY <1>2, <1>3, <1>4, <1>5, GotoGoes, PlainStep DEF PostSendCheck, ObjectTypes
<1>6. CASE PostSendCount(t)
  BY <1>2, <1>3, <1>4, <1>6, GotoGoes, PlainStep DEF PostSendCount, ObjectTypes, CountIO
<1>7. CASE PostSendCall(t)
  <2>1. PICK l \in Common : Goto(t, l)
    BY <1>3, <1>7 DEF PostSendCall
  <2>2. AllControl' /\ Goes(t, l)
    BY <1>2, <1>4, <2>1, GotoGoes
  <2>3. \A s \in Sessions : Known(s)' => Known(s) \/ s = cur[t]
    BY <1>2, <1>7 DEF PostSendCall, Known, StopTypes, KernelTypes
  <2>4. Calm(t, l)
    BY <1>2, <1>7, <2>2, <2>3, MoveIsCalm DEF PostSendCall
  <2>5. ObjectTypes' /\ KernelTypes' /\ StopGameTypes'
    <3>1. KernelTypes'
      BY <1>2, <1>7, WhoIsWho DEF PostSendCall, StopTypes, KernelTypes
    <3>2. ObjectTypes' /\ StopGameTypes'
      BY <1>7 DEF PostSendCall, StopTypes, ObjectTypes, StopGameTypes
    <3>3. QED
      BY <3>1, <3>2
  <2>6. pc'[GameThread] \in {"gm_mark", "gm_post"} => task' = "disconnect"
    BY <1>7, <2>2, WhoIsWho DEF PostSendCall, StopTypes, AllControl, Goes, Common
  <2>7. QED
    BY <1>4, <2>2, <2>4, <2>5, <2>6 DEF Quiet, StopTypes
<1>8. CASE PostSendUncount(t)
  BY <1>2, <1>3, <1>4, <1>8, CallGoes, PlainStep DEF PostSendUncount, ObjectTypes, UncountIO
<1>9. QED
  BY <1>5, <1>6, <1>7, <1>8

\* Session::RequestClose and Close.
LEMMA RequestCloseQuiet ==
  ASSUME StopTypes, NEW t \in AllThreads, RequestClose(t)
  PROVE  Quiet(t)
<1> USE CommonLabels
<1>1. pc[t] \notin Carefree \cup {"ac_add"}
  BY DEF RequestClose, RequestCloseClaim, CloseSocket, CloseDone, EnqueueDisconnectJob,
         Carefree, HandlerLabels
<1>2. cur[t] \in Sessions /\ ~Adding(t) /\ AllControl /\ ObjectTypes
  BY <1>1, AtWork DEF StopTypes
<1>3. {"rc_close", "rc_closed", "rc_job"} \subseteq Common
  BY DEF Labels, CloseLabels
<1>4. Common \subseteq AllLabels
  BY DEF Common
<1>5. CASE RequestCloseClaim(t)
  <2>1. ObjectTypes' /\ \A s \in Sessions : state'[s] = "Connected" => state[s] = "Connected"
    BY <1>2, <1>5 DEF RequestCloseClaim, ObjectTypes, ObjectStates
  <2>2. \E l \in Common : AllControl' /\ Goes(t, l)
    BY <1>2, <1>3, <1>4, <1>5, GotoGoes, ReturnGoes DEF RequestCloseClaim
  <2>3. QED
    BY <1>2, <1>5, <2>1, <2>2, PlainStep DEF RequestCloseClaim
<1>6. CASE CloseSocket(t)
  <2>1. ObjectTypes'
    BY <1>2, <1>6 DEF CloseSocket, ObjectTypes
  <2>2. \E l \in Common : AllControl' /\ Goes(t, l)
    BY <1>2, <1>3, <1>4, <1>6, GotoGoes DEF CloseSocket
  <2>3. QED
    BY <1>2, <1>6, <2>1, <2>2, PlainStep DEF CloseSocket
<1>7. CASE CloseDone(t)
  <2>1. ObjectTypes' /\ \A s \in Sessions : state'[s] = "Connected" => state[s] = "Connected"
    BY <1>2, <1>7 DEF CloseDone, ObjectTypes, ObjectStates
  <2>2. \E l \in Common : AllControl' /\ Goes(t, l)
    BY <1>2, <1>3, <1>4, <1>7, GotoGoes DEF CloseDone
  <2>3. QED
    BY <1>2, <1>7, <2>1, <2>2, PlainStep DEF CloseDone
<1>8. CASE EnqueueDisconnectJob(t)
  <2>1. "Disconnect" \in JobTypes
    BY DEF JobTypes
  <2>2. QED
    BY <1>2, <1>8, <2>1, ReturnGoes, PushStep DEF EnqueueDisconnectJob
<1>9. QED
  BY <1>5, <1>6, <1>7, <1>8 DEF RequestClose

\* Session::OnRecvComplete, ProcessPacket and SendPacket, as a stopping server does them.
LEMMA ReceiveQuiet ==
  ASSUME StopTypes, NEW t \in AllThreads,
         \/ RecvCompleteFlag(t) \/ RecvCompleteCount(t) \/ RecvCompleteCheck(t)
         \/ ParseDone(t) \/ ParseFail(t) \/ Kick(t) \/ StopSendCheck(t)
         \/ StopParsePacket(t) \/ PacketJobCheck(t) \/ PacketJobPush(t) \/ OnSendComplete(t)
  PROVE  Quiet(t)
<1> USE CommonLabels
<1>1. pc[t] \notin Carefree \cup {"ac_add"}
  BY DEF RecvCompleteFlag, RecvCompleteCount, RecvCompleteCheck, ParseDone, ParseFail, Kick,
         StopSendCheck, SendPacketCheck, StopParsePacket, ParsePacket, PacketJobCheck,
         PacketJobPush, OnSendComplete, Carefree, HandlerLabels
<1>2. cur[t] \in Sessions /\ ~Adding(t) /\ AllControl /\ ObjectTypes
  BY <1>1, AtWork DEF StopTypes
<1>3. {"rx_count", "rx_state", "rx_parse", "rx_push", "rx_queue", "pr_state", "sp_state",
       "ps_state", "rc_claim", "kick", "g_loop"} \subseteq Common
  BY DEF Labels, ReceiveLabels, PostRecvLabels, SendLabels, CloseLabels
<1>4. Common \subseteq AllLabels
  BY DEF Common
<1>5. CASE RecvCompleteFlag(t)
  BY <1>2, <1>3, <1>4, <1>5, GotoGoes, PlainStep DEF RecvCompleteFlag, ObjectTypes
<1>6. CASE RecvCompleteCount(t)
  <2>1. ObjectTypes'
    BY <1>2, <1>6 DEF RecvCompleteCount, ObjectTypes, UncountIO
  <2>2. \E l \in Common : AllControl' /\ Goes(t, l)
    BY <1>2, <1>3, <1>4, <1>6, GotoGoes, CallGoes DEF RecvCompleteCount
  <2>3. QED
    BY <1>2, <1>6, <2>1, <2>2, PlainStep DEF RecvCompleteCount
<1>7. CASE RecvCompleteCheck(t)
  BY <1>2, <1>3, <1>4, <1>7, GotoGoes, PlainStep DEF RecvCompleteCheck, ObjectTypes
<1>8. CASE ParseDone(t)
  BY <1>2, <1>3, <1>4, <1>8, GotoGoes, PlainStep DEF ParseDone, ObjectTypes
<1>9. CASE ParseFail(t)
  BY <1>2, <1>3, <1>4, <1>9, CallGoes, PlainStep DEF ParseFail, ObjectTypes
<1>10. CASE Kick(t)
  BY <1>2, <1>3, <1>4, <1>10, CallGoes, PlainStep DEF Kick, ObjectTypes
<1>11. CASE StopSendCheck(t)
  BY <1>2, <1>3, <1>4, <1>11, GotoGoes, PlainStep DEF StopSendCheck, SendPacketCheck, ObjectTypes
<1>12. CASE StopParsePacket(t)
  <2>1. /\ \E l \in Common : AllControl' /\ Goes(t, l)
        /\ UNCHANGED <<objVars, recvIo, sendIo, cleanupMsgs, gameVars>>
        /\ packets' = [packets EXCEPT ![cur[t]] = @ - 1] /\ packets[cur[t]] > 0
    <3>1. CASE IsShuttingDown
      <4>1. Goes(t, "rx_parse")
        BY <1>2, <1>12, <3>1 DEF StopParsePacket, Goes, AllControl
      <4>2. QED
        BY <1>2, <1>3, <1>12, <3>1, <4>1 DEF StopParsePacket, AllControl
    <3>2. CASE ~IsShuttingDown
      BY <1>2, <1>3, <1>4, <1>12, <3>2, GotoGoes DEF StopParsePacket, ParsePacket
    <3>3. QED
      BY <3>1, <3>2
  <2>2. PICK l \in Common : AllControl' /\ Goes(t, l)
    BY <2>1
  <2>3. Calm(t, l)
    BY <1>2, <2>1, <2>2, KnownKept, MoveIsCalm
  <2>4. KernelTypes' /\ ObjectTypes' /\ StopGameTypes'
    <3>1. ObjectTypes'
      BY <1>2, <2>1 DEF ObjectTypes
    <3>2. StopGameTypes'
      BY <2>1 DEF StopTypes, StopGameTypes
    <3>3. packets \in [Sessions -> Nat]
      BY DEF StopTypes, KernelTypes
    <3>4. packets[cur[t]] - 1 \in Nat
      BY <1>2, <2>1, <3>3
    <3>5. packets' \in [Sessions -> Nat]
      BY <1>2, <2>1, <3>3, <3>4
    <3>6. UNCHANGED <<recvIo, sendIo, cleanupMsgs>>
      BY <2>1
    <3>7. QED
      BY <3>1, <3>2, <3>5, <3>6 DEF StopTypes, KernelTypes
  <2>5. pc'[GameThread] \in {"gm_mark", "gm_post"} => task' = "disconnect"
    BY <2>1, <2>2, WhoIsWho DEF StopTypes, AllControl, Goes, Common
  <2>6. QED
    BY <1>4, <2>2, <2>3, <2>4, <2>5 DEF Quiet, StopTypes
<1>13. CASE PacketJobCheck(t)
  BY <1>2, <1>3, <1>4, <1>13, GotoGoes, PlainStep DEF PacketJobCheck, ObjectTypes
<1>14. CASE PacketJobPush(t)
  <2>1. "Packet" \in JobTypes
    BY DEF JobTypes
  <2>2. QED
    BY <1>2, <1>3, <1>4, <1>14, <2>1, GotoGoes, PushStep DEF PacketJobPush
<1>15. CASE OnSendComplete(t)
  <2>1. ObjectTypes'
    BY <1>2, <1>15 DEF OnSendComplete, ObjectTypes, UncountIO
  <2>2. \E l \in Common : AllControl' /\ Goes(t, l)
    BY <1>2, <1>3, <1>4, <1>15, GotoGoes, CallGoes DEF OnSendComplete
  <2>3. QED
    BY <1>2, <1>15, <2>1, <2>2, PlainStep DEF OnSendComplete
<1>16. QED
  BY <1>5, <1>6, <1>7, <1>8, <1>9, <1>10, <1>11, <1>12, <1>13, <1>14, <1>15

\* TryDestroySession, up to the claim.
LEMMA DestroyQuiet ==
  ASSUME StopTypes, NEW t \in AllThreads,
         DestroyCheckState(t) \/ DestroyCheckCleanup(t) \/ DestroyCheckIO(t) \/ TryBeginDestroy(t)
  PROVE  Quiet(t)
<1> USE CommonLabels
<1>1. pc[t] \notin Carefree \cup {"ac_add"}
  BY DEF DestroyCheckState, DestroyCheckCleanup, DestroyCheckIO, TryBeginDestroy,
         Carefree, HandlerLabels
<1>2. cur[t] \in Sessions /\ ~Adding(t) /\ AllControl /\ ObjectTypes
  BY <1>1, AtWork DEF StopTypes
<1>3. {"idle", "td_clean", "td_count", "td_claim", "td_remove"} \subseteq Common
  BY DEF Labels, DestroyLabels
<1>4. Common \subseteq AllLabels
  BY DEF Common
<1>5. CASE DestroyCheckState(t)
  BY <1>2, <1>3, <1>4, <1>5, GotoGoes, PlainStep DEF DestroyCheckState, ObjectTypes
<1>6. CASE DestroyCheckCleanup(t)
  BY <1>2, <1>3, <1>4, <1>6, GotoGoes, PlainStep DEF DestroyCheckCleanup, ObjectTypes
<1>7. CASE DestroyCheckIO(t)
  BY <1>2, <1>3, <1>4, <1>7, GotoGoes, PlainStep DEF DestroyCheckIO, ObjectTypes
<1>8. CASE TryBeginDestroy(t)
  BY <1>2, <1>3, <1>4, <1>8, GotoGoes, PlainStep DEF TryBeginDestroy, ObjectTypes
<1>9. QED
  BY <1>5, <1>6, <1>7, <1>8

\* The accept thread's steps but for the two that make a session and register it.
LEMMA AcceptQuiet ==
  ASSUME StopTypes, AcceptLoop \/ AcceptFail \/ ConnectJobCheck \/ ConnectJobPush
  PROVE  Quiet(AcceptThread)
<1> USE CommonLabels
<1>1. AcceptThread \in AllThreads /\ AllControl /\ ObjectTypes
  BY WhoIsWho DEF StopTypes
<1>2. {"idle", "ac_accept", "exited", "pr_state", "ac_push"} \subseteq Common
  BY DEF Labels, PostRecvLabels
<1>3. Common \subseteq AllLabels
  BY DEF Common
<1>4. CASE AcceptLoop \/ AcceptFail
  <2>1. PICK l \in {"idle", "ac_accept", "exited"} : Goto(AcceptThread, l)
    BY <1>4 DEF AcceptLoop, AcceptFail
  <2>2. AllControl' /\ Goes(AcceptThread, l)
    BY <1>1, <1>2, <1>3, <2>1, GotoGoes DEF Carefree
  <2>3. ~Adding(AcceptThread) /\ UNCHANGED <<objVars, kernelVars, gameVars>>
    BY <1>4 DEF AcceptLoop, AcceptFail, Adding
  <2>4. QED
    BY <1>1, <1>2, <2>2, <2>3, PlainStep DEF ObjectTypes
<1>5. CASE ConnectJobCheck
  <2>1. cur[AcceptThread] \in Sessions /\ ~Adding(AcceptThread)
    BY <1>1, <1>5, AtWork DEF ConnectJobCheck, Carefree, HandlerLabels
  <2>2. QED
    BY <1>1, <1>2, <1>3, <1>5, <2>1, GotoGoes, PlainStep DEF ConnectJobCheck, ObjectTypes
<1>6. CASE ConnectJobPush
  <2>1. cur[AcceptThread] \in Sessions /\ ~Adding(AcceptThread) /\ "Connect" \in JobTypes
    BY <1>1, <1>6, AtWork DEF ConnectJobPush, Carefree, HandlerLabels, JobTypes
  <2>2. QED
    BY <1>1, <1>2, <1>3, <1>6, <2>1, GotoGoes, PushStep DEF ConnectJobPush
<1>7. QED
  BY <1>4, <1>5, <1>6

\* A worker takes up a completion of a session that the kernel knows.
LEMMA TakeQuiet ==
  ASSUME StopTypes, NEW w \in Workers, NEW s \in Sessions,
         TakeRecv(w, s) \/ TakeSend(w, s) \/ TakeCleanup(w, s)
  PROVE  Quiet(w)
<1>1. w \in AllThreads /\ w # AcceptThread /\ w # GameThread /\ AllControl
  BY WhoIsWho DEF StopTypes
<1>2. {"rx_flag", "tx_count", "td_state"} \subseteq Common
  BY CommonLabels DEF Labels, ReceiveLabels, DestroyLabels
<1>3. Common \subseteq AllLabels
  BY DEF Common
<1>4. PICK l \in Common : Start(w, l, s)
  BY <1>2 DEF TakeRecv, TakeSend, TakeCleanup
<1>5. AllControl' /\ pc' = [pc EXCEPT ![w] = l] /\ cur' = [cur EXCEPT ![w] = s] /\ ret' = ret
  BY <1>1, <1>3, <1>4, StartGoes
<1>6. Known(s)
  BY DEF TakeRecv, TakeSend, TakeCleanup, Known
<1>7. KernelTypes'
  <2>1. CASE TakeRecv(w, s)
    BY <2>1 DEF TakeRecv, StopTypes, KernelTypes
  <2>2. CASE TakeSend(w, s)
    BY <2>2, WhoIsWho DEF TakeSend, StopTypes, KernelTypes
  <2>3. CASE TakeCleanup(w, s)
    BY <2>3 DEF TakeCleanup, StopTypes, KernelTypes
  <2>4. QED
    BY <2>1, <2>2, <2>3
<1>8. ASSUME NEW q \in Sessions, Known(q)'
      PROVE  Known(q)
  <2>1. CASE q = s
    BY <1>6, <2>1
  <2>2. CASE q # s
    BY <1>8, <2>2 DEF TakeRecv, TakeSend, TakeCleanup, Known, StopTypes, KernelTypes
  <2>3. QED
    BY <2>1, <2>2
<1>9. UNCHANGED <<objVars, gameVars>>
  BY DEF TakeRecv, TakeSend, TakeCleanup
<1>10. Calm(w, l)
  <2>1. \A q \in Sessions : cur'[w] = q \/ Known(q)' => Reached(q)
    BY <1>1, <1>5, <1>6, <1>8 DEF Reached, AllControl
  <2>2. QED
    BY <1>1, <1>5, <1>9, <2>1 DEF Calm, Common, Adding, AllControl
<1>11. ObjectTypes' /\ StopGameTypes'
  BY <1>9 DEF StopTypes, ObjectTypes, StopGameTypes
<1>12. pc'[GameThread] \in {"gm_mark", "gm_post"} => task' = "disconnect"
  BY <1>1, <1>5, <1>9 DEF StopTypes
<1>13. QED
  BY <1>3, <1>5, <1>7, <1>10, <1>11, <1>12 DEF Quiet, StopTypes

-----------------------------------------------------------------------------
(* The game thread.                                                        *)

\* The job that is taken is about a session, but for the Shutdown job; what is
\* left was in the queue.
LEMMA JobTaken ==
  ASSUME StopGameTypes, NEW type \in JobTypes \cup {"Shutdown"}, NextJob(type)
  PROVE  /\ jobQueue' \in Seq(Jobs \cup {ShutdownJob})
         /\ type \in JobTypes => Head(jobQueue).session \in Sessions
         /\ \E i \in 1 .. Len(jobQueue) : jobQueue[i].session = Head(jobQueue).session
         /\ \A s : (\E i \in 1 .. Len(jobQueue') : jobQueue'[i].session = s)
                     => \E i \in 1 .. Len(jobQueue) : jobQueue[i].session = s
<1> DEFINE J == Jobs \cup {ShutdownJob}
<1>1. jobQueue \in Seq(J) /\ jobQueue # <<>> /\ jobQueue' = Tail(jobQueue)
  BY DEF StopGameTypes, NextJob
<1> HIDE DEF J
<1>2. /\ jobQueue' \in Seq(J) /\ Len(jobQueue) \in Nat /\ Len(jobQueue) >= 1
      /\ Len(jobQueue') = Len(jobQueue) - 1
      /\ \A i \in 1 .. Len(jobQueue') : jobQueue'[i] = jobQueue[i + 1]
      /\ Head(jobQueue) = jobQueue[1] /\ Head(jobQueue) \in J
  BY <1>1, HeadTailProperties, LenProperties, EmptySeq
<1>3. type \in JobTypes => Head(jobQueue).session \in Sessions
  <2>1. Head(jobQueue).type = type
    BY DEF NextJob
  <2>2. ShutdownJob.type = "Shutdown" /\ "Shutdown" \notin JobTypes
    BY DEF ShutdownJob, JobTypes
  <2>3. QED
    BY <1>2, <2>1, <2>2 DEF J, Jobs
<1>4. \A i \in 1 .. Len(jobQueue') : i + 1 \in 1 .. Len(jobQueue)
  BY <1>2
<1>5. 1 \in 1 .. Len(jobQueue)
  BY <1>2
<1>6. QED
  BY <1>2, <1>3, <1>4, <1>5 DEF J

\* A job that the game thread takes is about a session somebody knew.
LEMMA PopQuiet ==
  ASSUME StopTypes, GamePop \/ PopShutdown
  PROVE  Quiet(GameThread)
<1> DEFINE q == Head(jobQueue).session
<1>1. GameThread \in AllThreads /\ GameThread # AcceptThread /\ AllControl /\ StopGameTypes
      /\ ~Adding(GameThread)
  BY WhoIsWho DEF StopTypes, Adding
<1>2. {"idle", "g_loop", "exited"} \subseteq Common /\ Common \subseteq AllLabels
  BY CommonLabels DEF Labels, GameLabels, Common
<1>3. PICK type \in JobTypes \cup {"Shutdown"} : NextJob(type) /\ (type = "Shutdown" => PopShutdown)
  BY DEF GamePop, PopConnect, PopPacket, PopDisconnect, PopShutdown, NextJob, JobTypes
<1>4. /\ jobQueue' \in Seq(Jobs \cup {ShutdownJob}) /\ Known(q)
      /\ \A s : (\E i \in 1 .. Len(jobQueue') : jobQueue'[i].session = s)
                  => \E i \in 1 .. Len(jobQueue) : jobQueue[i].session = s
  BY <1>1, <1>3, JobTaken DEF Known
<1>5. GamePop => q \in Sessions
  <2>1. CASE PopConnect
    BY <1>1, <2>1, JobTaken DEF PopConnect, JobTypes
  <2>2. CASE PopPacket
    BY <1>1, <2>2, JobTaken DEF PopPacket, JobTypes
  <2>3. CASE PopDisconnect
    BY <1>1, <2>3, JobTaken DEF PopDisconnect, JobTypes
  <2>4. QED
    BY <2>1, <2>2, <2>3 DEF GamePop
<1> HIDE DEF q
<1>6. UNCHANGED <<objVars, kernelVars>>
  BY DEF GamePop, PopConnect, PopPacket, PopDisconnect, PopShutdown
<1>7. /\ players' \in SUBSET Sessions /\ inRoom' \in SUBSET players' /\ task' \in Tasks
      /\ subject' \in Sessions \cup {NoSession} /\ (task' # "none" => subject' \in Sessions)
      /\ todo' \in SUBSET Sessions
      /\ \A s : s \in players' \cup todo' \cup inRoom' \/ subject' = s =>
                  s = q \/ s \in players \cup todo \cup inRoom \/ subject = s
  <2>1. CASE PopConnect
    BY <1>1, <1>5, <2>1 DEF PopConnect, GamePop, StopGameTypes, q
  <2>2. CASE PopPacket
    BY <1>1, <1>5, <2>2 DEF PopPacket, GamePop, StopGameTypes, Tasks, q
  <2>3. CASE PopDisconnect
    BY <1>1, <1>5, <2>3 DEF PopDisconnect, GamePop, StopGameTypes, Tasks, q
  <2>4. CASE PopShutdown
    BY <1>1, <2>4 DEF PopShutdown, StopGameTypes
  <2>5. QED
    BY <2>1, <2>2, <2>3, <2>4 DEF GamePop
<1>8. \A s \in Sessions : Known(s)' => Known(s) \/ s = q
  BY <1>4, <1>6, <1>7 DEF Known
<1>9. \E l \in {"idle", "g_loop", "exited"} : Goes(GameThread, l) /\ AllControl'
  <2>1. CASE UNCHANGED threadVars
    <3>1. pc[GameThread] = "idle"
      BY <1>3 DEF NextJob
    <3>2. pc' = [pc EXCEPT ![GameThread] = "idle"]
      BY <1>1, <2>1, <3>1 DEF AllControl
    <3>3. AllControl'
      BY <1>1, <2>1 DEF AllControl
    <3>4. QED
      BY <2>1, <3>2, <3>3 DEF Goes
  <2>2. ASSUME NEW l \in {"g_loop", "exited"}, Goto(GameThread, l)
        PROVE  Goes(GameThread, l) /\ AllControl'
    BY <1>1, <1>2, <2>2, GotoGoes DEF Carefree
  <2>3. QED
    BY <2>1, <2>2 DEF GamePop, PopConnect, PopPacket, PopDisconnect, PopShutdown
<1>10. PICK l \in {"idle", "g_loop", "exited"} : Goes(GameThread, l) /\ AllControl'
  BY <1>9
<1>11. Calm(GameThread, l)
  <2>1. \A s \in Sessions : Known(s) \/ s = q => Reached(s)
    BY <1>4 DEF Reached
  <2>2. \A s \in Sessions : cur'[GameThread] = s => Reached(s)
    BY <1>1, <1>10, WhoIsWho DEF Goes, Reached
  <2>3. QED
    BY <1>1, <1>6, <1>8, <1>10, <2>1, <2>2 DEF Calm, Goes
<1>12. ObjectTypes' /\ KernelTypes'
  BY <1>6 DEF StopTypes, ObjectTypes, KernelTypes
<1>13. StopGameTypes'
  BY <1>4, <1>7 DEF StopGameTypes
<1>14. pc'[GameThread] \notin {"gm_mark", "gm_post"}
  BY <1>1, <1>10 DEF Goes, AllControl
<1>15. QED
  BY <1>2, <1>10, <1>11, <1>12, <1>13, <1>14 DEF Quiet, StopTypes

\* What the game thread does about a job, it does to sessions it knows.
LEMMA GameQuiet ==
  ASSUME StopTypes, GameStep
  PROVE  Quiet(GameThread)
<1> DEFINE g == GameThread
<1>1. g \in AllThreads /\ g # AcceptThread /\ AllControl /\ StopGameTypes /\ ~Adding(g)
  BY WhoIsWho DEF StopTypes, Adding
<1>2. {"idle", "sp_state", "rc_claim", "gm_mark", "gm_post"} \subseteq AllLabels
  BY DEF AllLabels, Labels, SendLabels, CloseLabels, GameLabels
<1>3. PICK l \in {"idle", "sp_state", "rc_claim", "gm_mark", "gm_post"} : pc' = [pc EXCEPT ![g] = l]
  BY DEF GameStep, GameSend, GameHandled, GameReject, GameDisconnected, MarkGameCleanupDone,
         PostCleanup, Start, Goto
<1>4. \A s \in Sessions : Known(s) => Reached(s)
  BY DEF Reached
<1>5. \A s \in Sessions : s = cur[g] => Reached(s)
  BY <1>1 DEF Reached
<1>6. /\ AllControl' /\ (\A u \in AllThreads : u # g => cur'[u] = cur[u] /\ ret'[u] = ret[u])
      /\ \A s \in Sessions : cur'[g] = s => Reached(s)
  <2>1. CASE GameSend
    <3>1. PICK s \in todo : Start(g, "sp_state", s)
      BY <2>1 DEF GameSend
    <3>2. s \in Sessions /\ Known(s)
      BY <1>1, <3>1 DEF StopGameTypes, Known
    <3>3. AllControl' /\ cur' = [cur EXCEPT ![g] = s] /\ ret' = ret
      BY <1>1, <1>2, <3>1, <3>2, StartGoes
    <3>4. QED
      BY <1>1, <1>4, <3>2, <3>3 DEF AllControl
  <2>2. CASE GameHandled \/ PostCleanup
    <3>1. AllControl' /\ Goes(g, "idle")
      BY <1>1, <1>2, <2>2, GotoGoes DEF GameHandled, PostCleanup, Carefree
    <3>2. QED
      BY <1>5, <3>1, WhoIsWho DEF Goes
  <2>3. CASE GameReject
    <3>1. subject \in Sessions /\ Known(subject)
      BY <1>1, <2>3 DEF GameReject, StopGameTypes, Known
    <3>2. cur' = [cur EXCEPT ![g] = subject] /\ ret' = [ret EXCEPT ![g] = "idle"]
          /\ pc' = [pc EXCEPT ![g] = "rc_claim"]
      BY <2>3 DEF GameReject
    <3>3. AllControl'
      BY <1>1, <1>2, <3>1, <3>2 DEF AllControl, ReturnLabels
    <3>4. QED
      BY <1>1, <1>4, <3>1, <3>2, <3>3 DEF AllControl
  <2>4. CASE GameDisconnected
    <3>1. subject \in Sessions /\ Known(subject)
      BY <1>1, <2>4 DEF GameDisconnected, StopGameTypes, Known
    <3>2. AllControl' /\ cur' = [cur EXCEPT ![g] = subject] /\ ret' = ret
      BY <1>1, <1>2, <2>4, <3>1, StartGoes DEF GameDisconnected
    <3>3. QED
      BY <1>1, <1>4, <3>1, <3>2 DEF AllControl
  <2>5. CASE MarkGameCleanupDone
    <3>1. cur[g] \in Sessions
      BY <1>1, <2>5 DEF MarkGameCleanupDone, AllControl, Carefree, HandlerLabels
    <3>2. AllControl' /\ Goes(g, "gm_post")
      BY <1>1, <1>2, <2>5, <3>1, GotoGoes DEF MarkGameCleanupDone
    <3>3. QED
      BY <1>5, <3>2, WhoIsWho DEF Goes
  <2>6. QED
    BY <2>1, <2>2, <2>3, <2>4, <2>5 DEF GameStep
<1>7. UNCHANGED <<mem, state, m_sessions, jobQueue, players, inRoom, recvIo, sendIo, packets>>
  BY DEF GameStep, GameSend, GameHandled, GameReject, GameDisconnected, MarkGameCleanupDone,
         PostCleanup
<1>8. ObjectTypes'
  BY DEF GameStep, GameSend, GameHandled, GameReject, GameDisconnected, MarkGameCleanupDone,
         PostCleanup, StopTypes, ObjectTypes
<1>9. KernelTypes' /\ StopGameTypes'
      /\ \A s \in Sessions : cleanupMsgs'[s] > 0 \/ s \in todo' \/ subject' = s => Known(s)
  <2>1. CASE GameSend \/ GameHandled \/ GameReject \/ GameDisconnected \/ MarkGameCleanupDone
    <3>1. KernelTypes' /\ cleanupMsgs' = cleanupMsgs
      BY <2>1 DEF GameSend, GameHandled, GameReject, GameDisconnected, MarkGameCleanupDone,
                  StopTypes, KernelTypes
    <3>2. todo' \subseteq todo /\ subject' \in {subject, NoSession} /\ task' \in {task, "none"}
          /\ (subject' = NoSession => task' = "none" \/ subject = NoSession)
      BY <2>1 DEF GameSend, GameHandled, GameReject, GameDisconnected, MarkGameCleanupDone
    <3>3. StopGameTypes'
      BY <1>1, <1>7, <3>2 DEF StopGameTypes, Tasks
    <3>4. QED
      BY <3>1, <3>2, <3>3, WhoIsWho DEF Known
  <2>2. CASE PostCleanup
    <3>1. task = "disconnect" /\ subject \in Sessions
      BY <1>1, <2>2 DEF PostCleanup, StopTypes, StopGameTypes
    <3>2. KernelTypes' /\ \A s \in Sessions : cleanupMsgs'[s] > 0 => cleanupMsgs[s] > 0 \/ s = subject
      BY <2>2, <3>1 DEF PostCleanup, StopTypes, KernelTypes
    <3>3. StopGameTypes'
      BY <1>1, <2>2 DEF PostCleanup, StopGameTypes, Tasks
    <3>4. \A s \in Sessions : s \in todo' \/ subject' = s => s \in todo
      BY <2>2, WhoIsWho DEF PostCleanup
    <3>5. QED
      BY <3>2, <3>3, <3>4 DEF Known
  <2>3. QED
    BY <2>1, <2>2 DEF GameStep
<1>10. \A s \in Sessions : Known(s)' => Known(s)
  BY <1>7, <1>9 DEF Known
<1>11. Calm(g, l)
  BY <1>1, <1>3, <1>4, <1>6, <1>7, <1>10 DEF Calm
<1>12. pc'[g] \in {"gm_mark", "gm_post"} => task' = "disconnect"
  <2>1. CASE GameDisconnected \/ MarkGameCleanupDone
    BY <2>1 DEF GameDisconnected, MarkGameCleanupDone, StopTypes
  <2>2. CASE GameSend \/ GameHandled \/ GameReject \/ PostCleanup
    BY <1>1, <2>2 DEF GameSend, GameHandled, GameReject, PostCleanup, Start, Goto, AllControl
  <2>3. QED
    BY <2>1, <2>2 DEF GameStep
<1>13. QED
  BY <1>2, <1>6, <1>8, <1>9, <1>11, <1>12 DEF Quiet, StopTypes

-----------------------------------------------------------------------------
(* The steps of the other threads keep the invariant.                      *)

\* A step that the registry does not notice.
LEMMA QuietKeeps ==
  ASSUME RInv, NEW t \in AllThreads \ Handlers, Quiet(t), UNCHANGED stopVars
  PROVE  RInv'
<1>1. PICK l : Calm(t, l)
  BY DEF Quiet
<1>2. Strangers' /\ Registered' /\ Locked' /\ Told'
  BY <1>1, StrangersKept, RegisteredKept, BroadcastKept DEF RInv, StopTypes
<1>3. \A h \in Handlers : pc'[h] = pc[h]
  BY <1>1, WhoIsWho DEF Calm, RInv, StopTypes, AllControl
<1>4. OneHandler'
  BY <1>3 DEF RInv, OneHandler
<1>5. QED
  BY <1>2, <1>4 DEF RInv, Quiet

\* The threads of Session while the server stops, but for a deletion.
LEMMA RunningKeeps ==
  ASSUME RInv, NEW t \in Threads, RunningStep(t),
         ~LockedRemoveSession(t), ~DeleteSession(t)
  PROVE  RInv'
<1>1. t \in AllThreads \ Handlers /\ StopTypes
  BY WhoIsWho, ShutdownAssumption DEF RInv
<1>2. UNCHANGED stopVars
  BY DEF RunningStep
<1>3. Quiet(t)
  BY <1>1, PostRecvQuiet, PostSendQuiet, RequestCloseQuiet, ReceiveQuiet, DestroyQuiet
  DEF RunningStep, UnchangedStep
<1>4. QED
  BY <1>1, <1>2, <1>3, QuietKeeps

\* While the lock is free, nobody broadcasts.
LEMMA NobodyBroadcasts ==
  ASSUME RInv, LockIsFree
  PROVE  /\ unsent = {} /\ m_lock \notin Handlers
         /\ \A h \in Handlers : pc[h] \notin InBroadcast /\ cur[h] = NoSession
BY WhoIsWho DEF RInv, Locked, LockIsFree

\* A session leaves the registry before it is deleted, and not while anybody
\* broadcasts.
LEMMA RemoveKeeps ==
  ASSUME RInv, NEW t \in Threads, LockedRemoveSession(t), UNCHANGED stopVars
  PROVE  RInv'
<1> DEFINE c == cur[t]
<1>1. t \in AllThreads /\ t \notin Handlers /\ StopTypes /\ AllControl /\ AcceptThread \in AllThreads
  BY WhoIsWho, ShutdownAssumption DEF RInv, StopTypes
<1>2. pc[t] = "td_remove" /\ LockIsFree /\ m_sessions' = m_sessions \ {c}
  BY DEF LockedRemoveSession, RemoveSession
<1>3. c \in Sessions /\ ~Adding(t)
  BY <1>1, <1>2, AtWork DEF Carefree, HandlerLabels
<1>4. AllControl' /\ Goes(t, "td_delete") /\ cur' = cur /\ ret' = ret
  BY <1>1, <1>3, GotoGoes DEF LockedRemoveSession, RemoveSession, AllLabels, Labels,
     DestroyLabels, Forgets
<1>5. pc' = [pc EXCEPT ![t] = "td_delete"]
  BY <1>4 DEF Goes
<1>6. UNCHANGED <<mem, state, kernelVars, gameVars>>
  BY DEF LockedRemoveSession, RemoveSession
<1>7. StopTypes'
  <2>1. ObjectTypes'
    BY <1>1, <1>2 DEF StopTypes, ObjectTypes, LockedRemoveSession, RemoveSession
  <2>2. KernelTypes' /\ StopGameTypes'
    BY <1>1, <1>6 DEF StopTypes, KernelTypes, StopGameTypes
  <2>3. QED
    BY <1>1, <1>4, <1>5, <1>6, <2>1, <2>2, WhoIsWho DEF StopTypes, AllControl
<1>8. \A h \in Handlers : pc'[h] = pc[h]
  BY <1>1, <1>5, WhoIsWho DEF AllControl
<1>9. OneHandler'
  BY <1>8 DEF RInv, OneHandler
<1>10. Locked' /\ Told'
  BY <1>2, <1>4, <1>8, NobodyBroadcasts DEF RInv, Locked, Told
<1>11. Registered'
  <2>1. \A s \in m_sessions' : mem'[s] = "live"
    BY <1>2, <1>6 DEF RInv, Registered
  <2>2. \A u \in AllThreads : pc'[u] = "td_delete" => cur'[u] \notin m_sessions'
    BY <1>1, <1>2, <1>4, <1>5 DEF RInv, Registered, AllControl
  <2>3. pc'[AcceptThread] = "ac_add" => mem'[cur'[AcceptThread]] = "live"
    BY <1>1, <1>4, <1>5, <1>6 DEF RInv, Registered, AllControl
  <2>4. QED
    BY <2>1, <2>2, <2>3 DEF Registered
<1>12. Strangers'
  <2> SUFFICES ASSUME NEW s \in Sessions, Reached(s)'
               PROVE  mem'[s] # "unborn" /\ ~(pc'[AcceptThread] = "ac_add" /\ cur'[AcceptThread] = s)
    BY DEF Strangers
  <2>1. Reached(s)
    <3>1. CASE Known(s)' \/ s \in m_sessions'
      BY <1>2, <1>6, <3>1, KnownKept DEF Reached
    <3>2. ASSUME NEW u \in AllThreads, cur'[u] = s, ~(u = AcceptThread /\ pc'[u] = "ac_add")
          PROVE  cur[u] = s /\ ~Adding(u)
      BY <1>1, <1>3, <1>4, <1>5, <3>2 DEF Adding, AllControl
    <3>3. QED
      BY <3>1, <3>2 DEF Reached, Adding
  <2>2. QED
    BY <1>1, <1>4, <1>5, <1>6, <2>1 DEF RInv, Strangers, AllControl
<1>13. QED
  BY <1>7, <1>9, <1>10, <1>11, <1>12 DEF RInv

\* What is deleted is not registered any more.
LEMMA DeletionKeeps ==
  ASSUME RInv, NEW t \in Threads, DeleteSession(t), UNCHANGED stopVars
  PROVE  RInv'
<1> DEFINE c == cur[t]
<1>1. t \in AllThreads /\ t \notin Handlers /\ StopTypes /\ AllControl /\ AcceptThread \in AllThreads
  BY WhoIsWho, ShutdownAssumption DEF RInv, StopTypes
<1>2. pc[t] = "td_delete" /\ mem' = [mem EXCEPT ![c] = "freed"]
  BY DEF DeleteSession
<1>3. c \in Sessions /\ ~Adding(t)
  BY <1>1, <1>2, AtWork DEF Carefree, HandlerLabels
<1>4. AllControl' /\ Goes(t, "idle") /\ ret' = ret
  BY <1>1, <1>3, GotoGoes DEF DeleteSession, AllLabels, Labels
<1>5. pc' = [pc EXCEPT ![t] = "idle"] /\ \A u \in AllThreads : u # t => cur'[u] = cur[u]
  BY <1>4 DEF Goes
<1>6. UNCHANGED <<state, m_sessions, kernelVars, gameVars>>
  BY DEF DeleteSession
<1>7. StopTypes'
  <2>1. ObjectTypes'
    BY <1>1, <1>2, <1>3 DEF StopTypes, ObjectTypes, DeleteSession
  <2>2. KernelTypes' /\ StopGameTypes'
    BY <1>1, <1>6 DEF StopTypes, KernelTypes, StopGameTypes
  <2>3. QED
    BY <1>1, <1>4, <1>5, <1>6, <2>1, <2>2, WhoIsWho DEF StopTypes, AllControl
<1>8. \A h \in Handlers : pc'[h] = pc[h] /\ cur'[h] = cur[h]
  BY <1>1, <1>5, WhoIsWho DEF AllControl
<1>9. OneHandler' /\ Locked' /\ Told'
  BY <1>4, <1>6, <1>8 DEF RInv, OneHandler, Locked, Told
<1>10. mem \in [Sessions -> {"unborn", "live", "freed"}] /\ m_sessions \subseteq Sessions
  BY <1>1 DEF StopTypes, ObjectTypes
<1>11. Registered'
  <2>1. \A s \in m_sessions' : mem'[s] = "live"
    <3>1. c \notin m_sessions
      BY <1>1, <1>2 DEF RInv, Registered
    <3>2. QED
      BY <1>2, <1>6, <1>10, <3>1 DEF RInv, Registered
  <2>2. \A u \in AllThreads : pc'[u] = "td_delete" => cur'[u] \notin m_sessions'
    BY <1>1, <1>5, <1>6 DEF RInv, Registered, AllControl
  <2>3. ASSUME pc'[AcceptThread] = "ac_add"
        PROVE  mem'[cur'[AcceptThread]] = "live"
    <3>1. AcceptThread # t /\ pc[AcceptThread] = "ac_add" /\ cur'[AcceptThread] = cur[AcceptThread]
      BY <1>1, <1>5, <2>3 DEF AllControl
    <3>2. Reached(c)
      BY <1>1, <1>3 DEF Reached
    <3>3. cur[AcceptThread] # c
      BY <1>3, <3>1, <3>2 DEF RInv, Strangers
    <3>4. cur[AcceptThread] \in Sessions
      BY <1>1, <3>1 DEF AllControl, Carefree, HandlerLabels
    <3>5. QED
      BY <1>2, <1>10, <3>1, <3>3, <3>4 DEF RInv, Registered
  <2>4. QED
    BY <2>1, <2>2, <2>3 DEF Registered
<1>12. Strangers'
  <2> SUFFICES ASSUME NEW s \in Sessions, Reached(s)'
               PROVE  mem'[s] # "unborn" /\ ~(pc'[AcceptThread] = "ac_add" /\ cur'[AcceptThread] = s)
    BY DEF Strangers
  <2>1. Reached(s)
    <3>1. CASE Known(s)' \/ s \in m_sessions'
      BY <1>6, <3>1, KnownKept DEF Reached
    <3>2. ASSUME NEW u \in AllThreads, cur'[u] = s, ~(u = AcceptThread /\ pc'[u] = "ac_add")
          PROVE  cur[u] = s /\ ~Adding(u)
      BY <1>1, <1>3, <1>4, <1>5, <3>2, WhoIsWho DEF Adding, AllControl, Goes
    <3>3. QED
      BY <3>1, <3>2 DEF Reached, Adding
  <2>2. mem[s] # "unborn" /\ ~(pc[AcceptThread] = "ac_add" /\ cur[AcceptThread] = s)
    BY <2>1 DEF RInv, Strangers
  <2>3. mem'[s] # "unborn"
    BY <1>2, <1>10, <2>2
  <2>4. QED
    BY <1>1, <1>5, <2>2, <2>3 DEF AllControl
<1>13. QED
  BY <1>7, <1>9, <1>11, <1>12 DEF RInv

\* A new session is known to the accept thread alone.
LEMMA NewcomerKeeps ==
  ASSUME RInv, NEW s \in Sessions, AcceptSession(s)
  PROVE  RInv'
<1> DEFINE a == AcceptThread
<1>1. a \in AllThreads /\ a \notin Handlers /\ a # GameThread /\ StopTypes /\ AllControl
  BY WhoIsWho DEF RInv, StopTypes
<1>2. /\ pc[a] = "ac_accept" /\ mem[s] = "unborn" /\ mem' = [mem EXCEPT ![s] = "live"]
      /\ UNCHANGED <<state, m_sessions, kernelVars, gameVars, stopVars>>
  BY DEF AcceptSession
<1>3. AllControl' /\ pc' = [pc EXCEPT ![a] = "ac_add"] /\ cur' = [cur EXCEPT ![a] = s] /\ ret' = ret
  BY <1>1, StartGoes DEF AcceptSession, AllLabels, AcceptLoopLabels
<1>4. StopTypes'
  <2>1. ObjectTypes'
    BY <1>1, <1>2 DEF StopTypes, ObjectTypes, AcceptSession
  <2>2. KernelTypes' /\ StopGameTypes'
    BY <1>1, <1>2 DEF StopTypes, KernelTypes, StopGameTypes
  <2>3. QED
    BY <1>1, <1>2, <1>3, <2>1, <2>2 DEF StopTypes
<1>5. \A h \in Handlers : pc'[h] = pc[h] /\ cur'[h] = cur[h]
  BY <1>1, <1>3, WhoIsWho DEF AllControl
<1>6. OneHandler' /\ Locked' /\ Told'
  BY <1>2, <1>3, <1>5 DEF RInv, OneHandler, Locked, Told
<1>7. mem \in [Sessions -> {"unborn", "live", "freed"}] /\ m_sessions \subseteq Sessions
  BY <1>1 DEF StopTypes, ObjectTypes
<1>8. ~Reached(s)
  BY <1>2 DEF RInv, Strangers
<1>9. Registered'
  <2>1. \A q \in m_sessions' : mem'[q] = "live"
    BY <1>2, <1>7 DEF RInv, Registered
  <2>2. \A u \in AllThreads : pc'[u] = "td_delete" => cur'[u] \notin m_sessions'
    BY <1>1, <1>2, <1>3 DEF RInv, Registered, AllControl
  <2>3. mem'[cur'[a]] = "live"
    BY <1>1, <1>2, <1>3, <1>7 DEF AllControl
  <2>4. QED
    BY <2>1, <2>2, <2>3 DEF Registered
<1>10. Strangers'
  <2> SUFFICES ASSUME NEW q \in Sessions, Reached(q)'
               PROVE  mem'[q] # "unborn" /\ ~(pc'[AcceptThread] = "ac_add" /\ cur'[AcceptThread] = q)
    BY DEF Strangers
  <2>1. Reached(q)
    <3>1. CASE Known(q)' \/ q \in m_sessions'
      BY <1>2, <3>1, KnownKept DEF Reached
    <3>2. ASSUME NEW u \in AllThreads, cur'[u] = q, ~(u = AcceptThread /\ pc'[u] = "ac_add")
          PROVE  cur[u] = q /\ ~Adding(u)
      BY <1>1, <1>3, <3>2 DEF Adding, AllControl
    <3>3. QED
      BY <3>1, <3>2 DEF Reached, Adding
  <2>2. q # s /\ mem[q] # "unborn"
    BY <1>8, <2>1 DEF RInv, Strangers
  <2>3. QED
    BY <1>1, <1>2, <1>3, <1>7, <2>2 DEF AllControl
<1>11. QED
  BY <1>4, <1>6, <1>9, <1>10 DEF RInv

\* It is registered while nobody broadcasts, and nobody deletes it.
LEMMA AddKeeps ==
  ASSUME RInv, AddSession, UNCHANGED stopVars
  PROVE  RInv'
<1> DEFINE a == AcceptThread
           c == cur[a]
<1>1. a \in AllThreads /\ a \notin Handlers /\ a # GameThread /\ StopTypes /\ AllControl
  BY WhoIsWho DEF RInv, StopTypes
<1>2. /\ pc[a] = "ac_add" /\ LockIsFree /\ m_sessions' = m_sessions \cup {c}
      /\ UNCHANGED <<mem, state, kernelVars, gameVars>>
  BY DEF AddSession
<1>3. c \in Sessions
  BY <1>1, <1>2 DEF AllControl, Carefree, HandlerLabels
<1>4. AllControl' /\ Goes(a, "ac_job") /\ cur' = cur /\ ret' = ret
  BY <1>1, <1>3, GotoGoes DEF AddSession, AllLabels, Labels, AcceptLabels, Forgets
<1>5. pc' = [pc EXCEPT ![a] = "ac_job"]
  BY <1>4 DEF Goes
<1>6. StopTypes'
  <2>1. ObjectTypes'
    BY <1>1, <1>2, <1>3 DEF StopTypes, ObjectTypes, AddSession
  <2>2. KernelTypes' /\ StopGameTypes'
    BY <1>1, <1>2 DEF StopTypes, KernelTypes, StopGameTypes
  <2>3. QED
    BY <1>1, <1>2, <1>4, <1>5, <2>1, <2>2 DEF StopTypes
<1>7. \A h \in Handlers : pc'[h] = pc[h]
  BY <1>1, <1>5, WhoIsWho DEF AllControl
<1>8. OneHandler'
  BY <1>7 DEF RInv, OneHandler
<1>9. Locked' /\ Told'
  BY <1>2, <1>4, <1>7, NobodyBroadcasts DEF RInv, Locked, Told
<1>10. ~Reached(c)
  BY <1>2, <1>3 DEF RInv, Strangers
<1>11. mem[c] = "live"
  BY <1>2 DEF RInv, Registered
<1>12. Registered'
  <2>1. \A q \in m_sessions' : mem'[q] = "live"
    BY <1>2, <1>11 DEF RInv, Registered
  <2>2. ASSUME NEW u \in AllThreads, pc'[u] = "td_delete"
        PROVE  cur'[u] \notin m_sessions'
    <3>1. u # a /\ pc[u] = "td_delete"
      BY <1>1, <1>5, <2>2 DEF AllControl
    <3>2. cur[u] # c
      BY <1>10, <3>1 DEF Reached, Adding
    <3>3. QED
      BY <1>2, <1>4, <3>1, <3>2 DEF RInv, Registered
  <2>3. pc'[a] # "ac_add"
    BY <1>1, <1>5 DEF AllControl
  <2>4. QED
    BY <2>1, <2>2, <2>3 DEF Registered
<1>13. Strangers'
  <2> SUFFICES ASSUME NEW q \in Sessions, Reached(q)'
               PROVE  mem'[q] # "unborn" /\ ~(pc'[AcceptThread] = "ac_add" /\ cur'[AcceptThread] = q)
    BY DEF Strangers
  <2>1. q = c \/ Reached(q)
    <3>1. CASE Known(q)' \/ q \in m_sessions'
      BY <1>2, <3>1, KnownKept DEF Reached
    <3>2. ASSUME NEW u \in AllThreads, cur'[u] = q
          PROVE  q = c \/ (cur[u] = q /\ ~Adding(u))
      BY <1>4, <3>2 DEF Adding
    <3>3. QED
      BY <3>1, <3>2 DEF Reached, Adding
  <2>2. mem[q] # "unborn"
    BY <1>11, <2>1 DEF RInv, Strangers
  <2>3. QED
    BY <1>1, <1>2, <1>5, <2>2 DEF AllControl
<1>14. QED
  BY <1>6, <1>8, <1>9, <1>12, <1>13 DEF RInv

-----------------------------------------------------------------------------
(* The handlers' steps keep the invariant.                                 *)

\* A handler is no other thread, and without a session but in the broadcast.
LEMMA AHandler ==
  ASSUME RInv, NEW h \in Handlers
  PROVE  /\ h \in AllThreads /\ h # AcceptThread /\ h # GameThread /\ ~Adding(h)
         /\ pc[h] \notin InBroadcast => cur[h] = NoSession
         /\ AfterSend(h) = "kick"
BY WhoIsWho DEF RInv, Locked, Adding, AfterSend

\* A handler goes on, and claims nothing that it had not claimed.
LEMMA OneHandlerKept ==
  ASSUME RInv, NEW h \in Handlers, NEW l \in InBroadcast \cup HandlerLabels,
         pc' = [pc EXCEPT ![h] = l], l \in Claimed => pc[h] \in Claimed,
         UNCHANGED <<serverState, m_running, listenOpen, exitMessages>>
  PROVE  OneHandler'
<1>1. h \in AllThreads /\ pc \in [AllThreads -> AllLabels]
  BY AHandler DEF RInv, StopTypes, AllControl
<1>2. \A k \in Handlers : pc'[k] = IF k = h THEN l ELSE pc[k]
  BY <1>1, WhoIsWho
<1>3. QED
  BY <1>2 DEF RInv, OneHandler

\* Within the broadcast, a handler leaves its session only when it is closed.
Closing(h, l) ==
  /\ l \in InBroadcast /\ cur'[h] = cur[h]
  /\ l \in CloseLabels => ret'[h] \in {"kick", "h_next"}
  /\ l \in Untold \/ pc[h] \notin Untold \/ state'[cur[h]] # "Connected"

\* Such a step keeps the invariant,
LEMMA ClosingKeeps ==
  ASSUME RInv, NEW h \in Handlers, NEW l, Calm(h, l), StopTypes', Closing(h, l),
         pc[h] \in InBroadcast, UNCHANGED stopVars
  PROVE  RInv'
<1>1. h \in AllThreads /\ AllControl /\ ObjectTypes
  BY AHandler DEF RInv, StopTypes
<1>2. Strangers' /\ Registered'
  BY <1>1, StrangersKept, RegisteredKept DEF RInv
<1>3. OneHandler'
  BY OneHandlerKept DEF Closing, Claimed, Calm
<1>4. \A k \in Handlers : k # h => pc'[k] = pc[k] /\ cur'[k] = cur[k] /\ ret'[k] = ret[k]
  BY <1>1, WhoIsWho DEF Calm, AllControl
<1>5. pc'[h] = l /\ cur'[h] = cur[h]
  BY <1>1 DEF Calm, AllControl, Closing
<1>6. m_sessions' = m_sessions /\ \A s \in Sessions : state'[s] = "Connected" => state[s] = "Connected"
  BY DEF Calm
<1>7. Locked'
  <2>1. m_lock = h
    BY DEF RInv, Locked
  <2>2. ASSUME NEW k \in Handlers
        PROVE  /\ pc'[k] \in InBroadcast => m_lock' = k
               /\ cur'[k] # NoSession => pc'[k] \in InBroadcast /\ cur'[k] \in m_sessions'
               /\ pc'[k] \in CloseLabels => ret'[k] \in {"kick", "h_next"}
    <3>1. CASE k = h
      BY <1>5, <1>6, <2>1, <3>1 DEF RInv, Locked, Closing
    <3>2. CASE k # h
      BY <1>4, <1>6, <3>2 DEF RInv, Locked
    <3>3. QED
      BY <3>1, <3>2
  <2>3. QED
    BY <1>6, <2>2 DEF RInv, Locked
<1>8. Told'
  <2> SUFFICES ASSUME NEW k \in Handlers, m_lock' = k, NEW s \in m_sessions'
               PROVE  s \in unsent' \/ state'[s] # "Connected" \/ (cur'[k] = s /\ pc'[k] \in Untold)
    BY DEF Told
  <2>1. k = h
    BY DEF RInv, Locked
  <2>2. s \in m_sessions /\ s \in Sessions
    BY <1>1, <1>6 DEF ObjectTypes
  <2>3. s \in unsent \/ state[s] # "Connected" \/ (cur[h] = s /\ pc[h] \in Untold)
    BY <2>1, <2>2 DEF RInv, Told
  <2>4. QED
    BY <1>5, <1>6, <2>1, <2>2, <2>3 DEF Closing
<1>9. QED
  BY <1>2, <1>3, <1>7, <1>8 DEF RInv

\* and it is the step of whoever sends, or closes.
LEMMA SendingKeeps ==
  ASSUME RInv, NEW h \in Handlers, UNCHANGED stopVars,
         \/ PostSendCheck(h) \/ PostSendCount(h) \/ PostSendCall(h) \/ PostSendUncount(h)
         \/ RequestClose(h)
  PROVE  RInv'
<1>1. h \in AllThreads /\ StopTypes /\ AllControl /\ ObjectTypes /\ AfterSend(h) = "kick"
  BY AHandler DEF RInv, StopTypes
<1>2. Quiet(h)
  BY <1>1, PostSendQuiet, RequestCloseQuiet
<1>3. PICK l : Calm(h, l)
  BY <1>2 DEF Quiet
<1>4. pc'[h] = l /\ pc[h] \in InBroadcast
  <2>1. pc'[h] = l
    BY <1>1, <1>3 DEF Calm, AllControl
  <2>2. pc[h] \in InBroadcast
    BY DEF PostSendCheck, PostSendCount, PostSendCall, PostSendUncount, RequestClose,
           RequestCloseClaim, CloseSocket, CloseDone, EnqueueDisconnectJob, InBroadcast,
           CloseLabels
  <2>3. QED
    BY <2>1, <2>2
<1>5. ret[h] \in {"kick", "h_next"} \/ pc[h] \notin CloseLabels
  BY DEF RInv, Locked
<1>6. cur[h] \in Sessions \/ pc[h] = "h_next"
  BY <1>1, <1>4 DEF AllControl, Carefree, HandlerLabels, InBroadcast, CloseLabels
<1>7. Closing(h, l)
  <2>1. CASE PostSendCheck(h) \/ PostSendCount(h) \/ PostSendCall(h)
    <3>1. PICK k \in {"ps_count", "ps_call", "ps_uncount", "kick"} : Goto(h, k)
      BY <1>1, <2>1 DEF PostSendCheck, PostSendCount, PostSendCall
    <3>2. k = l /\ cur' = cur
      BY <1>1, <1>4, <3>1 DEF Goto, Forgets, AllControl
    <3>3. QED
      BY <3>1, <3>2 DEF Closing, InBroadcast, Untold, CloseLabels
  <2>2. CASE PostSendUncount(h)
    <3>1. l = "rc_claim" /\ cur' = cur /\ ret'[h] = "kick"
      BY <1>1, <1>4, <2>2 DEF PostSendUncount, CallRequestClose, AllControl
    <3>2. QED
      BY <3>1 DEF Closing, InBroadcast, Untold, CloseLabels
  <2>3. CASE RequestCloseClaim(h)
    <3>1. CASE MayClose(cur[h])
      <4>1. l = "rc_close" /\ cur' = cur /\ ret' = ret /\ pc[h] \in CloseLabels
        BY <1>1, <1>4, <2>3, <3>1 DEF RequestCloseClaim, Goto, Forgets, AllControl, CloseLabels
      <4>2. cur[h] \in Sessions
        BY <1>6, <2>3 DEF RequestCloseClaim
      <4>3. state'[cur[h]] = "Closing"
        BY <1>1, <2>3, <3>1, <4>2 DEF RequestCloseClaim, ObjectTypes
      <4>4. QED
        BY <1>5, <4>1, <4>3 DEF Closing, InBroadcast, CloseLabels
    <3>2. CASE ~MayClose(cur[h])
      <4>1. l = ret[h] /\ l \in {"kick", "h_next"} /\ cur' = cur /\ state' = state
        BY <1>1, <1>4, <1>5, <2>3, <3>2
        DEF RequestCloseClaim, ReturnFromClose, Forgets, AllControl, CloseLabels
      <4>2. QED
        BY <3>2, <4>1 DEF Closing, InBroadcast, MayClose, CloseLabels
    <3>3. QED
      BY <3>1, <3>2
  <2>4. CASE CloseSocket(h) \/ CloseDone(h)
    <3>1. PICK k \in {"rc_closed", "rc_job"} : Goto(h, k)
      BY <2>4 DEF CloseSocket, CloseDone
    <3>2. k = l /\ cur' = cur /\ ret' = ret
      BY <1>1, <1>4, <3>1 DEF Goto, Forgets, AllControl
    <3>3. pc[h] \in {"rc_close", "rc_closed"}
      BY <2>4 DEF CloseSocket, CloseDone
    <3>4. QED
      BY <1>5, <3>1, <3>2, <3>3 DEF Closing, InBroadcast, Untold, CloseLabels
  <2>5. CASE EnqueueDisconnectJob(h)
    <3>1. pc[h] = "rc_job"
      BY <2>5 DEF EnqueueDisconnectJob
    <3>2. l \in {"kick", "h_next"} /\ cur' = cur
      BY <1>1, <1>4, <1>5, <2>5, <3>1
      DEF EnqueueDisconnectJob, ReturnFromClose, Forgets, AllControl, CloseLabels
    <3>3. QED
      BY <3>1, <3>2 DEF Closing, InBroadcast, Untold, CloseLabels
  <2>6. QED
    BY <2>1, <2>2, <2>3, <2>4, <2>5 DEF RequestClose
<1>8. QED
  BY <1>2, <1>3, <1>4, <1>7, ClosingKeeps DEF Quiet

\* The session that was told is closed next.
LEMMA BroadcastCloseKeeps ==
  ASSUME RInv, NEW h \in Handlers, BroadcastClose(h)
  PROVE  RInv'
<1>1. h \in AllThreads /\ ~Adding(h) /\ StopTypes /\ AllControl /\ pc[h] = "kick"
  BY AHandler DEF RInv, StopTypes, BroadcastClose
<1>2. cur[h] \in Sessions
  BY <1>1 DEF AllControl, Carefree, HandlerLabels
<1>3. AllControl' /\ Goes(h, "rc_claim") /\ cur' = cur /\ ret'[h] = "h_next"
  BY <1>1, <1>2, CallGoes DEF BroadcastClose
<1>4. "rc_claim" \in Common /\ "rc_claim" \in InBroadcast /\ "rc_claim" \in Untold
  BY CommonLabels DEF Labels, CloseLabels, InBroadcast, Untold
<1>5. Quiet(h)
  <2>1. UNCHANGED <<objVars, kernelVars, gameVars>>
    BY DEF BroadcastClose
  <2>2. ObjectTypes'
    BY <1>1, <2>1 DEF StopTypes, ObjectTypes
  <2>3. QED
    BY <1>1, <1>3, <1>4, <2>1, <2>2, PlainStep
<1>6. PICK l : Calm(h, l)
  BY <1>5 DEF Quiet
<1>7. l = "rc_claim"
  BY <1>1, <1>3, <1>6 DEF Calm, Goes, AllControl
<1>8. Closing(h, l) /\ pc[h] \in InBroadcast
  BY <1>1, <1>3, <1>4, <1>7 DEF Closing, InBroadcast
<1>9. QED
  BY <1>5, <1>6, <1>8, ClosingKeeps DEF Quiet, BroadcastClose

\* The broadcast takes up a session that is registered.
LEMMA BroadcastNextKeeps ==
  ASSUME RInv, NEW h \in Handlers, BroadcastNext(h)
  PROVE  RInv'
<1>1. h \in AllThreads /\ h # GameThread /\ ~Adding(h) /\ StopTypes /\ AllControl /\ pc[h] = "h_next"
  BY AHandler DEF RInv, StopTypes, BroadcastNext
<1>2. m_lock = h /\ unsent \subseteq m_sessions /\ m_sessions \subseteq Sessions
  BY <1>1 DEF RInv, Locked, InBroadcast, StopTypes, ObjectTypes
<1>3. PICK s \in unsent : unsent' = unsent \ {s} /\ Start(h, "ps_state", s)
  BY DEF BroadcastNext
<1>4. "ps_state" \in Common /\ "ps_state" \in InBroadcast /\ "ps_state" \in Untold
      /\ "ps_state" \in AllLabels /\ "ps_state" \notin CloseLabels
  BY CommonLabels DEF Labels, SendLabels, CloseLabels, InBroadcast, Untold, Common
<1>5. AllControl' /\ pc' = [pc EXCEPT ![h] = "ps_state"] /\ cur' = [cur EXCEPT ![h] = s] /\ ret' = ret
  BY <1>1, <1>2, <1>3, <1>4, StartGoes
<1>6. UNCHANGED <<objVars, kernelVars, gameVars, serverState, m_running, listenOpen,
                  exitMessages, m_lock>>
  BY DEF BroadcastNext
<1>7. StopTypes'
  <2>1. ObjectTypes' /\ KernelTypes' /\ StopGameTypes'
    BY <1>1, <1>6 DEF StopTypes, ObjectTypes, KernelTypes, StopGameTypes
  <2>2. QED
    BY <1>1, <1>5, <1>6, <2>1 DEF StopTypes
<1>8. Calm(h, "ps_state")
  <2>1. \A q \in Sessions : cur'[h] = q \/ Known(q)' => Reached(q)
    BY <1>1, <1>2, <1>3, <1>5, <1>6, KnownKept DEF Reached, AllControl
  <2>2. QED
    BY <1>1, <1>5, <1>6, <2>1 DEF Calm
<1>9. Strangers' /\ Registered'
  BY <1>1, <1>8, StrangersKept, RegisteredKept DEF RInv
<1>10. OneHandler'
  BY <1>1, <1>4, <1>5, <1>6, OneHandlerKept DEF Claimed, InBroadcast
<1>11. \A k \in Handlers : /\ pc'[k] = IF k = h THEN "ps_state" ELSE pc[k]
                           /\ cur'[k] = IF k = h THEN s ELSE cur[k]
  BY <1>1, <1>5, WhoIsWho DEF AllControl
<1>12. Locked'
  BY <1>2, <1>3, <1>4, <1>5, <1>6, <1>11 DEF RInv, Locked
<1>13. Told'
  <2>1. ASSUME NEW q \in m_sessions
        PROVE  q \in unsent' \/ state'[q] # "Connected" \/ (cur'[h] = q /\ pc'[h] \in Untold)
    BY <1>1, <1>2, <1>3, <1>4, <1>6, <1>11 DEF RInv, Told, Untold
  <2>2. QED
    BY <1>2, <1>6, <2>1 DEF Told
<1>14. QED
  BY <1>7, <1>9, <1>10, <1>12, <1>13 DEF RInv

\* A step of a handler's control; the Shutdown job is about no session.
Controls(h, l) ==
  /\ l \in HandlerLabels
  /\ Goto(h, l)
  /\ jobQueue' \in {jobQueue, Append(jobQueue, ShutdownJob)}
  /\ UNCHANGED <<objVars, kernelVars, players, inRoom, task, subject, todo>>

\* Such a step keeps the types and lets nobody know a session.
LEMMA ControlCalm ==
  ASSUME RInv, NEW h \in Handlers, NEW l, Controls(h, l)
  PROVE  StopTypes' /\ Calm(h, l) /\ cur' = cur /\ Strangers' /\ Registered'
<1> DEFINE J == Jobs \cup {ShutdownJob}
<1>1. h \in AllThreads /\ h # GameThread /\ ~Adding(h) /\ StopTypes /\ AllControl
  BY AHandler DEF RInv, StopTypes
<1>2. l \in Common /\ l \in AllLabels /\ l \in Carefree /\ ~Forgets(l)
  BY CommonLabels DEF Controls, Common, Carefree, Forgets, HandlerLabels
<1>3. AllControl' /\ Goes(h, l) /\ cur' = cur /\ ret' = ret
  BY <1>1, <1>2, GotoGoes DEF Controls
<1>4. UNCHANGED <<objVars, kernelVars, players, inRoom, task, subject, todo>>
  BY DEF Controls
<1>5. jobQueue \in Seq(J) /\ ShutdownJob \in J /\ ShutdownJob.session = NoSession
  BY <1>1 DEF StopTypes, StopGameTypes, ShutdownJob
<1>6. /\ jobQueue' \in Seq(J)
      /\ \A s \in Sessions : (\E i \in 1 .. Len(jobQueue') : jobQueue'[i].session = s)
                               => \E i \in 1 .. Len(jobQueue) : jobQueue[i].session = s
  <2>1. CASE jobQueue' = jobQueue
    BY <1>5, <2>1
  <2>2. CASE jobQueue' = Append(jobQueue, ShutdownJob)
    <3> HIDE DEF J
    <3>1. /\ jobQueue' \in Seq(J) /\ Len(jobQueue) \in Nat /\ Len(jobQueue') = Len(jobQueue) + 1
          /\ \A i \in 1 .. Len(jobQueue) : jobQueue'[i] = jobQueue[i]
          /\ jobQueue'[Len(jobQueue) + 1] = ShutdownJob
      BY <1>5, <2>2, AppendProperties, LenProperties
    <3>2. QED
      BY <1>5, <3>1, WhoIsWho
  <2>3. QED
    BY <2>1, <2>2 DEF Controls
<1>7. \A s \in Sessions : Known(s)' => Known(s)
  BY <1>4, <1>6 DEF Known
<1>8. Calm(h, l)
  BY <1>1, <1>2, <1>3, <1>4, <1>7, MoveIsCalm
<1>9. ObjectTypes' /\ KernelTypes' /\ StopGameTypes'
  <2>1. ObjectTypes' /\ KernelTypes'
    BY <1>1, <1>4 DEF StopTypes, ObjectTypes, KernelTypes
  <2>2. StopGameTypes'
    BY <1>1, <1>4, <1>6 DEF StopTypes, StopGameTypes
  <2>3. QED
    BY <2>1, <2>2
<1>10. StopTypes'
  BY <1>1, <1>3, <1>4, <1>9 DEF StopTypes, Goes, AllControl
<1>11. QED
  BY <1>1, <1>3, <1>8, <1>10, StrangersKept, RegisteredKept DEF RInv

\* Outside the broadcast, a handler has no part in it.
LEMMA ControlKeeps ==
  ASSUME RInv, NEW h \in Handlers, NEW l, Controls(h, l),
         l # "h_next", pc[h] # "h_next", pc[h] \in HandlerLabels \cup {"idle"},
         UNCHANGED <<m_lock, unsent>>, OneHandler'
  PROVE  RInv'
<1>1. h \in AllThreads /\ AllControl /\ pc[h] \notin InBroadcast /\ cur[h] = NoSession
  BY AHandler DEF RInv, StopTypes, InBroadcast, HandlerLabels, CloseLabels
<1>2. StopTypes' /\ cur' = cur /\ Strangers' /\ Registered' /\ UNCHANGED <<state, m_sessions>>
  BY ControlCalm DEF Controls
<1>3. l \notin InBroadcast
  BY DEF Controls, InBroadcast, HandlerLabels, CloseLabels
<1>4. \A k \in Handlers : pc'[k] = (IF k = h THEN l ELSE pc[k]) /\ ret'[k] = ret[k]
  BY <1>1, WhoIsWho DEF Controls, Goto, AllControl
<1>5. m_lock # h \/ \A s \in m_sessions : s \in unsent \/ state[s] # "Connected"
  BY <1>1 DEF RInv, Told, Untold
<1>6. Locked'
  <2>1. ASSUME NEW k \in Handlers
        PROVE  /\ pc'[k] \in InBroadcast => m_lock' = k
               /\ cur'[k] # NoSession => pc'[k] \in InBroadcast /\ cur'[k] \in m_sessions'
               /\ pc'[k] \in CloseLabels => ret'[k] \in {"kick", "h_next"}
    BY <1>1, <1>2, <1>3, <1>4 DEF RInv, Locked, InBroadcast
  <2>2. QED
    BY <1>2, <2>1 DEF RInv, Locked
<1>7. Told'
  BY <1>2, <1>4, <1>5 DEF RInv, Told
<1>8. QED
  BY <1>2, <1>6, <1>7 DEF RInv

\* SignalStop, the claim of the shutdown, and what follows the broadcast.
LEMMA ControlsKeep ==
  ASSUME RInv, NEW h \in Handlers,
         \/ StopRunning(h) \/ CloseListen(h) \/ ShutdownClaim(h)
         \/ EnqueueShutdownJob(h) \/ PostExits(h) \/ WaitForWorkers(h)
  PROVE  RInv'
<1>1. h \in AllThreads /\ AllControl
  BY AHandler DEF RInv, StopTypes
<1>2. Cardinality(Workers) \in Nat
  BY SessionAssumption, FS_CardinalityType
<1>3. CASE StopRunning(h) \/ CloseListen(h)
  <2>1. PICK l \in {"h_listen", "h_state"} : Goto(h, l)
    BY <1>3 DEF StopRunning, CloseListen
  <2>2. Controls(h, l) /\ pc' = [pc EXCEPT ![h] = l] /\ pc[h] \in {"idle", "h_listen"}
    BY <1>3, <2>1 DEF StopRunning, CloseListen, Controls, HandlerLabels, Goto
  <2>3. \A k \in Handlers : pc'[k] = IF k = h THEN l ELSE pc[k]
    BY <1>1, <2>2, WhoIsWho DEF AllControl
  <2>4. UNCHANGED <<serverState, exitMessages, m_lock, unsent>>
        /\ m_running' \in BOOLEAN /\ listenOpen' \in BOOLEAN
    BY <1>3 DEF StopRunning, CloseListen, RInv, OneHandler, ListenAfterStop
  <2>5. l \in HandlerLabels /\ l \notin Claimed
    BY DEF HandlerLabels, Claimed, InBroadcast, CloseLabels
  <2>6. OneHandler'
    BY <2>3, <2>4, <2>5 DEF RInv, OneHandler
  <2>7. QED
    BY <2>2, <2>4, <2>6, ControlKeeps DEF HandlerLabels
<1>4. CASE ShutdownClaim(h)
  <2> DEFINE l == IF serverState = "Running" THEN "h_lock" ELSE "h_done"
  <2>1. /\ Controls(h, l) /\ pc' = [pc EXCEPT ![h] = l] /\ pc[h] = "h_state"
        /\ UNCHANGED <<m_running, listenOpen, exitMessages, m_lock, unsent>>
        /\ serverState' = "ShuttingDown"
    BY <1>4 DEF ShutdownClaim, Controls, HandlerLabels, Goto
  <2>2. \A k \in Handlers : pc'[k] = IF k = h THEN l ELSE pc[k]
    BY <1>1, <2>1, WhoIsWho DEF AllControl
  <2>3. l \in HandlerLabels /\ (l \in Claimed <=> serverState = "Running")
    BY DEF HandlerLabels, Claimed, InBroadcast, CloseLabels
  <2>4. l # "h_next"
    OBVIOUS
  <2> HIDE DEF l
  <2>5. OneHandler'
    BY <2>1, <2>2, <2>3 DEF RInv, OneHandler
  <2>6. QED
    BY <2>1, <2>4, <2>5, ControlKeeps DEF HandlerLabels
<1>5. CASE EnqueueShutdownJob(h) \/ WaitForWorkers(h)
  <2>1. PICK l \in {"h_stop", "h_done"} : /\ Goto(h, l)
                                          /\ l = "h_stop" => pc[h] = "h_job"
    BY <1>5 DEF EnqueueShutdownJob, WaitForWorkers
  <2>2. Controls(h, l) /\ pc' = [pc EXCEPT ![h] = l] /\ pc[h] \in {"h_job", "h_wait"}
        /\ UNCHANGED stopVars
    BY <1>5, <2>1 DEF EnqueueShutdownJob, WaitForWorkers, Controls, HandlerLabels, Goto
  <2>3. l \in HandlerLabels /\ l # "h_next" /\ (l \in Claimed => pc[h] \in Claimed)
    BY <2>1 DEF HandlerLabels, Claimed, InBroadcast, CloseLabels
  <2>4. OneHandler'
    BY <2>2, <2>3, OneHandlerKept
  <2>5. QED
    BY <2>2, <2>3, <2>4, ControlKeeps DEF HandlerLabels
<1>6. CASE PostExits(h)
  <2>1. /\ Controls(h, "h_wait") /\ pc' = [pc EXCEPT ![h] = "h_wait"] /\ pc[h] = "h_stop"
        /\ UNCHANGED <<serverState, m_running, listenOpen, m_lock, unsent>>
        /\ exitMessages' = exitMessages + Cardinality(Workers)
    BY <1>6 DEF PostExits, Controls, HandlerLabels, Goto
  <2>2. \A k \in Handlers : pc'[k] = IF k = h THEN "h_wait" ELSE pc[k]
    BY <1>1, <2>1, WhoIsWho DEF AllControl
  <2>3. "h_wait" \in HandlerLabels /\ "h_wait" \notin Claimed /\ "h_stop" \in Claimed
    BY DEF HandlerLabels, Claimed, InBroadcast, CloseLabels
  <2>4. exitMessages' = Cardinality(Workers) /\ serverState' = "ShuttingDown"
        /\ \A k \in Handlers : pc'[k] \notin Claimed
    BY <1>2, <2>1, <2>2, <2>3 DEF RInv, OneHandler
  <2>5. OneHandler'
    BY <1>2, <2>1, <2>2, <2>3, <2>4 DEF RInv, OneHandler
  <2>6. QED
    BY <2>1, <2>5, ControlKeeps DEF HandlerLabels
<1>7. QED
  BY <1>3, <1>4, <1>5, <1>6

\* The handler takes the lock when nobody has it, with all sessions to tell.
LEMMA BroadcastBeginKeeps ==
  ASSUME RInv, NEW h \in Handlers, BroadcastBegin(h)
  PROVE  RInv'
<1>1. h \in AllThreads /\ AllControl /\ pc[h] = "h_lock" /\ LockIsFree
  BY AHandler DEF RInv, StopTypes, BroadcastBegin
<1>2. Controls(h, "h_next") /\ pc' = [pc EXCEPT ![h] = "h_next"] /\ m_lock' = h /\ unsent' = m_sessions
      /\ UNCHANGED <<serverState, m_running, listenOpen, exitMessages>>
  BY DEF BroadcastBegin, Controls, HandlerLabels, Goto
<1>3. StopTypes' /\ cur' = cur /\ Strangers' /\ Registered' /\ m_sessions' = m_sessions
  BY <1>2, ControlCalm DEF Controls
<1>4. \A k \in Handlers : pc'[k] = IF k = h THEN "h_next" ELSE pc[k]
  BY <1>1, <1>2, WhoIsWho DEF AllControl
<1>5. "h_next" \in InBroadcast /\ "h_next" \notin CloseLabels /\ "h_next" \in Claimed /\ "h_lock" \in Claimed
  BY DEF InBroadcast, CloseLabels, Claimed
<1>6. OneHandler'
  BY <1>1, <1>2, <1>5, OneHandlerKept
<1>7. CloseLabels \subseteq InBroadcast
  BY DEF InBroadcast
<1>8. Locked'
  <2>1. ASSUME NEW k \in Handlers
        PROVE  /\ pc'[k] \in InBroadcast => k = h
               /\ cur'[k] = NoSession /\ pc'[k] \notin CloseLabels
    BY <1>1, <1>3, <1>4, <1>5, <1>7, NobodyBroadcasts
  <2>2. m_lock' \in Handlers /\ m_lock' # NoThread /\ unsent' \subseteq m_sessions'
    BY <1>2, <1>3, WhoIsWho
  <2>3. QED
    BY <1>2, <2>1, <2>2 DEF Locked
<1>9. Told'
  BY <1>2, <1>3 DEF Told
<1>10. QED
  BY <1>3, <1>6, <1>8, <1>9 DEF RInv

\* It leaves the lock with nobody left to tell.
LEMMA BroadcastEndKeeps ==
  ASSUME RInv, NEW h \in Handlers, BroadcastEnd(h)
  PROVE  RInv'
<1>1. h \in AllThreads /\ h # GameThread /\ ~Adding(h) /\ StopTypes /\ AllControl /\ pc[h] = "h_next"
      /\ unsent = {}
  BY AHandler DEF RInv, StopTypes, BroadcastEnd
<1>2. /\ m_lock' = NoThread /\ pc' = [pc EXCEPT ![h] = "h_job"]
      /\ cur' = [cur EXCEPT ![h] = NoSession] /\ ret' = ret
      /\ UNCHANGED <<objVars, kernelVars, gameVars, serverState, m_running, listenOpen, unsent,
                     exitMessages>>
  BY DEF BroadcastEnd
<1>3. "h_job" \in Common /\ "h_job" \in AllLabels /\ "h_job" \in Carefree /\ "h_job" \notin InBroadcast
      /\ "h_job" \in Claimed /\ "h_next" \in Claimed /\ "h_job" \in HandlerLabels
      /\ "h_next" \in InBroadcast
  BY CommonLabels DEF Common, Carefree, InBroadcast, Claimed, CloseLabels, HandlerLabels
<1>4. AllControl' /\ Goes(h, "h_job")
  BY <1>1, <1>2, <1>3 DEF AllControl, Goes
<1>5. ObjectTypes'
  BY <1>1, <1>2 DEF StopTypes, ObjectTypes
<1>6. Quiet(h)
  BY <1>1, <1>2, <1>3, <1>4, <1>5, PlainStep
<1>7. PICK l : Calm(h, l)
  BY <1>6 DEF Quiet
<1>8. Strangers' /\ Registered'
  BY <1>1, <1>7, StrangersKept, RegisteredKept DEF RInv
<1>9. OneHandler'
  BY <1>1, <1>2, <1>3, OneHandlerKept
<1>10. m_lock = h /\ NoThread \notin Handlers
  BY <1>1, <1>3, WhoIsWho DEF RInv, Locked
<1>11. \A k \in Handlers : k # h => pc[k] \notin InBroadcast /\ cur[k] = NoSession
  BY <1>10 DEF RInv, Locked
<1>12. \A k \in Handlers : pc'[k] \notin InBroadcast /\ cur'[k] = NoSession
  BY <1>1, <1>2, <1>3, <1>11, WhoIsWho DEF AllControl
<1>13. CloseLabels \subseteq InBroadcast
  BY DEF InBroadcast
<1>14. Locked' /\ Told'
  BY <1>1, <1>2, <1>10, <1>12, <1>13 DEF RInv, Locked, Told
<1>15. QED
  BY <1>6, <1>8, <1>9, <1>14 DEF RInv, Quiet

\* Exit messages are there when no handler broadcasts any more.
LEMMA WorkerExitKeeps ==
  ASSUME RInv, NEW w \in Workers, WorkerExit(w)
  PROVE  RInv'
<1>1. w \in AllThreads \ Handlers /\ w # AcceptThread /\ w # GameThread /\ StopTypes /\ AllControl
  BY WhoIsWho, ShutdownAssumption DEF RInv, StopTypes
<1>2. "exited" \in Common /\ "exited" \in AllLabels /\ "exited" \in Carefree /\ Cardinality(Workers) \in Nat
  BY CommonLabels, SessionAssumption, FS_CardinalityType DEF Common, Carefree
<1>3. AllControl' /\ Goes(w, "exited")
  BY <1>1, <1>2, GotoGoes DEF WorkerExit
<1>4. UNCHANGED <<objVars, kernelVars, gameVars, serverState, m_running, listenOpen, m_lock, unsent>>
      /\ exitMessages > 0 /\ exitMessages' = exitMessages - 1
  BY DEF WorkerExit
<1>5. ObjectTypes'
  BY <1>1, <1>4 DEF StopTypes, ObjectTypes
<1>6. Quiet(w)
  BY <1>1, <1>2, <1>3, <1>4, <1>5, PlainStep DEF Adding
<1>7. PICK l : Calm(w, l)
  BY <1>6 DEF Quiet
<1>8. Strangers' /\ Registered' /\ Locked' /\ Told'
  BY <1>1, <1>4, <1>7, StrangersKept, RegisteredKept, BroadcastKept DEF RInv, StopTypes
<1>9. \A k \in Handlers : pc'[k] = pc[k]
  BY <1>1, <1>7, WhoIsWho DEF Calm, AllControl
<1>10. exitMessages \in 0 .. Cardinality(Workers) /\ serverState # "Running"
       /\ \A k \in Handlers : pc[k] \notin Claimed
  BY <1>4 DEF RInv, OneHandler
<1>11. exitMessages' \in 0 .. Cardinality(Workers)
  BY <1>2, <1>4, <1>10
<1>12. OneHandler'
  BY <1>4, <1>9, <1>10, <1>11 DEF RInv, OneHandler
<1>13. QED
  BY <1>6, <1>8, <1>12 DEF RInv, Quiet

-----------------------------------------------------------------------------
(* The theorems.                                                           *)

\* At the start there is no session, and no console event.
LEMMA RInvInit == StopInit => RInv
<1> SUFFICES ASSUME StopInit
             PROVE  RInv
  OBVIOUS
<1> USE DEF StopInit, InitShared, InitThreads
<1>1. AllControl
  BY DEF AllControl, AllLabels, Labels, ReturnLabels, Carefree
<1>2. ObjectTypes /\ KernelTypes
  BY WhoIsWho, SessionAssumption DEF ObjectTypes, KernelTypes, ObjectStates
<1>3. StopGameTypes
  BY DEF StopGameTypes, Tasks
<1>4. StopTypes
  BY <1>1, <1>2, <1>3, WhoIsWho DEF StopTypes
<1>5. \A h \in Handlers : pc[h] = "idle" /\ cur[h] = NoSession
  BY WhoIsWho
<1>6. "idle" \notin Claimed /\ "idle" \notin InBroadcast /\ "idle" \notin CloseLabels
  BY DEF Claimed, InBroadcast, CloseLabels
<1>7. OneHandler
  <2>1. Cardinality(Workers) \in Nat
    BY SessionAssumption, FS_CardinalityType
  <2>2. QED
    BY <1>5, <1>6, <2>1 DEF OneHandler
<1>8. Locked /\ Told
  BY <1>5, <1>6 DEF Locked, Told
<1>9. Registered
  BY WhoIsWho DEF Registered
<1>10. Strangers
  BY WhoIsWho DEF Strangers, Reached, Known
<1>11. QED
  BY <1>4, <1>7, <1>8, <1>9, <1>10 DEF RInv

\* Every step keeps the invariant.
LEMMA RInvStep == RInv /\ [StopNext]_allVars => RInv'
<1> SUFFICES ASSUME RInv, [StopNext]_allVars
             PROVE  RInv'
  OBVIOUS
<1>1. CASE UNCHANGED allVars \/ AllStopped
  <2>1. UNCHANGED <<vars, stopVars>>
    BY <1>1 DEF AllStopped, allVars
  <2>2. UNCHANGED <<objVars, kernelVars, gameVars, threadVars>>
    BY <2>1 DEF vars
  <2>3. StopTypes'
    BY <2>2 DEF RInv, StopTypes, AllControl, ObjectTypes, KernelTypes, StopGameTypes
  <2>4. OneHandler' /\ Locked' /\ Told' /\ Registered'
    BY <2>1, <2>2 DEF RInv, OneHandler, Locked, Told, Registered
  <2>5. Strangers'
    BY <2>2 DEF RInv, Strangers, Reached, Known, Adding
  <2>6. QED
    BY <2>3, <2>4, <2>5 DEF RInv
<1>2. ASSUME NEW t \in Threads, RunningStep(t)
      PROVE  RInv'
  <2>1. CASE LockedRemoveSession(t)
    BY <1>2, <2>1, RemoveKeeps DEF RunningStep
  <2>2. CASE DeleteSession(t)
    BY <1>2, <2>2, DeletionKeeps DEF RunningStep
  <2>3. QED
    BY <1>2, <2>1, <2>2, RunningKeeps
<1>3. CASE AcceptStep
  <2>1. CASE AddSession
    BY <2>1, AddKeeps DEF AddSession
  <2>2. CASE AcceptLoop \/ AcceptFail \/ ConnectJobCheck \/ ConnectJobPush
    <3>1. UNCHANGED stopVars
      BY <2>2 DEF AcceptLoop, AcceptFail, ConnectJobCheck, ConnectJobPush
    <3>2. AcceptThread \in AllThreads \ Handlers /\ Quiet(AcceptThread)
      BY <2>2, WhoIsWho, AcceptQuiet DEF RInv
    <3>3. QED
      BY <3>1, <3>2, QuietKeeps
  <2>3. QED
    BY <1>3, <2>1, <2>2 DEF AcceptStep
<1>4. CASE GameSteps \/ PopShutdown
  <2>1. UNCHANGED stopVars
    BY <1>4 DEF GameSteps, PopShutdown
  <2>2. GameThread \in AllThreads \ Handlers /\ Quiet(GameThread)
    BY <1>4, WhoIsWho, PopQuiet, GameQuiet DEF GameSteps, RInv
  <2>3. QED
    BY <2>1, <2>2, QuietKeeps
<1>5. ASSUME NEW h \in Handlers, HandlerStep(h) \/ StopRunning(h)
      PROVE  RInv'
  BY <1>5, ControlsKeep, BroadcastBeginKeeps, BroadcastNextKeeps, BroadcastCloseKeeps,
     BroadcastEndKeeps, SendingKeeps DEF HandlerStep
<1>6. ASSUME NEW w \in Workers, NEW s \in Sessions, UNCHANGED stopVars,
             TakeRecv(w, s) \/ TakeSend(w, s) \/ TakeCleanup(w, s)
      PROVE  RInv'
  <2>1. w \in AllThreads \ Handlers
    BY WhoIsWho, ShutdownAssumption
  <2>2. Quiet(w)
    BY <1>6, TakeQuiet DEF RInv
  <2>3. QED
    BY <1>6, <2>1, <2>2, QuietKeeps
<1>7. CASE ServerStep
  <2>1. CASE OthersStep
    BY <1>2, <1>3, <1>4, <1>5, <2>1, WhoIsWho DEF OthersStep
  <2>2. CASE Exits
    BY <2>2, WorkerExitKeeps DEF Exits
  <2>3. CASE \E w \in Workers : RunningStep(w)
    BY <1>2, <2>3, WhoIsWho
  <2>4. CASE \E s \in Sessions : AcceptSession(s)
    BY <2>4, NewcomerKeeps
  <2>5. QED
    BY <1>5, <1>6, <1>7, <2>1, <2>2, <2>3, <2>4 DEF ServerStep
<1>8. QED
  BY <1>1, <1>7 DEF StopNext

\* The inductive invariant holds of every behaviour of a stopping server.
THEOREM RInvInvariant == StopSpec => []RInv
BY RInvInit, RInvStep, PTL DEF StopSpec

\* RequestShutdownAllSessions walks m_sessions by raw pointers, while workers
\* delete sessions: what it has before it, and all that is registered, exists.
THEOREM RegistryIsSafe == StopSpec => []RegistrySafe
<1>1. RInv => RegistrySafe
  <2> SUFFICES ASSUME RInv
               PROVE  RegistrySafe
    OBVIOUS
  <2>1. \A s \in m_sessions \cup unsent : mem[s] = "live"
    BY DEF RInv, Locked, Registered
  <2>2. \A h \in Handlers : cur[h] # NoSession => mem[cur[h]] = "live"
    BY <2>1 DEF RInv, Locked
  <2>3. QED
    BY <2>1, <2>2 DEF RegistrySafe
<1>2. QED
  BY <1>1, RInvInvariant, PTL

\* Whoever leaves the lock has nobody left to tell, and no session in hand.
LEMMA LeavingTheLock ==
  ASSUME RInv, [StopNext]_allVars, NEW h \in Handlers, m_lock = h, m_lock' # h
  PROVE  BroadcastEnd(h)
<1>1. \A k \in Handlers : BroadcastBegin(k) => LockIsFree
  BY DEF BroadcastBegin
<1>2. \E k \in Handlers : BroadcastEnd(k) \/ BroadcastBegin(k)
  BY DEF StopNext, AllStopped, allVars, ServerStep, OthersStep, AcceptStep, AcceptLoop, AcceptFail,
         AddSession, ConnectJobCheck, ConnectJobPush, RunningStep, GameSteps, PopShutdown,
         HandlerStep, StopRunning, CloseListen, ShutdownClaim, BroadcastNext, BroadcastClose,
         EnqueueShutdownJob, PostExits, WaitForWorkers, Exits, WorkerExit, AcceptSession
<1>3. PICK k \in Handlers : BroadcastEnd(k)
  BY <1>1, <1>2, WhoIsWho DEF LockIsFree
<1>4. m_lock = k
  BY <1>3 DEF BroadcastEnd, RInv, Locked, InBroadcast
<1>5. QED
  BY <1>3, <1>4

\* When RequestShutdownAllSessions returns, no registered session is connected:
\* none was added behind its back or skipped.
THEOREM BroadcastLeavesNoneConnected == StopSpec => BroadcastCloses
<1> DEFINE Closes == \A h \in Handlers : m_lock = h /\ m_lock' # h =>
                       \A s \in m_sessions' : state'[s] # "Connected"
<1>1. RInv /\ [StopNext]_allVars => Closes
  <2> SUFFICES ASSUME RInv, [StopNext]_allVars, NEW h \in Handlers, m_lock = h, m_lock' # h,
                      NEW s \in m_sessions'
               PROVE  state'[s] # "Connected"
    OBVIOUS
  <2>1. BroadcastEnd(h)
    BY LeavingTheLock
  <2>2. pc[h] = "h_next" /\ unsent = {} /\ UNCHANGED <<state, m_sessions>>
    BY <2>1 DEF BroadcastEnd
  <2>3. pc[h] \notin Untold
    BY <2>2 DEF Untold
  <2>4. QED
    BY <2>2, <2>3 DEF RInv, Told
<1>2. StopSpec => [][Closes]_allVars
  BY <1>1, RInvInvariant, PTL DEF StopSpec
<1>3. QED
  BY <1>2 DEF BroadcastCloses

-----------------------------------------------------------------------------
(* The end of a connection is reported once: the report passes from the    *)
(* thread that won the compare-exchange to the queue, and from there to    *)
(* the game.                                                               *)

\* Past the compare-exchange of RequestClose.
Past == CloseLabels \ {"rc_claim"}

\* The sessions whose Disconnect job is queued, once each.
IsReport(i, s) == jobQueue[i].type = "Disconnect" /\ jobQueue[i].session = s

Reported == {s \in Sessions : \E i \in 1 .. Len(jobQueue) : IsReport(i, s)}

ReportsDiffer ==
  \A s \in Sessions : \A i, j \in 1 .. Len(jobQueue) :
    IsReport(i, s) /\ IsReport(j, s) => i = j

\* The report of a session's end is in one place at a time, and nowhere while
\* the session is connected.
Once ==
  /\ \A t, u \in AllThreads : pc[t] \in Past /\ pc[u] \in Past /\ cur[t] = cur[u] => t = u
  /\ ReportsDiffer
  /\ \A t \in AllThreads : pc[t] \in Past =>
       state[cur[t]] # "Connected" /\ cur[t] \notin Reported /\ ~Disconnected(cur[t])
  /\ \A s \in Sessions :
       /\ s \in Reported => ~Disconnected(s)
       /\ s \in Reported \/ Disconnected(s) => state[s] # "Connected"

\* Thread t goes to label l; the others are left alone.
Elsewhere(t, l) ==
  /\ pc' = [pc EXCEPT ![t] = l]
  /\ \A u \in AllThreads : u # t => cur'[u] = cur[u]

\* Thread t closes nothing, and what the game learns was in the queue.
Bystands(t) ==
  /\ pc[t] \notin Past
  /\ \E l \in AllLabels \ Past : Elsewhere(t, l)
  /\ state' = state
  /\ ReportsDiffer' /\ Reported' \subseteq Reported
  /\ \A s \in Sessions :
       Disconnected(s)' => Disconnected(s) \/ (s \in Reported /\ s \notin Reported')

\* The ways a thread goes elsewhere.
LEMMA GoElsewhere ==
  ASSUME AllControl, NEW t \in AllThreads, NEW l,
         \/ Goto(t, l) \/ (\E s : Start(t, l, s))
         \/ (l = "rc_claim" /\ \E k : CallRequestClose(t, k))
         \/ (l = ret[t] /\ ReturnFromClose(t))
  PROVE  Elsewhere(t, l)
BY DEF AllControl, Goto, Start, CallRequestClose, ReturnFromClose, Elsewhere

\* A job at the end of the queue that is no report.
LEMMA OtherJobs ==
  ASSUME StopTypes, Once,
         NEW job \in Jobs \cup {ShutdownJob}, job.type # "Disconnect",
         jobQueue' \in {jobQueue, Append(jobQueue, job)}
  PROVE  ReportsDiffer' /\ Reported' = Reported
<1> DEFINE J == Jobs \cup {ShutdownJob}
<1>1. jobQueue \in Seq(J) /\ job \in J
  BY DEF StopTypes, StopGameTypes
<1>2. CASE jobQueue' = jobQueue
  BY <1>2 DEF Once, ReportsDiffer, Reported, IsReport
<1>3. CASE jobQueue' = Append(jobQueue, job)
  <2> HIDE DEF J
  <2>1. /\ Len(jobQueue) \in Nat /\ Len(jobQueue') = Len(jobQueue) + 1
        /\ \A i \in 1 .. Len(jobQueue) : jobQueue'[i] = jobQueue[i]
        /\ jobQueue'[Len(jobQueue) + 1] = job
    BY <1>1, <1>3, AppendProperties, LenProperties
  <2>2. \A s, i : i \in 1 .. Len(jobQueue') /\ IsReport(i, s)' <=>
                    i \in 1 .. Len(jobQueue) /\ IsReport(i, s)
    BY <2>1 DEF IsReport
  <2>3. QED
    BY <2>2 DEF Once, ReportsDiffer, Reported
<1>4. QED
  BY <1>2, <1>3

\* A thread that leaves the reports and the sessions alone.
LEMMA Uninvolved ==
  ASSUME StopTypes, Once, NEW t \in AllThreads, pc[t] \notin Past,
         NEW l \in AllLabels \ Past, Elsewhere(t, l),
         UNCHANGED <<state, gameCleanupDone, task, subject, jobQueue>>
  PROVE  Bystands(t)
<1>1. ReportsDiffer' /\ Reported' = Reported
  BY DEF Once, ReportsDiffer, Reported, IsReport
<1>2. QED
  BY <1>1 DEF Bystands, Disconnected

\* Nor does a thread that pushes another job.
LEMMA Pushing ==
  ASSUME StopTypes, Once, NEW t \in AllThreads, pc[t] \notin Past,
         NEW l \in AllLabels \ Past, Elsewhere(t, l),
         UNCHANGED <<state, gameCleanupDone, task, subject>>,
         NEW job \in Jobs \cup {ShutdownJob}, job.type # "Disconnect",
         jobQueue' = Append(jobQueue, job)
  PROVE  Bystands(t)
<1>1. ReportsDiffer' /\ Reported' = Reported
  BY OtherJobs
<1>2. QED
  BY <1>1 DEF Bystands, Disconnected

\* Such a step keeps the report in its place.
LEMMA BystandsKeeps ==
  ASSUME RInv, Once, NEW t \in AllThreads, Bystands(t)
  PROVE  Once'
<1>1. AllControl
  BY DEF RInv, StopTypes
<1>2. \A u \in AllThreads : pc'[u] \in Past => u # t /\ pc[u] \in Past /\ cur'[u] = cur[u]
  BY <1>1 DEF Bystands, Elsewhere, AllControl
<1>3. \A u \in AllThreads : pc[u] \in Past => cur[u] \in Sessions
  BY <1>1 DEF AllControl, Past, CloseLabels, Carefree, HandlerLabels
<1>4. \A u, v \in AllThreads : pc'[u] \in Past /\ pc'[v] \in Past /\ cur'[u] = cur'[v] => u = v
  BY <1>2 DEF Once
<1>5. ASSUME NEW u \in AllThreads, pc'[u] \in Past
      PROVE  (state[cur[u]] # "Connected" /\ cur[u] \notin Reported /\ ~Disconnected(cur[u]))'
  <2>1. cur'[u] = cur[u] /\ cur[u] \in Sessions /\ pc[u] \in Past
    BY <1>2, <1>3, <1>5
  <2>2. state[cur[u]] # "Connected" /\ cur[u] \notin Reported /\ ~Disconnected(cur[u])
    BY <2>1 DEF Once
  <2>3. \A s \in Sessions : Disconnected(s)' => Disconnected(s) \/ s \in Reported
    BY DEF Bystands
  <2>4. state' = state /\ Reported' \subseteq Reported
    BY DEF Bystands
  <2>5. ~Disconnected(cur[u])'
    BY <2>1, <2>2, <2>3
  <2>6. ~(gameCleanupDone'[cur'[u]] \/ (task' = "disconnect" /\ subject' = cur'[u]))
    BY <2>1, <2>5 DEF Disconnected
  <2>7. QED
    BY <2>1, <2>2, <2>4, <2>6 DEF Disconnected
<1>6. \A s \in Sessions : /\ s \in Reported' => ~Disconnected(s)'
                          /\ s \in Reported' \/ Disconnected(s)' => state'[s] # "Connected"
  BY DEF Bystands, Once
<1>7. ReportsDiffer'
  BY DEF Bystands
<1>8. QED
  BY <1>4, <1>5, <1>6, <1>7 DEF Once

\* The thread that closes a session has the report.
LEMMA CloserKeeps ==
  ASSUME RInv, Once, NEW t \in AllThreads, NEW l \in Past, Elsewhere(t, l), cur' = cur,
         cur[t] \in Sessions, pc[t] \in Past \/ state[cur[t]] = "Connected",
         \A s \in Sessions : state'[s] = "Connected" => state[s] = "Connected",
         state'[cur[t]] # "Connected",
         UNCHANGED <<gameCleanupDone, task, subject, jobQueue>>
  PROVE  Once'
<1>1. AllControl
  BY DEF RInv, StopTypes
<1>2. \A u \in AllThreads : u # t => pc'[u] = pc[u]
  BY <1>1 DEF Elsewhere, AllControl
<1>3. \A u \in AllThreads : pc[u] \in Past => cur[u] \in Sessions
  BY <1>1 DEF AllControl, Past, CloseLabels, Carefree, HandlerLabels
<1>4. \A u \in AllThreads : u # t /\ pc[u] \in Past => cur[u] # cur[t]
  BY DEF Once
<1>5. cur[t] \notin Reported /\ ~Disconnected(cur[t])
  BY DEF Once
<1>6. ReportsDiffer' /\ Reported' = Reported
  BY DEF Once, ReportsDiffer, Reported, IsReport
<1>7. \A u, v \in AllThreads : pc'[u] \in Past /\ pc'[v] \in Past /\ cur'[u] = cur'[v] => u = v
  BY <1>2, <1>4 DEF Once
<1>8. \A u \in AllThreads : pc'[u] \in Past =>
        (state[cur[u]] # "Connected" /\ cur[u] \notin Reported /\ ~Disconnected(cur[u]))'
  <2>1. ASSUME NEW u \in AllThreads, pc'[u] \in Past, u # t
        PROVE  (state[cur[u]] # "Connected" /\ cur[u] \notin Reported /\ ~Disconnected(cur[u]))'
    BY <1>2, <1>3, <1>6, <2>1 DEF Once, Disconnected
  <2>2. (state[cur[t]] # "Connected" /\ cur[t] \notin Reported /\ ~Disconnected(cur[t]))'
    BY <1>5, <1>6 DEF Disconnected
  <2>3. QED
    BY <2>1, <2>2
<1>9. \A s \in Sessions : /\ s \in Reported' => ~Disconnected(s)'
                          /\ s \in Reported' \/ Disconnected(s)' => state'[s] # "Connected"
  BY <1>6 DEF Once, Disconnected
<1>10. QED
  BY <1>6, <1>7, <1>8, <1>9 DEF Once

\* It puts it into the queue.
LEMMA ReportKeeps ==
  ASSUME RInv, Once, NEW t \in AllThreads, EnqueueDisconnectJob(t)
  PROVE  Once'
<1> DEFINE J == Jobs \cup {ShutdownJob}
           c == cur[t]
           job == [type |-> "Disconnect", session |-> c]
<1>1. AllControl /\ StopTypes /\ pc[t] = "rc_job" /\ pc[t] \in Past
  BY DEF RInv, StopTypes, EnqueueDisconnectJob, Past, CloseLabels
<1>2. c \in Sessions
  BY <1>1 DEF AllControl, Carefree, HandlerLabels
<1>3. jobQueue \in Seq(J) /\ job \in J /\ jobQueue' = Append(jobQueue, job)
  BY <1>1, <1>2 DEF StopTypes, StopGameTypes, EnqueueDisconnectJob, Push, Jobs, JobTypes
<1>4. job.type = "Disconnect" /\ job.session = c
  OBVIOUS
<1> HIDE DEF J, job
<1>5. /\ Len(jobQueue) \in Nat /\ Len(jobQueue') = Len(jobQueue) + 1
      /\ \A i \in 1 .. Len(jobQueue) : jobQueue'[i] = jobQueue[i]
      /\ jobQueue'[Len(jobQueue) + 1] = job
  BY <1>3, AppendProperties, LenProperties
<1>6. \A s, i : i \in 1 .. Len(jobQueue') /\ IsReport(i, s)' <=>
                  \/ i \in 1 .. Len(jobQueue) /\ IsReport(i, s)
                  \/ i = Len(jobQueue) + 1 /\ s = c
  BY <1>4, <1>5 DEF IsReport
<1>7. \A s \in Sessions : s \in Reported' <=> s \in Reported \/ s = c
  BY <1>2, <1>5, <1>6 DEF Reported
<1>8. c \notin Reported /\ ~Disconnected(c) /\ state[c] # "Connected"
  BY <1>1 DEF Once
<1>9. ReportsDiffer'
  BY <1>5, <1>6, <1>8 DEF Once, ReportsDiffer, Reported
<1>10. Elsewhere(t, ret[t]) /\ ret[t] \notin Past
  <2>1. Elsewhere(t, ret[t])
    BY <1>1, GoElsewhere DEF EnqueueDisconnectJob
  <2>2. ret[t] \notin Past
    BY <1>1 DEF AllControl, ReturnLabels, Past, CloseLabels
  <2>3. QED
    BY <2>1, <2>2
<1>11. UNCHANGED <<state, gameCleanupDone, task, subject>>
  BY DEF EnqueueDisconnectJob
<1>12. \A u \in AllThreads : pc'[u] \in Past => u # t /\ pc[u] \in Past /\ cur'[u] = cur[u] /\ cur[u] # c
  BY <1>1, <1>10 DEF Once, Elsewhere, AllControl
<1>13. \A u \in AllThreads : pc[u] \in Past => cur[u] \in Sessions
  BY <1>1 DEF AllControl, Past, CloseLabels, Carefree, HandlerLabels
<1>14. \A u, v \in AllThreads : pc'[u] \in Past /\ pc'[v] \in Past /\ cur'[u] = cur'[v] => u = v
  BY <1>12 DEF Once
<1>15. \A u \in AllThreads : pc'[u] \in Past =>
         (state[cur[u]] # "Connected" /\ cur[u] \notin Reported /\ ~Disconnected(cur[u]))'
  BY <1>7, <1>11, <1>12, <1>13 DEF Once, Disconnected
<1>16. \A s \in Sessions : /\ s \in Reported' => ~Disconnected(s)'
                           /\ s \in Reported' \/ Disconnected(s)' => state'[s] # "Connected"
  BY <1>7, <1>8, <1>11 DEF Once, Disconnected
<1>17. QED
  BY <1>9, <1>14, <1>15, <1>16 DEF Once

\* Session::RequestClose and Close.
LEMMA RequestCloseOnce ==
  ASSUME RInv, Once, NEW t \in AllThreads, RequestClose(t)
  PROVE  Once'
<1>1. AllControl /\ ObjectTypes /\ StopTypes
  BY DEF RInv, StopTypes
<1>2. pc[t] \in CloseLabels
  BY DEF RequestClose, RequestCloseClaim, CloseSocket, CloseDone, EnqueueDisconnectJob, CloseLabels
<1>3. cur[t] \in Sessions
  BY <1>1, <1>2 DEF AllControl, Carefree, HandlerLabels, CloseLabels
<1>4. {"rc_close", "rc_closed", "rc_job"} \subseteq Past /\ ret[t] \in AllLabels \ Past
  BY <1>1 DEF AllControl, ReturnLabels, Past, CloseLabels, AllLabels, Labels, HandlerLabels, GameLabels,
              ReceiveLabels, DestroyLabels
<1>5. CASE RequestCloseClaim(t)
  <2>1. CASE MayClose(cur[t])
    <3>1. Elsewhere(t, "rc_close") /\ cur' = cur
      BY <1>1, <1>5, <2>1, GoElsewhere DEF RequestCloseClaim, Goto, Forgets
    <3>2. state' = [state EXCEPT ![cur[t]] = "Closing"] /\ state[cur[t]] = "Connected"
      BY <1>5, <2>1 DEF RequestCloseClaim, MayClose
    <3>3. UNCHANGED <<gameCleanupDone, task, subject, jobQueue>>
      BY <1>5 DEF RequestCloseClaim
    <3>4. /\ state'[cur[t]] # "Connected"
          /\ \A s \in Sessions : state'[s] = "Connected" => state[s] = "Connected"
      BY <1>1, <1>3, <3>2 DEF ObjectTypes
    <3>5. QED
      BY <1>3, <1>4, <3>1, <3>2, <3>3, <3>4, CloserKeeps
  <2>2. CASE ~MayClose(cur[t])
    <3>1. Elsewhere(t, ret[t]) /\ pc[t] \notin Past
      BY <1>1, <1>5, <2>2, GoElsewhere DEF RequestCloseClaim, Past
    <3>2. UNCHANGED <<state, gameCleanupDone, task, subject, jobQueue>>
      BY <1>5, <2>2 DEF RequestCloseClaim
    <3>3. QED
      BY <1>1, <1>4, <3>1, <3>2, Uninvolved, BystandsKeeps
  <2>3. QED
    BY <2>1, <2>2
<1>6. CASE CloseSocket(t) \/ CloseDone(t)
  <2>1. PICK l \in {"rc_closed", "rc_job"} : Goto(t, l)
    BY <1>6 DEF CloseSocket, CloseDone
  <2>2. Elsewhere(t, l) /\ cur' = cur /\ pc[t] \in Past
    BY <1>1, <1>6, <2>1, GoElsewhere DEF Goto, Forgets, CloseSocket, CloseDone, Past, CloseLabels
  <2>3. UNCHANGED <<gameCleanupDone, task, subject, jobQueue>>
    BY <1>6 DEF CloseSocket, CloseDone
  <2>4. /\ state'[cur[t]] # "Connected"
        /\ \A s \in Sessions : state'[s] = "Connected" => state[s] = "Connected"
    <3>1. state[cur[t]] # "Connected"
      BY <2>2 DEF Once
    <3>2. QED
      BY <1>1, <1>3, <1>6, <3>1 DEF CloseSocket, CloseDone, ObjectTypes
  <2>5. QED
    BY <1>3, <1>4, <2>2, <2>3, <2>4, CloserKeeps
<1>7. CASE EnqueueDisconnectJob(t)
  BY <1>7, ReportKeeps
<1>8. QED
  BY <1>5, <1>6, <1>7 DEF RequestClose

\* Names for the labels that closing passes.
LEMMA NotPast ==
  /\ AllLabels \ CloseLabels \subseteq AllLabels \ Past /\ "rc_claim" \in AllLabels \ Past
  /\ Past \subseteq CloseLabels
  /\ \A t : {AfterSend(t), AfterRecv(t), AfterSendComplete} \subseteq AllLabels \ CloseLabels
  /\ {"idle", "pr_state", "pr_claim", "pr_count", "pr_call", "pr_release", "pr_uncount", "sp_state",
      "ps_state", "ps_count", "ps_call", "ps_uncount", "rx_count", "rx_state", "rx_parse", "rx_push",
      "rx_queue", "td_state", "td_clean", "td_count", "td_claim", "td_remove", "td_delete",
      "kick", "g_loop", "gm_mark", "gm_post", "ac_accept", "ac_add", "ac_job", "ac_push", "exited",
      "rx_flag", "tx_count"}
       \cup HandlerLabels \subseteq AllLabels \ CloseLabels
BY DEF Past, AllLabels, Labels, HandlerLabels, AcceptLoopLabels, AcceptLabels, ReceiveLabels,
       PostRecvLabels, SendLabels, CloseLabels, DestroyLabels, GameLabels, AfterSend, AfterRecv,
       AfterSendComplete

\* A thread that goes on within a function but RequestClose bystands, if it
\* touches neither the sessions' states nor the game.
LEMMA GoingOn ==
  ASSUME StopTypes, Once, NEW t \in AllThreads, NEW l \in AllLabels \ Past, pc[t] \notin Past,
         Goto(t, l) \/ (\E s : Start(t, l, s)) \/ (l = "rc_claim" /\ \E k : CallRequestClose(t, k)),
         UNCHANGED <<state, gameCleanupDone, task, subject, jobQueue>>
  PROVE  Bystands(t)
BY GoElsewhere, Uninvolved DEF StopTypes

\* PostRecv leaves the report alone.
LEMMA PostRecvBystands ==
  ASSUME StopTypes, Once, NEW t \in AllThreads, PostRecv(t)
  PROVE  Bystands(t)
<1> USE DEF PostRecvCheck, PostRecvClaim, PostRecvCount, PostRecvCall, PostRecvRelease, PostRecvUncount
<1>1. UNCHANGED <<state, gameCleanupDone, task, subject, jobQueue>>
  BY DEF PostRecv
<1>2. pc[t] \notin Past
  BY DEF PostRecv, Past, CloseLabels
<1>3. PICK l \in {"pr_claim", "pr_count", "pr_call", "pr_release", "pr_uncount", AfterRecv(t)} :
        Goto(t, l) \/ \E k : CallRequestClose(t, k)
  BY DEF PostRecv
<1>4. l \in AllLabels \ Past /\ "rc_claim" \in AllLabels \ Past
  BY NotPast
<1>5. QED
  BY <1>1, <1>2, <1>3, <1>4, GoingOn

\* So does PostSend.
LEMMA PostSendBystands ==
  ASSUME StopTypes, Once, NEW t \in AllThreads,
         PostSendCheck(t) \/ PostSendCount(t) \/ PostSendCall(t) \/ PostSendUncount(t)
  PROVE  Bystands(t)
<1> USE DEF PostSendCheck, PostSendCount, PostSendCall, PostSendUncount
<1>1. UNCHANGED <<state, gameCleanupDone, task, subject, jobQueue>>
  OBVIOUS
<1>2. pc[t] \notin Past
  BY DEF Past, CloseLabels
<1>3. PICK l \in {"ps_count", "ps_call", "ps_uncount", AfterSend(t)} :
        Goto(t, l) \/ \E k : CallRequestClose(t, k)
  OBVIOUS
<1>4. l \in AllLabels \ Past /\ "rc_claim" \in AllLabels \ Past
  BY NotPast
<1>5. QED
  BY <1>1, <1>2, <1>3, <1>4, GoingOn

\* The other functions of the workers; the packet's job is no report.
LEMMA ReceiveBystands ==
  ASSUME StopTypes, Once, NEW t \in AllThreads,
         \/ RecvCompleteFlag(t) \/ RecvCompleteCount(t) \/ RecvCompleteCheck(t)
         \/ ParseDone(t) \/ ParseFail(t) \/ Kick(t) \/ StopSendCheck(t)
         \/ StopParsePacket(t) \/ PacketJobCheck(t) \/ OnSendComplete(t)
  PROVE  Bystands(t)
<1> USE DEF RecvCompleteFlag, RecvCompleteCount, RecvCompleteCheck, ParseDone, ParseFail, Kick,
        StopSendCheck, SendPacketCheck, StopParsePacket, ParsePacket, PacketJobCheck, OnSendComplete
<1>1. UNCHANGED <<state, gameCleanupDone, task, subject, jobQueue>>
  OBVIOUS
<1>2. pc[t] \notin Past
  BY DEF Past, CloseLabels
<1>3. CASE StopParsePacket(t) /\ UNCHANGED threadVars
  <2>1. pc[t] = "rx_parse" /\ Elsewhere(t, pc[t])
    BY <1>3 DEF Elsewhere, StopTypes, AllControl
  <2>2. QED
    BY <1>1, <1>2, <2>1, NotPast, Uninvolved
<1>4. CASE ~(StopParsePacket(t) /\ UNCHANGED threadVars)
  <2>1. PICK l \in {"rx_count", "rx_state", "rx_parse", "rx_push", "rx_queue", "pr_state", "td_state",
                    "sp_state", "ps_state", AfterSend(t), AfterSendComplete} :
          Goto(t, l) \/ \E k : CallRequestClose(t, k)
    BY <1>4
  <2>2. l \in AllLabels \ Past /\ "rc_claim" \in AllLabels \ Past
    BY NotPast
  <2>3. QED
    BY <1>1, <1>2, <2>1, <2>2, GoingOn
<1>5. QED
  BY <1>3, <1>4

\* A Packet job is no report.
LEMMA PacketBystands ==
  ASSUME StopTypes, Once, NEW t \in AllThreads, PacketJobPush(t)
  PROVE  Bystands(t)
<1>1. pc[t] \notin Past /\ pc[t] \notin Carefree /\ AllControl
  BY DEF PacketJobPush, Past, CloseLabels, Carefree, HandlerLabels, StopTypes
<1>2. cur[t] \in Sessions
  BY <1>1 DEF AllControl
<1> DEFINE job == [type |-> "Packet", session |-> cur[t]]
<1>3. job \in Jobs /\ job.type # "Disconnect" /\ jobQueue' = Append(jobQueue, job)
  BY <1>2 DEF PacketJobPush, Push, Jobs, JobTypes
<1>4. Elsewhere(t, "rx_parse") /\ UNCHANGED <<state, gameCleanupDone, task, subject>>
  BY <1>1, GoElsewhere DEF PacketJobPush
<1> HIDE DEF job
<1>5. QED
  BY <1>1, <1>3, <1>4, NotPast, Pushing

\* TryDestroySession reads gameCleanupDone and writes none of it.
LEMMA DestroyBystands ==
  ASSUME StopTypes, Once, NEW t \in AllThreads,
         \/ DestroyCheckState(t) \/ DestroyCheckCleanup(t) \/ DestroyCheckIO(t) \/ TryBeginDestroy(t)
         \/ LockedRemoveSession(t) \/ DeleteSession(t)
  PROVE  Bystands(t)
<1> USE DEF DestroyCheckState, DestroyCheckCleanup, DestroyCheckIO, TryBeginDestroy,
        LockedRemoveSession, RemoveSession, DeleteSession
<1>1. UNCHANGED <<state, gameCleanupDone, task, subject, jobQueue>>
  OBVIOUS
<1>2. pc[t] \notin Past
  BY DEF Past, CloseLabels
<1>3. PICK l \in {"idle", "td_clean", "td_count", "td_claim", "td_remove", "td_delete"} : Goto(t, l)
  OBVIOUS
<1>4. QED
  BY <1>1, <1>2, <1>3, NotPast, GoingOn

\* The accept thread; the job of a connection is no report.
LEMMA AcceptBystands ==
  ASSUME StopTypes, Once, AcceptStep \/ \E s \in Sessions : AcceptSession(s)
  PROVE  Bystands(AcceptThread)
<1>1. AcceptThread \in AllThreads /\ AllControl
  BY WhoIsWho DEF StopTypes
<1>2. pc[AcceptThread] \in {"idle", "ac_accept", "ac_add", "ac_job", "ac_push"}
  BY DEF AcceptStep, AcceptLoop, AcceptFail, AddSession, ConnectJobCheck, ConnectJobPush, AcceptSession
<1>3. pc[AcceptThread] \notin Past
  BY <1>2 DEF Past, CloseLabels
<1>4. CASE ConnectJobPush
  <2> DEFINE job == [type |-> "Connect", session |-> cur[AcceptThread]]
  <2>1. cur[AcceptThread] \in Sessions
    BY <1>1, <1>4 DEF ConnectJobPush, AllControl, Carefree, HandlerLabels
  <2>2. job \in Jobs /\ job.type # "Disconnect" /\ jobQueue' = Append(jobQueue, job)
    BY <1>4, <2>1 DEF ConnectJobPush, Push, Jobs, JobTypes
  <2>3. Elsewhere(AcceptThread, "pr_state") /\ UNCHANGED <<state, gameCleanupDone, task, subject>>
    BY <1>1, <1>4, GoElsewhere DEF ConnectJobPush
  <2> HIDE DEF job
  <2>4. QED
    BY <1>1, <1>3, <2>2, <2>3, NotPast, Pushing
<1>5. CASE ~ConnectJobPush
  <2>1. UNCHANGED <<state, gameCleanupDone, task, subject, jobQueue>>
    BY <1>5 DEF AcceptStep, AcceptLoop, AcceptFail, AddSession, ConnectJobCheck, AcceptSession
  <2>2. PICK l \in {"idle", "ac_accept", "exited", "ac_add", "ac_job", "ac_push", "pr_state"} :
          Goto(AcceptThread, l) \/ \E s : Start(AcceptThread, l, s)
    BY <1>5 DEF AcceptStep, AcceptLoop, AcceptFail, AddSession, ConnectJobCheck, AcceptSession
  <2>3. QED
    BY <1>1, <1>3, <2>1, <2>2, NotPast, GoingOn
<1>6. QED
  BY <1>4, <1>5

\* A worker that takes a completion, or its exit message.
LEMMA TakeBystands ==
  ASSUME StopTypes, Once, NEW w \in Workers,
         \/ \E s \in Sessions : TakeRecv(w, s) \/ TakeSend(w, s) \/ TakeCleanup(w, s)
         \/ WorkerExit(w)
  PROVE  Bystands(w)
<1>1. w \in AllThreads
  BY WhoIsWho
<1>2. pc[w] \notin Past
  BY DEF TakeRecv, TakeSend, TakeCleanup, WorkerExit, Past, CloseLabels
<1>3. UNCHANGED <<state, gameCleanupDone, task, subject, jobQueue>>
  BY DEF TakeRecv, TakeSend, TakeCleanup, WorkerExit
<1>4. PICK l \in {"rx_flag", "tx_count", "td_state", "exited"} : Goto(w, l) \/ \E s : Start(w, l, s)
  BY DEF TakeRecv, TakeSend, TakeCleanup, WorkerExit
<1>5. QED
  BY <1>1, <1>2, <1>3, <1>4, NotPast, GoingOn

\* A handler's own steps; the Shutdown job is no report.
LEMMA HandlerBystands ==
  ASSUME StopTypes, Once, NEW h \in Handlers,
         \/ StopRunning(h) \/ CloseListen(h) \/ ShutdownClaim(h)
         \/ BroadcastBegin(h) \/ BroadcastNext(h) \/ BroadcastClose(h) \/ BroadcastEnd(h)
         \/ EnqueueShutdownJob(h) \/ PostExits(h) \/ WaitForWorkers(h)
  PROVE  Bystands(h)
<1>1. h \in AllThreads
  BY WhoIsWho
<1>2. pc[h] \in {"idle", "kick"} \cup HandlerLabels
  BY DEF StopRunning, CloseListen, ShutdownClaim, BroadcastBegin, BroadcastNext, BroadcastClose,
         BroadcastEnd, EnqueueShutdownJob, PostExits, WaitForWorkers, HandlerLabels
<1>3. pc[h] \notin Past
  BY <1>2 DEF Past, CloseLabels, HandlerLabels
<1>4. UNCHANGED <<state, gameCleanupDone, task, subject>>
  BY DEF StopRunning, CloseListen, ShutdownClaim, BroadcastBegin, BroadcastNext, BroadcastClose,
         BroadcastEnd, EnqueueShutdownJob, PostExits, WaitForWorkers
<1>5. CASE EnqueueShutdownJob(h)
  <2>1. Elsewhere(h, "h_stop")
    BY <1>1, <1>5, GoElsewhere DEF EnqueueShutdownJob, StopTypes
  <2>2. ShutdownJob.type # "Disconnect" /\ jobQueue' = Append(jobQueue, ShutdownJob)
    BY <1>5 DEF EnqueueShutdownJob, ShutdownJob
  <2>3. "h_stop" \in AllLabels \ Past
    BY NotPast DEF HandlerLabels
  <2>4. QED
    BY <1>1, <1>3, <1>4, <2>1, <2>2, <2>3, Pushing
<1>6. CASE BroadcastEnd(h)
  <2>1. Elsewhere(h, "h_job") /\ jobQueue' = jobQueue
    BY <1>1, <1>6 DEF BroadcastEnd, Elsewhere, StopTypes, AllControl
  <2>2. "h_job" \in AllLabels \ Past
    BY NotPast DEF HandlerLabels
  <2>3. QED
    BY <1>1, <1>3, <1>4, <2>1, <2>2, Uninvolved
<1>7. CASE ~(EnqueueShutdownJob(h) \/ BroadcastEnd(h))
  <2>1. jobQueue' = jobQueue
    BY <1>7 DEF StopRunning, CloseListen, ShutdownClaim, BroadcastBegin, BroadcastNext, BroadcastClose,
                PostExits, WaitForWorkers
  <2>2. PICK l \in {"ps_state"} \cup HandlerLabels :
          Goto(h, l) \/ (\E s : Start(h, l, s)) \/ \E k : CallRequestClose(h, k)
    BY <1>7 DEF StopRunning, CloseListen, ShutdownClaim, BroadcastBegin, BroadcastNext, BroadcastClose,
                PostExits, WaitForWorkers, HandlerLabels
  <2>3. l \in AllLabels \ Past /\ "rc_claim" \in AllLabels \ Past
    BY NotPast
  <2>4. QED
    BY <1>1, <1>3, <1>4, <2>1, <2>2, <2>3, GoingOn
<1>8. QED
  BY <1>5, <1>6, <1>7

\* A job that is taken: a report leaves the queue for good.
LEMMA TakenReport ==
  ASSUME StopTypes, Once, NEW type, NextJob(type)
  PROVE  /\ ReportsDiffer' /\ Reported' \subseteq Reported
         /\ type = "Disconnect" /\ Head(jobQueue).session \in Sessions =>
              Head(jobQueue).session \in Reported /\ Head(jobQueue).session \notin Reported'
<1> DEFINE J == Jobs \cup {ShutdownJob}
<1>1. jobQueue \in Seq(J) /\ jobQueue # <<>> /\ jobQueue' = Tail(jobQueue)
  BY DEF StopTypes, StopGameTypes, NextJob
<1> HIDE DEF J
<1>2. /\ Len(jobQueue) \in Nat /\ Len(jobQueue) >= 1 /\ Len(jobQueue') = Len(jobQueue) - 1
      /\ \A i \in 1 .. Len(jobQueue') : jobQueue'[i] = jobQueue[i + 1]
      /\ Head(jobQueue) = jobQueue[1]
  BY <1>1, HeadTailProperties, LenProperties, EmptySeq
<1>3. \A i \in 1 .. Len(jobQueue') : /\ i \in Nat /\ i + 1 \in 1 .. Len(jobQueue) /\ i + 1 # 1
                                     /\ \A s : IsReport(i, s)' <=> IsReport(i + 1, s)
  BY <1>2 DEF IsReport
<1>4. ReportsDiffer'
  <2>1. ASSUME NEW s \in Sessions, NEW i \in 1 .. Len(jobQueue'), NEW j \in 1 .. Len(jobQueue'),
               IsReport(i, s)', IsReport(j, s)'
        PROVE  i = j
    <3>1. i + 1 = j + 1
      BY <1>3, <2>1 DEF Once, ReportsDiffer
    <3>2. QED
      BY <1>3, <3>1
  <2>2. QED
    BY <2>1 DEF ReportsDiffer
<1>5. Reported' \subseteq Reported
  BY <1>3 DEF Reported
<1>6. ASSUME type = "Disconnect", Head(jobQueue).session \in Sessions
      PROVE  Head(jobQueue).session \in Reported /\ Head(jobQueue).session \notin Reported'
  <2> DEFINE c == Head(jobQueue).session
  <2>1. 1 \in 1 .. Len(jobQueue) /\ IsReport(1, c)
    BY <1>2, <1>6 DEF IsReport, NextJob
  <2>2. \A i \in 1 .. Len(jobQueue') : ~IsReport(i + 1, c)
    BY <1>3, <1>6, <2>1 DEF Once, ReportsDiffer
  <2>3. \A i \in 1 .. Len(jobQueue') : ~(jobQueue'[i].type = "Disconnect" /\ jobQueue'[i].session = c)
    BY <1>3, <2>2 DEF IsReport
  <2>4. QED
    BY <1>6, <2>1, <2>3 DEF Reported, IsReport
<1>7. QED
  BY <1>4, <1>5, <1>6

\* The game learns of the end of a session when it takes up its report.
LEMMA PopBystands ==
  ASSUME StopTypes, Once, GamePop \/ PopShutdown
  PROVE  Bystands(GameThread)
<1> DEFINE g == GameThread
<1>1. g \in AllThreads /\ AllControl /\ StopGameTypes
  BY WhoIsWho DEF StopTypes
<1>2. PICK type \in JobTypes \cup {"Shutdown"} : NextJob(type) /\ (PopDisconnect => type = "Disconnect")
  BY DEF GamePop, PopConnect, PopPacket, PopDisconnect, PopShutdown, NextJob, JobTypes
<1>3. ReportsDiffer' /\ Reported' \subseteq Reported /\ pc[g] = "idle"
  BY <1>2, TakenReport DEF NextJob
<1>4. UNCHANGED <<state, gameCleanupDone>>
  BY DEF GamePop, PopConnect, PopPacket, PopDisconnect, PopShutdown
<1>5. \E l \in {"idle", "g_loop", "exited"} : Elsewhere(g, l)
  <2>1. CASE UNCHANGED threadVars
    BY <1>1, <1>3, <2>1 DEF Elsewhere, AllControl
  <2>2. ASSUME NEW l \in {"g_loop", "exited"}, Goto(g, l)
        PROVE  Elsewhere(g, l)
    BY <1>1, <2>2, GoElsewhere
  <2>3. QED
    BY <2>1, <2>2 DEF GamePop, PopConnect, PopPacket, PopDisconnect, PopShutdown
<1>6. ASSUME NEW s \in Sessions, Disconnected(s)'
      PROVE  Disconnected(s) \/ (s \in Reported /\ s \notin Reported')
  <2>1. CASE PopConnect \/ PopPacket \/ PopShutdown
    BY <1>4, <1>6, <2>1 DEF PopConnect, PopPacket, PopShutdown, Disconnected
  <2>2. CASE PopDisconnect
    <3>1. CASE s = Head(jobQueue).session
      BY <1>2, <2>2, <3>1, TakenReport
    <3>2. CASE s # Head(jobQueue).session
      BY <1>4, <1>6, <2>2, <3>2 DEF PopDisconnect, Disconnected
    <3>3. QED
      BY <3>1, <3>2
  <2>3. QED
    BY <2>1, <2>2 DEF GamePop
<1>7. pc[g] \notin Past
  BY <1>3 DEF Past, CloseLabels
<1>8. QED
  BY <1>3, <1>4, <1>5, <1>6, <1>7, NotPast DEF Bystands

\* The steps of the game thread between two jobs report nothing new.
LEMMA GameBystands ==
  ASSUME StopTypes, Once, GameStep
  PROVE  Bystands(GameThread)
<1> DEFINE g == GameThread
<1> USE DEF GameStep, GameSend, GameHandled, GameReject, GameDisconnected, MarkGameCleanupDone,
        PostCleanup
<1>1. g \in AllThreads /\ AllControl /\ StopGameTypes
  BY WhoIsWho DEF StopTypes
<1>2. pc[g] \in {"g_loop", "gm_mark", "gm_post"} /\ UNCHANGED <<state, jobQueue>>
  OBVIOUS
<1>3. pc[g] \notin Past
  BY <1>2 DEF Past, CloseLabels
<1>4. \E l \in {"sp_state", "idle", "rc_claim", "gm_mark", "gm_post"} : Elsewhere(g, l)
  <2>1. CASE GameReject
    BY <1>1, <2>1 DEF Elsewhere, AllControl
  <2>2. CASE ~GameReject
    <3>1. PICK l \in {"sp_state", "idle", "gm_mark", "gm_post"} : Goto(g, l) \/ \E s : Start(g, l, s)
      BY <2>2
    <3>2. QED
      BY <1>1, <3>1, GoElsewhere
  <2>3. QED
    BY <2>1, <2>2
<1>5. ReportsDiffer' /\ Reported' = Reported
  BY <1>2 DEF Once, ReportsDiffer, Reported, IsReport
<1>6. ASSUME NEW s \in Sessions, Disconnected(s)'
      PROVE  Disconnected(s)
  <2>1. CASE MarkGameCleanupDone
    BY <1>6, <2>1 DEF Disconnected, StopTypes, ObjectTypes
  <2>2. CASE ~MarkGameCleanupDone
    BY <1>6, <2>2 DEF Disconnected
  <2>3. QED
    BY <2>1, <2>2
<1>7. QED
  BY <1>2, <1>3, <1>4, <1>5, <1>6, NotPast DEF Bystands

\* Every step keeps the report in its place.
LEMMA OnceStep == RInv /\ Once /\ [StopNext]_allVars => Once'
<1> SUFFICES ASSUME RInv, Once, [StopNext]_allVars
             PROVE  Once'
  OBVIOUS
<1>1. StopTypes
  BY DEF RInv
<1>2. CASE UNCHANGED allVars \/ AllStopped
  <2>1. UNCHANGED <<vars, stopVars>>
    BY <1>2 DEF AllStopped, allVars
  <2>2. UNCHANGED <<objVars, gameVars, threadVars>>
    BY <2>1 DEF vars
  <2>3. QED
    BY <2>2 DEF Once, ReportsDiffer, Reported, IsReport, Disconnected
<1>3. ASSUME NEW t \in Threads, RunningStep(t)
      PROVE  Once'
  <2>1. t \in AllThreads
    BY WhoIsWho
  <2>2. CASE RequestClose(t)
    BY <2>1, <2>2, RequestCloseOnce
  <2>3. CASE ~RequestClose(t)
    <3>1. Bystands(t)
      BY <1>1, <1>3, <2>1, <2>3, PostRecvBystands, PostSendBystands, ReceiveBystands,
         PacketBystands, DestroyBystands DEF RunningStep, UnchangedStep
    <3>2. QED
      BY <2>1, <3>1, BystandsKeeps
  <2>4. QED
    BY <2>2, <2>3
<1>4. CASE AcceptStep \/ \E s \in Sessions : AcceptSession(s)
  BY <1>1, <1>4, WhoIsWho, AcceptBystands, BystandsKeeps
<1>5. CASE GameSteps \/ PopShutdown
  BY <1>1, <1>5, WhoIsWho, PopBystands, GameBystands, BystandsKeeps DEF GameSteps
<1>6. ASSUME NEW h \in Handlers, HandlerStep(h) \/ StopRunning(h)
      PROVE  Once'
  <2>1. h \in AllThreads
    BY WhoIsWho
  <2>2. CASE RequestClose(h)
    BY <2>1, <2>2, RequestCloseOnce
  <2>3. CASE ~RequestClose(h)
    <3>1. Bystands(h)
      BY <1>1, <1>6, <2>1, <2>3, PostSendBystands, HandlerBystands DEF HandlerStep
    <3>2. QED
      BY <2>1, <3>1, BystandsKeeps
  <2>4. QED
    BY <2>2, <2>3
<1>7. ASSUME NEW w \in Workers,
             \/ \E s \in Sessions : TakeRecv(w, s) \/ TakeSend(w, s) \/ TakeCleanup(w, s)
             \/ WorkerExit(w)
      PROVE  Once'
  BY <1>1, <1>7, WhoIsWho, TakeBystands, BystandsKeeps
<1>8. CASE ServerStep
  <2>1. CASE OthersStep
    BY <1>3, <1>4, <1>5, <1>6, <2>1, WhoIsWho DEF OthersStep
  <2>2. CASE \E w \in Workers : RunningStep(w)
    BY <1>3, <2>2, WhoIsWho
  <2>3. QED
    BY <1>4, <1>6, <1>7, <1>8, <2>1, <2>2 DEF ServerStep, Exits
<1>9. QED
  BY <1>2, <1>8 DEF StopNext

\* At the start nothing is reported.
LEMMA OnceInit == StopInit => Once
<1> SUFFICES ASSUME StopInit
             PROVE  Once
  OBVIOUS
<1>1. (\A t \in AllThreads : pc[t] = "idle") /\ jobQueue = <<>> /\ Len(jobQueue) = 0
  BY DEF StopInit, InitShared, InitThreads
<1>2. "idle" \notin Past
  BY DEF Past, CloseLabels
<1>3. ReportsDiffer /\ Reported = {}
  BY <1>1 DEF ReportsDiffer, Reported
<1>4. \A s \in Sessions : ~Disconnected(s)
  BY DEF StopInit, InitShared, Disconnected
<1>5. QED
  BY <1>1, <1>2, <1>3, <1>4 DEF Once

\* A set whose elements are all the same has at most one.
LEMMA OneElement ==
  ASSUME NEW S, \A x, y \in S : x = y
  PROVE  \/ S = {} /\ Cardinality(S) = 0
         \/ S # {} /\ Cardinality(S) = 1
<1>1. CASE S = {}
  BY <1>1, FS_EmptySet
<1>2. CASE S # {}
  <2>1. PICK x \in S : S = {x}
    BY <1>2
  <2>2. QED
    BY <1>2, <2>1, FS_Singleton
<1>3. QED
  BY <1>1, <1>2

\* A session that the broadcast closes while workers, the accept thread or the
\* game thread close it too is reported to the game once at most.
THEOREM ReportedOnceStopping == StopSpec => []DisconnectOnceStopping
<1>1. ASSUME RInv, Once, NEW s \in Sessions
      PROVE  Cardinality(AllClosers(s)) + Cardinality(DisconnectJobs(s))
               + (IF Disconnected(s) THEN 1 ELSE 0) <= 1
  <2>1. \A t, u \in AllClosers(s) : t = u
    BY <1>1 DEF Once, AllClosers, Past
  <2>2. AllClosers(s) # {} => s \notin Reported /\ ~Disconnected(s)
    BY <1>1 DEF Once, AllClosers, Past
  <2>3. \A i \in DisconnectJobs(s) : i \in 1 .. Len(jobQueue) /\ IsReport(i, s)
    BY <1>1 DEF DisconnectJobs, RInv, StopTypes, StopGameTypes, IsReport
  <2>4. \A i, j \in DisconnectJobs(s) : i = j
    BY <1>1, <2>3 DEF Once, ReportsDiffer
  <2>5. DisconnectJobs(s) # {} => s \in Reported /\ ~Disconnected(s)
    BY <1>1, <2>3 DEF Once, Reported
  <2>6. \/ AllClosers(s) = {} /\ Cardinality(AllClosers(s)) = 0
        \/ AllClosers(s) # {} /\ Cardinality(AllClosers(s)) = 1
    BY <2>1, OneElement
  <2>7. \/ DisconnectJobs(s) = {} /\ Cardinality(DisconnectJobs(s)) = 0
        \/ DisconnectJobs(s) # {} /\ Cardinality(DisconnectJobs(s)) = 1
    BY <2>4, OneElement
  <2>8. QED
    BY <2>2, <2>5, <2>6, <2>7
<1>2. RInv /\ Once => DisconnectOnceStopping
  BY <1>1 DEF DisconnectOnceStopping
<1>3. StopSpec => []Once
  BY OnceInit, OnceStep, RInvInvariant, PTL DEF StopSpec
<1>4. QED
  BY <1>2, <1>3, RInvInvariant, PTL

-----------------------------------------------------------------------------
(* Packets find the player: a session whose Connect job is dropped gets no *)
(* packet through, as the server is shutting down from then on.            *)

IsJob(i, type, s) == jobQueue[i].type = type /\ jobQueue[i].session = s

\* The game knows, knew or will know that these are connected.
Announced ==
  {s \in Sessions : \/ s \in players \/ Disconnected(s)
                    \/ \E i \in 1 .. Len(jobQueue) : IsJob(i, "Connect", s)}

\* The game thread, which sends and closes but does not receive, leaves a
\* disconnect only when it has marked the cleanup.
Duty ==
  /\ pc[GameThread] \in GameLabels \cup SendLabels \cup CloseLabels \cup {"idle", "exited"}
  /\ pc[GameThread] \in CloseLabels => ret[GameThread] \in {"idle", "g_loop"}
  /\ pc[GameThread] = "idle" => task = "none"
  /\ pc[GameThread] \in CloseLabels /\ ret[GameThread] = "idle" => task = "none"
  /\ pc[GameThread] = "gm_post" => gameCleanupDone[subject]

\* On the way through OnRecvComplete and PostRecv.
Receiving(t) ==
  \/ pc[t] \in ReceiveLabels \cup PostRecvLabels \cup SendLabels \cup {"rx_queue"}
  \/ pc[t] \in CloseLabels /\ ret[t] \in {"rx_parse", "kick"}

Expected(s) == s \in Announced \/ IsShuttingDown

\* Nobody receives from a session that was not announced while the server runs.
Receivers ==
  /\ \A t \in Workers \cup {AcceptThread} :
       /\ Receiving(t) => Expected(cur[t])
       /\ pc[t] = "rx_queue" => cur[t] \in Announced
  /\ \A s \in Sessions : recvIo[s] > 0 => Expected(s)

\* The packets of the queue will find the player, or its end.
PacketsInOrder ==
  \A i \in 1 .. Len(jobQueue) : \A s \in Sessions : IsJob(i, "Packet", s) =>
    \/ s \in players \/ Disconnected(s)
    \/ \E j \in 1 .. Len(jobQueue) : j < i /\ IsJob(j, "Connect", s)

Finding == Duty /\ Receivers /\ PacketsInOrder

\* Thread t moves; it receives from sessions that were announced only, and
\* queues packets of these only.
Brings(t) ==
  /\ \E l \in AllLabels : pc' = [pc EXCEPT ![t] = l]
  /\ \A u \in AllThreads : u # t => cur'[u] = cur[u] /\ ret'[u] = ret[u]
  /\ UNCHANGED <<gameCleanupDone, task, subject, players>>
  /\ IsShuttingDown => IsShuttingDown'
  /\ \/ jobQueue' = jobQueue
     \/ \E job \in Jobs \cup {ShutdownJob} :
          jobQueue' = Append(jobQueue, job) /\ (job.type = "Packet" => job.session \in Announced)
  /\ t \in Workers \cup {AcceptThread} =>
       /\ Receiving(t)' => \/ Expected(cur'[t])
                           \/ /\ cur'[t] \in Sessions
                              /\ jobQueue' = Append(jobQueue, [type |-> "Connect", session |-> cur'[t]])
       /\ pc'[t] = "rx_queue" => cur'[t] \in Announced
  /\ \A s \in Sessions : recvIo'[s] > 0 => Expected(s)

\* What is announced stays announced when a job is queued.
LEMMA BringsAnnounced ==
  ASSUME StopTypes, PacketsInOrder, NEW t \in AllThreads, Brings(t)
  PROVE  /\ Announced \subseteq Announced' /\ PacketsInOrder'
         /\ \A s \in Sessions : jobQueue' = Append(jobQueue, [type |-> "Connect", session |-> s])
                                  => s \in Announced'
<1> DEFINE J == Jobs \cup {ShutdownJob}
<1>1. jobQueue \in Seq(J) /\ UNCHANGED <<gameCleanupDone, task, subject, players>>
  BY DEF StopTypes, StopGameTypes, Brings
<1>2. CASE jobQueue' = jobQueue
  <2>1. Announced' = Announced /\ PacketsInOrder'
    BY <1>1, <1>2 DEF Announced, PacketsInOrder, Disconnected, IsJob
  <2> HIDE DEF J
  <2>2. ASSUME NEW job \in J PROVE jobQueue # Append(jobQueue, job)
    <3>1. Len(Append(jobQueue, job)) = Len(jobQueue) + 1 /\ Len(jobQueue) \in Nat
      BY <1>1, AppendProperties, LenProperties
    <3>2. QED
      BY <3>1
  <2>3. \A s \in Sessions : [type |-> "Connect", session |-> s] \in J
    BY DEF J, Jobs, JobTypes
  <2>4. QED
    BY <1>2, <2>1, <2>2, <2>3
<1>3. ASSUME NEW job \in J, jobQueue' = Append(jobQueue, job), job.type = "Packet" => job.session \in Announced
      PROVE  /\ Announced \subseteq Announced' /\ PacketsInOrder'
             /\ \A s \in Sessions : job = [type |-> "Connect", session |-> s] => s \in Announced'
  <2> HIDE DEF J
  <2>1. /\ Len(jobQueue) \in Nat /\ Len(jobQueue') = Len(jobQueue) + 1
        /\ \A i \in 1 .. Len(jobQueue) : jobQueue'[i] = jobQueue[i]
        /\ jobQueue'[Len(jobQueue) + 1] = job
    BY <1>1, <1>3, AppendProperties, LenProperties
  <2>2. \A i \in 1 .. Len(jobQueue) : i \in 1 .. Len(jobQueue') /\ \A s :
          /\ IsJob(i, "Connect", s)' <=> IsJob(i, "Connect", s)
          /\ IsJob(i, "Packet", s)' <=> IsJob(i, "Packet", s)
    BY <2>1 DEF IsJob
  <2>3. Announced \subseteq Announced'
    BY <1>1, <2>2 DEF Announced, Disconnected
  <2>4. ASSUME NEW i \in 1 .. Len(jobQueue'), NEW s \in Sessions, IsJob(i, "Packet", s)'
        PROVE  \/ s \in players' \/ Disconnected(s)'
               \/ \E j \in 1 .. Len(jobQueue') : j < i /\ IsJob(j, "Connect", s)'
    <3>1. CASE i \in 1 .. Len(jobQueue)
      BY <1>1, <2>2, <2>4, <3>1 DEF PacketsInOrder, Disconnected
    <3>2. CASE i = Len(jobQueue) + 1
      <4>1. s \in Announced
        BY <1>3, <2>1, <2>4, <3>2 DEF IsJob
      <4>2. \A j \in 1 .. Len(jobQueue) : j < i
        BY <2>1, <3>2
      <4>3. QED
        BY <1>1, <2>2, <4>1, <4>2 DEF Announced, Disconnected
    <3>3. QED
      BY <2>1, <3>1, <3>2
  <2>5. PacketsInOrder'
    BY <2>4 DEF PacketsInOrder
  <2>6. ASSUME NEW s \in Sessions, job = [type |-> "Connect", session |-> s]
        PROVE  s \in Announced'
    <3>1. PICK n \in 1 .. Len(jobQueue') : jobQueue'[n] = job
      BY <2>1
    <3>2. job.type = "Connect" /\ job.session = s
      BY <2>6
    <3>3. IsJob(n, "Connect", s)'
      BY <3>1, <3>2 DEF IsJob
    <3>4. \E i \in 1 .. Len(jobQueue') : IsJob(i, "Connect", s)'
      BY <3>3
    <3>5. QED
      BY <3>4 DEF Announced
  <2>7. QED
    BY <2>3, <2>5, <2>6
<1>4. ASSUME NEW job \in J, jobQueue' = Append(jobQueue, job), NEW s \in Sessions,
             jobQueue' = Append(jobQueue, [type |-> "Connect", session |-> s])
      PROVE  job = [type |-> "Connect", session |-> s]
  <2> DEFINE other == [type |-> "Connect", session |-> s]
  <2>1. other \in J /\ jobQueue' = Append(jobQueue, other)
    BY <1>4 DEF Jobs, JobTypes
  <2> HIDE DEF J, other
  <2>2. Append(jobQueue, job)[Len(jobQueue) + 1] = job
    BY <1>1, <1>4, AppendProperties
  <2>3. Append(jobQueue, other)[Len(jobQueue) + 1] = other
    BY <1>1, <2>1, AppendProperties
  <2>4. QED
    BY <1>4, <2>1, <2>2, <2>3 DEF other
<1>5. QED
  BY <1>2, <1>3, <1>4 DEF Brings

\* Such a step keeps what the receivers know.
LEMMA BringsKeeps ==
  ASSUME RInv, Receivers, PacketsInOrder, NEW t \in AllThreads, Brings(t)
  PROVE  Receivers' /\ PacketsInOrder'
<1>1. AllControl /\ StopTypes /\ Workers \cup {AcceptThread} \subseteq AllThreads
  BY WhoIsWho DEF RInv, StopTypes
<1>2. Announced \subseteq Announced' /\ PacketsInOrder'
  BY <1>1, BringsAnnounced
<1>3. \A s : Expected(s) => Expected(s)'
  BY <1>2 DEF Expected, Brings
<1>4. ASSUME NEW u \in Workers \cup {AcceptThread}
      PROVE  /\ Receiving(u)' => (Expected(cur[u]))'
             /\ pc'[u] = "rx_queue" => cur'[u] \in Announced'
  <2>1. CASE u = t
    <3>1. Receiving(u)' => (Expected(cur[u]))'
      BY <1>1, <1>2, <2>1, BringsAnnounced DEF Brings, Expected
    <3>2. QED
      BY <1>2, <2>1, <3>1 DEF Brings
  <2>2. CASE u # t
    <3>1. pc'[u] = pc[u] /\ cur'[u] = cur[u] /\ ret'[u] = ret[u]
      BY <1>1, <2>2 DEF Brings, AllControl
    <3>2. Receiving(u)' => Receiving(u)
      BY <3>1 DEF Receiving
    <3>3. QED
      BY <1>2, <3>1, <3>2 DEF Receivers, Expected, Brings
  <2>3. QED
    BY <2>1, <2>2
<1>5. \A s \in Sessions : recvIo'[s] > 0 => Expected(s)'
  BY <1>3 DEF Brings
<1>6. QED
  BY <1>2, <1>4, <1>5 DEF Receivers

\* A step of another thread leaves the game thread to its duty.
LEMMA DutyKept ==
  ASSUME AllControl, Duty, NEW t \in AllThreads, t # GameThread, Brings(t)
  PROVE  Duty'
<1>1. GameThread \in AllThreads
  BY WhoIsWho
<1>2. pc'[GameThread] = pc[GameThread] /\ ret'[GameThread] = ret[GameThread]
  BY <1>1 DEF Brings, AllControl
<1>3. QED
  BY <1>2 DEF Duty, Brings

\* A thread that goes on, receiving what it received before or nothing.
LEMMA GoesOnBringing ==
  ASSUME AllControl, Receivers, NEW t \in AllThreads, NEW l \in AllLabels \ {"rx_queue"},
         Goto(t, l) \/ (l = "rc_claim" /\ \E k : CallRequestClose(t, k)),
         t \in Workers \cup {AcceptThread} => Receiving(t) \/ ~Receiving(t)',
         UNCHANGED <<gameCleanupDone, task, subject, players, jobQueue, serverState>>,
         \A s \in Sessions : recvIo'[s] > 0 => recvIo[s] > 0 \/ Expected(s)
  PROVE  Brings(t)
<1>1. pc' = [pc EXCEPT ![t] = l] /\ (\A u \in AllThreads : u # t => cur'[u] = cur[u] /\ ret'[u] = ret[u])
  BY DEF Goto, CallRequestClose, AllControl
<1>2. pc'[t] = l /\ (cur'[t] = cur[t] \/ Forgets(l))
  BY DEF Goto, CallRequestClose, AllControl
<1>3. Forgets(l) => ~Receiving(t)'
  BY <1>2 DEF Forgets, Receiving, ReceiveLabels, PostRecvLabels, SendLabels, CloseLabels
<1>4. t \in Workers \cup {AcceptThread} =>
        /\ Receiving(t)' => Expected(cur'[t])
        /\ pc'[t] # "rx_queue"
  BY <1>2, <1>3 DEF Receivers
<1>5. \A s \in Sessions : recvIo'[s] > 0 => Expected(s)
  BY DEF Receivers
<1>6. IsShuttingDown => IsShuttingDown'
  BY DEF IsShuttingDown
<1>7. QED
  BY <1>1, <1>4, <1>5, <1>6 DEF Brings

\* A worker or the accept thread in Session::PostRecv.
LEMMA PostRecvBrings ==
  ASSUME StopTypes, Receivers, NEW t \in Workers \cup {AcceptThread}, PostRecv(t),
         UNCHANGED stopVars
  PROVE  Brings(t)
<1> USE DEF PostRecvCheck, PostRecvClaim, PostRecvCount, PostRecvCall, PostRecvRelease, PostRecvUncount
<1>1. t \in AllThreads /\ AllControl
  BY WhoIsWho DEF StopTypes
<1>2. UNCHANGED <<gameCleanupDone, task, subject, players, jobQueue, serverState>>
  BY DEF PostRecv
<1>3. Receiving(t) /\ Expected(cur[t])
  BY DEF PostRecv, Receiving, PostRecvLabels, Receivers
<1>4. PICK l \in {"pr_claim", "pr_count", "pr_call", "pr_release", "pr_uncount", AfterRecv(t), "rc_claim"} :
        Goto(t, l) \/ (l = "rc_claim" /\ \E k : CallRequestClose(t, k))
  BY DEF PostRecv
<1>5. l \in AllLabels \ {"rx_queue"}
  BY DEF AfterRecv, AllLabels, Labels, PostRecvLabels, DestroyLabels, CloseLabels
<1>6. \A s \in Sessions : recvIo'[s] > 0 => recvIo[s] > 0 \/ Expected(s)
  BY <1>3 DEF PostRecv, StopTypes, KernelTypes
<1>7. QED
  BY <1>1, <1>2, <1>3, <1>4, <1>5, <1>6, GoesOnBringing

\* Whoever sends, if it receives it does so after.
LEMMA PostSendBrings ==
  ASSUME StopTypes, Receivers, NEW t \in AllThreads, UNCHANGED serverState,
         \/ PostSendCheck(t) \/ PostSendCount(t) \/ PostSendCall(t) \/ PostSendUncount(t)
         \/ StopSendCheck(t)
  PROVE  Brings(t)
<1> USE DEF PostSendCheck, PostSendCount, PostSendCall, PostSendUncount, StopSendCheck, SendPacketCheck
<1>1. AllControl
  BY DEF StopTypes
<1>2. UNCHANGED <<gameCleanupDone, task, subject, players, jobQueue, serverState, recvIo>>
  OBVIOUS
<1>3. Receiving(t)
  BY DEF Receiving, SendLabels
<1>4. PICK l \in {"ps_state", "ps_count", "ps_call", "ps_uncount", AfterSend(t), "rc_claim"} :
        Goto(t, l) \/ (l = "rc_claim" /\ \E k : CallRequestClose(t, k))
  OBVIOUS
<1>5. l \in AllLabels \ {"rx_queue"}
  BY DEF AfterSend, AllLabels, Labels, SendLabels, ReceiveLabels, GameLabels, CloseLabels
<1>6. QED
  BY <1>1, <1>2, <1>3, <1>4, <1>5, GoesOnBringing

\* Session::RequestClose: whoever goes on to receive did so before.
LEMMA RequestCloseBrings ==
  ASSUME StopTypes, Receivers, NEW t \in AllThreads, RequestClose(t), UNCHANGED serverState
  PROVE  Brings(t)
<1> USE DEF RequestCloseClaim, CloseSocket, CloseDone, EnqueueDisconnectJob
<1>1. AllControl
  BY DEF StopTypes
<1>2. UNCHANGED <<gameCleanupDone, task, subject, players, serverState, recvIo>>
  BY DEF RequestClose
<1>3. pc[t] \in CloseLabels /\ cur[t] \in Sessions
  <2>1. pc[t] \in CloseLabels
    BY DEF RequestClose, CloseLabels
  <2>2. QED
    BY <1>1, <2>1 DEF CloseLabels, AllControl, Carefree, HandlerLabels
<1>4. CASE \E l \in Past : Goto(t, l) /\ jobQueue' = jobQueue
  <2>1. PICK l \in Past : Goto(t, l) /\ jobQueue' = jobQueue
    BY <1>4
  <2>2. pc'[t] = l /\ ret' = ret /\ l \in AllLabels \ {"rx_queue"}
    BY <1>1, <2>1 DEF Goto, AllControl, Past, CloseLabels, AllLabels, Labels
  <2>3. Receiving(t)' => Receiving(t)
    BY <1>3, <2>1, <2>2 DEF Receiving, Past, CloseLabels, ReceiveLabels, PostRecvLabels, SendLabels
  <2>4. QED
    BY <1>1, <1>2, <2>1, <2>2, <2>3, GoesOnBringing
<1>5. CASE /\ ReturnFromClose(t)
           /\ \/ jobQueue' = jobQueue
              \/ jobQueue' = Append(jobQueue, [type |-> "Disconnect", session |-> cur[t]])
  <2>1. /\ pc' = [pc EXCEPT ![t] = ret[t]] /\ ret[t] \in ReturnLabels \cup {"h_next"}
        /\ \A u \in AllThreads : u # t => cur'[u] = cur[u] /\ ret'[u] = ret[u]
        /\ cur'[t] = cur[t] \/ Forgets(ret[t])
    BY <1>1, <1>5 DEF ReturnFromClose, AllControl
  <2>2. ret[t] \in AllLabels /\ pc'[t] = ret[t]
    BY <1>1, <2>1 DEF ReturnLabels, AllLabels, Labels, HandlerLabels, GameLabels, ReceiveLabels,
                      DestroyLabels, AllControl
  <2>3. pc'[t] # "rx_queue" /\ (Receiving(t)' => ret[t] \in {"rx_parse", "kick"})
    BY <2>1, <2>2 DEF Receiving, ReturnLabels, CloseLabels, ReceiveLabels, PostRecvLabels, SendLabels
  <2>4. t \in Workers \cup {AcceptThread} => (Receiving(t)' => Expected(cur'[t]))
    BY <1>3, <2>1, <2>3 DEF Receiving, Receivers, Forgets
  <2>5. \/ jobQueue' = jobQueue
        \/ \E job \in Jobs \cup {ShutdownJob} :
             jobQueue' = Append(jobQueue, job) /\ (job.type = "Packet" => job.session \in Announced)
    <3> DEFINE d == [type |-> "Disconnect", session |-> cur[t]]
    <3>1. d \in Jobs /\ d.type # "Packet"
      BY <1>3 DEF Jobs, JobTypes
    <3>2. jobQueue' = jobQueue \/ jobQueue' = Append(jobQueue, d)
      BY <1>5
    <3> HIDE DEF d
    <3>3. QED
      BY <3>1, <3>2
  <2>6. (\A s \in Sessions : recvIo'[s] > 0 => Expected(s)) /\ (IsShuttingDown => IsShuttingDown')
    BY <1>2 DEF Receivers, IsShuttingDown
  <2>7. QED
    BY <1>2, <2>1, <2>2, <2>3, <2>4, <2>5, <2>6 DEF Brings
<1>6. QED
  <2>1. CASE EnqueueDisconnectJob(t)
    BY <1>5, <2>1 DEF Push
  <2>2. CASE ~EnqueueDisconnectJob(t)
    BY <1>4, <1>5, <2>2 DEF RequestClose, Past, CloseLabels
  <2>3. QED
    BY <2>1, <2>2

\* The other functions of a worker that receives.
LEMMA ReceiveBrings ==
  ASSUME StopTypes, Receivers, NEW t \in Workers \cup {AcceptThread}, UNCHANGED serverState,
         \/ RecvCompleteFlag(t) \/ RecvCompleteCount(t) \/ RecvCompleteCheck(t)
         \/ ParseDone(t) \/ ParseFail(t) \/ Kick(t) \/ StopParsePacket(t)
  PROVE  Brings(t)
<1> USE DEF RecvCompleteFlag, RecvCompleteCount, RecvCompleteCheck, ParseDone, ParseFail, Kick,
        StopParsePacket, ParsePacket
<1>1. t \in AllThreads /\ AllControl
  BY WhoIsWho DEF StopTypes
<1>2. UNCHANGED <<gameCleanupDone, task, subject, players, jobQueue, serverState, recvIo>>
  OBVIOUS
<1>3. pc[t] \in ReceiveLabels /\ Receiving(t) /\ Expected(cur[t])
  BY DEF Receiving, ReceiveLabels, Receivers
<1>4. CASE StopParsePacket(t) /\ UNCHANGED threadVars
  <2>1. pc' = [pc EXCEPT ![t] = pc[t]] /\ pc[t] \in AllLabels /\ pc'[t] # "rx_queue"
    BY <1>1, <1>3, <1>4 DEF AllControl, ReceiveLabels
  <2>2. Expected(cur'[t])
    BY <1>3, <1>4
  <2>3. (\A s \in Sessions : recvIo'[s] > 0 => Expected(s)) /\ (IsShuttingDown => IsShuttingDown')
    BY <1>2 DEF Receivers, IsShuttingDown
  <2>4. QED
    BY <1>2, <1>4, <2>1, <2>2, <2>3 DEF Brings
<1>5. CASE ~(StopParsePacket(t) /\ UNCHANGED threadVars)
  <2>1. PICK l \in {"rx_count", "rx_state", "rx_parse", "rx_push", "pr_state", "td_state", "sp_state",
                    "rc_claim"} :
          Goto(t, l) \/ (l = "rc_claim" /\ \E k : CallRequestClose(t, k))
    BY <1>5
  <2>2. l \in AllLabels \ {"rx_queue"}
    BY DEF AllLabels, Labels, ReceiveLabels, PostRecvLabels, DestroyLabels, SendLabels, CloseLabels
  <2>3. QED
    BY <1>1, <1>2, <1>3, <2>1, <2>2, GoesOnBringing
<1>6. QED
  BY <1>4, <1>5

\* While the server runs, a packet that is to be queued is of a session that
\* was announced,
LEMMA PacketCheckBrings ==
  ASSUME StopTypes, Receivers, NEW t \in Workers \cup {AcceptThread}, PacketJobCheck(t),
         UNCHANGED serverState
  PROVE  Brings(t)
<1>1. t \in AllThreads /\ AllControl
  BY WhoIsWho DEF StopTypes
<1>2. UNCHANGED <<gameCleanupDone, task, subject, players, jobQueue, serverState, recvIo>>
  BY DEF PacketJobCheck
<1>3. Expected(cur[t])
  BY DEF PacketJobCheck, Receiving, ReceiveLabels, Receivers
<1>4. PICK l \in {"rx_parse", "rx_queue"} : Goto(t, l) /\ (l = "rx_queue" => ~IsShuttingDown)
  BY DEF PacketJobCheck
<1>5. /\ pc' = [pc EXCEPT ![t] = l] /\ pc'[t] = l /\ cur' = cur /\ ret' = ret
      /\ l \in AllLabels
  BY <1>1, <1>4 DEF Goto, Forgets, AllControl, AllLabels, Labels, ReceiveLabels
<1>6. l = "rx_queue" => cur[t] \in Announced
  BY <1>3, <1>4 DEF Expected
<1>7. (\A s \in Sessions : recvIo'[s] > 0 => Expected(s)) /\ (IsShuttingDown => IsShuttingDown')
  BY <1>2 DEF Receivers, IsShuttingDown
<1>8. QED
  BY <1>2, <1>3, <1>5, <1>6, <1>7 DEF Brings

\* and it still is when it is queued.
LEMMA PacketPushBrings ==
  ASSUME StopTypes, Receivers, NEW t \in Workers \cup {AcceptThread}, PacketJobPush(t),
         UNCHANGED serverState
  PROVE  Brings(t)
<1>1. t \in AllThreads /\ AllControl
  BY WhoIsWho DEF StopTypes
<1>2. UNCHANGED <<gameCleanupDone, task, subject, players, serverState, recvIo>>
  BY DEF PacketJobPush
<1>3. cur[t] \in Announced /\ Expected(cur[t])
  BY DEF PacketJobPush, Receivers, Expected
<1>4. /\ pc' = [pc EXCEPT ![t] = "rx_parse"] /\ pc'[t] = "rx_parse" /\ cur' = cur /\ ret' = ret
      /\ "rx_parse" \in AllLabels
  BY <1>1 DEF PacketJobPush, Goto, Forgets, AllControl, AllLabels, Labels, ReceiveLabels
<1>5. \E job \in Jobs \cup {ShutdownJob} :
        jobQueue' = Append(jobQueue, job) /\ (job.type = "Packet" => job.session \in Announced)
  <2> DEFINE p == [type |-> "Packet", session |-> cur[t]]
  <2>1. p \in Jobs /\ p.session \in Announced /\ jobQueue' = Append(jobQueue, p)
    BY <1>3 DEF PacketJobPush, Push, Jobs, JobTypes, Announced
  <2> HIDE DEF p
  <2>2. QED
    BY <2>1
<1>6. (\A s \in Sessions : recvIo'[s] > 0 => Expected(s)) /\ (IsShuttingDown => IsShuttingDown')
  BY <1>2 DEF Receivers, IsShuttingDown
<1>7. QED
  BY <1>2, <1>3, <1>4, <1>5, <1>6 DEF Brings

\* Whoever destroys, or has sent, does not receive.
LEMMA DestroyBrings ==
  ASSUME StopTypes, Receivers, NEW t \in AllThreads, UNCHANGED serverState,
         \/ DestroyCheckState(t) \/ DestroyCheckCleanup(t) \/ DestroyCheckIO(t) \/ TryBeginDestroy(t)
         \/ LockedRemoveSession(t) \/ DeleteSession(t) \/ OnSendComplete(t)
  PROVE  Brings(t)
<1> USE DEF DestroyCheckState, DestroyCheckCleanup, DestroyCheckIO, TryBeginDestroy,
        LockedRemoveSession, RemoveSession, DeleteSession, OnSendComplete, AfterSendComplete
<1>1. AllControl
  BY DEF StopTypes
<1>2. UNCHANGED <<gameCleanupDone, task, subject, players, jobQueue, serverState, recvIo>>
  OBVIOUS
<1>3. PICK l \in {"idle", "rc_claim"} \cup DestroyLabels :
        Goto(t, l) \/ (l = "rc_claim" /\ CallRequestClose(t, "td_state"))
  BY DEF DestroyLabels
<1>4. l \in AllLabels \ {"rx_queue"}
  BY DEF AllLabels, Labels, DestroyLabels, CloseLabels
<1>5. pc'[t] = l /\ (l = "rc_claim" => ret'[t] = "td_state")
  <2>1. pc'[t] = l
    BY <1>1, <1>3 DEF Goto, CallRequestClose, AllControl
  <2>2. l = "rc_claim" => CallRequestClose(t, "td_state")
    <3>1. pc'[t] = "rc_claim" => OnSendComplete(t) /\ CallRequestClose(t, "td_state")
      BY <1>1 DEF Goto, AllControl
    <3>2. QED
      BY <2>1, <3>1
  <2>3. QED
    BY <1>1, <2>1, <2>2 DEF CallRequestClose, AllControl
<1>6. ~Receiving(t)'
  BY <1>5 DEF Receiving, DestroyLabels, ReceiveLabels, PostRecvLabels, SendLabels, CloseLabels
<1>7. QED
  BY <1>1, <1>2, <1>3, <1>4, <1>6, GoesOnBringing

\* The accept thread receives from a session that it has announced, or that it
\* could not announce any more.
LEMMA AcceptBrings ==
  ASSUME StopTypes, Receivers, UNCHANGED serverState, AcceptStep \/ \E s \in Sessions : AcceptSession(s)
  PROVE  Brings(AcceptThread)
<1> DEFINE a == AcceptThread
<1>1. a \in AllThreads /\ AllControl
  BY WhoIsWho DEF StopTypes
<1>2. UNCHANGED <<gameCleanupDone, task, subject, players, serverState, recvIo>>
  BY DEF AcceptStep, AcceptLoop, AcceptFail, AddSession, ConnectJobCheck, ConnectJobPush, AcceptSession
<1>3. (\A s \in Sessions : recvIo'[s] > 0 => Expected(s)) /\ (IsShuttingDown => IsShuttingDown')
  BY <1>2 DEF Receivers, IsShuttingDown
<1>4. CASE ConnectJobPush
  <2>1. cur[a] \in Sessions
    BY <1>1, <1>4 DEF ConnectJobPush, AllControl, Carefree, HandlerLabels
  <2>2. /\ pc' = [pc EXCEPT ![a] = "pr_state"] /\ pc'[a] = "pr_state" /\ cur' = cur /\ ret' = ret
        /\ "pr_state" \in AllLabels
    BY <1>1, <1>4 DEF ConnectJobPush, Goto, Forgets, AllControl, AllLabels, Labels, PostRecvLabels
  <2> DEFINE c == [type |-> "Connect", session |-> cur[a]]
  <2>3. c \in Jobs /\ c.type # "Packet" /\ jobQueue' = Append(jobQueue, c) /\ cur'[a] = cur[a]
    BY <1>4, <2>1, <2>2 DEF ConnectJobPush, Push, Jobs, JobTypes
  <2>4. /\ cur'[a] \in Sessions
        /\ jobQueue' = Append(jobQueue, [type |-> "Connect", session |-> cur'[a]])
    BY <2>1, <2>3
  <2> HIDE DEF c
  <2>5. QED
    BY <1>2, <1>3, <2>2, <2>3, <2>4 DEF Brings
<1>5. CASE ConnectJobCheck
  <2>1. PICK l \in {"pr_state", "ac_push"} : Goto(a, l) /\ (l = "pr_state" => IsShuttingDown)
    BY <1>5 DEF ConnectJobCheck, ConnectIsDropped
  <2>2. /\ pc' = [pc EXCEPT ![a] = l] /\ pc'[a] = l /\ cur' = cur /\ ret' = ret /\ l \in AllLabels
    BY <1>1, <2>1 DEF Goto, Forgets, AllControl, AllLabels, Labels, PostRecvLabels, AcceptLoopLabels
  <2>3. Receiving(a)' => Expected(cur'[a])
    BY <2>1, <2>2 DEF Receiving, Expected, ReceiveLabels, PostRecvLabels, SendLabels, CloseLabels
  <2>4. jobQueue' = jobQueue /\ pc'[a] # "rx_queue"
    BY <1>5, <2>2 DEF ConnectJobCheck
  <2>5. QED
    BY <1>2, <1>3, <2>2, <2>3, <2>4 DEF Brings
<1>6. CASE ~ConnectJobPush /\ ~ConnectJobCheck
  <2>1. jobQueue' = jobQueue
    BY <1>6 DEF AcceptStep, AcceptLoop, AcceptFail, AddSession, AcceptSession
  <2>2. PICK l \in {"idle", "ac_accept", "exited", "ac_add", "ac_job"} :
          Goto(a, l) \/ \E s : Start(a, l, s)
    BY <1>6 DEF AcceptStep, AcceptLoop, AcceptFail, AddSession, AcceptSession
  <2>3. /\ pc' = [pc EXCEPT ![a] = l] /\ pc'[a] = l /\ l \in AllLabels
        /\ \A u \in AllThreads : u # a => cur'[u] = cur[u] /\ ret'[u] = ret[u]
    BY <1>1, <2>2 DEF Goto, Start, AllControl, AllLabels, Labels, AcceptLabels, AcceptLoopLabels
  <2>4. ~Receiving(a)' /\ pc'[a] # "rx_queue"
    BY <2>3 DEF Receiving, ReceiveLabels, PostRecvLabels, SendLabels, CloseLabels
  <2>5. QED
    BY <1>2, <1>3, <2>1, <2>3, <2>4 DEF Brings
<1>7. QED
  BY <1>4, <1>5, <1>6

\* The kernel completes the receives of announced sessions.
LEMMA TakeBrings ==
  ASSUME StopTypes, Receivers, NEW w \in Workers, UNCHANGED serverState,
         \/ \E s \in Sessions : TakeRecv(w, s) \/ TakeSend(w, s) \/ TakeCleanup(w, s)
         \/ WorkerExit(w)
  PROVE  Brings(w)
<1> USE DEF TakeRecv, TakeSend, TakeCleanup, WorkerExit
<1>1. w \in AllThreads /\ AllControl
  BY WhoIsWho DEF StopTypes
<1>2. UNCHANGED <<gameCleanupDone, task, subject, players, jobQueue, serverState>>
  OBVIOUS
<1>3. (\A s \in Sessions : recvIo'[s] > 0 => Expected(s)) /\ (IsShuttingDown => IsShuttingDown')
  <2>1. \A s \in Sessions : recvIo'[s] > 0 => recvIo[s] > 0
    BY DEF StopTypes, KernelTypes
  <2>2. QED
    BY <1>2, <2>1 DEF Receivers, IsShuttingDown
<1>4. PICK l \in {"rx_flag", "tx_count", "td_state", "exited"} :
        \/ Goto(w, l) /\ l # "rx_flag"
        \/ \E s \in Sessions : Start(w, l, s) /\ (l = "rx_flag" => recvIo[s] > 0)
  OBVIOUS
<1>5. /\ pc' = [pc EXCEPT ![w] = l] /\ pc'[w] = l /\ l \in AllLabels
      /\ \A u \in AllThreads : u # w => cur'[u] = cur[u] /\ ret'[u] = ret[u]
      /\ l = "rx_flag" => cur'[w] \in Sessions /\ recvIo[cur'[w]] > 0
  BY <1>1, <1>4 DEF Goto, Start, AllControl, AllLabels, Labels, ReceiveLabels, DestroyLabels
<1>6. Receiving(w)' => Expected(cur'[w])
  <2>1. Receiving(w)' => l = "rx_flag"
    BY <1>5 DEF Receiving, ReceiveLabels, PostRecvLabels, SendLabels, CloseLabels
  <2>2. QED
    BY <1>5, <2>1 DEF Receivers
<1>7. QED
  BY <1>2, <1>3, <1>5, <1>6 DEF Brings

\* A handler receives nothing; its job is no packet.
LEMMA HandlerBrings ==
  ASSUME StopTypes, Receivers, NEW h \in Handlers,
         \/ StopRunning(h) \/ CloseListen(h) \/ ShutdownClaim(h)
         \/ BroadcastBegin(h) \/ BroadcastNext(h) \/ BroadcastClose(h) \/ BroadcastEnd(h)
         \/ EnqueueShutdownJob(h) \/ PostExits(h) \/ WaitForWorkers(h)
  PROVE  Brings(h)
<1> USE DEF StopRunning, CloseListen, ShutdownClaim, BroadcastBegin, BroadcastNext, BroadcastClose,
        BroadcastEnd, EnqueueShutdownJob, PostExits, WaitForWorkers
<1>1. h \in AllThreads /\ AllControl /\ h \notin Workers \cup {AcceptThread}
  BY WhoIsWho, ShutdownAssumption DEF StopTypes, Threads
<1>2. UNCHANGED <<gameCleanupDone, task, subject, players, recvIo>>
  OBVIOUS
<1>3. (\A s \in Sessions : recvIo'[s] > 0 => Expected(s)) /\ (IsShuttingDown => IsShuttingDown')
  BY <1>2 DEF Receivers, IsShuttingDown
<1>4. PICK l \in {"ps_state", "rc_claim"} \cup HandlerLabels :
        \/ Goto(h, l) \/ (\E s : Start(h, l, s)) \/ (l = "rc_claim" /\ \E k : CallRequestClose(h, k))
        \/ (l = "h_job" /\ BroadcastEnd(h))
  BY DEF HandlerLabels
<1>5. /\ pc' = [pc EXCEPT ![h] = l] /\ l \in AllLabels
      /\ \A u \in AllThreads : u # h => cur'[u] = cur[u] /\ ret'[u] = ret[u]
  BY <1>1, <1>4 DEF Goto, Start, CallRequestClose, AllControl, AllLabels, Labels, SendLabels, CloseLabels
<1>6. jobQueue' = jobQueue \/ jobQueue' = Append(jobQueue, ShutdownJob)
  OBVIOUS
<1>7. ShutdownJob.type # "Packet"
  BY DEF ShutdownJob
<1>8. QED
  BY <1>1, <1>2, <1>3, <1>5, <1>6, <1>7 DEF Brings

\* Of the functions that the threads share, the game thread sends and closes.
LEMMA GameThreadShares ==
  ASSUME Duty, RunningStep(GameThread)
  PROVE  \/ PostSendCheck(GameThread) \/ PostSendCount(GameThread) \/ PostSendCall(GameThread)
         \/ PostSendUncount(GameThread) \/ StopSendCheck(GameThread) \/ RequestClose(GameThread)
<1>1. pc[GameThread] \in {"g_loop", "gm_mark", "gm_post", "sp_state", "ps_state", "ps_count", "ps_call",
                         "ps_uncount", "rc_claim", "rc_close", "rc_closed", "rc_job", "idle", "exited"}
  BY DEF Duty, GameLabels, SendLabels, CloseLabels
<1>2. QED
  BY <1>1 DEF RunningStep, UnchangedStep, PostRecv, PostRecvCheck, PostRecvClaim, PostRecvCount,
       PostRecvCall, PostRecvRelease, PostRecvUncount, RecvCompleteFlag, RecvCompleteCount,
       RecvCompleteCheck, ParseDone, ParseFail, Kick, StopParsePacket, ParsePacket, PacketJobCheck,
       PacketJobPush, OnSendComplete, DestroyCheckState, DestroyCheckCleanup, DestroyCheckIO,
       TryBeginDestroy, DeleteSession, LockedRemoveSession, RemoveSession

\* The game thread within its sends and closes leaves its duty to do.
LEMMA GameThreadOnDuty ==
  ASSUME StopTypes, Duty, RunningStep(GameThread)
  PROVE  Duty'
<1> DEFINE g == GameThread
<1>1. g \in AllThreads /\ AllControl /\ AfterSend(g) = "g_loop"
  BY WhoIsWho DEF StopTypes, AfterSend
<1>2. UNCHANGED <<gameCleanupDone, task, subject>>
  BY GameThreadShares DEF PostSendCheck, PostSendCount, PostSendCall, PostSendUncount, StopSendCheck,
       SendPacketCheck, RequestClose, RequestCloseClaim, CloseSocket, CloseDone, EnqueueDisconnectJob
<1>3. \/ \E l \in {"g_loop", "ps_state", "ps_count", "ps_call", "ps_uncount"} : Goto(g, l)
      \/ CallRequestClose(g, "g_loop")
      \/ pc[g] \in CloseLabels /\ \E l \in Past : Goto(g, l)
      \/ pc[g] \in CloseLabels /\ ReturnFromClose(g)
  BY <1>1, GameThreadShares DEF PostSendCheck, PostSendCount, PostSendCall, PostSendUncount, StopSendCheck,
       SendPacketCheck, RequestClose, RequestCloseClaim, CloseSocket, CloseDone, EnqueueDisconnectJob,
       CloseLabels, Past
<1>4. CASE \E l \in {"g_loop", "ps_state", "ps_count", "ps_call", "ps_uncount"} : Goto(g, l)
  <2>1. pc'[g] \in {"g_loop", "ps_state", "ps_count", "ps_call", "ps_uncount"}
    BY <1>1, <1>4 DEF Goto, AllControl
  <2>2. QED
    BY <2>1 DEF Duty, GameLabels, SendLabels, CloseLabels
<1>5. CASE CallRequestClose(g, "g_loop")
  <2>1. pc'[g] = "rc_claim" /\ ret'[g] = "g_loop"
    BY <1>1, <1>5 DEF CallRequestClose, AllControl
  <2>2. QED
    BY <2>1 DEF Duty, CloseLabels
<1>6. ASSUME pc[g] \in CloseLabels, NEW l \in Past, Goto(g, l)
      PROVE  Duty'
  <2>1. pc'[g] = l /\ ret'[g] = ret[g]
    BY <1>1, <1>6 DEF Goto, AllControl
  <2>2. QED
    BY <1>2, <1>6, <2>1 DEF Duty, Past, CloseLabels
<1>7. CASE pc[g] \in CloseLabels /\ ReturnFromClose(g)
  <2>1. pc'[g] = ret[g] /\ ret[g] \in {"idle", "g_loop"}
    BY <1>1, <1>7 DEF ReturnFromClose, AllControl, Duty
  <2>2. QED
    BY <1>2, <1>7, <2>1 DEF Duty, GameLabels, CloseLabels
<1>8. QED
  BY <1>3, <1>4, <1>5, <1>6, <1>7

\* While the game thread works on jobs, the others receive what was announced.
LEMMA OthersReceive ==
  ASSUME Receivers, UNCHANGED <<recvIo, serverState>>, Announced \subseteq Announced',
         \A u \in AllThreads : u # GameThread =>
           pc'[u] = pc[u] /\ cur'[u] = cur[u] /\ ret'[u] = ret[u]
  PROVE  Receivers'
<1>1. \A s : Expected(s) => Expected(s)'
  BY DEF Expected, IsShuttingDown
<1>2. ASSUME NEW t \in Workers \cup {AcceptThread}
      PROVE  /\ Receiving(t)' => (Expected(cur[t]))'
             /\ pc'[t] = "rx_queue" => cur'[t] \in Announced'
  <2>1. pc'[t] = pc[t] /\ cur'[t] = cur[t] /\ ret'[t] = ret[t]
    BY WhoIsWho
  <2>2. Receiving(t)' => Receiving(t)
    BY <2>1 DEF Receiving
  <2>3. QED
    BY <1>1, <2>1, <2>2 DEF Receivers, Expected
<1>3. QED
  BY <1>1, <1>2 DEF Receivers

\* What the game thread does about a job: a session once disconnected stays so.
LEMMA GameFinding ==
  ASSUME StopTypes, Finding, GameStep, UNCHANGED serverState
  PROVE  Finding'
<1> DEFINE g == GameThread
<1> USE DEF GameStep, GameSend, GameHandled, GameReject, GameDisconnected, MarkGameCleanupDone,
        PostCleanup
<1>1. g \in AllThreads /\ AllControl /\ Duty /\ Receivers /\ PacketsInOrder
  BY WhoIsWho DEF StopTypes, Finding
<1>2. UNCHANGED <<jobQueue, players, recvIo, serverState>>
  OBVIOUS
<1>3. \A u \in AllThreads : u # g => pc'[u] = pc[u] /\ cur'[u] = cur[u] /\ ret'[u] = ret[u]
  <2>1. CASE GameReject
    BY <1>1, <2>1 DEF AllControl
  <2>2. CASE ~GameReject
    <3>1. PICK l : Goto(g, l) \/ \E s : Start(g, l, s)
      BY <2>2
    <3>2. QED
      BY <1>1, <3>1 DEF Goto, Start, AllControl
  <2>3. QED
    BY <2>1, <2>2
<1>4. ASSUME NEW s \in Sessions, Disconnected(s)
      PROVE  Disconnected(s)'
  <2>1. CASE MarkGameCleanupDone
    BY <1>4, <2>1 DEF Disconnected, StopTypes, ObjectTypes
  <2>2. CASE PostCleanup
    BY <1>1, <1>4, <2>2 DEF Disconnected, Duty
  <2>3. CASE GameSend \/ GameHandled \/ GameReject \/ GameDisconnected
    BY <1>4, <2>3 DEF Disconnected
  <2>4. QED
    BY <2>1, <2>2, <2>3
<1>5. Announced \subseteq Announced' /\ PacketsInOrder'
  <2>1. Announced \subseteq Announced'
    BY <1>2, <1>4 DEF Announced, IsJob
  <2>2. PacketsInOrder'
    BY <1>1, <1>2, <1>4 DEF PacketsInOrder, IsJob
  <2>3. QED
    BY <2>1, <2>2
<1>6. Receivers'
  BY <1>1, <1>2, <1>3, <1>5, OthersReceive
<1>7. Duty'
  <2>1. CASE GameSend \/ GameDisconnected
    <3>1. pc'[g] \in {"sp_state", "gm_mark"}
      BY <1>1, <2>1 DEF Start, AllControl
    <3>2. QED
      BY <3>1 DEF Duty, GameLabels, SendLabels, CloseLabels
  <2>2. CASE GameHandled \/ PostCleanup
    <3>1. pc'[g] = "idle" /\ task' = "none"
      BY <1>1, <2>2 DEF Goto, AllControl
    <3>2. QED
      BY <3>1 DEF Duty, CloseLabels
  <2>3. CASE GameReject
    <3>1. pc'[g] = "rc_claim" /\ task' = "none" /\ ret'[g] = "idle"
      BY <1>1, <2>3 DEF AllControl
    <3>2. QED
      BY <3>1 DEF Duty, CloseLabels
  <2>4. CASE MarkGameCleanupDone
    <3>1. pc'[g] = "gm_post" /\ subject' = subject /\ subject \in Sessions
      BY <1>1, <2>4 DEF Goto, AllControl, StopTypes, StopGameTypes
    <3>2. gameCleanupDone'[subject']
      BY <2>4, <3>1 DEF StopTypes, ObjectTypes
    <3>3. QED
      BY <3>1, <3>2 DEF Duty, GameLabels, CloseLabels
  <2>5. QED
    BY <2>1, <2>2, <2>3, <2>4
<1>8. QED
  BY <1>5, <1>6, <1>7 DEF Finding

\* A job that is taken: the rest of the queue moves up.
LEMMA TakenJob ==
  ASSUME StopTypes, NEW type, NextJob(type)
  PROVE  /\ Len(jobQueue) \in Nat /\ 1 \in 1 .. Len(jobQueue) /\ jobQueue[1] = Head(jobQueue)
         /\ \A s : IsJob(1, type, s) <=> Head(jobQueue).session = s
         /\ \A k, s : IsJob(1, k, s) => k = type
         /\ \A i \in 1 .. Len(jobQueue') : i + 1 \in 1 .. Len(jobQueue)
              /\ \A k, s : IsJob(i, k, s)' <=> IsJob(i + 1, k, s)
         /\ \A i \in 1 .. Len(jobQueue) : i # 1 => i - 1 \in 1 .. Len(jobQueue')
              /\ \A k, s : IsJob(i - 1, k, s)' <=> IsJob(i, k, s)
<1> DEFINE J == Jobs \cup {ShutdownJob}
<1>1. jobQueue \in Seq(J) /\ jobQueue # <<>> /\ jobQueue' = Tail(jobQueue) /\ Head(jobQueue).type = type
  BY DEF StopTypes, StopGameTypes, NextJob
<1> HIDE DEF J
<1>2. /\ Len(jobQueue) \in Nat /\ Len(jobQueue) >= 1 /\ Len(jobQueue') = Len(jobQueue) - 1
      /\ \A i \in 1 .. Len(jobQueue') : jobQueue'[i] = jobQueue[i + 1]
      /\ Head(jobQueue) = jobQueue[1]
  BY <1>1, HeadTailProperties, LenProperties, EmptySeq
<1>3. ASSUME NEW i \in 1 .. Len(jobQueue')
      PROVE  i + 1 \in 1 .. Len(jobQueue) /\ \A k, s : IsJob(i, k, s)' <=> IsJob(i + 1, k, s)
  BY <1>2 DEF IsJob
<1>4. ASSUME NEW i \in 1 .. Len(jobQueue), i # 1
      PROVE  i - 1 \in 1 .. Len(jobQueue') /\ \A k, s : IsJob(i - 1, k, s)' <=> IsJob(i, k, s)
  <2>1. i - 1 \in 1 .. Len(jobQueue') /\ (i - 1) + 1 = i
    BY <1>2, <1>4
  <2>2. jobQueue'[i - 1] = jobQueue[i]
    BY <1>2, <2>1
  <2>3. QED
    BY <2>1, <2>2 DEF IsJob
<1>5. QED
  BY <1>1, <1>2, <1>3, <1>4 DEF IsJob

\* The game learns of a session from its Connect job; a packet behind it finds
\* the Player.
LEMMA PopFinding ==
  ASSUME StopTypes, Finding, GamePop \/ PopShutdown, UNCHANGED serverState
  PROVE  Finding'
<1> DEFINE g == GameThread
           Met(s) == s \in players \/ Disconnected(s)
<1>1. g \in AllThreads /\ AllControl /\ Duty /\ Receivers /\ PacketsInOrder
  BY WhoIsWho DEF StopTypes, Finding
<1>2. PICK type : NextJob(type) /\ (type = "Connect" => PopConnect)
  BY DEF GamePop, PopConnect, PopPacket, PopDisconnect, PopShutdown, NextJob
<1>3. pc[g] = "idle" /\ task = "none"
  BY <1>1, <1>2 DEF NextJob, Duty
<1>4. UNCHANGED <<gameCleanupDone, recvIo, serverState>>
  BY DEF GamePop, PopConnect, PopPacket, PopDisconnect, PopShutdown
<1>5. \/ UNCHANGED <<pc, cur, ret, task>>
      \/ \E l \in {"g_loop", "exited"} : Goto(g, l)
  BY DEF GamePop, PopConnect, PopPacket, PopDisconnect, PopShutdown
<1>6. \A u \in AllThreads : u # g => pc'[u] = pc[u] /\ cur'[u] = cur[u] /\ ret'[u] = ret[u]
  BY <1>1, <1>5 DEF Goto, AllControl
<1>7. Duty'
  <2>1. CASE UNCHANGED <<pc, cur, ret, task>>
    BY <1>3, <2>1 DEF Duty, CloseLabels
  <2>2. CASE \E l \in {"g_loop", "exited"} : Goto(g, l)
    <3>1. pc'[g] \in {"g_loop", "exited"}
      BY <1>1, <2>2 DEF Goto, AllControl
    <3>2. QED
      BY <3>1 DEF Duty, GameLabels, CloseLabels
  <2>3. QED
    BY <1>5, <2>1, <2>2
<1>8. ASSUME NEW s \in Sessions, Met(s)
      PROVE  Met(s)'
  <2>1. CASE PopDisconnect
    BY <1>3, <1>4, <1>8, <2>1 DEF PopDisconnect, Disconnected
  <2>2. CASE PopConnect \/ PopPacket \/ PopShutdown
    BY <1>3, <1>4, <1>8, <2>2 DEF PopConnect, PopPacket, PopShutdown, Disconnected
  <2>3. QED
    BY <2>1, <2>2 DEF GamePop
<1>9. ASSUME NEW s \in Sessions, IsJob(1, "Connect", s)
      PROVE  Met(s)'
  <2>1. type = "Connect" /\ Head(jobQueue).session = s
    BY <1>2, <1>9, TakenJob DEF StopTypes
  <2>2. QED
    BY <1>2, <2>1 DEF PopConnect
<1>10. Announced \subseteq Announced'
  <2>1. ASSUME NEW s \in Sessions, NEW i \in 1 .. Len(jobQueue), IsJob(i, "Connect", s)
        PROVE  s \in Announced'
    <3>1. CASE i = 1
      BY <1>9, <2>1, <3>1 DEF Announced
    <3>2. CASE i # 1
      <4>1. i - 1 \in 1 .. Len(jobQueue') /\ IsJob(i - 1, "Connect", s)'
        BY <1>2, <2>1, <3>2, TakenJob
      <4>2. PICK j \in 1 .. Len(jobQueue') : IsJob(j, "Connect", s)'
        BY <4>1
      <4>3. QED
        BY <4>2 DEF Announced
    <3>3. QED
      BY <3>1, <3>2
  <2>2. QED
    BY <1>8, <2>1 DEF Announced
<1>11. Receivers'
  BY <1>1, <1>4, <1>6, <1>10, OthersReceive
<1>12. PacketsInOrder'
  <2>1. ASSUME NEW i \in 1 .. Len(jobQueue'), NEW s \in Sessions, IsJob(i, "Packet", s)', ~Met(s)'
        PROVE  \E j \in 1 .. Len(jobQueue') : j < i /\ IsJob(j, "Connect", s)'
    <3>1. i + 1 \in 1 .. Len(jobQueue) /\ IsJob(i + 1, "Packet", s)
      BY <1>2, <2>1, TakenJob
    <3>2. ~Met(s)
      BY <1>8, <2>1
    <3>3. PICK j \in 1 .. Len(jobQueue) : j < i + 1 /\ IsJob(j, "Connect", s)
      BY <1>1, <3>1, <3>2 DEF PacketsInOrder
    <3>4. j # 1
      BY <1>9, <2>1, <3>3
    <3>5. j - 1 \in 1 .. Len(jobQueue') /\ IsJob(j - 1, "Connect", s)'
      BY <1>2, <3>3, <3>4, TakenJob
    <3>6. j - 1 < i
      BY <1>2, <3>3, TakenJob
    <3>7. QED
      BY <3>5, <3>6
  <2>2. QED
    BY <2>1 DEF PacketsInOrder
<1>13. QED
  BY <1>7, <1>11, <1>12 DEF Finding

\* Every step keeps the packets behind what announces their session.
LEMMA FindingStep == RInv /\ Finding /\ [StopNext]_allVars => Finding'
<1> SUFFICES ASSUME RInv, Finding, [StopNext]_allVars
             PROVE  Finding'
  OBVIOUS
<1>1. StopTypes /\ AllControl /\ Duty /\ Receivers /\ PacketsInOrder
  BY DEF RInv, StopTypes, Finding
<1>2. CASE UNCHANGED allVars \/ AllStopped
  <2>1. UNCHANGED <<vars, stopVars>>
    BY <1>2 DEF AllStopped, allVars
  <2>2. UNCHANGED <<objVars, kernelVars, gameVars, threadVars, serverState>>
    BY <2>1 DEF vars
  <2>3. QED
    BY <2>2 DEF Finding, Duty, Receivers, Receiving, Expected, IsShuttingDown, Announced,
                PacketsInOrder, IsJob, Disconnected
<1>3. ASSUME NEW t \in AllThreads, t # GameThread, Brings(t)
      PROVE  Finding'
  BY <1>1, <1>3, BringsKeeps, DutyKept DEF Finding
<1>4. ASSUME NEW t \in Workers \cup {AcceptThread}, RunningStep(t)
      PROVE  Finding'
  <2>1. t \in AllThreads /\ t # GameThread
    BY WhoIsWho
  <2>2. Brings(t)
    BY <1>1, <1>4, <2>1, PostRecvBrings, PostSendBrings, RequestCloseBrings, ReceiveBrings,
       PacketCheckBrings, PacketPushBrings, DestroyBrings DEF RunningStep, UnchangedStep
  <2>3. QED
    BY <1>3, <2>1, <2>2
<1>5. CASE RunningStep(GameThread)
  <2>1. Brings(GameThread)
    BY <1>1, <1>5, GameThreadShares, WhoIsWho, PostSendBrings, RequestCloseBrings DEF RunningStep
  <2>2. QED
    BY <1>1, <1>5, <2>1, WhoIsWho, BringsKeeps, GameThreadOnDuty DEF Finding
<1>6. CASE (AcceptStep \/ \E s \in Sessions : AcceptSession(s)) /\ UNCHANGED serverState
  BY <1>1, <1>3, <1>6, WhoIsWho, AcceptBrings
<1>7. CASE GameSteps \/ PopShutdown
  BY <1>1, <1>7, PopFinding, GameFinding DEF GameSteps, PopShutdown
<1>8. ASSUME NEW h \in Handlers, HandlerStep(h) \/ StopRunning(h)
      PROVE  Finding'
  <2>1. h \in AllThreads /\ h # GameThread
    BY WhoIsWho
  <2>2. Brings(h)
    BY <1>1, <1>8, <2>1, PostSendBrings, RequestCloseBrings, HandlerBrings DEF HandlerStep
  <2>3. QED
    BY <1>3, <2>1, <2>2
<1>9. ASSUME NEW w \in Workers, UNCHANGED serverState,
             \/ \E s \in Sessions : TakeRecv(w, s) \/ TakeSend(w, s) \/ TakeCleanup(w, s)
             \/ WorkerExit(w)
      PROVE  Finding'
  BY <1>1, <1>3, <1>9, WhoIsWho, TakeBrings
<1>10. CASE ServerStep
  <2>1. CASE OthersStep
    <3>1. AcceptStep => UNCHANGED serverState
      BY DEF AcceptStep, AcceptLoop, AcceptFail, AddSession, ConnectJobCheck, ConnectJobPush
    <3>2. QED
      BY <1>4, <1>5, <1>6, <1>7, <1>8, <2>1, <3>1 DEF OthersStep
  <2>2. CASE \E w \in Workers : RunningStep(w)
    BY <1>4, <2>2
  <2>3. CASE \E s \in Sessions : AcceptSession(s)
    BY <1>6, <2>3 DEF AcceptSession
  <2>4. CASE Exits
    BY <1>9, <2>4 DEF Exits, WorkerExit
  <2>5. QED
    BY <1>8, <1>9, <1>10, <2>1, <2>2, <2>3, <2>4 DEF ServerStep
<1>11. QED
  BY <1>2, <1>10 DEF StopNext

\* At the start nobody receives, and no job is queued.
LEMMA FindingInit == StopInit => Finding
<1> SUFFICES ASSUME StopInit
             PROVE  Finding
  OBVIOUS
<1>1. (\A t \in AllThreads : pc[t] = "idle") /\ Len(jobQueue) = 0 /\ task = "none"
  BY DEF StopInit, InitShared, InitThreads
<1>2. Workers \cup {AcceptThread, GameThread} \subseteq AllThreads
  BY WhoIsWho
<1>3. Duty
  BY <1>1, <1>2 DEF Duty, CloseLabels
<1>4. \A t \in Workers \cup {AcceptThread} : ~Receiving(t) /\ pc[t] # "rx_queue"
  BY <1>1, <1>2 DEF Receiving, ReceiveLabels, PostRecvLabels, SendLabels, CloseLabels
<1>5. \A s \in Sessions : recvIo[s] = 0
  BY DEF StopInit, InitShared
<1>6. Receivers
  BY <1>4, <1>5 DEF Receivers
<1>7. PacketsInOrder
  BY <1>1 DEF PacketsInOrder
<1>8. QED
  BY <1>3, <1>6, <1>7 DEF Finding

\* A packet that the game thread takes finds the Player, or its session is
\* disconnected: one whose Connect job was dropped gets no packet through.
THEOREM PacketsFindTheirPlayer == StopSpec => []PacketsFindPlayer
<1>1. ASSUME RInv, Finding, jobQueue # <<>>, Head(jobQueue).type = "Packet"
      PROVE  Head(jobQueue).session \in players \/ Disconnected(Head(jobQueue).session)
  <2> DEFINE J == Jobs \cup {ShutdownJob}
             s == Head(jobQueue).session
  <2>1. jobQueue \in Seq(J)
    BY <1>1 DEF RInv, StopTypes, StopGameTypes
  <2>2. ShutdownJob.type # "Packet" /\ \A job \in Jobs : job.session \in Sessions
    BY DEF ShutdownJob, Jobs
  <2>3. J \ {ShutdownJob} \subseteq Jobs
    OBVIOUS
  <2> HIDE DEF J
  <2>4. 1 \in 1 .. Len(jobQueue) /\ Head(jobQueue) = jobQueue[1] /\ Head(jobQueue) \in J
    BY <1>1, <2>1, HeadTailProperties, LenProperties, EmptySeq
  <2>5. s \in Sessions /\ IsJob(1, "Packet", s)
    BY <1>1, <2>2, <2>3, <2>4 DEF IsJob
  <2>6. \A j \in 1 .. Len(jobQueue) : ~(j < 1)
    OBVIOUS
  <2>7. QED
    BY <1>1, <2>4, <2>5, <2>6 DEF Finding, PacketsInOrder
<1>2. RInv /\ Finding => PacketsFindPlayer
  BY <1>1 DEF PacketsFindPlayer
<1>3. StopSpec => []Finding
  BY FindingInit, FindingStep, RInvInvariant, PTL DEF StopSpec
<1>4. QED
  BY <1>2, <1>3, RInvInvariant, PTL

=============================================================================
