--------------------------- MODULE SessionProofs ---------------------------
(***************************************************************************)
(* Proofs about Session, for any number of sessions and workers and any    *)
(* bounds: the type invariant, the meaning of the pendingIO counter, and   *)
(* that the kernel never holds a buffer of a deleted session.              *)
(*                                                                         *)
(* KernelSafe is not inductive.  It rests on three facts: pendingIO counts *)
(* the kernel's I/O exactly (PendingIOCounts), so a worker that read 0     *)
(* knows there is none; the game thread's cleanup comes after the socket's *)
(* close, so none can start any more (ClosedBefore); and what is being     *)
(* worked on was once created (Born), so a close is never undone.          *)
(***************************************************************************)
EXTENDS Session, Integers, FiniteSetTheorems, SequenceTheorems, TLAPS

-----------------------------------------------------------------------------
(* The inductive invariant.                                                *)

\* Whoever works, works on a session.
Control ==
  /\ pc \in [Threads -> Labels]
  /\ cur \in [Threads -> Sessions \cup {NoSession}]
  /\ ret \in [Threads -> ReturnLabels]
  /\ \A t \in Threads : ~Forgets(pc[t]) => cur[t] \in Sessions

ObjectTypes ==
  /\ mem \in [Sessions -> {"unborn", "live", "freed"}]
  /\ state \in [Sessions -> ObjectStates]
  /\ gameCleanupDone \in [Sessions -> BOOLEAN]
  /\ pendingIO \in [Sessions -> Int]
  /\ destroying \in [Sessions -> BOOLEAN]
  /\ recvPosted \in [Sessions -> BOOLEAN]
  /\ closeIssued \in [Sessions -> BOOLEAN]
  /\ sockOpen \in [Sessions -> BOOLEAN]
  /\ m_sessions \in SUBSET Sessions

KernelTypes ==
  /\ recvIo \in [Sessions -> Nat]
  /\ sendIo \in [Sessions -> 0 .. MaxSends]
  /\ cleanupMsgs \in [Sessions -> Nat]
  /\ packets \in [Sessions -> Nat]

GameTypes ==
  /\ jobQueue \in Seq(Jobs)
  /\ players \in SUBSET Sessions
  /\ inRoom \in SUBSET players
  /\ task \in Tasks
  /\ subject \in Sessions \cup {NoSession}
  /\ task # "none" => subject \in Sessions
  /\ todo \in SUBSET Sessions

\* The game thread marks the cleanup of a disconnect only.
Marking == pc[GameThread] \in {"gm_mark", "gm_post"} => task = "disconnect"

TypeInv == Control /\ ObjectTypes /\ KernelTypes /\ GameTypes /\ Marking

\* Sessions that are worked on, queued or known to the game were created.
Born ==
  /\ \A t \in Threads : ~Forgets(pc[t]) => mem[cur[t]] # "unborn"
  /\ \A i \in 1 .. Len(jobQueue) : mem[jobQueue[i].session] # "unborn"
  /\ \A s \in players : mem[s] # "unborn"
  /\ \A s \in todo : mem[s] # "unborn"
  /\ task # "none" => mem[subject] # "unborn"
  /\ \A s \in Sessions : cleanupMsgs[s] > 0 => mem[s] # "unborn"
  /\ \A s \in Sessions : mem[s] = "unborn" => ~sockOpen[s]

\* The socket of s was closed, for good.
Shut(s) == mem[s] # "unborn" /\ ~sockOpen[s]

ClaimLabels == {"td_claim", "td_remove", "td_delete"}
ShutLabels  == {"rc_closed", "rc_job", "td_count"} \cup ClaimLabels

\* Past these points a session's socket is closed.
ClosedBefore ==
  /\ \A t \in Threads : pc[t] \in ShutLabels => Shut(cur[t])
  /\ \A s \in Sessions :
       closeIssued[s] \/ gameCleanupDone[s] \/ mem[s] = "freed" => Shut(s)
  /\ \A i \in 1 .. Len(jobQueue) :
       jobQueue[i].type = "Disconnect" => Shut(jobQueue[i].session)
  /\ task = "disconnect" => Shut(subject)

\* A worker about to delete a session knows that the kernel holds nothing.
NothingHeld ==
  /\ \A t \in Threads :
       pc[t] \in ClaimLabels => recvIo[cur[t]] = 0 /\ sendIo[cur[t]] = 0
  /\ \A s \in Sessions :
       mem[s] # "live" => recvIo[s] = 0 /\ sendIo[s] = 0

IInv == TypeInv /\ PendingIOCounts /\ Born /\ ClosedBefore /\ NothingHeld

-----------------------------------------------------------------------------
(* The threads' control.                                                   *)

\* Thread t moves to label l, working on c; the others stay.
Moves(t, l, c) ==
  /\ pc' = [pc EXCEPT ![t] = l]
  /\ cur' = [cur EXCEPT ![t] = c]

Keeps(t, l) == IF Forgets(l) THEN NoSession ELSE cur[t]

\* Goto moves one thread, which then still works on a session, or on none.
LEMMA GotoMoves ==
  ASSUME Control, NEW t \in Threads, NEW l \in Labels, ~Forgets(pc[t]), Goto(t, l)
  PROVE  Control' /\ Moves(t, l, Keeps(t, l))
BY DEF Control, Goto, Moves, Keeps, Forgets

\* So does Start, for the thread that takes up a session.
LEMMA StartMoves ==
  ASSUME Control, NEW t \in Threads, NEW l \in Labels, NEW s \in Sessions,
         Start(t, l, s)
  PROVE  Control' /\ Moves(t, l, s)
BY DEF Control, Start, Moves, Forgets

\* And the call of RequestClose,
LEMMA CloseMoves ==
  ASSUME Control, NEW t \in Threads, NEW l \in ReturnLabels, ~Forgets(pc[t]),
         CallRequestClose(t, l)
  PROVE  Control' /\ Moves(t, "rc_claim", cur[t])
BY DEF Control, CallRequestClose, Moves, Forgets, Labels, CloseLabels

\* and the return from it.
LEMMA ReturnMoves ==
  ASSUME Control, NEW t \in Threads, ~Forgets(pc[t]), ReturnFromClose(t)
  PROVE  /\ Control' /\ Moves(t, ret[t], Keeps(t, ret[t]))
         /\ ret[t] \in ReturnLabels
<1>1. ret[t] \in Labels /\ ret[t] \in ReturnLabels /\ "idle" \in ReturnLabels
  BY DEF Control, ReturnLabels, Labels, GameLabels, ReceiveLabels, DestroyLabels
<1>2. QED
  BY <1>1 DEF Control, ReturnFromClose, Moves, Keeps, Forgets

-----------------------------------------------------------------------------
(* Types.                                                                  *)

USE DEF objVars, kernelVars, gameVars, threadVars, butState, butPendingIO,
        butRecvPosted

\* The types hold initially.
LEMMA InitTypes == Init => TypeInv
<1>1. SUFFICES ASSUME Init PROVE TypeInv
  OBVIOUS
<1>2. Control /\ Marking
  BY <1>1, SessionAssumption
  DEF Init, InitShared, InitThreads, Control, Marking, Forgets, Threads, Labels, ReturnLabels
<1>3. ObjectTypes /\ KernelTypes /\ GameTypes
  BY <1>1, SessionAssumption
  DEF Init, InitShared, InitThreads, ObjectTypes, KernelTypes, GameTypes, ObjectStates, Tasks
<1>4. QED
  BY <1>2, <1>3 DEF TypeInv

\* A move that is not to one of the labels of the marking keeps Marking.
LEMMA MarkingKept ==
  ASSUME Control, Marking, NEW t \in Threads, NEW l \in Labels \ {"gm_mark", "gm_post"},
         NEW c, Moves(t, l, c), task' = task
  PROVE  Marking'
BY SessionAssumption DEF Control, Marking, Moves, Threads

\* A pushed job leaves the queue a sequence of jobs.
LEMMA PushTypes ==
  ASSUME GameTypes, NEW type \in JobTypes, NEW s \in Sessions, Push(type, s)
  PROVE  jobQueue' \in Seq(Jobs)
BY DEF GameTypes, Push, Jobs

\* A step of a thread within the functions it runs: no job, no kernel queue.
LEMMA PlainTypes ==
  ASSUME TypeInv, UNCHANGED <<kernelVars, gameVars>>
  PROVE  KernelTypes' /\ GameTypes'
BY DEF TypeInv, KernelTypes, GameTypes

\* The labels the steps of a thread go to.
LEMMA LabelsOK ==
  /\ \A t \in Threads : AfterSend(t) \in ReturnLabels /\ AfterRecv(t) \in ReturnLabels
  /\ AfterSendComplete \in ReturnLabels
  /\ ReturnLabels \subseteq Labels \ {"gm_mark", "gm_post"}
BY DEF AfterSend, AfterRecv, AfterSendComplete, Labels, ReturnLabels, GameLabels,
       ReceiveLabels, DestroyLabels

\* The steps of PostRecv keep the types.
LEMMA PostRecvTypes ==
  ASSUME TypeInv, NEW t \in Threads, PostRecv(t)
  PROVE  TypeInv'
<1> USE LabelsOK DEF TypeInv
<1> DEFINE L == {"pr_claim", "pr_count", "pr_call", "pr_release", "pr_uncount"}
<1>1. L \subseteq Labels \ {"gm_mark", "gm_post"} /\ "rc_claim" \in Labels
  BY DEF Labels, PostRecvLabels, CloseLabels
<1>2. ~Forgets(pc[t])
  BY DEF PostRecv, PostRecvCheck, PostRecvClaim, PostRecvCount, PostRecvCall,
         PostRecvRelease, PostRecvUncount, Forgets
<1>3. cur[t] \in Sessions
  BY <1>2 DEF Control
<1>4. CASE PostRecvCheck(t)
  BY <1>1, <1>2, <1>4, GotoMoves, MarkingKept, PlainTypes DEF PostRecvCheck, ObjectTypes
<1>5. CASE PostRecvClaim(t)
  BY <1>1, <1>2, <1>3, <1>5, GotoMoves, MarkingKept, PlainTypes DEF PostRecvClaim, ObjectTypes
<1>6. CASE PostRecvCount(t)
  BY <1>1, <1>2, <1>3, <1>6, GotoMoves, MarkingKept, PlainTypes
  DEF PostRecvCount, ObjectTypes, CountIO
<1>7. CASE PostRecvCall(t)
  <2>1. KernelTypes'
    BY <1>3, <1>7 DEF PostRecvCall, KernelTypes
  <2>2. ObjectTypes' /\ GameTypes'
    BY <1>7 DEF PostRecvCall, ObjectTypes, GameTypes
  <2>3. Control' /\ Marking'
    BY <1>1, <1>2, <1>7, GotoMoves, MarkingKept DEF PostRecvCall
  <2>4. QED
    BY <2>1, <2>2, <2>3
<1>8. CASE PostRecvRelease(t)
  BY <1>1, <1>2, <1>3, <1>8, GotoMoves, MarkingKept, PlainTypes DEF PostRecvRelease, ObjectTypes
<1>9. CASE PostRecvUncount(t)
  BY <1>1, <1>2, <1>3, <1>9, CloseMoves, MarkingKept, PlainTypes
  DEF PostRecvUncount, ObjectTypes, UncountIO
<1>10. QED
  BY <1>4, <1>5, <1>6, <1>7, <1>8, <1>9 DEF PostRecv

\* The steps of SendPacket and PostSend keep the types.
LEMMA SendPacketTypes ==
  ASSUME TypeInv, NEW t \in Threads, SendPacket(t)
  PROVE  TypeInv'
<1> USE LabelsOK DEF TypeInv
<1> DEFINE L == {"ps_state", "ps_count", "ps_call", "ps_uncount"}
<1>1. L \subseteq Labels \ {"gm_mark", "gm_post"} /\ "rc_claim" \in Labels
  BY DEF Labels, SendLabels, CloseLabels
<1>2. ~Forgets(pc[t])
  BY DEF SendPacket, SendPacketCheck, PostSendCheck, PostSendCount, PostSendCall,
         PostSendUncount, Forgets
<1>3. cur[t] \in Sessions
  BY <1>2 DEF Control
<1>4. CASE SendPacketCheck(t)
  BY <1>1, <1>2, <1>4, GotoMoves, MarkingKept, PlainTypes DEF SendPacketCheck, ObjectTypes
<1>5. CASE PostSendCheck(t)
  BY <1>1, <1>2, <1>5, GotoMoves, MarkingKept, PlainTypes DEF PostSendCheck, ObjectTypes
<1>6. CASE PostSendCount(t)
  BY <1>1, <1>2, <1>3, <1>6, GotoMoves, MarkingKept, PlainTypes
  DEF PostSendCount, ObjectTypes, CountIO
<1>7. CASE PostSendCall(t)
  <2>1. KernelTypes'
    BY <1>3, <1>7, SessionAssumption DEF PostSendCall, KernelTypes
  <2>2. ObjectTypes' /\ GameTypes'
    BY <1>7 DEF PostSendCall, ObjectTypes, GameTypes
  <2>3. Control' /\ Marking'
    BY <1>1, <1>2, <1>7, GotoMoves, MarkingKept DEF PostSendCall
  <2>4. QED
    BY <2>1, <2>2, <2>3
<1>8. CASE PostSendUncount(t)
  BY <1>1, <1>2, <1>3, <1>8, CloseMoves, MarkingKept, PlainTypes
  DEF PostSendUncount, ObjectTypes, UncountIO
<1>9. QED
  BY <1>4, <1>5, <1>6, <1>7, <1>8 DEF SendPacket

\* The steps of RequestClose and Close keep the types.
LEMMA RequestCloseTypes ==
  ASSUME TypeInv, NEW t \in Threads, RequestClose(t)
  PROVE  TypeInv'
<1> USE LabelsOK DEF TypeInv
<1> DEFINE L == {"rc_close", "rc_closed", "rc_job"}
<1>1. L \subseteq Labels \ {"gm_mark", "gm_post"}
  BY DEF Labels, CloseLabels
<1>2. ~Forgets(pc[t])
  BY DEF RequestClose, RequestCloseClaim, CloseSocket, CloseDone,
         EnqueueDisconnectJob, Forgets
<1>3. cur[t] \in Sessions
  BY <1>2 DEF Control
<1>4. CASE RequestCloseClaim(t)
  <2>1. ObjectTypes' /\ KernelTypes' /\ GameTypes'
    BY <1>3, <1>4, PlainTypes DEF RequestCloseClaim, ObjectTypes, ObjectStates
  <2>2. Control' /\ Marking'
    BY <1>1, <1>2, <1>4, GotoMoves, ReturnMoves, MarkingKept DEF RequestCloseClaim
  <2>3. QED
    BY <2>1, <2>2
<1>5. CASE CloseSocket(t)
  <2>1. ObjectTypes' /\ KernelTypes' /\ GameTypes'
    BY <1>3, <1>5, PlainTypes DEF CloseSocket, ObjectTypes
  <2>2. Control' /\ Marking'
    BY <1>1, <1>2, <1>5, GotoMoves, MarkingKept DEF CloseSocket
  <2>3. QED
    BY <2>1, <2>2
<1>6. CASE CloseDone(t)
  BY <1>1, <1>2, <1>3, <1>6, GotoMoves, MarkingKept, PlainTypes
  DEF CloseDone, ObjectTypes, ObjectStates
<1>7. CASE EnqueueDisconnectJob(t)
  <2>1. jobQueue' \in Seq(Jobs)
    BY <1>3, <1>7, PushTypes DEF EnqueueDisconnectJob, JobTypes
  <2>2. ObjectTypes' /\ KernelTypes' /\ GameTypes'
    BY <2>1, <1>7 DEF EnqueueDisconnectJob, ObjectTypes, KernelTypes, GameTypes
  <2>3. Control' /\ Marking'
    BY <1>2, <1>7, ReturnMoves, MarkingKept DEF EnqueueDisconnectJob
  <2>4. QED
    BY <2>2, <2>3
<1>8. QED
  BY <1>4, <1>5, <1>6, <1>7 DEF RequestClose

\* The steps of OnRecvComplete and ProcessPacket keep the types.
LEMMA ReceiveTypes ==
  ASSUME TypeInv, NEW t \in Threads, OnRecvComplete(t)
  PROVE  TypeInv'
<1> USE LabelsOK DEF TypeInv
<1> DEFINE L == {"rx_count", "rx_state", "rx_parse", "rx_push", "pr_state",
                 "sp_state", "td_state", "rc_claim"}
<1>1. L \subseteq Labels \ {"gm_mark", "gm_post"}
  BY DEF Labels, ReceiveLabels, PostRecvLabels, SendLabels, CloseLabels, DestroyLabels
<1>2. ~Forgets(pc[t])
  BY DEF OnRecvComplete, RecvCompleteFlag, RecvCompleteCount, RecvCompleteCheck,
         ParseDone, ParseFail, ParsePacket, EnqueuePacketJob, Kick, Forgets
<1>3. cur[t] \in Sessions /\ {"td_state", "rx_parse"} \subseteq ReturnLabels
  BY <1>2 DEF Control, ReturnLabels
<1>4. CASE RecvCompleteFlag(t)
  BY <1>1, <1>2, <1>3, <1>4, GotoMoves, MarkingKept, PlainTypes
  DEF RecvCompleteFlag, ObjectTypes
<1>5. CASE RecvCompleteCount(t)
  <2>1. ObjectTypes' /\ KernelTypes' /\ GameTypes'
    BY <1>3, <1>5, PlainTypes DEF RecvCompleteCount, ObjectTypes, UncountIO
  <2>2. Control' /\ Marking'
    BY <1>1, <1>2, <1>3, <1>5, GotoMoves, CloseMoves, MarkingKept DEF RecvCompleteCount
  <2>3. QED
    BY <2>1, <2>2
<1>6. CASE RecvCompleteCheck(t)
  BY <1>1, <1>2, <1>6, GotoMoves, MarkingKept, PlainTypes DEF RecvCompleteCheck, ObjectTypes
<1>7. CASE ParseDone(t)
  BY <1>1, <1>2, <1>7, GotoMoves, MarkingKept, PlainTypes DEF ParseDone, ObjectTypes
<1>8. CASE ParseFail(t)
  BY <1>1, <1>2, <1>3, <1>8, CloseMoves, MarkingKept, PlainTypes DEF ParseFail, ObjectTypes
<1>9. CASE ParsePacket(t)
  <2>1. KernelTypes'
    BY <1>3, <1>9 DEF ParsePacket, KernelTypes
  <2>2. ObjectTypes' /\ GameTypes'
    BY <1>9 DEF ParsePacket, ObjectTypes, GameTypes
  <2>3. Control' /\ Marking'
    BY <1>1, <1>2, <1>9, GotoMoves, MarkingKept DEF ParsePacket
  <2>4. QED
    BY <2>1, <2>2, <2>3
<1>10. CASE EnqueuePacketJob(t)
  <2>1. jobQueue' \in Seq(Jobs)
    BY <1>3, <1>10, PushTypes DEF EnqueuePacketJob, JobTypes
  <2>2. ObjectTypes' /\ KernelTypes' /\ GameTypes'
    BY <2>1, <1>10 DEF EnqueuePacketJob, ObjectTypes, KernelTypes, GameTypes
  <2>3. Control' /\ Marking'
    BY <1>1, <1>2, <1>10, GotoMoves, MarkingKept DEF EnqueuePacketJob
  <2>4. QED
    BY <2>2, <2>3
<1>11. CASE Kick(t)
  BY <1>1, <1>2, <1>3, <1>11, CloseMoves, MarkingKept, PlainTypes DEF Kick, ObjectTypes
<1>12. QED
  BY <1>4, <1>5, <1>6, <1>7, <1>8, <1>9, <1>10, <1>11 DEF OnRecvComplete

\* The steps of TryDestroySession keep the types.
LEMMA DestroyTypes ==
  ASSUME TypeInv, NEW t \in Threads, TryDestroySession(t) \/ OnSendComplete(t)
  PROVE  TypeInv'
<1> USE LabelsOK DEF TypeInv
<1> DEFINE L == {"idle", "td_clean", "td_count", "td_claim", "td_remove",
                 "td_delete", "rc_claim"}
<1>1. L \subseteq Labels \ {"gm_mark", "gm_post"}
  BY DEF Labels, DestroyLabels, CloseLabels
<1>2. ~Forgets(pc[t])
  BY DEF TryDestroySession, DestroyCheckState, DestroyCheckCleanup, DestroyCheckIO,
         TryBeginDestroy, RemoveSession, DeleteSession, OnSendComplete, Forgets
<1>3. cur[t] \in Sessions
  BY <1>2 DEF Control
<1>4. CASE DestroyCheckState(t)
  BY <1>1, <1>2, <1>4, GotoMoves, MarkingKept, PlainTypes DEF DestroyCheckState, ObjectTypes
<1>5. CASE DestroyCheckCleanup(t)
  BY <1>1, <1>2, <1>5, GotoMoves, MarkingKept, PlainTypes DEF DestroyCheckCleanup, ObjectTypes
<1>6. CASE DestroyCheckIO(t)
  BY <1>1, <1>2, <1>6, GotoMoves, MarkingKept, PlainTypes DEF DestroyCheckIO, ObjectTypes
<1>7. CASE TryBeginDestroy(t)
  BY <1>1, <1>2, <1>3, <1>7, GotoMoves, MarkingKept, PlainTypes DEF TryBeginDestroy, ObjectTypes
<1>8. CASE RemoveSession(t)
  BY <1>1, <1>2, <1>3, <1>8, GotoMoves, MarkingKept, PlainTypes DEF RemoveSession, ObjectTypes
<1>9. CASE DeleteSession(t)
  BY <1>1, <1>2, <1>3, <1>9, GotoMoves, MarkingKept, PlainTypes DEF DeleteSession, ObjectTypes
<1>10. CASE OnSendComplete(t)
  <2>1. ObjectTypes' /\ KernelTypes' /\ GameTypes'
    BY <1>3, <1>10, PlainTypes DEF OnSendComplete, ObjectTypes, UncountIO
  <2>2. Control' /\ Marking'
    BY <1>1, <1>2, <1>10, GotoMoves, CloseMoves, MarkingKept DEF OnSendComplete
  <2>3. QED
    BY <2>1, <2>2
<1>11. QED
  BY <1>4, <1>5, <1>6, <1>7, <1>8, <1>9, <1>10 DEF TryDestroySession

\* What starts a thread's work, an accept or a completion, keeps the types.
LEMMA ArrivalTypes ==
  ASSUME TypeInv,
         \/ \E s \in Sessions : AcceptClient(s)
         \/ \E w \in Workers, s \in Sessions :
              TakeRecv(w, s) \/ TakeSend(w, s) \/ TakeCleanup(w, s)
         \/ \E t \in Threads : EnqueueConnectJob(t)
  PROVE  TypeInv'
<1> USE DEF TypeInv
<1> DEFINE L == {"ac_job", "rx_flag", "tx_count", "td_state", "pr_state"}
<1>1. L \subseteq Labels \ {"gm_mark", "gm_post"}
  BY DEF Labels, AcceptLabels, ReceiveLabels, DestroyLabels, PostRecvLabels
<1>2. AcceptThread \in Threads /\ Workers \subseteq Threads
  BY DEF Threads
<1>3. ASSUME NEW s \in Sessions, AcceptClient(s) PROVE TypeInv'
  <2>1. ObjectTypes' /\ KernelTypes' /\ GameTypes'
    BY <1>3, PlainTypes DEF AcceptClient, ObjectTypes
  <2>2. Control' /\ Marking'
    BY <1>1, <1>2, <1>3, StartMoves, MarkingKept DEF AcceptClient
  <2>3. QED
    BY <2>1, <2>2
<1>4. ASSUME NEW w \in Workers, NEW s \in Sessions,
             TakeRecv(w, s) \/ TakeSend(w, s) \/ TakeCleanup(w, s)
      PROVE  TypeInv'
  <2>1. KernelTypes'
    <3>1. CASE TakeRecv(w, s)
      BY <3>1 DEF TakeRecv, KernelTypes
    <3>2. CASE TakeSend(w, s)
      BY <3>2, SessionAssumption DEF TakeSend, KernelTypes
    <3>3. CASE TakeCleanup(w, s)
      BY <3>3 DEF TakeCleanup, KernelTypes
    <3>4. QED
      BY <1>4, <3>1, <3>2, <3>3
  <2>2. ObjectTypes' /\ GameTypes'
    BY <1>4 DEF TakeRecv, TakeSend, TakeCleanup, ObjectTypes, GameTypes
  <2>3. Control' /\ Marking'
    BY <1>1, <1>2, <1>4, StartMoves, MarkingKept DEF TakeRecv, TakeSend, TakeCleanup
  <2>4. QED
    BY <2>1, <2>2, <2>3
<1>5. ASSUME NEW t \in Threads, EnqueueConnectJob(t) PROVE TypeInv'
  <2>1. ~Forgets(pc[t]) /\ cur[t] \in Sessions
    BY <1>5 DEF EnqueueConnectJob, Control, Forgets
  <2>2. jobQueue' \in Seq(Jobs)
    BY <2>1, <1>5, PushTypes DEF EnqueueConnectJob, JobTypes
  <2>3. ObjectTypes' /\ KernelTypes' /\ GameTypes'
    BY <2>2, <1>5 DEF EnqueueConnectJob, ObjectTypes, KernelTypes, GameTypes
  <2>4. Control' /\ Marking'
    BY <1>1, <2>1, <1>5, GotoMoves, MarkingKept DEF EnqueueConnectJob
  <2>5. QED
    BY <2>3, <2>4
<1>6. QED
  BY <1>3, <1>4, <1>5

\* The job the game thread takes is a job, and the rest a sequence of jobs.
LEMMA HeadTypes ==
  ASSUME GameTypes, jobQueue # <<>>
  PROVE  /\ Head(jobQueue) \in Jobs
         /\ Head(jobQueue).session \in Sessions
         /\ Tail(jobQueue) \in Seq(Jobs)
         /\ Len(Tail(jobQueue)) = Len(jobQueue) - 1
         /\ \A i \in 1 .. Len(Tail(jobQueue)) : Tail(jobQueue)[i] = jobQueue[i + 1]
<1>1. jobQueue \in Seq(Jobs)
  BY DEF GameTypes
<1>2. Head(jobQueue) \in Jobs
  BY <1>1, HeadTailProperties
<1>3. QED
  BY <1>1, <1>2, HeadTailProperties DEF Jobs

\* Every queued job is about a session.
LEMMA QueuedTypes ==
  ASSUME GameTypes, NEW i \in 1 .. Len(jobQueue)
  PROVE  jobQueue[i] \in Jobs /\ jobQueue[i].session \in Sessions
<1>1. jobQueue[i] \in Jobs
  BY ElementOfSeq DEF GameTypes
<1>2. QED
  BY <1>1 DEF Jobs

\* The steps of the game thread keep the types.
LEMMA GameTypesStep ==
  ASSUME TypeInv, GamePop \/ GameStep
  PROVE  TypeInv'
<1> USE DEF TypeInv
<1> DEFINE G == GameThread
<1>1. {"idle", "g_loop", "gm_mark", "gm_post", "sp_state", "rc_claim"} \subseteq Labels
  BY DEF Labels, GameLabels, SendLabels, CloseLabels
<1>2. G \in Threads /\ "idle" \in ReturnLabels
  BY DEF Threads, ReturnLabels
<1>3. CASE PopConnect
  <2>1. GameTypes'
    BY <1>3, HeadTypes DEF PopConnect, NextJob, GameTypes
  <2>2. QED
    BY <1>3, <2>1 DEF PopConnect, Control, ObjectTypes, KernelTypes, Marking
<1>4. CASE PopPacket
  <2>1. Head(jobQueue).session \in Sessions /\ Tail(jobQueue) \in Seq(Jobs)
    BY <1>4, HeadTypes DEF PopPacket, NextJob
  <2>2. GameTypes'
    BY <1>4, <2>1 DEF PopPacket, NextJob, GameTypes, Tasks
  <2>3. ObjectTypes' /\ KernelTypes'
    BY <1>4 DEF PopPacket, ObjectTypes, KernelTypes
  <2>4. Control' /\ Marking'
    BY <1>1, <1>2, <1>4 DEF PopPacket, NextJob, Goto, Control, Marking, Forgets
  <2>5. QED
    BY <2>2, <2>3, <2>4
<1>5. CASE PopDisconnect
  <2>1. Head(jobQueue).session \in Sessions /\ Tail(jobQueue) \in Seq(Jobs)
    BY <1>5, HeadTypes DEF PopDisconnect, NextJob
  <2>2. GameTypes'
    BY <1>5, <2>1 DEF PopDisconnect, NextJob, GameTypes, Tasks
  <2>3. ObjectTypes' /\ KernelTypes'
    BY <1>5 DEF PopDisconnect, ObjectTypes, KernelTypes
  <2>4. Control' /\ Marking'
    BY <1>1, <1>2, <1>5 DEF PopDisconnect, NextJob, Goto, Control, Marking, Forgets
  <2>5. QED
    BY <2>2, <2>3, <2>4
<1>6. CASE GameSend
  <2>1. ObjectTypes' /\ KernelTypes' /\ GameTypes'
    BY <1>6 DEF GameSend, ObjectTypes, KernelTypes, GameTypes
  <2>2. Control' /\ Marking'
    BY <1>1, <1>2, <1>6 DEF GameSend, Start, Control, Marking, Forgets, GameTypes
  <2>3. QED
    BY <2>1, <2>2
<1>7. CASE GameHandled
  <2>1. ObjectTypes' /\ KernelTypes' /\ GameTypes'
    BY <1>7 DEF GameHandled, ObjectTypes, KernelTypes, GameTypes, Tasks
  <2>2. Control' /\ Marking'
    BY <1>1, <1>2, <1>7 DEF GameHandled, Goto, Control, Marking, Forgets
  <2>3. QED
    BY <2>1, <2>2
<1>8. CASE GameReject
  <2>1. ObjectTypes' /\ KernelTypes' /\ GameTypes'
    BY <1>8 DEF GameReject, ObjectTypes, KernelTypes, GameTypes, Tasks
  <2>2. Control' /\ Marking'
    BY <1>1, <1>2, <1>8 DEF GameReject, Control, Marking, Forgets, GameTypes
  <2>3. QED
    BY <2>1, <2>2
<1>9. CASE GameDisconnected
  <2>1. ObjectTypes' /\ KernelTypes' /\ GameTypes'
    BY <1>9 DEF GameDisconnected, ObjectTypes, KernelTypes, GameTypes
  <2>2. Control' /\ Marking'
    BY <1>1, <1>2, <1>9 DEF GameDisconnected, Start, Control, Marking, Forgets, GameTypes
  <2>3. QED
    BY <2>1, <2>2
<1>10. CASE MarkGameCleanupDone
  <2>1. ObjectTypes' /\ KernelTypes' /\ GameTypes'
    BY <1>10 DEF MarkGameCleanupDone, ObjectTypes, KernelTypes, GameTypes
  <2>2. Control' /\ Marking'
    BY <1>1, <1>2, <1>10 DEF MarkGameCleanupDone, Goto, Control, Marking, Forgets
  <2>3. QED
    BY <2>1, <2>2
<1>11. CASE PostCleanup
  <2>1. subject \in Sessions
    BY <1>11 DEF PostCleanup, Marking, GameTypes
  <2>2. ObjectTypes' /\ KernelTypes' /\ GameTypes'
    <3>1. ObjectTypes'
      BY <1>11 DEF PostCleanup, ObjectTypes
    <3>2. KernelTypes'
      BY <2>1, <1>11 DEF PostCleanup, KernelTypes
    <3>3. GameTypes'
      BY <1>11 DEF PostCleanup, GameTypes, Tasks
    <3>4. QED
      BY <3>1, <3>2, <3>3
  <2>3. Control' /\ Marking'
    BY <1>1, <1>2, <1>11 DEF PostCleanup, Goto, Control, Marking, Forgets
  <2>4. QED
    BY <2>2, <2>3
<1>12. QED
  BY <1>3, <1>4, <1>5, <1>6, <1>7, <1>8, <1>9, <1>10, <1>11 DEF GamePop, GameStep

\* Every step keeps the types.
LEMMA TypesStep == TypeInv /\ [Next]_vars => TypeInv'
<1> SUFFICES ASSUME TypeInv, [Next]_vars PROVE TypeInv'
  OBVIOUS
<1>1. CASE UNCHANGED vars
  BY <1>1 DEF vars, TypeInv, Control, ObjectTypes, KernelTypes, GameTypes, Marking
<1>2. CASE AllServed
  BY <1>2 DEF AllServed, vars, TypeInv, Control, ObjectTypes, KernelTypes, GameTypes,
              Marking
<1>3. CASE \E t \in Threads : ThreadStep(t)
  BY <1>3, PostRecvTypes, SendPacketTypes, RequestCloseTypes, ReceiveTypes,
     DestroyTypes, ArrivalTypes DEF ThreadStep
<1>4. QED
  BY <1>1, <1>2, <1>3, ArrivalTypes, GameTypesStep DEF Next

-----------------------------------------------------------------------------
(* pendingIO counts the I/O of the kernel and of the threads.              *)

\* There are finitely many threads, so those that count an I/O can be counted.
LEMMA ThreadsFinite == IsFiniteSet(Threads)
<1>1. IsFiniteSet(Workers \cup {GameThread})
  BY SessionAssumption, FS_AddElement
<1>2. IsFiniteSet((Workers \cup {GameThread}) \cup {AcceptThread})
  BY <1>1, FS_AddElement
<1>3. Threads = (Workers \cup {GameThread}) \cup {AcceptThread}
  BY DEF Threads
<1>4. QED
  BY <1>2, <1>3

One(p) == IF p THEN 1 ELSE 0

\* When one thread moves, the number of counting threads changes by that one.
LEMMA CountingChange ==
  ASSUME Control, NEW t \in Threads, NEW l, NEW c, Moves(t, l, c), NEW s \in Sessions
  PROVE  /\ Cardinality(Counting(s)) \in Nat
         /\ Cardinality(Counting(s))' \in Nat
         /\ Cardinality(Counting(s))' - One(c = s /\ l \in CountedLabels)
              = Cardinality(Counting(s)) - One(Counted(t, s))
<1> DEFINE A == Counting(s)
           B == {u \in Threads : cur'[u] = s /\ pc'[u] \in CountedLabels}
<1>1. IsFiniteSet(A) /\ IsFiniteSet(B)
  BY ThreadsFinite, FS_Subset DEF Counting
<1>2. B = Counting(s)'
  BY DEF Counting, Counted
<1>3. A \ {t} = B \ {t}
  BY DEF Counting, Counted, Moves, Control
<1>4. t \in A <=> Counted(t, s)
  BY DEF Counting
<1>5. t \in B <=> c = s /\ l \in CountedLabels
  BY DEF Moves, Control
<1>6. Cardinality(A) \in Nat /\ Cardinality(B) \in Nat
  BY <1>1, FS_CardinalityType
<1>7. /\ Cardinality(A \ {t}) = IF t \in A THEN Cardinality(A) - 1 ELSE Cardinality(A)
      /\ Cardinality(B \ {t}) = IF t \in B THEN Cardinality(B) - 1 ELSE Cardinality(B)
  BY <1>1, FS_RemoveElement
<1>8. Cardinality(B) - One(t \in B) = Cardinality(A) - One(t \in A)
  <2> HIDE DEF A, B
  <2>1. QED
    BY <1>3, <1>6, <1>7 DEF One
<1>9. One(t \in A) = One(Counted(t, s)) /\ One(t \in B) = One(c = s /\ l \in CountedLabels)
  BY <1>4, <1>5 DEF One
<1>10. Cardinality(Counting(s))' = Cardinality(B)
  BY <1>2
<1>11. QED
  BY <1>6, <1>8, <1>9, <1>10

\* The invariant is kept by a step whose thread balances the counter.
LEMMA BalancedCounts ==
  ASSUME TypeInv, TypeInv', PendingIOCounts,
         NEW t \in Threads, NEW l, NEW c, Moves(t, l, c),
         \A s \in Sessions :
           (pendingIO'[s] - recvIo'[s]) - sendIo'[s] - One(c = s /\ l \in CountedLabels)
             = (pendingIO[s] - recvIo[s]) - sendIo[s] - One(Counted(t, s))
  PROVE  PendingIOCounts'
<1>1. SUFFICES ASSUME NEW s \in Sessions
               PROVE  pendingIO'[s] = recvIo'[s] + sendIo'[s] + Cardinality(Counting(s))'
  BY DEF PendingIOCounts
<1>2. /\ Cardinality(Counting(s)) \in Nat
      /\ Cardinality(Counting(s))' \in Nat
      /\ Cardinality(Counting(s))' - One(c = s /\ l \in CountedLabels)
           = Cardinality(Counting(s)) - One(Counted(t, s))
  BY CountingChange DEF TypeInv
<1>3. pendingIO[s] = recvIo[s] + sendIo[s] + Cardinality(Counting(s))
  BY DEF PendingIOCounts
<1>4. /\ pendingIO[s] \in Int /\ recvIo[s] \in Int /\ sendIo[s] \in Int
      /\ pendingIO'[s] \in Int /\ recvIo'[s] \in Int /\ sendIo'[s] \in Int
  BY SessionAssumption DEF TypeInv, ObjectTypes, KernelTypes
<1>5. One(c = s /\ l \in CountedLabels) \in Int /\ One(Counted(t, s)) \in Int
  BY DEF One
<1>6. QED
  BY <1>2, <1>3, <1>4, <1>5

\* In particular by one that has nothing to do with I/O.
LEMMA QuietCounts ==
  ASSUME TypeInv, TypeInv', PendingIOCounts,
         NEW t \in Threads, NEW l \in Labels \ CountedLabels, NEW c, Moves(t, l, c),
         pc[t] \notin CountedLabels, UNCHANGED <<pendingIO, recvIo, sendIo>>
  PROVE  PendingIOCounts'
<1>1. \A s \in Sessions : One(c = s /\ l \in CountedLabels) = One(Counted(t, s))
  BY DEF One, Counted
<1>2. QED
  BY <1>1, BalancedCounts

-----------------------------------------------------------------------------
(* The rest of the invariant.                                              *)

\* A step of one thread keeps it, if the thread brings along what its new
\* label says of its session, and no closed session's I/O comes back.
LEMMA MoveKeeps ==
  ASSUME TypeInv, Born, ClosedBefore, NothingHeld,
         NEW t \in Threads, NEW l \in Labels, NEW c, Moves(t, l, c),
         UNCHANGED <<mem, sockOpen, gameCleanupDone, closeIssued, gameVars>>,
         \A s \in Sessions : cleanupMsgs'[s] > 0 => mem[s] # "unborn",
         \A s \in Sessions :
           ~sockOpen[s] /\ recvIo[s] = 0 /\ sendIo[s] = 0
             => recvIo'[s] = 0 /\ sendIo'[s] = 0,
         ~Forgets(l) => c \in Sessions /\ mem[c] # "unborn",
         l \in ShutLabels => Shut(c),
         l \in ClaimLabels => recvIo'[c] = 0 /\ sendIo'[c] = 0
  PROVE  Born' /\ ClosedBefore' /\ NothingHeld'
<1>1. \A u \in Threads : u # t => pc'[u] = pc[u] /\ cur'[u] = cur[u]
  BY DEF Moves, TypeInv, Control
<1>2. pc'[t] = l /\ cur'[t] = c
  BY DEF Moves, TypeInv, Control
<1>3. Born'
  BY <1>1, <1>2 DEF Born
<1>4. ClosedBefore'
  BY <1>1, <1>2 DEF ClosedBefore, Shut
<1>5. \A u \in Threads : pc[u] \in ClaimLabels => cur[u] \in Sessions /\ ~sockOpen[cur[u]]
  BY DEF TypeInv, Control, Forgets, ClosedBefore, ClaimLabels, ShutLabels, Shut
<1>6. \A s \in Sessions : mem[s] # "live" => ~sockOpen[s]
  BY DEF TypeInv, ObjectTypes, Born, ClosedBefore, Shut
<1>7. NothingHeld'
  <2>1. ASSUME NEW u \in Threads, pc'[u] \in ClaimLabels
        PROVE  recvIo'[cur'[u]] = 0 /\ sendIo'[cur'[u]] = 0
    BY <1>1, <1>2, <1>5, <2>1 DEF NothingHeld
  <2>2. ASSUME NEW s \in Sessions, mem'[s] # "live"
        PROVE  recvIo'[s] = 0 /\ sendIo'[s] = 0
    BY <1>6, <2>2 DEF NothingHeld
  <2>3. QED
    BY <2>1, <2>2 DEF NothingHeld
<1>8. QED
  BY <1>3, <1>4, <1>7

\* In particular a step that leaves the kernel and the game alone.
LEMMA PlainKeeps ==
  ASSUME TypeInv, Born, ClosedBefore, NothingHeld,
         NEW t \in Threads, NEW l \in Labels, NEW c, Moves(t, l, c),
         UNCHANGED <<mem, sockOpen, gameCleanupDone, closeIssued, recvIo, sendIo,
                     cleanupMsgs, gameVars>>,
         ~Forgets(l) => c \in Sessions /\ mem[c] # "unborn",
         l \in ShutLabels => Shut(c),
         l \in ClaimLabels => recvIo[c] = 0 /\ sendIo[c] = 0
  PROVE  Born' /\ ClosedBefore' /\ NothingHeld'
<1>1. \A s \in Sessions : cleanupMsgs'[s] > 0 => mem[s] # "unborn"
  BY DEF Born
<1>2. QED
  BY <1>1, MoveKeeps

\* The labels that say nothing of their session but that it was created.
FreeLabels == Labels \ (ShutLabels \cup CountedLabels)

\* A step to such a label, with no I/O.
LEMMA FreeKeeps ==
  ASSUME IInv, TypeInv', NEW t \in Threads, NEW l \in FreeLabels, NEW c, Moves(t, l, c),
         UNCHANGED <<mem, sockOpen, gameCleanupDone, closeIssued, recvIo, sendIo,
                     cleanupMsgs, gameVars>>,
         ~Forgets(l) => c \in Sessions /\ mem[c] # "unborn"
  PROVE  /\ Born' /\ ClosedBefore' /\ NothingHeld'
         /\ pc[t] \notin CountedLabels /\ pendingIO' = pendingIO => PendingIOCounts'
<1>1. l \in Labels \ CountedLabels /\ l \notin ShutLabels /\ l \notin ClaimLabels
  BY DEF FreeLabels, ShutLabels
<1>2. Born' /\ ClosedBefore' /\ NothingHeld'
  BY <1>1, PlainKeeps DEF IInv
<1>3. QED
  BY <1>1, <1>2, QuietCounts DEF IInv

\* The labels at which a thread neither counts an I/O nor relies on a close.
LEMMA FreeLabelsOK ==
  /\ ReturnLabels \subseteq FreeLabels
  /\ {"ac_job", "rx_state", "rx_parse", "rx_push", "kick", "pr_state", "pr_claim",
      "pr_count", "sp_state", "ps_state", "ps_count", "rc_claim", "rc_close",
      "td_state", "td_clean", "g_loop", "idle"} \subseteq FreeLabels
BY DEF FreeLabels, ReturnLabels, Labels, AcceptLabels, ReceiveLabels, PostRecvLabels,
       SendLabels, CloseLabels, DestroyLabels, GameLabels, ShutLabels, ClaimLabels,
       CountedLabels

\* From one counting label to the next, with the I/O still in hand.
LEMMA RefusedKeeps ==
  ASSUME IInv, TypeInv', NEW t \in Threads, pc[t] \in CountedLabels,
         NEW l \in Labels \cap CountedLabels, Moves(t, l, cur[t]),
         cur[t] \in Sessions, mem[cur[t]] # "unborn",
         UNCHANGED <<mem, sockOpen, gameCleanupDone, closeIssued, recvIo, sendIo,
                     cleanupMsgs, pendingIO, gameVars>>
  PROVE  IInv'
<1>1. l \notin ShutLabels /\ l \notin ClaimLabels
  BY DEF CountedLabels, ShutLabels, ClaimLabels
<1>2. Born' /\ ClosedBefore' /\ NothingHeld'
  BY <1>1, PlainKeeps DEF IInv
<1>3. PendingIOCounts'
  BY BalancedCounts DEF IInv, Counted, One
<1>4. QED
  BY <1>2, <1>3 DEF IInv

\* The I/O in hand is given up.
LEMMA UncountKeeps ==
  ASSUME IInv, TypeInv', NEW t \in Threads, pc[t] \in CountedLabels,
         NEW l \in FreeLabels, NEW c, Moves(t, l, c), cur[t] \in Sessions,
         ~Forgets(l) => c \in Sessions /\ mem[c] # "unborn",
         UncountIO(cur[t]),
         UNCHANGED <<mem, sockOpen, gameCleanupDone, closeIssued, recvIo, sendIo,
                     cleanupMsgs, gameVars>>
  PROVE  IInv'
<1>1. Born' /\ ClosedBefore' /\ NothingHeld'
  BY FreeKeeps
<1>2. l \notin CountedLabels
  BY DEF FreeLabels
<1>3. PendingIOCounts'
  BY <1>2, BalancedCounts
  DEF IInv, Counted, One, UncountIO, TypeInv, ObjectTypes, KernelTypes
<1>4. QED
  BY <1>1, <1>3 DEF IInv

\* The steps of PostRecv keep the invariant: a receive is counted before it is
\* posted, and given up again if it is refused.
LEMMA PostRecvKeeps ==
  ASSUME IInv, TypeInv', NEW t \in Threads, PostRecv(t)
  PROVE  IInv'
<1> USE FreeLabelsOK, LabelsOK DEF IInv
<1>1. ~Forgets(pc[t])
  BY DEF PostRecv, PostRecvCheck, PostRecvClaim, PostRecvCount, PostRecvCall,
         PostRecvRelease, PostRecvUncount, Forgets
<1>2. cur[t] \in Sessions /\ mem[cur[t]] # "unborn" /\ Control
  BY <1>1 DEF TypeInv, Control, Born
<1>3. CASE PostRecvCheck(t) \/ PostRecvClaim(t)
  BY <1>1, <1>2, <1>3, GotoMoves, FreeKeeps
  DEF PostRecvCheck, PostRecvClaim, CountedLabels, FreeLabels, Keeps
<1>4. CASE PostRecvCount(t)
  <2>1. "pr_call" \in Labels \ ShutLabels /\ "pr_call" \in CountedLabels
    BY DEF Labels, PostRecvLabels, ShutLabels, ClaimLabels, CountedLabels
  <2>2. Moves(t, "pr_call", cur[t])
    BY <1>1, <1>2, <1>4, <2>1, GotoMoves DEF PostRecvCount, Keeps, Forgets
  <2>3. Born' /\ ClosedBefore' /\ NothingHeld'
    BY <1>2, <1>4, <2>1, <2>2, PlainKeeps DEF PostRecvCount, ShutLabels
  <2>4. PendingIOCounts'
    BY <1>2, <1>4, <2>1, <2>2, BalancedCounts
    DEF PostRecvCount, CountIO, Counted, CountedLabels, One, TypeInv, ObjectTypes, KernelTypes
  <2>5. QED
    BY <2>3, <2>4
<1>5. CASE PostRecvCall(t)
  <2>1. CASE sockOpen[cur[t]] /\ recvIo' = [recvIo EXCEPT ![cur[t]] = @ + 1]
                /\ Goto(t, AfterRecv(t))
    <3> DEFINE l == AfterRecv(t)
    <3>1. Moves(t, l, Keeps(t, l)) /\ l \in FreeLabels
      BY <1>1, <1>2, <2>1, GotoMoves DEF FreeLabels
    <3>2. l \in Labels /\ l \notin CountedLabels /\ l \notin ShutLabels /\ l \notin ClaimLabels
      BY <3>1 DEF FreeLabels, ShutLabels
    <3> HIDE DEF l
    <3>3. UNCHANGED <<mem, sockOpen, gameCleanupDone, closeIssued, gameVars, sendIo,
                      cleanupMsgs, pendingIO>>
      BY <1>5 DEF PostRecvCall
    <3>4. Born' /\ ClosedBefore' /\ NothingHeld'
      <4>1. \A s \in Sessions : cleanupMsgs'[s] > 0 => mem[s] # "unborn"
        BY <3>3 DEF Born
      <4>2. \A s \in Sessions :
              ~sockOpen[s] /\ recvIo[s] = 0 /\ sendIo[s] = 0
                => recvIo'[s] = 0 /\ sendIo'[s] = 0
        BY <1>2, <2>1, <3>3 DEF TypeInv, KernelTypes
      <4>3. ~Forgets(l) => Keeps(t, l) \in Sessions /\ mem[Keeps(t, l)] # "unborn"
        BY <1>2 DEF Keeps
      <4>4. QED
        BY <3>1, <3>2, <3>3, <4>1, <4>2, <4>3, MoveKeeps
    <3>5. PendingIOCounts'
      BY <1>2, <1>5, <2>1, <3>1, <3>2, <3>3, BalancedCounts
      DEF PostRecvCall, Counted, CountedLabels, One, TypeInv, ObjectTypes, KernelTypes
    <3>6. QED
      BY <3>4, <3>5
  <2>2. CASE recvIo' = recvIo /\ Goto(t, "pr_release")
    BY <1>1, <1>2, <1>5, <2>2, RefusedKeeps, GotoMoves
    DEF PostRecvCall, Keeps, Forgets, CountedLabels, Labels, PostRecvLabels
  <2>3. QED
    BY <1>5, <2>1, <2>2 DEF PostRecvCall
<1>6. CASE PostRecvRelease(t)
  BY <1>1, <1>2, <1>6, RefusedKeeps, GotoMoves
  DEF PostRecvRelease, Keeps, Forgets, CountedLabels, Labels, PostRecvLabels
<1>7. CASE PostRecvUncount(t)
  BY <1>1, <1>2, <1>7, UncountKeeps, CloseMoves
  DEF PostRecvUncount, CountedLabels
<1>8. QED
  BY <1>3, <1>4, <1>5, <1>6, <1>7 DEF PostRecv

\* The steps of SendPacket keep the invariant, though a send may be counted
\* after the close: it is then refused.
LEMMA SendPacketKeeps ==
  ASSUME IInv, TypeInv', NEW t \in Threads, SendPacket(t)
  PROVE  IInv'
<1> USE FreeLabelsOK, LabelsOK DEF IInv
<1>1. ~Forgets(pc[t])
  BY DEF SendPacket, SendPacketCheck, PostSendCheck, PostSendCount, PostSendCall,
         PostSendUncount, Forgets
<1>2. cur[t] \in Sessions /\ mem[cur[t]] # "unborn" /\ Control
  BY <1>1 DEF TypeInv, Control, Born
<1>3. CASE SendPacketCheck(t) \/ PostSendCheck(t)
  BY <1>1, <1>2, <1>3, GotoMoves, FreeKeeps
  DEF SendPacketCheck, PostSendCheck, CountedLabels, FreeLabels, Keeps
<1>4. CASE PostSendCount(t)
  <2>1. "ps_call" \in Labels \ ShutLabels /\ "ps_call" \in CountedLabels
    BY DEF Labels, SendLabels, ShutLabels, ClaimLabels, CountedLabels
  <2>2. Moves(t, "ps_call", cur[t])
    BY <1>1, <1>2, <1>4, <2>1, GotoMoves DEF PostSendCount, Keeps, Forgets
  <2>3. Born' /\ ClosedBefore' /\ NothingHeld'
    BY <1>2, <1>4, <2>1, <2>2, PlainKeeps DEF PostSendCount, ShutLabels
  <2>4. PendingIOCounts'
    BY <1>2, <1>4, <2>1, <2>2, BalancedCounts
    DEF PostSendCount, CountIO, Counted, CountedLabels, One, TypeInv, ObjectTypes, KernelTypes
  <2>5. QED
    BY <2>3, <2>4
<1>5. CASE PostSendCall(t)
  <2>1. CASE sockOpen[cur[t]] /\ sendIo' = [sendIo EXCEPT ![cur[t]] = @ + 1]
                /\ Goto(t, AfterSend(t))
    <3> DEFINE l == AfterSend(t)
    <3>1. Moves(t, l, Keeps(t, l)) /\ l \in FreeLabels
      BY <1>1, <1>2, <2>1, GotoMoves DEF FreeLabels
    <3>2. l \in Labels /\ l \notin CountedLabels /\ l \notin ShutLabels /\ l \notin ClaimLabels
      BY <3>1 DEF FreeLabels, ShutLabels
    <3> HIDE DEF l
    <3>3. UNCHANGED <<mem, sockOpen, gameCleanupDone, closeIssued, gameVars, recvIo,
                      cleanupMsgs, pendingIO>>
      BY <1>5 DEF PostSendCall
    <3>4. Born' /\ ClosedBefore' /\ NothingHeld'
      <4>1. \A s \in Sessions : cleanupMsgs'[s] > 0 => mem[s] # "unborn"
        BY <3>3 DEF Born
      <4>2. \A s \in Sessions :
              ~sockOpen[s] /\ recvIo[s] = 0 /\ sendIo[s] = 0
                => recvIo'[s] = 0 /\ sendIo'[s] = 0
        BY <1>2, <2>1, <3>3 DEF TypeInv, KernelTypes
      <4>3. ~Forgets(l) => Keeps(t, l) \in Sessions /\ mem[Keeps(t, l)] # "unborn"
        BY <1>2 DEF Keeps
      <4>4. QED
        BY <3>1, <3>2, <3>3, <4>1, <4>2, <4>3, MoveKeeps
    <3>5. PendingIOCounts'
      BY <1>2, <1>5, <2>1, <3>1, <3>2, <3>3, SessionAssumption, BalancedCounts
      DEF PostSendCall, Counted, CountedLabels, One, TypeInv, ObjectTypes, KernelTypes
    <3>6. QED
      BY <3>4, <3>5
  <2>2. CASE sendIo' = sendIo /\ Goto(t, "ps_uncount")
    BY <1>1, <1>2, <1>5, <2>2, RefusedKeeps, GotoMoves
    DEF PostSendCall, Keeps, Forgets, CountedLabels, Labels, SendLabels
  <2>3. QED
    BY <1>5, <2>1, <2>2 DEF PostSendCall
<1>6. CASE PostSendUncount(t)
  BY <1>1, <1>2, <1>6, UncountKeeps, CloseMoves
  DEF PostSendUncount, CountedLabels
<1>7. QED
  BY <1>3, <1>4, <1>5, <1>6 DEF SendPacket

\* A job for a session that exists, closed if the job says so, can be queued.
LEMMA PushKeeps ==
  ASSUME IInv, TypeInv', NEW t \in Threads, NEW l \in FreeLabels, NEW c, Moves(t, l, c),
         ~Forgets(l) => c \in Sessions /\ mem[c] # "unborn",
         NEW type \in JobTypes, NEW s \in Sessions, Push(type, s),
         mem[s] # "unborn", type = "Disconnect" => Shut(s),
         pc[t] \notin CountedLabels,
         UNCHANGED <<objVars, kernelVars, players, inRoom, task, subject, todo>>
  PROVE  IInv'
<1> USE DEF IInv
<1>1. \A u \in Threads : u # t => pc'[u] = pc[u] /\ cur'[u] = cur[u]
  BY DEF Moves, TypeInv, Control
<1>2. pc'[t] = l /\ cur'[t] = c /\ l \notin ShutLabels /\ l \notin ClaimLabels
  BY DEF Moves, TypeInv, Control, FreeLabels, ShutLabels
<1>3. /\ Len(jobQueue') = Len(jobQueue) + 1 /\ Len(jobQueue) \in Nat
      /\ \A i \in 1 .. Len(jobQueue) : jobQueue'[i] = jobQueue[i]
      /\ jobQueue'[Len(jobQueue) + 1] = [type |-> type, session |-> s]
  BY DEF TypeInv, GameTypes, Push, Jobs
<1>4. \A i \in 1 .. Len(jobQueue') : i \in 1 .. Len(jobQueue) \/ i = Len(jobQueue) + 1
  BY <1>3
<1>5. Born'
  BY <1>1, <1>2, <1>3, <1>4 DEF Born
<1>6. ClosedBefore'
  BY <1>1, <1>2, <1>3, <1>4 DEF ClosedBefore, Shut
<1>7. NothingHeld'
  BY <1>1, <1>2 DEF NothingHeld
<1>8. PendingIOCounts'
  BY QuietCounts DEF FreeLabels
<1>9. QED
  BY <1>5, <1>6, <1>7, <1>8

\* The steps of RequestClose keep the invariant: the Disconnect job is queued
\* behind the close of the socket.
LEMMA RequestCloseKeeps ==
  ASSUME IInv, TypeInv', NEW t \in Threads, RequestClose(t)
  PROVE  IInv'
<1> USE FreeLabelsOK, LabelsOK DEF IInv
<1>1. ~Forgets(pc[t]) /\ pc[t] \notin CountedLabels
  BY DEF RequestClose, RequestCloseClaim, CloseSocket, CloseDone,
         EnqueueDisconnectJob, Forgets, CountedLabels
<1>2. cur[t] \in Sessions /\ mem[cur[t]] # "unborn" /\ Control
  BY <1>1 DEF TypeInv, Control, Born
<1>3. CASE RequestCloseClaim(t)
  BY <1>1, <1>2, <1>3, GotoMoves, ReturnMoves, FreeKeeps
  DEF RequestCloseClaim, FreeLabels, Keeps
<1>4. CASE CloseSocket(t)
  <2>1. PICK l \in {"rc_closed", "rc_job"} : Goto(t, l)
    BY <1>4 DEF CloseSocket
  <2>2. l \in Labels \ CountedLabels /\ l \in ShutLabels /\ l \notin ClaimLabels /\ ~Forgets(l)
    BY DEF Labels, CloseLabels, CountedLabels, ShutLabels, ClaimLabels, Forgets
  <2>3. Moves(t, l, cur[t])
    BY <1>1, <1>2, <2>1, <2>2, GotoMoves DEF Keeps
  <2>4. PendingIOCounts'
    BY <1>1, <1>4, <2>2, <2>3, QuietCounts DEF CloseSocket
  <2>5. \A u \in Threads : u # t => pc'[u] = pc[u] /\ cur'[u] = cur[u]
    BY <2>3 DEF Moves, TypeInv, Control
  <2>6. pc'[t] = l /\ cur'[t] = cur[t]
    BY <2>3 DEF Moves, TypeInv, Control
  <2>7. /\ UNCHANGED <<mem, gameCleanupDone, kernelVars, gameVars>>
        /\ \A s \in Sessions : s # cur[t] => UNCHANGED <<sockOpen[s], closeIssued[s]>>
        /\ ~sockOpen'[cur[t]]
    BY <1>2, <1>4 DEF CloseSocket, ClosedBefore, Shut, TypeInv, ObjectTypes
  <2>8. Born'
    BY <1>2, <2>2, <2>5, <2>6, <2>7 DEF Born
  <2>9. \A s : s \in Sessions /\ Shut(s) => Shut(s)'
    BY <1>2, <2>7 DEF Shut
  <2>10. Shut(cur[t])'
    BY <1>2, <2>6, <2>7 DEF Shut
  <2>11. ClosedBefore'
    <3>1. ASSUME NEW u \in Threads, pc'[u] \in ShutLabels PROVE Shut(cur[u])'
      <4>1. CASE u = t
        BY <2>10, <4>1
      <4>2. CASE u # t
        <5>1. Shut(cur[u]) /\ cur[u] \in Sessions
          BY <2>5, <3>1, <4>2
          DEF ClosedBefore, TypeInv, Control, Forgets, ShutLabels, ClaimLabels
        <5>2. QED
          BY <2>5, <2>9, <4>2, <5>1 DEF Shut
      <4>3. QED
        BY <4>1, <4>2
    <3>2. ASSUME NEW s \in Sessions,
                 closeIssued'[s] \/ gameCleanupDone'[s] \/ mem'[s] = "freed"
          PROVE  Shut(s)'
      <4>1. s = cur[t] \/ closeIssued[s] \/ gameCleanupDone[s] \/ mem[s] = "freed"
        BY <2>7, <3>2
      <4>2. QED
        BY <1>2, <2>7, <2>9, <4>1 DEF ClosedBefore, Shut
    <3>3. ASSUME NEW i \in 1 .. Len(jobQueue'), jobQueue'[i].type = "Disconnect"
          PROVE  Shut(jobQueue[i].session)'
      <4>1. jobQueue[i].session \in Sessions /\ Shut(jobQueue[i].session)
        BY <2>7, <3>3, QueuedTypes DEF ClosedBefore, TypeInv
      <4>2. QED
        BY <2>7, <2>9, <4>1 DEF Shut
    <3>4. task' = "disconnect" => Shut(subject)'
      BY <2>7, <2>9 DEF ClosedBefore, TypeInv, GameTypes, Shut
    <3>5. QED
      BY <3>1, <3>2, <3>3, <3>4 DEF ClosedBefore
  <2>12. NothingHeld'
    BY <2>2, <2>5, <2>6, <2>7 DEF NothingHeld
  <2>13. QED
    BY <2>4, <2>8, <2>11, <2>12
<1>5. CASE CloseDone(t)
  <2>1. "rc_job" \in Labels \ CountedLabels /\ "rc_job" \notin ClaimLabels
    BY DEF Labels, CloseLabels, CountedLabels, ClaimLabels
  <2>2. Moves(t, "rc_job", cur[t]) /\ Shut(cur[t])
    BY <1>1, <1>2, <1>5, <2>1, GotoMoves
    DEF CloseDone, Keeps, Forgets, ClosedBefore, ShutLabels
  <2>3. Born' /\ ClosedBefore' /\ NothingHeld'
    BY <1>2, <1>5, <2>1, <2>2, PlainKeeps DEF CloseDone
  <2>4. PendingIOCounts'
    BY <1>1, <1>5, <2>1, <2>2, QuietCounts DEF CloseDone
  <2>5. QED
    BY <2>3, <2>4
<1>6. CASE EnqueueDisconnectJob(t)
  <2>1. Shut(cur[t]) /\ "Disconnect" \in JobTypes
    BY <1>6 DEF EnqueueDisconnectJob, ClosedBefore, ShutLabels, JobTypes
  <2>2. QED
    BY <1>1, <1>2, <1>6, <2>1, ReturnMoves, PushKeeps DEF EnqueueDisconnectJob, Keeps
<1>7. QED
  BY <1>3, <1>4, <1>5, <1>6 DEF RequestClose

\* The steps of OnRecvComplete keep the invariant.
LEMMA ReceiveKeeps ==
  ASSUME IInv, TypeInv', NEW t \in Threads, OnRecvComplete(t)
  PROVE  IInv'
<1> USE FreeLabelsOK, LabelsOK DEF IInv
<1>1. ~Forgets(pc[t])
  BY DEF OnRecvComplete, RecvCompleteFlag, RecvCompleteCount, RecvCompleteCheck,
         ParseDone, ParseFail, ParsePacket, EnqueuePacketJob, Kick, Forgets
<1>2. cur[t] \in Sessions /\ mem[cur[t]] # "unborn" /\ Control
  BY <1>1 DEF TypeInv, Control, Born
<1>3. {"td_state", "rx_parse"} \subseteq ReturnLabels
  BY DEF ReturnLabels
<1>4. CASE RecvCompleteFlag(t)
  BY <1>1, <1>2, <1>4, RefusedKeeps, GotoMoves
  DEF RecvCompleteFlag, Keeps, Forgets, CountedLabels, Labels, ReceiveLabels
<1>5. CASE RecvCompleteCount(t)
  <2>1. pc[t] \in CountedLabels
    BY <1>5 DEF RecvCompleteCount, CountedLabels
  <2>2. CASE Goto(t, "rx_state")
    BY <1>1, <1>2, <1>5, <2>1, <2>2, UncountKeeps, GotoMoves
    DEF RecvCompleteCount, FreeLabels, Keeps
  <2>3. CASE CallRequestClose(t, "td_state")
    BY <1>1, <1>2, <1>3, <1>5, <2>1, <2>3, UncountKeeps, CloseMoves
    DEF RecvCompleteCount
  <2>4. QED
    BY <1>5, <2>2, <2>3 DEF RecvCompleteCount
<1>6. CASE RecvCompleteCheck(t) \/ ParseDone(t) \/ ParsePacket(t)
  <2>1. \E l \in {"rx_parse", "td_state", "pr_state", "rx_push", "sp_state"} : Goto(t, l)
    BY <1>6 DEF RecvCompleteCheck, ParseDone, ParsePacket
  <2>2. UNCHANGED <<objVars, recvIo, sendIo, cleanupMsgs, gameVars>>
    BY <1>6 DEF RecvCompleteCheck, ParseDone, ParsePacket
  <2>3. pc[t] \notin CountedLabels
    BY <1>6 DEF RecvCompleteCheck, ParseDone, ParsePacket, CountedLabels
  <2>4. QED
    BY <1>1, <1>2, <2>1, <2>2, <2>3, GotoMoves, FreeKeeps DEF FreeLabels, Keeps
<1>7. CASE ParseFail(t) \/ Kick(t)
  <2>1. \E l \in ReturnLabels : CallRequestClose(t, l)
    BY <1>3, <1>7 DEF ParseFail, Kick
  <2>2. pc[t] \notin CountedLabels
    BY <1>7 DEF ParseFail, Kick, CountedLabels
  <2>3. QED
    BY <1>1, <1>2, <1>7, <2>1, <2>2, CloseMoves, FreeKeeps DEF ParseFail, Kick
<1>8. CASE EnqueuePacketJob(t)
  <2>1. pc[t] \notin CountedLabels /\ "Packet" \in JobTypes
    BY <1>8 DEF EnqueuePacketJob, CountedLabels, JobTypes
  <2>2. Moves(t, "rx_parse", cur[t])
    BY <1>1, <1>2, <1>8, GotoMoves DEF EnqueuePacketJob, Keeps, Forgets, FreeLabels
  <2>3. QED
    BY <1>2, <1>8, <2>1, <2>2, PushKeeps DEF EnqueuePacketJob
<1>9. QED
  BY <1>4, <1>5, <1>6, <1>7, <1>8 DEF OnRecvComplete

\* The step that frees a session; its I/O is over and its socket closed.
LEMMA DeleteKeeps ==
  ASSUME IInv, TypeInv', NEW t \in Threads, DeleteSession(t)
  PROVE  IInv'
<1> USE FreeLabelsOK, LabelsOK DEF IInv
<1>1. ~Forgets(pc[t]) /\ pc[t] \in ClaimLabels /\ pc[t] \notin CountedLabels
  BY DEF DeleteSession, Forgets, ClaimLabels, CountedLabels
<1>2. cur[t] \in Sessions /\ Control
  BY <1>1 DEF TypeInv, Control
<1>3. Shut(cur[t]) /\ recvIo[cur[t]] = 0 /\ sendIo[cur[t]] = 0
  BY <1>1 DEF ClosedBefore, NothingHeld, ShutLabels
<1>4. Moves(t, "idle", NoSession)
  BY <1>1, <1>2, GotoMoves DEF DeleteSession, Keeps, Forgets, FreeLabels
<1>5. \A u \in Threads : u # t => pc'[u] = pc[u] /\ cur'[u] = cur[u]
  BY <1>4 DEF Moves, TypeInv, Control
<1>6. pc'[t] = "idle"
  BY <1>4 DEF Moves, TypeInv, Control
<1>7. /\ \A s \in Sessions : mem'[s] = "unborn" <=> mem[s] = "unborn"
      /\ \A s \in Sessions : s # cur[t] => mem'[s] = mem[s]
  BY <1>2, <1>3 DEF DeleteSession, TypeInv, ObjectTypes, Shut
<1>8. UNCHANGED <<sockOpen, gameCleanupDone, closeIssued, pendingIO, kernelVars, gameVars>>
  BY DEF DeleteSession
<1>9. \A i \in 1 .. Len(jobQueue) : jobQueue[i].session \in Sessions
  BY QueuedTypes DEF TypeInv
<1>10. \A u \in Threads : ~Forgets(pc[u]) => cur[u] \in Sessions
  BY DEF TypeInv, Control
<1>11. Born'
  BY <1>5, <1>6, <1>7, <1>8, <1>9, <1>10 DEF Born, TypeInv, GameTypes, Forgets
<1>12. \A s \in Sessions : Shut(s)' <=> Shut(s)
  BY <1>7, <1>8 DEF Shut
<1>13. ClosedBefore'
  <2>1. ASSUME NEW u \in Threads, pc'[u] \in ShutLabels PROVE Shut(cur[u])'
    <3>1. u # t
      BY <1>6, <2>1 DEF ShutLabels, ClaimLabels
    <3>2. Shut(cur[u]) /\ cur[u] \in Sessions
      BY <1>5, <1>10, <2>1, <3>1 DEF ClosedBefore, Forgets, ShutLabels, ClaimLabels
    <3>3. QED
      BY <1>5, <1>12, <3>1, <3>2 DEF Shut
  <2>2. ASSUME NEW s \in Sessions, closeIssued'[s] \/ gameCleanupDone'[s] \/ mem'[s] = "freed"
        PROVE  Shut(s)'
    BY <1>3, <1>7, <1>8, <1>12, <2>2 DEF ClosedBefore
  <2>3. ASSUME NEW i \in 1 .. Len(jobQueue'), jobQueue'[i].type = "Disconnect"
        PROVE  Shut(jobQueue[i].session)'
    BY <1>8, <1>9, <1>12, <2>3 DEF ClosedBefore, Shut
  <2>4. task' = "disconnect" => Shut(subject)'
    BY <1>8, <1>12 DEF ClosedBefore, Shut, TypeInv, GameTypes
  <2>5. QED
    BY <2>1, <2>2, <2>3, <2>4 DEF ClosedBefore
<1>14. NothingHeld'
  <2>1. ASSUME NEW u \in Threads, pc'[u] \in ClaimLabels
        PROVE  recvIo'[cur'[u]] = 0 /\ sendIo'[cur'[u]] = 0
    BY <1>5, <1>6, <1>8, <2>1 DEF NothingHeld, ClaimLabels
  <2>2. ASSUME NEW s \in Sessions, mem'[s] # "live"
        PROVE  recvIo'[s] = 0 /\ sendIo'[s] = 0
    BY <1>3, <1>7, <1>8, <2>2 DEF NothingHeld
  <2>3. QED
    BY <2>1, <2>2 DEF NothingHeld
<1>15. PendingIOCounts'
  BY <1>1, <1>4, <1>8, QuietCounts DEF FreeLabels
<1>16. QED
  BY <1>11, <1>13, <1>14, <1>15

\* The steps of TryDestroySession keep the invariant: with the cleanup seen the
\* socket is closed, and with pendingIO seen 0 nothing is held any more.
LEMMA DestroyKeeps ==
  ASSUME IInv, TypeInv', NEW t \in Threads, TryDestroySession(t) \/ OnSendComplete(t)
  PROVE  IInv'
<1> USE FreeLabelsOK, LabelsOK DEF IInv
<1>1. ~Forgets(pc[t])
  BY DEF TryDestroySession, DestroyCheckState, DestroyCheckCleanup, DestroyCheckIO,
         TryBeginDestroy, RemoveSession, DeleteSession, OnSendComplete, Forgets
<1>2. cur[t] \in Sessions /\ mem[cur[t]] # "unborn" /\ Control
  BY <1>1 DEF TypeInv, Control, Born
<1>3. CASE DestroyCheckState(t)
  BY <1>1, <1>2, <1>3, GotoMoves, FreeKeeps
  DEF DestroyCheckState, CountedLabels, FreeLabels, Keeps
\* The steps to the labels at which the socket is known to be closed.
<1>4. ASSUME NEW l \in {"idle", "td_count", "td_claim", "td_remove", "td_delete"},
             Goto(t, l), pc[t] \notin CountedLabels,
             UNCHANGED <<mem, sockOpen, gameCleanupDone, closeIssued, pendingIO,
                         kernelVars, gameVars>>,
             l # "idle" => Shut(cur[t]),
             l \in ClaimLabels => recvIo[cur[t]] = 0 /\ sendIo[cur[t]] = 0
      PROVE  IInv'
  <2>1. l \in Labels \ CountedLabels /\ (l \in ShutLabels => l # "idle")
    BY DEF Labels, DestroyLabels, CountedLabels, ShutLabels, ClaimLabels
  <2>2. Moves(t, l, Keeps(t, l))
    BY <1>1, <1>2, <1>4, <2>1, GotoMoves
  <2>3. /\ ~Forgets(l) => Keeps(t, l) = cur[t]
        /\ l \in ClaimLabels => Keeps(t, l) = cur[t] /\ ~Forgets(l)
        /\ l \in ShutLabels => Keeps(t, l) = cur[t]
    BY <1>4 DEF Keeps, Forgets, ClaimLabels, ShutLabels
  <2>4. Born' /\ ClosedBefore' /\ NothingHeld'
    BY <1>2, <1>4, <2>1, <2>2, <2>3, PlainKeeps
  <2>5. PendingIOCounts'
    BY <1>4, <2>1, <2>2, QuietCounts
  <2>6. QED
    BY <2>4, <2>5
<1>5. CASE DestroyCheckCleanup(t)
  <2>1. gameCleanupDone[cur[t]] => Shut(cur[t])
    BY <1>2 DEF ClosedBefore
  <2>2. QED
    BY <1>4, <1>5, <2>1
    DEF DestroyCheckCleanup, IsGameCleanupDone, CountedLabels, ClaimLabels
<1>6. CASE DestroyCheckIO(t)
  <2>1. Shut(cur[t])
    BY <1>6 DEF DestroyCheckIO, ClosedBefore, ShutLabels
  <2>2. pendingIO[cur[t]] = 0 => recvIo[cur[t]] = 0 /\ sendIo[cur[t]] = 0
    <3>1. Cardinality(Counting(cur[t])) \in Nat
      BY ThreadsFinite, FS_Subset, FS_CardinalityType DEF Counting
    <3>2. recvIo[cur[t]] \in Nat /\ sendIo[cur[t]] \in Nat
      BY <1>2, SessionAssumption DEF TypeInv, KernelTypes
    <3>3. QED
      BY <1>2, <3>1, <3>2 DEF PendingIOCounts
  <2>3. UNCHANGED <<objVars, kernelVars, gameVars>> /\ pc[t] \notin CountedLabels
    BY <1>6 DEF DestroyCheckIO, CountedLabels
  <2>4. CASE pendingIO[cur[t]] = 0
    BY <1>4, <1>6, <2>1, <2>2, <2>3, <2>4 DEF DestroyCheckIO, IsIODone
  <2>5. CASE pendingIO[cur[t]] # 0
    BY <1>4, <1>6, <2>3, <2>5 DEF DestroyCheckIO, IsIODone, ClaimLabels
  <2>6. QED
    BY <2>4, <2>5
<1>7. CASE TryBeginDestroy(t) \/ RemoveSession(t)
  <2>1. pc[t] \in ClaimLabels /\ pc[t] \notin CountedLabels
    BY <1>7 DEF TryBeginDestroy, RemoveSession, ClaimLabels, CountedLabels
  <2>2. Shut(cur[t]) /\ recvIo[cur[t]] = 0 /\ sendIo[cur[t]] = 0
    BY <2>1 DEF ClosedBefore, NothingHeld, ShutLabels
  <2>3. QED
    BY <1>4, <1>7, <2>1, <2>2 DEF TryBeginDestroy, RemoveSession
<1>8. CASE DeleteSession(t)
  BY <1>8, DeleteKeeps
<1>9. CASE OnSendComplete(t)
  <2>1. pc[t] \in CountedLabels /\ "td_state" \in ReturnLabels
    BY <1>9 DEF OnSendComplete, CountedLabels, ReturnLabels
  <2>2. CASE Goto(t, "td_state")
    BY <1>1, <1>2, <1>9, <2>1, <2>2, UncountKeeps, GotoMoves
    DEF OnSendComplete, FreeLabels, Keeps
  <2>3. CASE CallRequestClose(t, "td_state")
    BY <1>1, <1>2, <1>9, <2>1, <2>3, UncountKeeps, CloseMoves DEF OnSendComplete
  <2>4. QED
    BY <1>9, <2>2, <2>3 DEF OnSendComplete, AfterSendComplete
<1>10. QED
  BY <1>3, <1>5, <1>6, <1>7, <1>8, <1>9 DEF TryDestroySession

\* A new session: nothing was ever done with it.
LEMMA AcceptKeeps ==
  ASSUME IInv, TypeInv', NEW s \in Sessions, AcceptClient(s)
  PROVE  IInv'
<1> USE FreeLabelsOK, LabelsOK DEF IInv
<1> DEFINE t == AcceptThread
<1>1. t \in Threads /\ pc[t] \notin CountedLabels /\ Control
  BY DEF Threads, AcceptClient, CountedLabels, TypeInv
<1>2. Moves(t, "ac_job", s)
  BY <1>1, StartMoves DEF AcceptClient, FreeLabels
<1>3. \A u \in Threads : u # t => pc'[u] = pc[u] /\ cur'[u] = cur[u]
  BY <1>2 DEF Moves, TypeInv, Control
<1>4. pc'[t] = "ac_job" /\ cur'[t] = s
  BY <1>1, <1>2 DEF Moves, TypeInv, Control
<1>5. /\ mem[s] = "unborn" /\ mem'[s] = "live"
      /\ \A x \in Sessions : x # s => mem'[x] = mem[x] /\ sockOpen'[x] = sockOpen[x]
  BY DEF AcceptClient, TypeInv, ObjectTypes
<1>6. UNCHANGED <<gameCleanupDone, closeIssued, pendingIO, kernelVars, gameVars>>
  BY DEF AcceptClient
<1>7. \A x \in Sessions : mem[x] # "unborn" => mem'[x] # "unborn" /\ x # s
  BY <1>5
<1>8. \A x \in Sessions : Shut(x) => Shut(x)'
  BY <1>5 DEF Shut
<1>9. \A i \in 1 .. Len(jobQueue) : jobQueue[i].session \in Sessions
  BY QueuedTypes DEF TypeInv
<1>10. \A u \in Threads : ~Forgets(pc[u]) => cur[u] \in Sessions
  BY DEF TypeInv, Control
<1>11. Born'
  <2>1. ASSUME NEW u \in Threads, ~Forgets(pc'[u]) PROVE mem'[cur'[u]] # "unborn"
    BY <1>3, <1>4, <1>5, <1>7, <1>10, <2>1 DEF Born
  <2>2. \A i \in 1 .. Len(jobQueue') : mem'[jobQueue'[i].session] # "unborn"
    BY <1>6, <1>7, <1>9 DEF Born
  <2>3. /\ \A x \in players' \cup todo' : mem'[x] # "unborn"
        /\ task' # "none" => mem'[subject'] # "unborn"
    BY <1>6, <1>7 DEF Born, TypeInv, GameTypes
  <2>4. /\ \A x \in Sessions : cleanupMsgs'[x] > 0 => mem'[x] # "unborn"
        /\ \A x \in Sessions : mem'[x] = "unborn" => ~sockOpen'[x]
    BY <1>5, <1>6, <1>7 DEF Born
  <2>5. QED
    BY <2>1, <2>2, <2>3, <2>4 DEF Born
<1>12. ClosedBefore'
  <2>1. ASSUME NEW u \in Threads, pc'[u] \in ShutLabels PROVE Shut(cur[u])'
    <3>1. u # t
      BY <1>4, <2>1 DEF ShutLabels, ClaimLabels
    <3>2. Shut(cur[u]) /\ cur[u] \in Sessions
      BY <1>3, <1>10, <2>1, <3>1 DEF ClosedBefore, Forgets, ShutLabels, ClaimLabels
    <3>3. QED
      BY <1>3, <1>8, <3>1, <3>2 DEF Shut
  <2>2. ASSUME NEW x \in Sessions, closeIssued'[x] \/ gameCleanupDone'[x] \/ mem'[x] = "freed"
        PROVE  Shut(x)'
    <3>1. closeIssued[x] \/ gameCleanupDone[x] \/ mem[x] = "freed"
      BY <1>5, <1>6, <2>2
    <3>2. QED
      BY <1>8, <3>1 DEF ClosedBefore
  <2>3. ASSUME NEW i \in 1 .. Len(jobQueue'), jobQueue'[i].type = "Disconnect"
        PROVE  Shut(jobQueue[i].session)'
    BY <1>6, <1>8, <1>9, <2>3 DEF ClosedBefore, Shut
  <2>4. task' = "disconnect" => Shut(subject)'
    BY <1>6, <1>8 DEF ClosedBefore, Shut, TypeInv, GameTypes
  <2>5. QED
    BY <2>1, <2>2, <2>3, <2>4 DEF ClosedBefore
<1>13. NothingHeld'
  <2>1. ASSUME NEW u \in Threads, pc'[u] \in ClaimLabels
        PROVE  recvIo'[cur'[u]] = 0 /\ sendIo'[cur'[u]] = 0
    BY <1>3, <1>4, <1>6, <2>1 DEF NothingHeld, ClaimLabels
  <2>2. ASSUME NEW x \in Sessions, mem'[x] # "live"
        PROVE  recvIo'[x] = 0 /\ sendIo'[x] = 0
    BY <1>5, <1>6, <2>2 DEF NothingHeld
  <2>3. QED
    BY <2>1, <2>2 DEF NothingHeld
<1>14. PendingIOCounts'
  BY <1>1, <1>2, <1>6, QuietCounts DEF FreeLabels
<1>15. QED
  BY <1>11, <1>12, <1>13, <1>14

\* A worker takes a completion: the I/O passes from the kernel to the thread.
LEMMA TakeKeeps ==
  ASSUME IInv, TypeInv', NEW w \in Workers, NEW s \in Sessions,
         TakeRecv(w, s) \/ TakeSend(w, s) \/ TakeCleanup(w, s)
  PROVE  IInv'
<1> USE FreeLabelsOK, LabelsOK DEF IInv
<1>1. w \in Threads /\ pc[w] \notin CountedLabels /\ Control
  BY DEF Threads, TakeRecv, TakeSend, TakeCleanup, CountedLabels, TypeInv
<1>2. {"rx_flag", "tx_count"} \subseteq (Labels \cap CountedLabels) \ ShutLabels
  BY DEF Labels, ReceiveLabels, CountedLabels, ShutLabels, ClaimLabels
<1>3. /\ recvIo[s] \in Nat /\ sendIo[s] \in Nat
      /\ UNCHANGED <<mem, sockOpen, gameCleanupDone, closeIssued, gameVars>>
  BY SessionAssumption DEF TypeInv, KernelTypes, TakeRecv, TakeSend, TakeCleanup
<1>4. CASE TakeRecv(w, s)
  <2>1. Moves(w, "rx_flag", s)
    BY <1>1, <1>2, <1>4, StartMoves DEF TakeRecv
  <2>2. mem[s] # "unborn"
    BY <1>3, <1>4 DEF TakeRecv, NothingHeld
  <2>3. \A x \in Sessions : cleanupMsgs'[x] > 0 => mem[x] # "unborn"
    BY <1>4 DEF TakeRecv, Born
  <2>4. \A x \in Sessions : ~sockOpen[x] /\ recvIo[x] = 0 /\ sendIo[x] = 0
                              => recvIo'[x] = 0 /\ sendIo'[x] = 0
    BY <1>4 DEF TakeRecv, TypeInv, KernelTypes
  <2>5. Born' /\ ClosedBefore' /\ NothingHeld'
    BY <1>1, <1>2, <1>3, <2>1, <2>2, <2>3, <2>4, MoveKeeps DEF ShutLabels
  <2>6. PendingIOCounts'
    BY <1>1, <1>2, <1>4, <2>1, BalancedCounts
    DEF TakeRecv, Counted, One, TypeInv, ObjectTypes, KernelTypes
  <2>7. QED
    BY <2>5, <2>6
<1>5. CASE TakeSend(w, s)
  <2>1. Moves(w, "tx_count", s)
    BY <1>1, <1>2, <1>5, StartMoves DEF TakeSend
  <2>2. mem[s] # "unborn"
    BY <1>3, <1>5 DEF TakeSend, NothingHeld
  <2>3. \A x \in Sessions : cleanupMsgs'[x] > 0 => mem[x] # "unborn"
    BY <1>5 DEF TakeSend, Born
  <2>4. \A x \in Sessions : ~sockOpen[x] /\ recvIo[x] = 0 /\ sendIo[x] = 0
                              => recvIo'[x] = 0 /\ sendIo'[x] = 0
    BY <1>5 DEF TakeSend, TypeInv, KernelTypes
  <2>5. Born' /\ ClosedBefore' /\ NothingHeld'
    BY <1>1, <1>2, <1>3, <2>1, <2>2, <2>3, <2>4, MoveKeeps DEF ShutLabels
  <2>6. PendingIOCounts'
    BY <1>1, <1>2, <1>5, <2>1, SessionAssumption, BalancedCounts
    DEF TakeSend, Counted, One, TypeInv, ObjectTypes, KernelTypes
  <2>7. QED
    BY <2>5, <2>6
<1>6. CASE TakeCleanup(w, s)
  <2>1. Moves(w, "td_state", s)
    BY <1>1, <1>6, StartMoves DEF TakeCleanup, FreeLabels
  <2>2. mem[s] # "unborn"
    BY <1>6 DEF TakeCleanup, Born
  <2>3. \A x \in Sessions : cleanupMsgs'[x] > 0 => mem[x] # "unborn"
    BY <1>6, <2>2 DEF TakeCleanup, Born, TypeInv, KernelTypes
  <2>4. "td_state" \in Labels \ CountedLabels /\ "td_state" \notin ShutLabels \cup ClaimLabels
    BY DEF FreeLabels, ShutLabels
  <2>5. Born' /\ ClosedBefore' /\ NothingHeld'
    BY <1>1, <1>3, <1>6, <2>1, <2>2, <2>3, <2>4, MoveKeeps DEF TakeCleanup
  <2>6. PendingIOCounts'
    BY <1>1, <1>6, <2>1, <2>4, QuietCounts DEF TakeCleanup
  <2>7. QED
    BY <2>5, <2>6
<1>7. QED
  BY <1>4, <1>5, <1>6

\* Queueing the Connect job keeps the invariant.
LEMMA ConnectKeeps ==
  ASSUME IInv, TypeInv', NEW t \in Threads, EnqueueConnectJob(t)
  PROVE  IInv'
<1> USE FreeLabelsOK, LabelsOK DEF IInv
<1>1. ~Forgets(pc[t]) /\ pc[t] \notin CountedLabels /\ "Connect" \in JobTypes
  BY DEF EnqueueConnectJob, Forgets, CountedLabels, JobTypes
<1>2. cur[t] \in Sessions /\ mem[cur[t]] # "unborn" /\ Control
  BY <1>1 DEF TypeInv, Control, Born
<1>3. Moves(t, "pr_state", cur[t])
  BY <1>1, <1>2, GotoMoves DEF EnqueueConnectJob, Keeps, Forgets, FreeLabels
<1>4. QED
  BY <1>1, <1>2, <1>3, PushKeeps DEF EnqueueConnectJob

\* A step of the game thread, which does no I/O itself, keeps the invariant
\* if the sessions it takes up exist and those it retires are closed.
LEMMA GameMoves ==
  ASSUME IInv, TypeInv', NEW l \in Labels, l \notin CountedLabels \cup ShutLabels,
         NEW c, Moves(GameThread, l, c), pc[GameThread] \notin CountedLabels,
         ~Forgets(l) => c \in Sessions /\ mem[c] # "unborn",
         UNCHANGED <<mem, sockOpen, closeIssued, pendingIO, recvIo, sendIo>>,
         \A i \in 1 .. Len(jobQueue') :
           \E j \in 1 .. Len(jobQueue) : jobQueue'[i] = jobQueue[j],
         \A s \in players' \cup todo' : mem[s] # "unborn",
         task' # "none" => mem[subject'] # "unborn",
         task' = "disconnect" => Shut(subject'),
         \A s \in Sessions : gameCleanupDone'[s] => Shut(s),
         \A s \in Sessions : cleanupMsgs'[s] > 0 => mem[s] # "unborn"
  PROVE  IInv'
<1> USE DEF IInv
<1>1. GameThread \in Threads
  BY DEF Threads
<1>2. \A u \in Threads : u # GameThread => pc'[u] = pc[u] /\ cur'[u] = cur[u]
  BY DEF Moves, TypeInv, Control
<1>3. pc'[GameThread] = l /\ cur'[GameThread] = c
  BY <1>1 DEF Moves, TypeInv, Control
<1>4. Born'
  BY <1>2, <1>3 DEF Born
<1>5. ClosedBefore'
  <2>1. \A u \in Threads : pc'[u] \in ShutLabels => Shut(cur[u])'
    BY <1>2, <1>3 DEF ClosedBefore, Shut
  <2>2. \A s \in Sessions :
          closeIssued'[s] \/ gameCleanupDone'[s] \/ mem'[s] = "freed" => Shut(s)'
    BY DEF ClosedBefore, Shut
  <2>3. \A i \in 1 .. Len(jobQueue') :
          jobQueue'[i].type = "Disconnect" => Shut(jobQueue[i].session)'
    BY DEF ClosedBefore, Shut
  <2>4. task' = "disconnect" => Shut(subject)'
    BY DEF Shut
  <2>5. QED
    BY <2>1, <2>2, <2>3, <2>4 DEF ClosedBefore
<1>6. NothingHeld'
  BY <1>2, <1>3 DEF NothingHeld, ShutLabels
<1>7. PendingIOCounts'
  BY <1>1, QuietCounts
<1>8. QED
  BY <1>4, <1>5, <1>6, <1>7

\* The steps of the game thread keep the invariant.
LEMMA GameKeeps ==
  ASSUME IInv, TypeInv', GamePop \/ GameStep
  PROVE  IInv'
<1> USE DEF IInv
<1> DEFINE G == GameThread
<1>1. /\ G \in Threads /\ Control
      /\ pc[G] \in {"idle", "g_loop", "gm_mark", "gm_post"}
      /\ pc[G] \notin CountedLabels
  BY DEF Threads, TypeInv, CountedLabels, GamePop, GameStep, PopConnect, PopPacket,
         PopDisconnect, NextJob, GameSend, GameHandled, GameReject, GameDisconnected,
         MarkGameCleanupDone, PostCleanup
<1>2. {"idle", "g_loop", "gm_mark", "gm_post", "sp_state", "rc_claim"}
        \subseteq Labels \ (CountedLabels \cup ShutLabels)
  BY DEF Labels, GameLabels, SendLabels, CloseLabels, CountedLabels, ShutLabels, ClaimLabels
<1>3. UNCHANGED <<mem, sockOpen, closeIssued, pendingIO, recvIo, sendIo>>
  BY DEF GamePop, GameStep, PopConnect, PopPacket, PopDisconnect, NextJob, GameSend,
         GameHandled, GameReject, GameDisconnected, MarkGameCleanupDone, PostCleanup
<1>4. /\ \A s \in players \cup todo : mem[s] # "unborn"
      /\ \A s \in Sessions : gameCleanupDone[s] => Shut(s)
      /\ \A s \in Sessions : cleanupMsgs[s] > 0 => mem[s] # "unborn"
      /\ task # "none" => subject \in Sessions /\ mem[subject] # "unborn"
      /\ task = "disconnect" => Shut(subject)
  BY DEF Born, ClosedBefore, TypeInv, GameTypes
\* A job popped from the queue.
<1>5. ASSUME jobQueue # <<>>, jobQueue' = Tail(jobQueue)
      PROVE  /\ Head(jobQueue).session \in Sessions
             /\ mem[Head(jobQueue).session] # "unborn"
             /\ Head(jobQueue).type = "Disconnect" => Shut(Head(jobQueue).session)
             /\ \A i \in 1 .. Len(jobQueue') :
                  \E j \in 1 .. Len(jobQueue) : jobQueue'[i] = jobQueue[j]
  <2>1. /\ Len(jobQueue) \in Nat /\ Len(jobQueue) > 0
        /\ Head(jobQueue) = jobQueue[1]
    BY <1>5 DEF TypeInv, GameTypes
  <2>2. /\ Len(jobQueue') = Len(jobQueue) - 1
        /\ \A i \in 1 .. Len(jobQueue') : jobQueue'[i] = jobQueue[i + 1]
    BY <1>5, HeadTypes DEF TypeInv
  <2>3. \A i \in 1 .. Len(jobQueue') : i + 1 \in 1 .. Len(jobQueue)
    BY <2>1, <2>2
  <2>4. QED
    BY <1>5, <2>1, <2>2, <2>3, HeadTypes DEF TypeInv, Born, ClosedBefore
\* The steps that leave the queue, the cleanup and the players alone.
<1>6. ASSUME UNCHANGED <<jobQueue, players>>
      PROVE  /\ \A i \in 1 .. Len(jobQueue') :
                  \E j \in 1 .. Len(jobQueue) : jobQueue'[i] = jobQueue[j]
             /\ \A s \in players' : mem[s] # "unborn"
  BY <1>4, <1>6
<1>7. CASE PopConnect
  <2>1. Moves(G, pc[G], cur[G]) /\ Forgets(pc[G])
    BY <1>1, <1>7 DEF PopConnect, NextJob, Moves, Control, Forgets
  <2>2. \A s \in players' \cup todo' : mem[s] # "unborn"
    BY <1>4, <1>5, <1>7 DEF PopConnect, NextJob
  <2>3. UNCHANGED <<task, subject, gameCleanupDone, cleanupMsgs>>
    BY <1>7 DEF PopConnect
  <2>4. QED
    BY <1>1, <1>2, <1>3, <1>4, <1>5, <1>7, <2>1, <2>2, <2>3, GameMoves
    DEF PopConnect, NextJob
<1>8. CASE PopPacket
  <2>1. \E l \in {"idle", "g_loop"} : Moves(G, l, NoSession) \/ Moves(G, l, cur[G])
    BY <1>1, <1>8 DEF PopPacket, NextJob, Goto, Moves, Control, Forgets
  <2>2. \A s \in players' \cup todo' : mem[s] # "unborn"
    BY <1>4, <1>5, <1>8 DEF PopPacket, NextJob, TypeInv, GameTypes
  <2>3. /\ UNCHANGED <<gameCleanupDone, cleanupMsgs>>
        /\ \/ UNCHANGED <<task, subject>>
           \/ task' # "disconnect" /\ subject' = Head(jobQueue).session
    BY <1>8 DEF PopPacket
  <2>4. task' # "none" => mem[subject'] # "unborn"
    BY <1>4, <1>5, <1>8, <2>3 DEF PopPacket, NextJob
  <2>5. task' = "disconnect" => Shut(subject')
    BY <1>4, <2>3
  <2>6. QED
    BY <1>1, <1>2, <1>3, <1>4, <1>5, <1>8, <2>1, <2>2, <2>3, <2>4, <2>5, GameMoves
    DEF PopPacket, NextJob, Forgets
<1>9. CASE PopDisconnect
  <2>1. Moves(G, "g_loop", NoSession) /\ Forgets("g_loop")
    BY <1>1, <1>2, <1>9 DEF PopDisconnect, NextJob, Goto, Moves, Forgets
  <2>2. \A s \in players' \cup todo' : mem[s] # "unborn"
    BY <1>4, <1>9 DEF PopDisconnect, TypeInv, GameTypes
  <2>3. subject' = Head(jobQueue).session /\ UNCHANGED <<gameCleanupDone, cleanupMsgs>>
    BY <1>9 DEF PopDisconnect
  <2>4. QED
    BY <1>1, <1>2, <1>3, <1>4, <1>5, <1>9, <2>1, <2>2, <2>3, GameMoves
    DEF PopDisconnect, NextJob
<1>10. CASE GameSend
  <2>1. PICK s \in todo : todo' = todo \ {s} /\ Start(G, "sp_state", s)
    BY <1>10 DEF GameSend
  <2>2. Moves(G, "sp_state", s) /\ s \in Sessions /\ mem[s] # "unborn"
    BY <1>4, <2>1 DEF Start, Moves, TypeInv, GameTypes
  <2>3. UNCHANGED <<jobQueue, players, task, subject, gameCleanupDone, cleanupMsgs>>
    BY <1>10 DEF GameSend
  <2>4. QED
    BY <1>1, <1>2, <1>3, <1>4, <1>6, <2>1, <2>2, <2>3, GameMoves
<1>11. CASE GameHandled
  <2>1. Moves(G, "idle", NoSession) /\ Forgets("idle")
    BY <1>11 DEF GameHandled, Goto, Moves, Forgets
  <2>2. UNCHANGED <<jobQueue, players, todo, gameCleanupDone, cleanupMsgs>> /\ task' = "none"
    BY <1>11 DEF GameHandled
  <2>3. QED
    BY <1>1, <1>2, <1>3, <1>4, <1>6, <2>1, <2>2, GameMoves
<1>12. CASE GameReject
  <2>1. Moves(G, "rc_claim", subject) /\ subject \in Sessions /\ mem[subject] # "unborn"
    BY <1>4, <1>12 DEF GameReject, Moves
  <2>2. UNCHANGED <<jobQueue, players, todo, gameCleanupDone, cleanupMsgs>> /\ task' = "none"
    BY <1>12 DEF GameReject
  <2>3. QED
    BY <1>1, <1>2, <1>3, <1>4, <1>6, <2>1, <2>2, GameMoves
<1>13. CASE GameDisconnected
  <2>1. Moves(G, "gm_mark", subject) /\ subject \in Sessions /\ mem[subject] # "unborn"
    BY <1>4, <1>13 DEF GameDisconnected, Start, Moves
  <2>2. UNCHANGED <<jobQueue, players, todo, task, subject, gameCleanupDone, cleanupMsgs>>
    BY <1>13 DEF GameDisconnected
  <2>3. QED
    BY <1>1, <1>2, <1>3, <1>4, <1>6, <2>1, <2>2, GameMoves
<1>14. CASE MarkGameCleanupDone
  <2>1. task = "disconnect" /\ subject \in Sessions /\ Shut(subject)
    BY <1>4, <1>14 DEF MarkGameCleanupDone, TypeInv, Marking
  <2>2. Moves(G, "gm_post", cur[G]) /\ cur[G] \in Sessions /\ mem[cur[G]] # "unborn"
    BY <1>1, <1>14
    DEF MarkGameCleanupDone, Goto, Moves, Forgets, Born, Control
  <2>3. UNCHANGED <<jobQueue, players, todo, task, subject, cleanupMsgs>>
    BY <1>14 DEF MarkGameCleanupDone
  <2>4. \A s \in Sessions : gameCleanupDone'[s] => Shut(s)
    BY <1>4, <1>14, <2>1 DEF MarkGameCleanupDone, TypeInv, ObjectTypes
  <2>5. QED
    BY <1>1, <1>2, <1>3, <1>4, <1>6, <2>1, <2>2, <2>3, <2>4, GameMoves
<1>15. CASE PostCleanup
  <2>1. task = "disconnect" /\ subject \in Sessions /\ mem[subject] # "unborn"
    BY <1>4, <1>15 DEF PostCleanup, TypeInv, Marking
  <2>2. Moves(G, "idle", NoSession) /\ Forgets("idle")
    BY <1>15 DEF PostCleanup, Goto, Moves, Forgets
  <2>3. UNCHANGED <<jobQueue, players, todo, gameCleanupDone>> /\ task' = "none"
    BY <1>15 DEF PostCleanup
  <2>4. \A s \in Sessions : cleanupMsgs'[s] > 0 => mem[s] # "unborn"
    BY <1>4, <1>15, <2>1 DEF PostCleanup, TypeInv, KernelTypes
  <2>5. QED
    BY <1>1, <1>2, <1>3, <1>4, <1>6, <2>1, <2>2, <2>3, <2>4, GameMoves
<1>16. QED
  BY <1>7, <1>8, <1>9, <1>10, <1>11, <1>12, <1>13, <1>14, <1>15 DEF GamePop, GameStep

-----------------------------------------------------------------------------
(* The theorems.                                                           *)

\* The invariant holds initially.
LEMMA InitKeeps == Init => IInv
<1>1. SUFFICES ASSUME Init PROVE IInv
  OBVIOUS
<1>2. TypeInv
  BY <1>1, InitTypes
<1>3. PendingIOCounts
  <2>1. \A s \in Sessions : Counting(s) = {}
    BY <1>1 DEF Init, InitShared, InitThreads, Counting, Counted, CountedLabels
  <2>2. \A s \in Sessions : Cardinality(Counting(s)) = 0
    BY <2>1, FS_EmptySet
  <2>3. \A s \in Sessions : pendingIO[s] = 0 /\ recvIo[s] = 0 /\ sendIo[s] = 0
    BY <1>1 DEF Init, InitShared, InitThreads
  <2>4. QED
    BY <2>2, <2>3 DEF PendingIOCounts
<1>4. Born
  BY <1>1 DEF Init, InitShared, InitThreads, Born, Forgets
<1>5. ClosedBefore
  BY <1>1 DEF Init, InitShared, InitThreads, ClosedBefore, ShutLabels, ClaimLabels
<1>6. NothingHeld
  BY <1>1 DEF Init, InitShared, InitThreads, NothingHeld, ClaimLabels
<1>7. QED
  BY <1>2, <1>3, <1>4, <1>5, <1>6 DEF IInv

\* Every step keeps the invariant.
LEMMA StepKeeps == IInv /\ [Next]_vars => IInv'
<1>1. SUFFICES ASSUME IInv, [Next]_vars PROVE IInv'
  OBVIOUS
<1>2. TypeInv'
  BY <1>1, TypesStep DEF IInv
<1>3. CASE UNCHANGED vars \/ AllServed
  <2>1. UNCHANGED <<objVars, kernelVars, gameVars, threadVars>>
    BY <1>3 DEF AllServed, vars
  <2>2. Born' /\ ClosedBefore' /\ NothingHeld'
    BY <1>1, <2>1 DEF IInv, Born, ClosedBefore, NothingHeld, Shut
  <2>3. PendingIOCounts'
    <3>1. \A s \in Sessions : Counting(s)' = Counting(s)
      BY <2>1 DEF Counting, Counted
    <3>2. QED
      BY <1>1, <2>1, <3>1 DEF IInv, PendingIOCounts
  <2>4. QED
    BY <1>2, <2>2, <2>3 DEF IInv
<1>4. ASSUME NEW t \in Threads, ThreadStep(t) PROVE IInv'
  BY <1>1, <1>2, <1>4, ConnectKeeps, PostRecvKeeps, SendPacketKeeps,
     RequestCloseKeeps, ReceiveKeeps, DestroyKeeps DEF ThreadStep
<1>5. QED
  BY <1>1, <1>2, <1>3, <1>4, AcceptKeeps, TakeKeeps, GameKeeps DEF Next

\* The strengthened invariant holds in every reachable state.
THEOREM IInvInvariant == Spec => []IInv
BY InitKeeps, StepKeeps, PTL DEF Spec

\* pendingIO, raised before every WSARecv and WSASend and lowered on failure or
\* completion, is at all times exactly the I/O in the kernel and in the hands
\* of threads, for any number of sessions, workers and outstanding sends.
THEOREM PendingIOIsExact == Spec => []PendingIOCounts
<1>1. IInv => PendingIOCounts
  BY DEF IInv
<1>2. QED
  BY <1>1, IInvInvariant, PTL

\* Every variable keeps its type; in particular pendingIO, an atomic long that is
\* raised and lowered by many threads, is never negative.
THEOREM TypeCorrect == Spec => []TypeOK
<1>1. IInv => TypeOK
  <2>1. SUFFICES ASSUME IInv PROVE TypeOK
    OBVIOUS
  <2>2. OtherTypes
    BY <2>1 DEF IInv, TypeInv, Control, ObjectTypes, KernelTypes, GameTypes, OtherTypes
  <2>3. ASSUME NEW s \in Sessions PROVE pendingIO[s] \in Nat
    <3>1. Cardinality(Counting(s)) \in Nat
      BY ThreadsFinite, FS_Subset, FS_CardinalityType DEF Counting
    <3>2. recvIo[s] \in Nat /\ sendIo[s] \in Nat
      BY <2>2, SessionAssumption DEF OtherTypes
    <3>3. pendingIO[s] = recvIo[s] + sendIo[s] + Cardinality(Counting(s))
      BY <2>1 DEF IInv, PendingIOCounts
    <3>4. QED
      BY <3>1, <3>2, <3>3
  <2>4. pendingIO \in [Sessions -> Nat]
    BY <2>1, <2>3 DEF IInv, TypeInv, ObjectTypes
  <2>5. QED
    BY <2>2, <2>4 DEF TypeOK
<1>2. QED
  BY <1>1, IInvInvariant, PTL

\* TryDestroySession deletes a Session only when the kernel holds no receive
\* and no send of it, and none can be started afterwards.
THEOREM KernelIsSafe == Spec => []KernelSafe
<1>1. IInv => KernelSafe
  BY SessionAssumption
  DEF IInv, TypeInv, KernelTypes, NothingHeld, KernelSafe
<1>2. QED
  BY <1>1, IInvInvariant, PTL

=============================================================================
