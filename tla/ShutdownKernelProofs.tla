------------------------ MODULE ShutdownKernelProofs ------------------------
(***************************************************************************)
(* Proofs about Shutdown, for any number of sessions, workers and console  *)
(* events: every variable keeps its type, the kernel never holds a buffer  *)
(* of a deleted session, and the life cycle of SessionLife is implemented, *)
(* while the broadcast sends to sessions and closes them behind the backs  *)
(* of the workers and the accept thread.                                   *)
(*                                                                         *)
(* The argument is that of SessionProofs with the handlers among the       *)
(* threads that count I/O: pendingIO is exact (StopCounts), a session is   *)
(* cleaned up and claimed only after its socket was closed (ClosedFirst),  *)
(* and one worker claims it, after the cleanup (Releasing).                *)
(***************************************************************************)
EXTENDS ShutdownProofs

USE DEF objVars, kernelVars, gameVars, threadVars, stopVars, butState, butPendingIO,
        butRecvPosted

-----------------------------------------------------------------------------
(* The inductive invariant.                                                *)

\* pendingIO counts the kernel's I/O and that in the hands of any thread.
StopCounting(s) == {t \in AllThreads : Counted(t, s)}

StopCounts ==
  \A s \in Sessions :
    pendingIO[s] = recvIo[s] + sendIo[s] + Cardinality(StopCounting(s))

\* Past these points a session's socket is closed.
ClosedFirst ==
  /\ \A t \in AllThreads : pc[t] \in ShutLabels => Shut(cur[t])
  /\ \A s \in Sessions :
       closeIssued[s] \/ Disconnected(s) \/ s \in Reported \/ mem[s] = "freed" => Shut(s)
  /\ \A s \in Sessions : mem[s] = "unborn" => ~sockOpen[s]

\* A worker about to delete a session knows that the kernel holds nothing.
HeldByNone ==
  /\ \A t \in AllThreads :
       pc[t] \in ClaimLabels => recvIo[cur[t]] = 0 /\ sendIo[cur[t]] = 0
  /\ \A s \in Sessions : mem[s] # "live" => recvIo[s] = 0 /\ sendIo[s] = 0

KInv == StopCounts /\ ClosedFirst /\ HeldByNone

DeleteLabels == {"td_remove", "td_delete"}
LateLabels   == {"td_count"} \cup ClaimLabels

\* The game retires a session once, workers delete it after that, and one of
\* them does.
Releasing ==
  /\ task = "disconnect" /\ pc[GameThread] # "gm_post" => ~gameCleanupDone[subject]
  /\ \A t \in AllThreads : pc[t] \in LateLabels => gameCleanupDone[cur[t]]
  /\ \A t \in AllThreads :
       pc[t] \in DeleteLabels => destroying[cur[t]] /\ mem[cur[t]] = "live"
  /\ \A t, u \in AllThreads :
       pc[t] \in DeleteLabels /\ pc[u] \in DeleteLabels /\ cur[t] = cur[u] => t = u
  /\ \A s \in Sessions : mem[s] = "freed" => destroying[s] /\ gameCleanupDone[s]

-----------------------------------------------------------------------------
(* Steps of one thread that keep it.                                       *)

\* The step moves I/O between the kernel, the thread's hands and the counter.
Balanced(t) ==
  \A s \in Sessions :
    (pendingIO'[s] - recvIo'[s]) - sendIo'[s] - One(Counted(t, s)')
      = (pendingIO[s] - recvIo[s]) - sendIo[s] - One(Counted(t, s))

\* The game thread, if it is t, takes up a report or leaves the disconnect.
Retires(t) ==
  /\ \/ UNCHANGED <<task, subject>>
     \/ task' # "disconnect"
     \/ subject' \in Reported /\ pc'[GameThread] # "gm_post"
  /\ pc[t] = "gm_post" => task' # "disconnect"

\* Thread t creates, closes and deletes nothing, no I/O of a closed session comes
\* back, and it brings along what its new label says of its session.
Lasting(t) ==
  /\ UNCHANGED <<mem, sockOpen, closeIssued>>
  /\ \A s \in Sessions :
       ~sockOpen[s] /\ recvIo[s] = 0 /\ sendIo[s] = 0 => recvIo'[s] = 0 /\ sendIo'[s] = 0
  /\ Balanced(t)
  /\ pc'[t] \in ShutLabels => Shut(cur'[t])
  /\ pc'[t] \in ClaimLabels => recvIo'[cur'[t]] = 0 /\ sendIo'[cur'[t]] = 0

\* The mark of the cleanup stays with what relies on it.
Keeping(t) ==
  /\ Lasting(t) /\ Retires(t) /\ gameCleanupDone' = gameCleanupDone
  /\ pc'[t] \in LateLabels => gameCleanupDone[cur'[t]]

\* It reports no session but one that it has closed.
Reports(t) ==
  \A s \in Sessions : s \in Reported' \/ Disconnected(s)' =>
    s \in Reported \/ Disconnected(s) \/ (pc[t] \in ShutLabels /\ cur[t] = s)

\* And it neither claims nor enters the deletion of a session.
Ordinary(t) ==
  /\ Elsewhere(t, pc'[t]) /\ Keeping(t) /\ destroying' = destroying
  /\ pc'[t] \in DeleteLabels => pc[t] \in DeleteLabels /\ cur'[t] = cur[t]

\* There are finitely many threads.
LEMMA AllThreadsFinite == IsFiniteSet(AllThreads)
<1>1. IsFiniteSet(Threads \cup Handlers)
  BY ThreadsFinite, ShutdownAssumption, FS_Union
<1>2. AllThreads = (Threads \cup Handlers) \cup {Main}
  BY DEF AllThreads
<1>3. QED
  BY <1>1, <1>2, FS_AddElement

\* So those that count an I/O of a session can be counted.
LEMMA StopCountingType ==
  ASSUME NEW s
  PROVE  Cardinality(StopCounting(s)) \in Nat
BY AllThreadsFinite, FS_Subset, FS_CardinalityType DEF StopCounting

\* When one thread moves, the number of counting threads changes by that one.
LEMMA StopCountingChange ==
  ASSUME AllControl, NEW t \in AllThreads, NEW l, Elsewhere(t, l), NEW s \in Sessions
  PROVE  /\ Cardinality(StopCounting(s))' \in Nat
         /\ Cardinality(StopCounting(s))' - One(Counted(t, s)')
              = Cardinality(StopCounting(s)) - One(Counted(t, s))
<1> DEFINE A == StopCounting(s)
           B == {u \in AllThreads : cur'[u] = s /\ pc'[u] \in CountedLabels}
<1>1. IsFiniteSet(A) /\ IsFiniteSet(B)
  BY AllThreadsFinite, FS_Subset DEF StopCounting
<1>2. B = StopCounting(s)'
  BY DEF StopCounting, Counted
<1>3. A \ {t} = B \ {t}
  BY DEF StopCounting, Counted, Elsewhere, AllControl
<1>4. t \in A <=> Counted(t, s)
  BY DEF StopCounting
<1>5. t \in B <=> Counted(t, s)'
  BY DEF Counted
<1>6. Cardinality(A) \in Nat /\ Cardinality(B) \in Nat
  BY <1>1, FS_CardinalityType
<1>7. /\ Cardinality(A \ {t}) = IF t \in A THEN Cardinality(A) - 1 ELSE Cardinality(A)
      /\ Cardinality(B \ {t}) = IF t \in B THEN Cardinality(B) - 1 ELSE Cardinality(B)
  BY <1>1, FS_RemoveElement
<1>8. Cardinality(B) - One(t \in B) = Cardinality(A) - One(t \in A)
  <2> HIDE DEF A, B
  <2>1. QED
    BY <1>3, <1>6, <1>7 DEF One
<1>9. One(t \in A) = One(Counted(t, s)) /\ One(t \in B) = One(Counted(t, s)')
  BY <1>4, <1>5 DEF One
<1>10. Cardinality(StopCounting(s))' = Cardinality(B)
  BY <1>2
<1>11. QED
  BY <1>6, <1>8, <1>9, <1>10

\* The counter stays exact if the step is balanced.
LEMMA StopCountsKept ==
  ASSUME StopTypes, StopTypes', StopCounts, NEW t \in AllThreads, NEW l, Elsewhere(t, l),
         Balanced(t)
  PROVE  StopCounts'
<1>1. SUFFICES ASSUME NEW s \in Sessions
               PROVE  pendingIO'[s] = recvIo'[s] + sendIo'[s] + Cardinality(StopCounting(s))'
  BY DEF StopCounts
<1>2. /\ Cardinality(StopCounting(s))' \in Nat
      /\ Cardinality(StopCounting(s))' - One(Counted(t, s)')
           = Cardinality(StopCounting(s)) - One(Counted(t, s))
  BY StopCountingChange DEF StopTypes
<1>3. pendingIO[s] = recvIo[s] + sendIo[s] + Cardinality(StopCounting(s))
  BY DEF StopCounts
<1>4. /\ pendingIO[s] \in Int /\ recvIo[s] \in Int /\ sendIo[s] \in Int
      /\ pendingIO'[s] \in Int /\ recvIo'[s] \in Int /\ sendIo'[s] \in Int
  BY WhoIsWho DEF StopTypes, ObjectTypes, KernelTypes
<1>5. One(Counted(t, s)') \in Int /\ One(Counted(t, s)) \in Int
  BY DEF One
<1>6. (pendingIO'[s] - recvIo'[s]) - sendIo'[s] - One(Counted(t, s)')
        = (pendingIO[s] - recvIo[s]) - sendIo[s] - One(Counted(t, s))
  BY DEF Balanced
<1>7. Cardinality(StopCounting(s)) \in Nat
  BY StopCountingType
<1> DEFINE a == One(Counted(t, s)')
           b == One(Counted(t, s))
           m == Cardinality(StopCounting(s))'
           n == Cardinality(StopCounting(s))
<1> HIDE DEF a, b, m, n
<1>8. /\ a \in Int /\ b \in Int /\ m \in Int /\ n \in Int
      /\ m - a = n - b /\ pendingIO[s] = recvIo[s] + sendIo[s] + n
      /\ (pendingIO'[s] - recvIo'[s]) - sendIo'[s] - a
           = (pendingIO[s] - recvIo[s]) - sendIo[s] - b
  BY <1>2, <1>3, <1>5, <1>6, <1>7 DEF a, b, m, n
<1>9. pendingIO'[s] = recvIo'[s] + sendIo'[s] + m
  BY <1>4, <1>8
<1>10. QED
  BY <1>9 DEF m

\* The threads but the one that moves stay, with their sessions.
LEMMA OthersStay ==
  ASSUME AllControl, NEW t \in AllThreads, NEW l, Elsewhere(t, l)
  PROVE  /\ \A u \in AllThreads : u # t => pc'[u] = pc[u] /\ cur'[u] = cur[u]
         /\ pc'[t] = l
         /\ \A u \in AllThreads : pc[u] \in ShutLabels \cup LateLabels \cup DeleteLabels
              => cur[u] \in Sessions
BY DEF AllControl, Elsewhere, Carefree, HandlerLabels, ShutLabels, LateLabels, ClaimLabels,
       DeleteLabels

\* Such a step keeps the invariant.
LEMMA LastingKeeps ==
  ASSUME StopTypes, StopTypes', KInv, NEW t \in AllThreads, NEW l, Elsewhere(t, l),
         Lasting(t), Reports(t)
  PROVE  KInv'
<1>1. /\ \A u \in AllThreads : u # t => pc'[u] = pc[u] /\ cur'[u] = cur[u]
      /\ \A u \in AllThreads : pc[u] \in ShutLabels => cur[u] \in Sessions
  BY OthersStay DEF StopTypes
<1>2. UNCHANGED <<mem, sockOpen, closeIssued>>
  BY DEF Lasting
<1>3. ASSUME NEW s PROVE Shut(s)' <=> Shut(s)
  BY <1>2 DEF Shut
<1>4. StopCounts'
  BY StopCountsKept DEF KInv, Lasting
<1>5. ClosedFirst'
  <2>1. ASSUME NEW u \in AllThreads, pc'[u] \in ShutLabels PROVE Shut(cur[u])'
    <3>1. CASE u = t
      BY <1>2, <2>1, <3>1 DEF Lasting, Shut
    <3>2. CASE u # t
      BY <1>1, <1>2, <2>1, <3>2 DEF KInv, ClosedFirst, Shut
    <3>3. QED
      BY <3>1, <3>2
  <2>2. ASSUME NEW s \in Sessions,
               closeIssued'[s] \/ Disconnected(s)' \/ s \in Reported' \/ mem'[s] = "freed"
        PROVE  Shut(s)'
    <3>1. Shut(s)
      BY <1>2, <2>2 DEF KInv, ClosedFirst, Reports
    <3>2. QED
      BY <1>3, <3>1
  <2>3. \A s \in Sessions : mem'[s] = "unborn" => ~sockOpen'[s]
    BY <1>2 DEF KInv, ClosedFirst
  <2>4. QED
    BY <2>1, <2>2, <2>3 DEF ClosedFirst
<1>6. HeldByNone'
  <2>1. ASSUME NEW u \in AllThreads, pc'[u] \in ClaimLabels
        PROVE  recvIo'[cur'[u]] = 0 /\ sendIo'[cur'[u]] = 0
    <3>1. CASE u = t
      BY <2>1, <3>1 DEF Lasting
    <3>2. CASE u # t
      <4>1. /\ pc[u] \in ClaimLabels /\ pc[u] \in ShutLabels
            /\ cur[u] \in Sessions /\ cur'[u] = cur[u]
        BY <1>1, <2>1, <3>2 DEF ShutLabels
      <4>2. ~sockOpen[cur[u]] /\ recvIo[cur[u]] = 0 /\ sendIo[cur[u]] = 0
        BY <4>1 DEF KInv, ClosedFirst, HeldByNone, Shut
      <4>3. QED
        BY <4>1, <4>2 DEF Lasting
    <3>3. QED
      BY <3>1, <3>2
  <2>2. ASSUME NEW s \in Sessions, mem'[s] # "live"
        PROVE  recvIo'[s] = 0 /\ sendIo'[s] = 0
    <3>1. recvIo[s] = 0 /\ sendIo[s] = 0 /\ mem[s] \in {"unborn", "freed"}
      BY <1>2, <2>2 DEF KInv, HeldByNone, StopTypes, ObjectTypes
    <3>2. ~sockOpen[s]
      BY <3>1 DEF KInv, ClosedFirst, Shut
    <3>3. QED
      BY <3>1, <3>2 DEF Lasting
  <2>3. QED
    BY <2>1, <2>2 DEF HeldByNone
<1>7. QED
  BY <1>4, <1>5, <1>6 DEF KInv

\* And it leaves the release where it is, if it does not enter the deletion.
LEMMA ReleasingKept ==
  ASSUME StopTypes, StopTypes', Once, Releasing, NEW t \in AllThreads, Ordinary(t)
  PROVE  Releasing'
<1>1. /\ \A u \in AllThreads : u # t => pc'[u] = pc[u] /\ cur'[u] = cur[u]
      /\ pc'[t] \in DeleteLabels => pc[t] \in DeleteLabels /\ cur'[t] = cur[t]
  BY OthersStay DEF StopTypes, Ordinary
<1>2. /\ UNCHANGED <<mem, gameCleanupDone, destroying>> /\ Retires(t)
      /\ pc'[t] \in LateLabels => gameCleanupDone[cur'[t]]
  BY DEF Keeping, Lasting, Ordinary
<1>3. ASSUME task' = "disconnect", pc'[GameThread] # "gm_post"
      PROVE  ~gameCleanupDone'[subject']
  <2>1. CASE UNCHANGED <<task, subject>>
    <3>1. pc[GameThread] # "gm_post"
      BY <1>1, <1>2, <1>3, WhoIsWho DEF Retires
    <3>2. QED
      BY <1>2, <1>3, <2>1, <3>1 DEF Releasing
  <2>2. CASE subject' \in Reported
    BY <1>2, <2>2 DEF Once, Reported, Disconnected
  <2>3. QED
    BY <1>2, <1>3, <2>1, <2>2 DEF Retires
<1>4. \A u \in AllThreads : pc'[u] \in LateLabels => gameCleanupDone'[cur'[u]]
  BY <1>1, <1>2 DEF Releasing
<1>5. \A u \in AllThreads : pc'[u] \in DeleteLabels => pc[u] \in DeleteLabels /\ cur'[u] = cur[u]
  BY <1>1
<1>6. /\ \A u \in AllThreads : pc'[u] \in DeleteLabels =>
           destroying'[cur'[u]] /\ mem'[cur'[u]] = "live"
      /\ \A u, v \in AllThreads :
           pc'[u] \in DeleteLabels /\ pc'[v] \in DeleteLabels /\ cur'[u] = cur'[v] => u = v
      /\ \A s \in Sessions : mem'[s] = "freed" => destroying'[s] /\ gameCleanupDone'[s]
  BY <1>2, <1>5 DEF Releasing
<1>7. QED
  BY <1>3, <1>4, <1>6 DEF Releasing

-----------------------------------------------------------------------------
(* How a thread's step treats I/O.                                         *)

\* What the end of a session changes.
endVars == <<mem, destroying, sockOpen, gameCleanupDone, closeIssued, task, subject>>

USE DEF endVars

\* A step that has nothing to do with I/O, nor with the end of a session.
LEMMA Idling ==
  ASSUME StopTypes, NEW t \in AllThreads, NEW l, Elsewhere(t, l),
         l \notin CountedLabels \cup ShutLabels,
         pc[t] \notin CountedLabels \cup {"gm_post"},
         UNCHANGED <<endVars, pendingIO, recvIo, sendIo>>
  PROVE  Ordinary(t)
<1>1. pc'[t] = l
  BY OthersStay DEF StopTypes
<1>2. Balanced(t)
  BY <1>1 DEF Balanced, Counted
<1>3. QED
  BY <1>1, <1>2
  DEF Ordinary, Keeping, Lasting, Retires, DeleteLabels, ShutLabels, LateLabels, ClaimLabels

\* An I/O is counted before it is started,
LEMMA CountingIO ==
  ASSUME StopTypes, NEW t \in AllThreads, NEW l \in CountedLabels, Elsewhere(t, l),
         pc[t] \notin CountedLabels \cup {"gm_post"}, cur[t] \in Sessions, cur'[t] = cur[t],
         CountIO(cur[t]),
         UNCHANGED <<endVars, recvIo, sendIo>>
  PROVE  Ordinary(t)
<1>1. pc'[t] = l /\ l \notin ShutLabels \cup ClaimLabels \cup LateLabels
  BY OthersStay DEF StopTypes, CountedLabels, ShutLabels, ClaimLabels, LateLabels
<1>2. Balanced(t)
  <2> SUFFICES ASSUME NEW s \in Sessions
               PROVE  (pendingIO'[s] - recvIo'[s]) - sendIo'[s] - One(Counted(t, s)')
                        = (pendingIO[s] - recvIo[s]) - sendIo[s] - One(Counted(t, s))
    BY DEF Balanced
  <2>1. /\ pendingIO[s] \in Int /\ recvIo[s] \in Int /\ sendIo[s] \in Int
        /\ pendingIO'[s] = IF s = cur[t] THEN pendingIO[s] + 1 ELSE pendingIO[s]
    BY WhoIsWho DEF StopTypes, ObjectTypes, KernelTypes, CountIO
  <2>2. One(Counted(t, s)) = 0 /\ One(Counted(t, s)') = IF s = cur[t] THEN 1 ELSE 0
    BY <1>1 DEF One, Counted
  <2>3. QED
    BY <2>1, <2>2
<1>3. QED
  BY <1>1, <1>2 DEF Ordinary, Keeping, Lasting, Retires, DeleteLabels, ClaimLabels

\* and given up when it was refused or is complete.
LEMMA UncountingIO ==
  ASSUME StopTypes, NEW t \in AllThreads, NEW l, Elsewhere(t, l),
         l \notin CountedLabels \cup ShutLabels,
         pc[t] \in CountedLabels, cur[t] \in Sessions, UncountIO(cur[t]),
         UNCHANGED <<endVars, recvIo, sendIo>>
  PROVE  Ordinary(t)
<1>1. pc'[t] = l /\ l \notin ClaimLabels \cup LateLabels /\ pc[t] # "gm_post"
  BY OthersStay DEF StopTypes, CountedLabels, ShutLabels, LateLabels
<1>2. Balanced(t)
  <2> SUFFICES ASSUME NEW s \in Sessions
               PROVE  (pendingIO'[s] - recvIo'[s]) - sendIo'[s] - One(Counted(t, s)')
                        = (pendingIO[s] - recvIo[s]) - sendIo[s] - One(Counted(t, s))
    BY DEF Balanced
  <2>1. /\ pendingIO[s] \in Int /\ recvIo[s] \in Int /\ sendIo[s] \in Int
        /\ pendingIO'[s] = IF s = cur[t] THEN pendingIO[s] - 1 ELSE pendingIO[s]
    BY WhoIsWho DEF StopTypes, ObjectTypes, KernelTypes, UncountIO
  <2>2. One(Counted(t, s)') = 0 /\ One(Counted(t, s)) = IF s = cur[t] THEN 1 ELSE 0
    BY <1>1 DEF One, Counted
  <2>3. QED
    BY <2>1, <2>2
<1>3. QED
  BY <1>1, <1>2 DEF Ordinary, Keeping, Lasting, Retires, DeleteLabels, ClaimLabels

\* In between it stays in the thread's hands,
LEMMA RefusedIO ==
  ASSUME StopTypes, NEW t \in AllThreads, NEW l \in CountedLabels, Elsewhere(t, l),
         pc[t] \in CountedLabels, cur'[t] = cur[t],
         UNCHANGED <<endVars, pendingIO, recvIo, sendIo>>
  PROVE  Ordinary(t)
<1>1. /\ pc'[t] = l /\ l \notin ShutLabels \cup ClaimLabels \cup LateLabels
      /\ pc[t] # "gm_post"
  BY OthersStay DEF StopTypes, CountedLabels, ShutLabels, ClaimLabels, LateLabels
<1>2. Balanced(t)
  BY <1>1 DEF Balanced, Counted
<1>3. QED
  BY <1>1, <1>2 DEF Ordinary, Keeping, Lasting, Retires, DeleteLabels, ClaimLabels

\* or is handed to the kernel, if the socket is open,
LEMMA StartingIO ==
  ASSUME StopTypes, NEW t \in AllThreads, NEW l, Elsewhere(t, l),
         l \notin CountedLabels \cup ShutLabels,
         pc[t] \in CountedLabels, cur[t] \in Sessions, sockOpen[cur[t]],
         \/ recvIo' = [recvIo EXCEPT ![cur[t]] = @ + 1] /\ sendIo' = sendIo
         \/ sendIo' = [sendIo EXCEPT ![cur[t]] = @ + 1] /\ recvIo' = recvIo,
         UNCHANGED <<endVars, pendingIO>>
  PROVE  Ordinary(t)
<1>1. pc'[t] = l /\ l \notin ClaimLabels \cup LateLabels /\ pc[t] # "gm_post"
  BY OthersStay DEF StopTypes, CountedLabels, ShutLabels, LateLabels
<1>2. \A s \in Sessions :
        /\ pendingIO[s] \in Int /\ recvIo[s] \in Int /\ sendIo[s] \in Int
        /\ s # cur[t] => recvIo'[s] = recvIo[s] /\ sendIo'[s] = sendIo[s]
        /\ s = cur[t] => \/ recvIo'[s] = recvIo[s] + 1 /\ sendIo'[s] = sendIo[s]
                         \/ recvIo'[s] = recvIo[s] /\ sendIo'[s] = sendIo[s] + 1
  BY WhoIsWho DEF StopTypes, ObjectTypes, KernelTypes
<1>3. Balanced(t)
  <2> SUFFICES ASSUME NEW s \in Sessions
               PROVE  (pendingIO'[s] - recvIo'[s]) - sendIo'[s] - One(Counted(t, s)')
                        = (pendingIO[s] - recvIo[s]) - sendIo[s] - One(Counted(t, s))
    BY DEF Balanced
  <2>1. One(Counted(t, s)') = 0 /\ One(Counted(t, s)) = IF s = cur[t] THEN 1 ELSE 0
    BY <1>1 DEF One, Counted
  <2>2. QED
    BY <1>2, <2>1
<1>4. QED
  BY <1>1, <1>2, <1>3 DEF Ordinary, Keeping, Lasting, Retires, DeleteLabels, ClaimLabels

\* from which a worker takes it with the completion.
LEMMA TakingIO ==
  ASSUME StopTypes, NEW w \in Workers, NEW s \in Sessions, TakeRecv(w, s) \/ TakeSend(w, s)
  PROVE  Ordinary(w)
<1>1. w \in AllThreads /\ AllControl /\ pc[w] = "idle"
  BY WhoIsWho DEF StopTypes, TakeRecv, TakeSend
<1>2. pc'[w] \in {"rx_flag", "tx_count"} /\ cur'[w] = s
  BY <1>1 DEF TakeRecv, TakeSend, Start, AllControl
<1>3. /\ pc'[w] \in CountedLabels /\ pc[w] \notin CountedLabels /\ pc[w] # "gm_post"
      /\ pc'[w] \notin ShutLabels \cup ClaimLabels \cup LateLabels
  BY <1>1, <1>2 DEF CountedLabels, ShutLabels, ClaimLabels, LateLabels
<1>4. UNCHANGED <<endVars, pendingIO>>
  BY DEF TakeRecv, TakeSend
<1>5. \A q \in Sessions :
        /\ pendingIO[q] \in Int /\ recvIo[q] \in Nat /\ sendIo[q] \in Nat
        /\ q # s => recvIo'[q] = recvIo[q] /\ sendIo'[q] = sendIo[q]
        /\ q = s => \/ recvIo[q] > 0 /\ recvIo'[q] = recvIo[q] - 1 /\ sendIo'[q] = sendIo[q]
                    \/ sendIo[q] > 0 /\ recvIo'[q] = recvIo[q] /\ sendIo'[q] = sendIo[q] - 1
  BY WhoIsWho DEF StopTypes, ObjectTypes, KernelTypes, TakeRecv, TakeSend
<1>6. Balanced(w)
  <2> SUFFICES ASSUME NEW q \in Sessions
               PROVE  (pendingIO'[q] - recvIo'[q]) - sendIo'[q] - One(Counted(w, q)')
                        = (pendingIO[q] - recvIo[q]) - sendIo[q] - One(Counted(w, q))
    BY DEF Balanced
  <2>1. One(Counted(w, q)) = 0 /\ One(Counted(w, q)') = IF q = s THEN 1 ELSE 0
    BY <1>2, <1>3 DEF One, Counted
  <2>2. QED
    BY <1>4, <1>5, <2>1
<1>7. Elsewhere(w, pc'[w])
  <2>1. PICK l \in {"rx_flag", "tx_count"} : Start(w, l, s)
    BY DEF TakeRecv, TakeSend
  <2>2. Elsewhere(w, l)
    BY <1>1, <2>1, GoElsewhere
  <2>3. QED
    BY <1>1, <2>2, OthersStay
<1>8. QED
  BY <1>3, <1>4, <1>5, <1>6, <1>7 DEF Ordinary, Keeping, Lasting, Retires, DeleteLabels, ClaimLabels

-----------------------------------------------------------------------------
(* The functions of the code, for any thread that runs them.               *)

\* The labels at which a thread has no I/O in hand and relies on no close.
LEMMA LooseLabels ==
  /\ ({"idle", "pr_state", "pr_claim", "pr_count", "sp_state", "ps_state", "ps_count", "rx_state",
       "rx_parse", "rx_push", "rx_queue", "td_state", "td_clean", "kick", "g_loop", "gm_mark",
       "gm_post", "ac_accept", "ac_add", "ac_job", "ac_push", "rc_claim", "rc_close", "exited"}
        \cup HandlerLabels \cup ReturnLabels)
       \cap (CountedLabels \cup ShutLabels) = {}
  /\ {"pr_call", "pr_release", "pr_uncount", "ps_call", "ps_uncount", "rx_flag", "rx_count",
      "tx_count"} \subseteq CountedLabels
  /\ \A t : {AfterSend(t), AfterRecv(t), AfterSendComplete} \cap (CountedLabels \cup ShutLabels) = {}
  /\ ClaimLabels \subseteq LateLabels /\ LateLabels \subseteq ShutLabels
  /\ ShutLabels \cap CountedLabels = {} /\ "gm_post" \notin CountedLabels
BY DEF HandlerLabels, ReturnLabels, CountedLabels, ShutLabels, ClaimLabels, LateLabels,
       AfterSend, AfterRecv, AfterSendComplete

\* A thread that goes on within a function, or calls or leaves RequestClose.
LEMMA GoingIdle ==
  ASSUME StopTypes, NEW t \in AllThreads, NEW l,
         \/ Goto(t, l) \/ (\E s : Start(t, l, s))
         \/ (l = "rc_claim" /\ \E k : CallRequestClose(t, k))
         \/ (l = ret[t] /\ ReturnFromClose(t)),
         l \notin CountedLabels \cup ShutLabels, pc[t] \notin CountedLabels \cup {"gm_post"},
         UNCHANGED <<endVars, pendingIO, recvIo, sendIo>>
  PROVE  Ordinary(t)
<1>1. Elsewhere(t, l)
  BY GoElsewhere DEF StopTypes
<1>2. QED
  BY <1>1, Idling

\* A thread with an I/O in hand goes on with it, or gives it up.
LEMMA GoingCounted ==
  ASSUME StopTypes, NEW t \in AllThreads, NEW l,
         Goto(t, l) \/ (l = "rc_claim" /\ \E k : CallRequestClose(t, k)),
         pc[t] \in CountedLabels, UNCHANGED <<endVars, recvIo, sendIo>>,
         \/ l \in CountedLabels /\ pendingIO' = pendingIO
         \/ l \notin CountedLabels \cup ShutLabels /\ UncountIO(cur[t])
  PROVE  Ordinary(t)
<1>1. Elsewhere(t, l)
  BY GoElsewhere DEF StopTypes
<1>2. cur[t] \in Sessions
  BY DEF StopTypes, AllControl, Carefree, HandlerLabels, CountedLabels
<1>3. CASE l \in CountedLabels /\ pendingIO' = pendingIO
  <2>1. cur'[t] = cur[t]
    BY <1>3 DEF Goto, CallRequestClose, Forgets, CountedLabels
  <2>2. QED
    BY <1>1, <1>3, <2>1, RefusedIO
<1>4. CASE l \notin CountedLabels \cup ShutLabels /\ UncountIO(cur[t])
  BY <1>1, <1>2, <1>4, UncountingIO
<1>5. QED
  BY <1>3, <1>4

\* A thread counts an I/O.
LEMMA GoingToCount ==
  ASSUME StopTypes, NEW t \in AllThreads, NEW l \in {"pr_call", "ps_call"}, Goto(t, l),
         cur[t] \in Sessions, pc[t] \notin CountedLabels \cup {"gm_post"}, CountIO(cur[t]),
         UNCHANGED <<endVars, recvIo, sendIo>>
  PROVE  Ordinary(t)
<1>1. Elsewhere(t, l)
  BY GoElsewhere DEF StopTypes
<1>2. cur'[t] = cur[t] /\ l \in CountedLabels
  BY DEF Goto, Forgets, CountedLabels
<1>3. QED
  BY <1>1, <1>2, CountingIO

\* Session::PostRecv counts a receive before it posts it.
LEMMA PostRecvOrdinary ==
  ASSUME StopTypes, NEW t \in AllThreads, PostRecv(t)
  PROVE  Ordinary(t)
<1> USE LooseLabels
<1>1. cur[t] \in Sessions
  BY DEF PostRecv, PostRecvCheck, PostRecvClaim, PostRecvCount, PostRecvCall, PostRecvRelease,
         PostRecvUncount, StopTypes, AllControl, Carefree, HandlerLabels
<1>2. CASE PostRecvCheck(t) \/ PostRecvClaim(t)
  <2>1. \E l \in {"pr_claim", "pr_count", AfterRecv(t)} : Goto(t, l)
    BY <1>2 DEF PostRecvCheck, PostRecvClaim
  <2>2. UNCHANGED <<endVars, pendingIO, recvIo, sendIo>> /\ pc[t] \in {"pr_state", "pr_claim"}
    BY <1>2 DEF PostRecvCheck, PostRecvClaim
  <2>3. QED
    BY <2>1, <2>2, GoingIdle
<1>3. CASE PostRecvCount(t)
  BY <1>1, <1>3, GoingToCount DEF PostRecvCount
<1>4. CASE PostRecvCall(t)
  <2>1. CASE sockOpen[cur[t]] /\ recvIo' = [recvIo EXCEPT ![cur[t]] = @ + 1]
                /\ Goto(t, AfterRecv(t))
    <3>1. Elsewhere(t, AfterRecv(t)) /\ pc[t] \in CountedLabels
      BY <1>4, <2>1, GoElsewhere DEF PostRecvCall, StopTypes
    <3>2. UNCHANGED <<endVars, pendingIO, sendIo>>
      BY <1>4 DEF PostRecvCall
    <3>3. QED
      BY <1>1, <2>1, <3>1, <3>2, StartingIO
  <2>2. CASE recvIo' = recvIo /\ Goto(t, "pr_release")
    BY <1>4, <2>2, GoingCounted DEF PostRecvCall
  <2>3. QED
    BY <1>4, <2>1, <2>2 DEF PostRecvCall
<1>5. CASE PostRecvRelease(t)
  BY <1>5, GoingCounted DEF PostRecvRelease
<1>6. CASE PostRecvUncount(t)
  BY <1>6, GoingCounted DEF PostRecvUncount
<1>7. QED
  BY <1>2, <1>3, <1>4, <1>5, <1>6 DEF PostRecv

\* Session::PostSend counts a send; one that follows the close is refused.
LEMMA PostSendOrdinary ==
  ASSUME StopTypes, NEW t \in AllThreads,
         PostSendCheck(t) \/ PostSendCount(t) \/ PostSendCall(t) \/ PostSendUncount(t)
  PROVE  Ordinary(t)
<1> USE LooseLabels
<1>1. cur[t] \in Sessions
  BY DEF PostSendCheck, PostSendCount, PostSendCall, PostSendUncount, StopTypes, AllControl,
         Carefree, HandlerLabels
<1>2. CASE PostSendCheck(t)
  <2>1. \E l \in {"ps_count", AfterSend(t)} : Goto(t, l)
    BY <1>2 DEF PostSendCheck
  <2>2. QED
    BY <1>2, <2>1, GoingIdle DEF PostSendCheck
<1>3. CASE PostSendCount(t)
  BY <1>1, <1>3, GoingToCount DEF PostSendCount
<1>4. CASE PostSendCall(t)
  <2>1. CASE sockOpen[cur[t]] /\ sendIo' = [sendIo EXCEPT ![cur[t]] = @ + 1]
                /\ Goto(t, AfterSend(t))
    <3>1. Elsewhere(t, AfterSend(t)) /\ pc[t] \in CountedLabels
      BY <1>4, <2>1, GoElsewhere DEF PostSendCall, StopTypes
    <3>2. UNCHANGED <<endVars, pendingIO, recvIo>>
      BY <1>4 DEF PostSendCall
    <3>3. QED
      BY <1>1, <2>1, <3>1, <3>2, StartingIO
  <2>2. CASE sendIo' = sendIo /\ Goto(t, "ps_uncount")
    BY <1>4, <2>2, GoingCounted DEF PostSendCall
  <2>3. QED
    BY <1>4, <2>1, <2>2 DEF PostSendCall
<1>5. CASE PostSendUncount(t)
  BY <1>5, GoingCounted DEF PostSendUncount
<1>6. QED
  BY <1>2, <1>3, <1>4, <1>5

\* Session::OnRecvComplete, ProcessPacket and OnSendComplete give up the I/O
\* that is complete, and start none.
LEMMA CompletionOrdinary ==
  ASSUME StopTypes, NEW t \in AllThreads,
         \/ RecvCompleteFlag(t) \/ RecvCompleteCount(t) \/ RecvCompleteCheck(t)
         \/ ParseDone(t) \/ ParseFail(t) \/ Kick(t) \/ StopSendCheck(t)
         \/ StopParsePacket(t) \/ PacketJobCheck(t) \/ PacketJobPush(t) \/ OnSendComplete(t)
  PROVE  Ordinary(t)
<1> USE LooseLabels
<1>1. CASE RecvCompleteFlag(t)
  BY <1>1, GoingCounted DEF RecvCompleteFlag
<1>2. CASE RecvCompleteCount(t) \/ OnSendComplete(t)
  <2>1. \/ \E l \in {"rx_state", "td_state"} : Goto(t, l)
        \/ \E k : CallRequestClose(t, k)
    BY <1>2 DEF RecvCompleteCount, OnSendComplete, AfterSendComplete
  <2>2. UNCHANGED <<endVars, recvIo, sendIo>> /\ UncountIO(cur[t]) /\ pc[t] \in CountedLabels
    BY <1>2 DEF RecvCompleteCount, OnSendComplete
  <2>3. QED
    BY <2>1, <2>2, GoingCounted
<1>3. CASE RecvCompleteCheck(t) \/ ParseDone(t) \/ ParseFail(t) \/ Kick(t) \/ PacketJobCheck(t)
            \/ PacketJobPush(t)
  <2>1. \/ \E l \in {"rx_parse", "td_state", "pr_state", "rx_queue"} : Goto(t, l)
        \/ \E k : CallRequestClose(t, k)
    BY <1>3 DEF RecvCompleteCheck, ParseDone, ParseFail, Kick, PacketJobCheck, PacketJobPush
  <2>2. UNCHANGED <<endVars, pendingIO, recvIo, sendIo>>
    BY <1>3 DEF RecvCompleteCheck, ParseDone, ParseFail, Kick, PacketJobCheck, PacketJobPush
  <2>3. pc[t] \in {"rx_state", "rx_parse", "kick", "rx_push", "rx_queue"}
    BY <1>3 DEF RecvCompleteCheck, ParseDone, ParseFail, Kick, PacketJobCheck, PacketJobPush
  <2>4. QED
    BY <2>1, <2>2, <2>3, GoingIdle
<1>4. CASE StopSendCheck(t)
  <2>1. \E l \in {"ps_state", AfterSend(t)} : Goto(t, l)
    BY <1>4 DEF StopSendCheck, SendPacketCheck
  <2>2. UNCHANGED <<endVars, pendingIO, recvIo, sendIo>> /\ pc[t] = "sp_state"
    BY <1>4 DEF StopSendCheck, SendPacketCheck
  <2>3. QED
    BY <2>1, <2>2, GoingIdle
<1>5. CASE StopParsePacket(t)
  <2>1. UNCHANGED <<endVars, pendingIO, recvIo, sendIo>> /\ pc[t] = "rx_parse"
    BY <1>5 DEF StopParsePacket, ParsePacket
  <2>2. CASE UNCHANGED threadVars
    <3>1. Elsewhere(t, "rx_parse")
      BY <2>1, <2>2 DEF Elsewhere, StopTypes, AllControl
    <3>2. QED
      BY <2>1, <3>1, Idling
  <2>3. CASE \E l \in {"rx_parse", "rx_push", "sp_state"} : Goto(t, l)
    BY <2>1, <2>3, GoingIdle
  <2>4. QED
    BY <1>5, <2>2, <2>3 DEF StopParsePacket, ParsePacket
<1>6. QED
  BY <1>1, <1>2, <1>3, <1>4, <1>5

\* A thread goes on towards the end of a session whose socket is closed.
LEMMA GoingShut ==
  ASSUME StopTypes, NEW t \in AllThreads, NEW l \in ShutLabels, Goto(t, l),
         pc[t] \notin CountedLabels \cup {"gm_post"}, Shut(cur[t]),
         l \in ClaimLabels => recvIo[cur[t]] = 0 /\ sendIo[cur[t]] = 0,
         l \in LateLabels => gameCleanupDone[cur[t]],
         UNCHANGED <<mem, sockOpen, gameCleanupDone, closeIssued, task, subject, pendingIO,
                     recvIo, sendIo>>
  PROVE  Elsewhere(t, l) /\ pc'[t] = l /\ cur' = cur /\ Keeping(t)
<1> USE LooseLabels
<1>1. Elsewhere(t, l)
  BY GoElsewhere DEF StopTypes
<1>2. pc'[t] = l
  BY <1>1, OthersStay DEF StopTypes
<1>3. cur' = cur
  BY DEF Goto, Forgets, ShutLabels, ClaimLabels
<1>4. Balanced(t)
  BY <1>2 DEF Balanced, Counted
<1>5. Shut(cur'[t])
  BY <1>3
<1>6. QED
  BY <1>1, <1>2, <1>3, <1>4, <1>5 DEF Keeping, Lasting, Retires

\* Session::RequestClose but for the close itself.
LEMMA RequestCloseOrdinary ==
  ASSUME StopTypes, KInv, NEW t \in AllThreads,
         RequestCloseClaim(t) \/ CloseDone(t) \/ EnqueueDisconnectJob(t)
  PROVE  Ordinary(t)
<1> USE LooseLabels
<1>1. ret[t] \in ReturnLabels \cup {"h_next"} /\ "h_next" \in HandlerLabels
  BY DEF StopTypes, AllControl, HandlerLabels
<1>2. CASE RequestCloseClaim(t)
  <2>1. UNCHANGED <<endVars, pendingIO, recvIo, sendIo>> /\ pc[t] = "rc_claim"
    BY <1>2 DEF RequestCloseClaim
  <2>2. CASE Goto(t, "rc_close")
    BY <2>1, <2>2, GoingIdle
  <2>3. CASE ReturnFromClose(t)
    BY <1>1, <2>1, <2>3, GoingIdle DEF CountedLabels
  <2>4. QED
    BY <1>2, <2>2, <2>3 DEF RequestCloseClaim
<1>3. CASE CloseDone(t)
  <2>1. /\ UNCHANGED <<endVars, pendingIO, recvIo, sendIo>> /\ pc[t] = "rc_closed"
        /\ Goto(t, "rc_job")
    BY <1>3 DEF CloseDone
  <2>2. /\ Shut(cur[t]) /\ "rc_job" \in ShutLabels
        /\ "rc_job" \notin ClaimLabels \cup LateLabels \cup DeleteLabels
    BY <2>1 DEF KInv, ClosedFirst, ShutLabels, ClaimLabels, LateLabels, DeleteLabels
  <2>3. pc[t] \notin CountedLabels \cup {"gm_post"}
    BY <2>1 DEF CountedLabels
  <2>4. Elsewhere(t, "rc_job") /\ pc'[t] = "rc_job" /\ Keeping(t)
    BY <2>1, <2>2, <2>3, GoingShut
  <2>5. QED
    BY <2>1, <2>2, <2>4 DEF Ordinary
<1>4. CASE EnqueueDisconnectJob(t)
  <2>1. UNCHANGED <<endVars, pendingIO, recvIo, sendIo>> /\ pc[t] = "rc_job" /\ ReturnFromClose(t)
    BY <1>4 DEF EnqueueDisconnectJob
  <2>2. QED
    BY <1>1, <2>1, GoingIdle DEF CountedLabels
<1>5. QED
  BY <1>2, <1>3, <1>4

\* Nobody holds an I/O of a session whose pendingIO is zero.
LEMMA NothingPending ==
  ASSUME StopTypes, KInv, NEW s \in Sessions, pendingIO[s] = 0
  PROVE  recvIo[s] = 0 /\ sendIo[s] = 0
<1>1. recvIo[s] \in Nat /\ sendIo[s] \in Nat /\ Cardinality(StopCounting(s)) \in Nat
  BY WhoIsWho, StopCountingType DEF StopTypes, KernelTypes
<1>2. pendingIO[s] = recvIo[s] + sendIo[s] + Cardinality(StopCounting(s))
  BY DEF KInv, StopCounts
<1> DEFINE n == Cardinality(StopCounting(s))
<1> HIDE DEF n
<1>3. recvIo[s] \in Nat /\ sendIo[s] \in Nat /\ n \in Nat /\ 0 = recvIo[s] + sendIo[s] + n
  BY <1>1, <1>2 DEF n
<1>4. QED
  BY <1>3

\* TryDestroySession up to its claim, and the unregistering.
LEMMA DestroyOrdinary ==
  ASSUME StopTypes, KInv, Releasing, NEW t \in AllThreads,
         \/ DestroyCheckState(t) \/ DestroyCheckCleanup(t) \/ DestroyCheckIO(t)
         \/ LockedRemoveSession(t)
  PROVE  Ordinary(t)
<1> USE LooseLabels
<1>1. cur[t] \in Sessions
  BY DEF DestroyCheckState, DestroyCheckCleanup, DestroyCheckIO, LockedRemoveSession, RemoveSession,
         StopTypes, AllControl, Carefree, HandlerLabels
<1>2. UNCHANGED <<endVars, pendingIO, recvIo, sendIo>>
  BY DEF DestroyCheckState, DestroyCheckCleanup, DestroyCheckIO, LockedRemoveSession, RemoveSession
<1>3. CASE DestroyCheckState(t)
  <2>1. \E l \in {"idle", "td_clean"} : Goto(t, l)
    BY <1>3 DEF DestroyCheckState
  <2>2. pc[t] = "td_state"
    BY <1>3 DEF DestroyCheckState
  <2>3. QED
    BY <1>2, <2>1, <2>2, GoingIdle
<1>4. CASE DestroyCheckCleanup(t)
  <2>1. pc[t] = "td_clean"
    BY <1>4 DEF DestroyCheckCleanup
  <2>2. CASE gameCleanupDone[cur[t]] /\ Goto(t, "td_count")
    <3>1. Shut(cur[t])
      BY <1>1, <2>2 DEF KInv, ClosedFirst, Disconnected
    <3>2. "td_count" \in ShutLabels /\ "td_count" \notin ClaimLabels \cup DeleteLabels
      BY DEF ShutLabels, ClaimLabels, DeleteLabels
    <3>3. Elsewhere(t, "td_count") /\ pc'[t] = "td_count" /\ Keeping(t)
      BY <1>2, <2>1, <2>2, <3>1, <3>2, GoingShut
    <3>4. QED
      BY <1>2, <3>2, <3>3 DEF Ordinary
  <2>3. CASE Goto(t, "idle")
    BY <1>2, <2>1, <2>3, GoingIdle
  <2>4. QED
    BY <1>4, <2>2, <2>3 DEF DestroyCheckCleanup, IsGameCleanupDone
<1>5. CASE DestroyCheckIO(t)
  <2>1. pc[t] = "td_count" /\ pc[t] \in ShutLabels \cap LateLabels /\ pc[t] # "gm_post"
    BY <1>5 DEF DestroyCheckIO, ShutLabels, LateLabels
  <2>2. CASE pendingIO[cur[t]] = 0 /\ Goto(t, "td_claim")
    <3>1. recvIo[cur[t]] = 0 /\ sendIo[cur[t]] = 0
      BY <1>1, <2>2, NothingPending
    <3>2. Shut(cur[t]) /\ gameCleanupDone[cur[t]]
      BY <2>1 DEF KInv, ClosedFirst, Releasing
    <3>3. "td_claim" \in ShutLabels /\ "td_claim" \notin DeleteLabels
      BY DEF ShutLabels, ClaimLabels, DeleteLabels
    <3>4. Elsewhere(t, "td_claim") /\ pc'[t] = "td_claim" /\ Keeping(t)
      BY <1>2, <2>1, <2>2, <3>1, <3>2, <3>3, GoingShut
    <3>5. QED
      BY <1>2, <3>3, <3>4 DEF Ordinary
  <2>3. CASE Goto(t, "idle")
    BY <1>2, <2>1, <2>3, GoingIdle
  <2>4. QED
    BY <1>5, <2>2, <2>3 DEF DestroyCheckIO, IsIODone
<1>6. CASE LockedRemoveSession(t)
  <2>1. /\ pc[t] = "td_remove" /\ pc[t] \in ShutLabels \cap LateLabels /\ pc[t] \in ClaimLabels
        /\ pc[t] \in DeleteLabels /\ Goto(t, "td_delete") /\ pc[t] # "gm_post"
    BY <1>6 DEF LockedRemoveSession, RemoveSession, ShutLabels, LateLabels, ClaimLabels, DeleteLabels
  <2>2. /\ recvIo[cur[t]] = 0 /\ sendIo[cur[t]] = 0 /\ Shut(cur[t]) /\ gameCleanupDone[cur[t]]
    BY <2>1 DEF KInv, ClosedFirst, HeldByNone, Releasing
  <2>3. "td_delete" \in ShutLabels
    BY DEF ShutLabels, ClaimLabels
  <2>4. Elsewhere(t, "td_delete") /\ pc'[t] = "td_delete" /\ cur' = cur /\ Keeping(t)
    BY <1>2, <2>1, <2>2, <2>3, GoingShut
  <2>5. QED
    BY <1>2, <2>1, <2>4 DEF Ordinary
<1>7. QED
  BY <1>3, <1>4, <1>5, <1>6

\* The compare-exchange of TryBeginDestroy: who finds the session claimed goes
\* home, and who claims it is the one that deletes it.
LEMMA ClaimKeeps ==
  ASSUME StopTypes, StopTypes', KInv, Once, Releasing, NEW t \in AllThreads, TryBeginDestroy(t)
  PROVE  /\ Releasing' /\ Keeping(t) /\ Elsewhere(t, pc'[t])
<1> USE LooseLabels
<1>1. /\ pc[t] = "td_claim" /\ pc[t] \in ShutLabels \cap LateLabels /\ pc[t] \in ClaimLabels
      /\ pc[t] # "gm_post" /\ cur[t] \in Sessions
  BY DEF TryBeginDestroy, ShutLabels, LateLabels, ClaimLabels, StopTypes, AllControl, Carefree,
         HandlerLabels
<1>2. UNCHANGED <<mem, sockOpen, gameCleanupDone, closeIssued, task, subject, pendingIO, recvIo,
                  sendIo>>
  BY DEF TryBeginDestroy
<1>3. destroying' = [destroying EXCEPT ![cur[t]] = TRUE] /\ destroying \in [Sessions -> BOOLEAN]
  BY DEF TryBeginDestroy, StopTypes, ObjectTypes
<1>4. CASE destroying[cur[t]] /\ Goto(t, "idle")
  <2>1. destroying' = destroying
    BY <1>3, <1>4
  <2>2. Ordinary(t)
    BY <1>1, <1>2, <1>4, <2>1, GoingIdle
  <2>3. QED
    BY <2>2, ReleasingKept DEF Ordinary
<1>5. CASE ~destroying[cur[t]] /\ Goto(t, "td_remove")
  <2>1. /\ recvIo[cur[t]] = 0 /\ sendIo[cur[t]] = 0 /\ Shut(cur[t]) /\ gameCleanupDone[cur[t]]
        /\ "td_remove" \in ShutLabels
    BY <1>1 DEF KInv, ClosedFirst, HeldByNone, Releasing, ShutLabels, ClaimLabels
  <2>2. Elsewhere(t, "td_remove") /\ pc'[t] = "td_remove" /\ cur' = cur /\ Keeping(t)
    BY <1>1, <1>2, <1>5, <2>1, GoingShut
  <2>3. mem[cur[t]] = "live"
    BY <1>1, <1>5, <2>1 DEF Releasing, Shut, StopTypes, ObjectTypes
  <2>4. \A u \in AllThreads : pc[u] \in DeleteLabels => cur[u] # cur[t]
    BY <1>5 DEF Releasing
  <2>5. \A u \in AllThreads : u # t => pc'[u] = pc[u]
    BY <2>2, OthersStay DEF StopTypes
  <2>6. /\ destroying'[cur[t]]
        /\ \A s \in Sessions : destroying[s] => destroying'[s]
        /\ \A u \in AllThreads : pc[u] \in DeleteLabels => cur[u] \in Sessions
    BY <1>1, <1>3, OthersStay, <2>2 DEF StopTypes
  <2>7. task' = "disconnect" /\ pc'[GameThread] # "gm_post" => ~gameCleanupDone'[subject']
    BY <1>1, <1>2, <2>2, <2>5, WhoIsWho DEF Releasing
  <2>8. \A u \in AllThreads : pc'[u] \in LateLabels => gameCleanupDone'[cur'[u]]
    BY <1>2, <2>1, <2>2, <2>5 DEF Releasing
  <2>9. \A u \in AllThreads : pc'[u] \in DeleteLabels => destroying'[cur'[u]] /\ mem'[cur'[u]] = "live"
    BY <1>2, <2>2, <2>3, <2>5, <2>6 DEF Releasing
  <2>10. \A u, v \in AllThreads :
           pc'[u] \in DeleteLabels /\ pc'[v] \in DeleteLabels /\ cur'[u] = cur'[v] => u = v
    BY <2>2, <2>4, <2>5 DEF Releasing
  <2>11. \A s \in Sessions : mem'[s] = "freed" => destroying'[s] /\ gameCleanupDone'[s]
    BY <1>2, <2>6 DEF Releasing
  <2>12. QED
    BY <2>2, <2>7, <2>8, <2>9, <2>10, <2>11 DEF Releasing
<1>6. QED
  BY <1>4, <1>5 DEF TryBeginDestroy, MayDestroy

\* The accept thread, but for the new Session.
LEMMA AcceptOrdinary ==
  ASSUME StopTypes, AcceptStep
  PROVE  Ordinary(AcceptThread)
<1> USE LooseLabels
<1>1. AcceptThread \in AllThreads
  BY WhoIsWho
<1>2. PICK l \in {"ac_accept", "exited", "idle", "ac_job", "pr_state", "ac_push"} :
        Goto(AcceptThread, l)
  BY DEF AcceptStep, AcceptLoop, AcceptFail, AddSession, ConnectJobCheck, ConnectJobPush
<1>3. UNCHANGED <<endVars, pendingIO, recvIo, sendIo>>
  BY DEF AcceptStep, AcceptLoop, AcceptFail, AddSession, ConnectJobCheck, ConnectJobPush
<1>4. pc[AcceptThread] \in {"idle", "ac_accept", "ac_add", "ac_job", "ac_push"}
  BY DEF AcceptStep, AcceptLoop, AcceptFail, AddSession, ConnectJobCheck, ConnectJobPush
<1>5. QED
  BY <1>1, <1>2, <1>3, <1>4, GoingIdle

\* A worker takes the message of a cleanup, or its exit message.
LEMMA WorkerOrdinary ==
  ASSUME StopTypes, NEW w \in Workers, WorkerExit(w) \/ \E s \in Sessions : TakeCleanup(w, s)
  PROVE  Ordinary(w)
<1> USE LooseLabels
<1>1. w \in AllThreads
  BY WhoIsWho
<1>2. PICK l \in {"td_state", "exited"} : Goto(w, l) \/ \E s : Start(w, l, s)
  BY DEF WorkerExit, TakeCleanup
<1>3. UNCHANGED <<endVars, pendingIO, recvIo, sendIo>> /\ pc[w] = "idle"
  BY DEF WorkerExit, TakeCleanup
<1>4. QED
  BY <1>1, <1>2, <1>3, GoingIdle

\* A handler's own steps.
LEMMA HandlerOrdinary ==
  ASSUME StopTypes, NEW h \in Handlers,
         \/ StopRunning(h) \/ CloseListen(h) \/ ShutdownClaim(h)
         \/ BroadcastBegin(h) \/ BroadcastNext(h) \/ BroadcastClose(h) \/ BroadcastEnd(h)
         \/ EnqueueShutdownJob(h) \/ PostExits(h) \/ WaitForWorkers(h)
  PROVE  Ordinary(h)
<1> USE LooseLabels
<1>1. h \in AllThreads /\ AllControl
  BY WhoIsWho DEF StopTypes
<1>2. pc[h] \in {"idle", "kick"} \cup HandlerLabels
  BY DEF StopRunning, CloseListen, ShutdownClaim, BroadcastBegin, BroadcastNext, BroadcastClose,
         BroadcastEnd, EnqueueShutdownJob, PostExits, WaitForWorkers, HandlerLabels
<1>3. UNCHANGED <<endVars, pendingIO, recvIo, sendIo>>
  BY DEF StopRunning, CloseListen, ShutdownClaim, BroadcastBegin, BroadcastNext, BroadcastClose,
         BroadcastEnd, EnqueueShutdownJob, PostExits, WaitForWorkers
<1>4. pc[h] \notin CountedLabels \cup {"gm_post"}
  BY <1>2 DEF HandlerLabels, CountedLabels
<1>5. CASE BroadcastEnd(h)
  <2>1. Elsewhere(h, "h_job") /\ "h_job" \in HandlerLabels
    BY <1>1, <1>5 DEF BroadcastEnd, Elsewhere, AllControl, HandlerLabels
  <2>2. QED
    BY <1>1, <1>3, <1>4, <2>1, Idling
<1>6. CASE ~BroadcastEnd(h)
  <2>1. PICK l \in {"ps_state"} \cup HandlerLabels :
          Goto(h, l) \/ (\E s : Start(h, l, s)) \/ \E k : CallRequestClose(h, k)
    BY <1>6 DEF StopRunning, CloseListen, ShutdownClaim, BroadcastBegin, BroadcastNext, BroadcastClose,
                EnqueueShutdownJob, PostExits, WaitForWorkers, HandlerLabels
  <2>2. l \notin CountedLabels \cup ShutLabels
    BY DEF CountedLabels, ShutLabels, ClaimLabels, HandlerLabels
  <2>3. QED
    BY <1>1, <1>3, <1>4, <2>1, <2>2, GoingIdle
<1>7. QED
  BY <1>5, <1>6

\* The game thread takes a job: one to disconnect a session is a report.
LEMMA PopOrdinary ==
  ASSUME StopTypes, Once, GamePop \/ PopShutdown
  PROVE  Ordinary(GameThread)
<1> DEFINE g == GameThread
<1> USE LooseLabels
<1>1. g \in AllThreads /\ AllControl /\ StopGameTypes
  BY WhoIsWho DEF StopTypes
<1>2. PICK type \in JobTypes \cup {"Shutdown"} : NextJob(type) /\ (PopDisconnect => type = "Disconnect")
  BY DEF GamePop, PopConnect, PopPacket, PopDisconnect, PopShutdown, NextJob, JobTypes
<1>3. pc[g] = "idle"
  BY <1>2 DEF NextJob
<1>4. UNCHANGED <<mem, destroying, sockOpen, gameCleanupDone, closeIssued, pendingIO, recvIo, sendIo>>
  BY DEF GamePop, PopConnect, PopPacket, PopDisconnect, PopShutdown
<1>5. PICK l \in {"idle", "g_loop", "exited"} : Elsewhere(g, l)
  <2>1. CASE UNCHANGED threadVars
    BY <1>1, <1>3, <2>1 DEF Elsewhere, AllControl
  <2>2. ASSUME NEW l \in {"g_loop", "exited"}, Goto(g, l)
        PROVE  Elsewhere(g, l)
    BY <1>1, <2>2, GoElsewhere
  <2>3. QED
    BY <2>1, <2>2 DEF GamePop, PopConnect, PopPacket, PopDisconnect, PopShutdown
<1>6. pc'[g] = l /\ l \notin CountedLabels \cup ShutLabels \cup DeleteLabels /\ l # "gm_post"
  BY <1>1, <1>5, OthersStay DEF DeleteLabels, ShutLabels, ClaimLabels
<1>7. Retires(g)
  <2>1. CASE PopConnect \/ PopPacket \/ PopShutdown
    BY <1>3, <2>1 DEF PopConnect, PopPacket, PopShutdown, Retires
  <2>2. CASE PopDisconnect
    <3>1. Head(jobQueue).session \in Sessions
      BY <1>1, <1>2, <2>2, JobTaken DEF JobTypes
    <3>2. subject' \in Reported
      BY <1>2, <2>2, <3>1, TakenReport DEF PopDisconnect
    <3>3. QED
      BY <1>3, <1>6, <3>2 DEF Retires
  <2>3. QED
    BY <2>1, <2>2 DEF GamePop
<1>8. Balanced(g)
  BY <1>3, <1>4, <1>6 DEF Balanced, Counted
<1>9. QED
  BY <1>4, <1>5, <1>6, <1>7, <1>8 DEF Ordinary, Keeping, Lasting

\* What the game thread does about a job, but for the mark of the cleanup.
LEMMA GameOrdinary ==
  ASSUME StopTypes, GameStep, ~MarkGameCleanupDone
  PROVE  Ordinary(GameThread)
<1> DEFINE g == GameThread
<1> USE LooseLabels
<1>1. g \in AllThreads /\ AllControl
  BY WhoIsWho DEF StopTypes
<1>2. pc[g] \in {"g_loop", "gm_post"}
  BY DEF GameStep, GameSend, GameHandled, GameReject, GameDisconnected, PostCleanup
<1>3. UNCHANGED <<mem, destroying, sockOpen, gameCleanupDone, closeIssued, pendingIO, recvIo, sendIo>>
  BY DEF GameStep, GameSend, GameHandled, GameReject, GameDisconnected, PostCleanup
<1>4. PICK l \in {"sp_state", "idle", "rc_claim", "gm_mark"} : Elsewhere(g, l)
  <2>1. CASE GameReject
    BY <1>1, <2>1 DEF GameReject, Elsewhere, AllControl
  <2>2. CASE ~GameReject
    <3>1. PICK l \in {"sp_state", "idle", "gm_mark"} : Goto(g, l) \/ \E s : Start(g, l, s)
      BY <2>2 DEF GameStep, GameSend, GameHandled, GameDisconnected, PostCleanup
    <3>2. QED
      BY <1>1, <3>1, GoElsewhere
  <2>3. QED
    BY <2>1, <2>2
<1>5. pc'[g] = l /\ l \notin CountedLabels \cup ShutLabels \cup DeleteLabels
  BY <1>1, <1>4, OthersStay DEF DeleteLabels, ShutLabels, ClaimLabels
<1>6. Retires(g)
  BY <1>2 DEF GameStep, GameSend, GameHandled, GameReject, GameDisconnected, PostCleanup, Retires
<1>7. Balanced(g)
  BY <1>2, <1>3, <1>5 DEF Balanced, Counted
<1>8. QED
  BY <1>3, <1>4, <1>5, <1>6, <1>7 DEF Ordinary, Keeping, Lasting

\* Such a step keeps both invariants.
LEMMA OrdinaryKeeps ==
  ASSUME StopTypes, StopTypes', Once, KInv, Releasing, NEW t \in AllThreads, Ordinary(t), Reports(t)
  PROVE  KInv' /\ Releasing'
<1>1. PICK l : l = pc'[t]
  OBVIOUS
<1>2. Elsewhere(t, l) /\ Lasting(t)
  BY <1>1 DEF Ordinary, Keeping
<1>3. QED
  BY <1>2, LastingKeeps, ReleasingKept

-----------------------------------------------------------------------------
(* The steps that change what the end of a session depends on.             *)

\* A thread that moves between labels that say nothing of the release leaves it.
LEMMA ReleasingApart ==
  ASSUME StopTypes, Releasing, NEW t \in AllThreads, NEW l, Elsewhere(t, l),
         l \notin LateLabels \cup DeleteLabels, pc[t] # "gm_post",
         UNCHANGED <<gameCleanupDone, destroying, task, subject>>,
         \A s \in Sessions : mem'[s] = mem[s] \/ (mem[s] = "unborn" /\ mem'[s] = "live")
  PROVE  Releasing'
<1>1. /\ \A u \in AllThreads : u # t => pc'[u] = pc[u] /\ cur'[u] = cur[u]
      /\ pc'[t] = l
      /\ \A u \in AllThreads : pc[u] \in DeleteLabels => cur[u] \in Sessions
  BY OthersStay DEF StopTypes
<1>2. \A u \in AllThreads : pc'[u] \in LateLabels \cup DeleteLabels => pc[u] = pc'[u] /\ cur'[u] = cur[u]
  BY <1>1
<1>3. task' = "disconnect" /\ pc'[GameThread] # "gm_post" => ~gameCleanupDone'[subject']
  BY <1>1, WhoIsWho DEF Releasing
<1>4. QED
  BY <1>1, <1>2, <1>3 DEF Releasing

\* The handle is closed, which closes the session for good.
LEMMA CloseSocketKeeps ==
  ASSUME RInv, StopTypes', KInv, Releasing, NEW t \in AllThreads, CloseSocket(t)
  PROVE  KInv' /\ Releasing'
<1> USE LooseLabels
<1>1. StopTypes /\ AllControl /\ Strangers /\ ObjectTypes
  BY DEF RInv, StopTypes
<1>2. /\ pc[t] = "rc_close" /\ cur[t] \in Sessions /\ ~Adding(t)
      /\ pc[t] \notin CountedLabels \cup {"gm_post"}
  BY <1>1 DEF CloseSocket, AllControl, Carefree, HandlerLabels, Adding
<1>3. mem[cur[t]] # "unborn"
  BY <1>1, <1>2 DEF Strangers, Reached
<1>4. PICK l \in {"rc_job", "rc_closed"} : Goto(t, l)
  BY DEF CloseSocket
<1>5. Elsewhere(t, l) /\ cur' = cur
  BY <1>1, <1>4, GoElsewhere DEF Goto, Forgets
<1>6. /\ \A u \in AllThreads : u # t => pc'[u] = pc[u]
      /\ pc'[t] = l
      /\ \A u \in AllThreads : pc[u] \in ShutLabels \cup LateLabels \cup DeleteLabels
           => cur[u] \in Sessions
  BY <1>1, <1>5, OthersStay
<1>7. /\ l \notin ClaimLabels \cup LateLabels \cup DeleteLabels \cup CountedLabels
  BY DEF ClaimLabels, LateLabels, DeleteLabels, CountedLabels
<1>8. /\ UNCHANGED <<mem, gameCleanupDone, destroying, task, subject, jobQueue, pendingIO, recvIo, sendIo>>
      /\ closeIssued' = [closeIssued EXCEPT ![cur[t]] = TRUE]
      /\ \/ sockOpen' = sockOpen /\ closeIssued[cur[t]]
         \/ sockOpen' = [sockOpen EXCEPT ![cur[t]] = FALSE]
  BY DEF CloseSocket
<1>9. ~sockOpen'[cur[t]]
  <2>1. CASE closeIssued[cur[t]] /\ sockOpen' = sockOpen
    BY <1>2, <2>1 DEF KInv, ClosedFirst, Shut
  <2>2. CASE sockOpen' = [sockOpen EXCEPT ![cur[t]] = FALSE]
    BY <1>1, <1>2, <2>2 DEF ObjectTypes
  <2>3. QED
    BY <1>8, <2>1, <2>2
<1>10. \A s \in Sessions : sockOpen'[s] => sockOpen[s]
  BY <1>1, <1>2, <1>8 DEF ObjectTypes
<1>11. StopCounts'
  <2>1. Balanced(t)
    BY <1>2, <1>6, <1>7, <1>8 DEF Balanced, Counted
  <2>2. QED
    BY <1>1, <1>5, <2>1, StopCountsKept DEF KInv
<1>12. ClosedFirst'
  <2>1. \A s \in Sessions : Shut(s) => Shut(s)'
    BY <1>8, <1>10 DEF Shut
  <2>2. Shut(cur[t])'
    BY <1>3, <1>5, <1>8, <1>9 DEF Shut
  <2>3. ASSUME NEW u \in AllThreads, pc'[u] \in ShutLabels PROVE Shut(cur[u])'
    <3>1. CASE u = t
      BY <2>2, <3>1
    <3>2. CASE u # t
      <4>1. PICK c \in Sessions : c = cur[u] /\ c = cur'[u]
        BY <1>5, <1>6, <2>3, <3>2
      <4>2. Shut(c)
        BY <1>6, <2>3, <3>2, <4>1 DEF KInv, ClosedFirst
      <4>3. Shut(c)'
        BY <2>1, <4>2
      <4>4. QED
        BY <4>1, <4>3 DEF Shut
    <3>3. QED
      BY <3>1, <3>2
  <2>4. ASSUME NEW s \in Sessions,
               closeIssued'[s] \/ Disconnected(s)' \/ s \in Reported' \/ mem'[s] = "freed"
        PROVE  Shut(s)'
    <3>1. CASE s = cur[t]
      BY <1>3, <1>8, <1>9, <3>1 DEF Shut
    <3>2. CASE s # cur[t]
      <4>1. closeIssued[s] \/ Disconnected(s) \/ s \in Reported \/ mem[s] = "freed"
        BY <1>1, <1>8, <2>4, <3>2 DEF Disconnected, Reported, IsReport, ObjectTypes
      <4>2. QED
        BY <2>1, <4>1 DEF KInv, ClosedFirst
    <3>3. QED
      BY <3>1, <3>2
  <2>5. \A s \in Sessions : mem'[s] = "unborn" => ~sockOpen'[s]
    BY <1>8, <1>10 DEF KInv, ClosedFirst
  <2>6. QED
    BY <2>3, <2>4, <2>5 DEF ClosedFirst
<1>13. HeldByNone'
  BY <1>5, <1>6, <1>7, <1>8 DEF KInv, HeldByNone
<1>14. Releasing'
  BY <1>1, <1>2, <1>5, <1>7, <1>8, ReleasingApart
<1>15. QED
  BY <1>11, <1>12, <1>13, <1>14 DEF KInv

\* The accept thread creates a session, of which nothing was closed yet.
LEMMA NewSessionKeeps ==
  ASSUME StopTypes, StopTypes', KInv, Releasing, NEW s \in Sessions, AcceptSession(s)
  PROVE  KInv' /\ Releasing'
<1> DEFINE a == AcceptThread
<1> USE LooseLabels
<1>1. a \in AllThreads /\ AllControl /\ ObjectTypes
  BY WhoIsWho DEF StopTypes
<1>2. /\ pc[a] = "ac_accept" /\ Start(a, "ac_add", s) /\ mem[s] = "unborn"
      /\ mem' = [mem EXCEPT ![s] = "live"] /\ sockOpen' = [sockOpen EXCEPT ![s] = TRUE]
      /\ UNCHANGED <<gameCleanupDone, closeIssued, destroying, task, subject, jobQueue, pendingIO,
                     recvIo, sendIo>>
  BY DEF AcceptSession
<1>3. Elsewhere(a, "ac_add")
  BY <1>1, <1>2, GoElsewhere
<1>4. /\ \A u \in AllThreads : u # a => pc'[u] = pc[u] /\ cur'[u] = cur[u]
      /\ pc'[a] = "ac_add"
      /\ \A u \in AllThreads : pc[u] \in ShutLabels \cup LateLabels \cup DeleteLabels
           => cur[u] \in Sessions
  BY <1>1, <1>3, OthersStay
<1>5. "ac_add" \notin ShutLabels \cup ClaimLabels \cup LateLabels \cup DeleteLabels \cup CountedLabels
  BY DEF ShutLabels, ClaimLabels, LateLabels, DeleteLabels, CountedLabels
<1>6. \A x \in Sessions : /\ Shut(x) => x # s /\ Shut(x)'
                          /\ x # s => mem'[x] = mem[x] /\ sockOpen'[x] = sockOpen[x]
                          /\ x = s => mem'[x] = "live"
  BY <1>1, <1>2 DEF Shut, ObjectTypes
<1>7. StopCounts'
  <2>1. Balanced(a)
    BY <1>2, <1>4, <1>5 DEF Balanced, Counted
  <2>2. QED
    BY <1>1, <1>3, <2>1, StopCountsKept DEF KInv
<1>8. ClosedFirst'
  <2>1. ASSUME NEW u \in AllThreads, pc'[u] \in ShutLabels PROVE Shut(cur[u])'
    <3>1. PICK c \in Sessions : c = cur[u] /\ c = cur'[u]
      BY <1>4, <1>5, <2>1
    <3>2. Shut(c)
      BY <1>4, <1>5, <2>1, <3>1 DEF KInv, ClosedFirst
    <3>3. Shut(c)'
      BY <1>6, <3>2
    <3>4. QED
      BY <3>1, <3>3 DEF Shut
  <2>2. ASSUME NEW x \in Sessions,
               closeIssued'[x] \/ Disconnected(x)' \/ x \in Reported' \/ mem'[x] = "freed"
        PROVE  Shut(x)'
    <3>1. closeIssued[x] \/ Disconnected(x) \/ x \in Reported \/ mem[x] = "freed"
      BY <1>2, <1>6, <2>2 DEF Disconnected, Reported, IsReport
    <3>2. QED
      BY <1>6, <3>1 DEF KInv, ClosedFirst
  <2>3. \A x \in Sessions : mem'[x] = "unborn" => ~sockOpen'[x]
    BY <1>6 DEF KInv, ClosedFirst
  <2>4. QED
    BY <2>1, <2>2, <2>3 DEF ClosedFirst
<1>9. HeldByNone'
  BY <1>2, <1>4, <1>5, <1>6 DEF KInv, HeldByNone
<1>10. Releasing'
  <2>1. \A x \in Sessions : mem'[x] = mem[x] \/ (mem[x] = "unborn" /\ mem'[x] = "live")
    BY <1>2, <1>6
  <2>2. QED
    BY <1>1, <1>2, <1>3, <1>5, <2>1, ReleasingApart
<1>11. QED
  BY <1>7, <1>8, <1>9, <1>10 DEF KInv

\* A worker deletes the session it claimed, of which the kernel holds nothing.
LEMMA DeletionReleases ==
  ASSUME StopTypes, StopTypes', KInv, Releasing, NEW t \in AllThreads, DeleteSession(t)
  PROVE  KInv' /\ Releasing'
<1> USE LooseLabels
<1>1. AllControl /\ ObjectTypes
  BY DEF StopTypes
<1>2. /\ pc[t] = "td_delete" /\ Goto(t, "idle") /\ mem' = [mem EXCEPT ![cur[t]] = "freed"]
      /\ UNCHANGED <<gameCleanupDone, closeIssued, destroying, task, subject, jobQueue, pendingIO,
                     recvIo, sendIo, sockOpen>>
  BY DEF DeleteSession
<1>3. /\ cur[t] \in Sessions
      /\ pc[t] \in ShutLabels \cap LateLabels /\ pc[t] \in DeleteLabels \cap ClaimLabels
      /\ pc[t] # "gm_post"
  BY <1>1, <1>2
  DEF AllControl, Carefree, HandlerLabels, ShutLabels, LateLabels, DeleteLabels, ClaimLabels
<1>4. Elsewhere(t, "idle")
  BY <1>1, <1>2, GoElsewhere
<1>5. /\ \A u \in AllThreads : u # t => pc'[u] = pc[u] /\ cur'[u] = cur[u]
      /\ pc'[t] = "idle"
      /\ \A u \in AllThreads : pc[u] \in ShutLabels \cup LateLabels \cup DeleteLabels
           => cur[u] \in Sessions
  BY <1>1, <1>4, OthersStay
<1>6. "idle" \notin ShutLabels \cup ClaimLabels \cup LateLabels \cup DeleteLabels \cup CountedLabels
  BY DEF ShutLabels, ClaimLabels, LateLabels, DeleteLabels, CountedLabels
<1>7. /\ recvIo[cur[t]] = 0 /\ sendIo[cur[t]] = 0 /\ Shut(cur[t]) /\ gameCleanupDone[cur[t]]
      /\ destroying[cur[t]]
  BY <1>3 DEF KInv, ClosedFirst, HeldByNone, Releasing
<1>8. \A x \in Sessions : /\ Shut(x) => Shut(x)'
                          /\ x # cur[t] => mem'[x] = mem[x]
                          /\ x = cur[t] => mem'[x] = "freed"
  BY <1>1, <1>2, <1>3 DEF Shut, ObjectTypes
<1>9. StopCounts'
  <2>1. pc[t] \notin CountedLabels
    BY <1>3
  <2>2. Balanced(t)
    BY <1>2, <1>5, <1>6, <2>1 DEF Balanced, Counted
  <2>3. QED
    BY <1>1, <1>4, <2>2, StopCountsKept DEF KInv
<1>10. ClosedFirst'
  <2>1. ASSUME NEW u \in AllThreads, pc'[u] \in ShutLabels PROVE Shut(cur[u])'
    <3>1. PICK c \in Sessions : c = cur[u] /\ c = cur'[u]
      BY <1>5, <1>6, <2>1
    <3>2. Shut(c)
      BY <1>5, <1>6, <2>1, <3>1 DEF KInv, ClosedFirst
    <3>3. Shut(c)'
      BY <1>8, <3>2
    <3>4. QED
      BY <3>1, <3>3 DEF Shut
  <2>2. ASSUME NEW x \in Sessions,
               closeIssued'[x] \/ Disconnected(x)' \/ x \in Reported' \/ mem'[x] = "freed"
        PROVE  Shut(x)'
    <3>1. CASE x = cur[t]
      BY <1>7, <1>8, <3>1
    <3>2. CASE x # cur[t]
      <4>1. closeIssued[x] \/ Disconnected(x) \/ x \in Reported \/ mem[x] = "freed"
        BY <1>2, <1>8, <2>2, <3>2 DEF Disconnected, Reported, IsReport
      <4>2. QED
        BY <1>8, <4>1 DEF KInv, ClosedFirst
    <3>3. QED
      BY <3>1, <3>2
  <2>3. \A x \in Sessions : mem'[x] = "unborn" => ~sockOpen'[x]
    BY <1>2, <1>8 DEF KInv, ClosedFirst
  <2>4. QED
    BY <2>1, <2>2, <2>3 DEF ClosedFirst
<1>11. HeldByNone'
  <2>1. \A u \in AllThreads : pc'[u] \in ClaimLabels => recvIo'[cur'[u]] = 0 /\ sendIo'[cur'[u]] = 0
    BY <1>2, <1>5, <1>6 DEF KInv, HeldByNone
  <2>2. \A x \in Sessions : mem'[x] # "live" => recvIo'[x] = 0 /\ sendIo'[x] = 0
    BY <1>2, <1>7, <1>8 DEF KInv, HeldByNone
  <2>3. QED
    BY <2>1, <2>2 DEF HeldByNone
<1>12. Releasing'
  <2>1. task' = "disconnect" /\ pc'[GameThread] # "gm_post" => ~gameCleanupDone'[subject']
    BY <1>2, <1>3, <1>5, WhoIsWho DEF Releasing
  <2>2. \A u \in AllThreads : pc'[u] \in DeleteLabels =>
          u # t /\ pc[u] = pc'[u] /\ cur'[u] = cur[u] /\ cur[u] # cur[t] /\ cur[u] \in Sessions
    BY <1>3, <1>5, <1>6 DEF Releasing
  <2>3. \A u \in AllThreads : pc'[u] \in LateLabels => gameCleanupDone'[cur'[u]]
    BY <1>2, <1>5, <1>6 DEF Releasing
  <2>4. /\ \A u \in AllThreads : pc'[u] \in DeleteLabels => destroying'[cur'[u]] /\ mem'[cur'[u]] = "live"
        /\ \A u, v \in AllThreads :
             pc'[u] \in DeleteLabels /\ pc'[v] \in DeleteLabels /\ cur'[u] = cur'[v] => u = v
    BY <1>2, <1>8, <2>2 DEF Releasing
  <2>5. \A x \in Sessions : mem'[x] = "freed" => destroying'[x] /\ gameCleanupDone'[x]
    BY <1>2, <1>7, <1>8 DEF Releasing
  <2>6. QED
    BY <2>1, <2>3, <2>4, <2>5 DEF Releasing
<1>13. QED
  BY <1>9, <1>10, <1>11, <1>12 DEF KInv

\* The game thread marks the cleanup of the session that it disconnects.
LEMMA MarkKeeps ==
  ASSUME StopTypes, StopTypes', Once, KInv, Releasing, MarkGameCleanupDone
  PROVE  KInv' /\ Releasing'
<1> DEFINE g == GameThread
<1> USE LooseLabels
<1>1. g \in AllThreads /\ AllControl /\ ObjectTypes
  BY WhoIsWho DEF StopTypes
<1>2. /\ pc[g] = "gm_mark" /\ Goto(g, "gm_post")
      /\ gameCleanupDone' = [gameCleanupDone EXCEPT ![subject] = TRUE]
      /\ UNCHANGED <<mem, sockOpen, closeIssued, destroying, task, subject, jobQueue, pendingIO,
                     recvIo, sendIo>>
  BY DEF MarkGameCleanupDone
<1>3. Elsewhere(g, "gm_post")
  BY <1>1, <1>2, GoElsewhere
<1>4. /\ \A u \in AllThreads : u # g => pc'[u] = pc[u] /\ cur'[u] = cur[u]
      /\ pc'[g] = "gm_post"
      /\ \A u \in AllThreads : pc[u] \in ShutLabels \cup LateLabels \cup DeleteLabels
           => cur[u] \in Sessions
  BY <1>1, <1>3, OthersStay
<1>5. "gm_post" \notin ShutLabels \cup ClaimLabels \cup LateLabels \cup DeleteLabels \cup CountedLabels
  BY DEF ShutLabels, ClaimLabels, LateLabels, DeleteLabels, CountedLabels
<1>6. Lasting(g)
  <2>1. Balanced(g)
    BY <1>2, <1>4, <1>5 DEF Balanced, Counted
  <2>2. QED
    BY <1>2, <1>4, <1>5, <2>1 DEF Lasting
<1>7. Reports(g)
  BY GameBystands DEF GameStep, Bystands, Reports
<1>8. KInv'
  BY <1>1, <1>3, <1>6, <1>7, LastingKeeps
<1>9. \A s \in Sessions : gameCleanupDone[s] => gameCleanupDone'[s]
  BY <1>1, <1>2 DEF ObjectTypes
<1>10. \A u \in AllThreads : pc'[u] \in LateLabels \cup DeleteLabels =>
         pc[u] = pc'[u] /\ cur'[u] = cur[u] /\ cur[u] \in Sessions
  BY <1>4, <1>5
<1>11. Releasing'
  <2>1. pc'[GameThread] = "gm_post"
    BY <1>4
  <2>2. \A u \in AllThreads : pc'[u] \in LateLabels => gameCleanupDone'[cur'[u]]
    BY <1>9, <1>10 DEF Releasing
  <2>3. /\ \A u \in AllThreads : pc'[u] \in DeleteLabels => destroying'[cur'[u]] /\ mem'[cur'[u]] = "live"
        /\ \A u, v \in AllThreads :
             pc'[u] \in DeleteLabels /\ pc'[v] \in DeleteLabels /\ cur'[u] = cur'[v] => u = v
        /\ \A s \in Sessions : mem'[s] = "freed" => destroying'[s] /\ gameCleanupDone'[s]
    BY <1>2, <1>9, <1>10 DEF Releasing
  <2>4. QED
    BY <2>1, <2>2, <2>3 DEF Releasing
<1>12. QED
  BY <1>8, <1>11

-----------------------------------------------------------------------------
(* Every step.                                                             *)

\* A session's end is reported by a thread that has closed it.
LEMMA RequestCloseReports ==
  ASSUME StopTypes, NEW t \in AllThreads,
         RequestCloseClaim(t) \/ CloseDone(t) \/ EnqueueDisconnectJob(t)
  PROVE  Reports(t)
<1>1. CASE RequestCloseClaim(t) \/ CloseDone(t)
  BY <1>1
  DEF RequestCloseClaim, CloseDone, Reports, Reported, IsReport, Disconnected
<1>2. CASE EnqueueDisconnectJob(t)
  <2> DEFINE J == Jobs \cup {ShutdownJob}
             job == [type |-> "Disconnect", session |-> cur[t]]
  <2>1. cur[t] \in Sessions /\ pc[t] = "rc_job" /\ pc[t] \in ShutLabels
    BY <1>2 DEF EnqueueDisconnectJob, StopTypes, AllControl, Carefree, HandlerLabels, ShutLabels
  <2>2. jobQueue \in Seq(J) /\ job \in J /\ jobQueue' = Append(jobQueue, job)
    BY <1>2, <2>1 DEF StopTypes, StopGameTypes, EnqueueDisconnectJob, Push, Jobs, JobTypes
  <2>3. job.session = cur[t]
    OBVIOUS
  <2> HIDE DEF J, job
  <2>4. /\ Len(jobQueue) \in Nat /\ Len(jobQueue') = Len(jobQueue) + 1
        /\ \A i \in 1 .. Len(jobQueue) : jobQueue'[i] = jobQueue[i]
        /\ jobQueue'[Len(jobQueue) + 1] = job
    BY <2>2, AppendProperties, LenProperties
  <2>5. \A s \in Sessions : s \in Reported' => s \in Reported \/ s = cur[t]
    BY <2>3, <2>4 DEF Reported, IsReport
  <2>6. \A s \in Sessions : Disconnected(s)' => Disconnected(s)
    BY <1>2 DEF EnqueueDisconnectJob, Disconnected
  <2>7. QED
    BY <2>1, <2>5, <2>6 DEF Reports
<1>3. QED
  BY <1>1, <1>2

\* A step that closes nothing reports what was reported.
LEMMA BystandsReports ==
  ASSUME NEW t \in AllThreads, Bystands(t)
  PROVE  Reports(t)
BY DEF Bystands, Reports

\* The code that workers, accept thread, game thread and handlers share.
LEMMA SharedKeeps ==
  ASSUME RInv, StopTypes', Once, KInv, Releasing, NEW t \in AllThreads,
         \/ UnchangedStep(t) \/ StopSendCheck(t) \/ StopParsePacket(t) \/ PacketJobCheck(t)
         \/ PacketJobPush(t) \/ LockedRemoveSession(t)
  PROVE  KInv' /\ Releasing'
<1>1. StopTypes
  BY DEF RInv
<1>2. CASE RequestClose(t)
  <2>1. CASE CloseSocket(t)
    BY <2>1, CloseSocketKeeps
  <2>2. CASE RequestCloseClaim(t) \/ CloseDone(t) \/ EnqueueDisconnectJob(t)
    BY <1>1, <2>2, RequestCloseOrdinary, RequestCloseReports, OrdinaryKeeps
  <2>3. QED
    BY <1>2, <2>1, <2>2 DEF RequestClose
<1>3. CASE ~RequestClose(t)
  <2>1. Reports(t)
    BY <1>1, <1>3, PostRecvBystands, PostSendBystands, ReceiveBystands, PacketBystands,
       DestroyBystands, BystandsReports DEF UnchangedStep
  <2>2. CASE DeleteSession(t)
    BY <1>1, <2>2, DeletionReleases
  <2>3. CASE TryBeginDestroy(t)
    <3>1. PICK l : l = pc'[t]
      OBVIOUS
    <3>2. Releasing' /\ Lasting(t) /\ Elsewhere(t, l)
      BY <1>1, <2>3, <3>1, ClaimKeeps DEF Keeping
    <3>3. QED
      BY <1>1, <2>1, <3>2, LastingKeeps
  <2>4. CASE ~DeleteSession(t) /\ ~TryBeginDestroy(t)
    <3>1. Ordinary(t)
      BY <1>1, <1>3, <2>4, PostRecvOrdinary, PostSendOrdinary, CompletionOrdinary, DestroyOrdinary
      DEF UnchangedStep
    <3>2. QED
      BY <1>1, <2>1, <3>1, OrdinaryKeeps
  <2>5. QED
    BY <2>2, <2>3, <2>4
<1>4. QED
  BY <1>2, <1>3

\* Every step keeps the counter exact and the release in its order.
LEMMA KernelStep ==
  RInv /\ RInv' /\ Once /\ KInv /\ Releasing /\ [StopNext]_allVars => KInv' /\ Releasing'
<1> SUFFICES ASSUME RInv, RInv', Once, KInv, Releasing, [StopNext]_allVars
             PROVE  KInv' /\ Releasing'
  OBVIOUS
<1>1. StopTypes /\ StopTypes'
  BY DEF RInv
<1>2. CASE UNCHANGED allVars \/ AllStopped
  <2>1. UNCHANGED <<vars, stopVars>>
    BY <1>2 DEF AllStopped, allVars
  <2>2. UNCHANGED <<objVars, kernelVars, gameVars, threadVars>>
    BY <2>1 DEF vars
  <2>3. QED
    BY <2>2 DEF KInv, StopCounts, StopCounting, Counted, ClosedFirst, Shut, Reported, IsReport,
                Disconnected, HeldByNone, Releasing
<1>3. ASSUME NEW t \in AllThreads, Ordinary(t), Bystands(t)
      PROVE  KInv' /\ Releasing'
  BY <1>1, <1>3, BystandsReports, OrdinaryKeeps
<1>4. ASSUME NEW t \in Threads, RunningStep(t)
      PROVE  KInv' /\ Releasing'
  BY <1>1, <1>4, WhoIsWho, SharedKeeps DEF RunningStep
<1>5. CASE AcceptStep
  BY <1>1, <1>3, <1>5, WhoIsWho, AcceptOrdinary, AcceptBystands
<1>6. ASSUME NEW s \in Sessions, AcceptSession(s)
      PROVE  KInv' /\ Releasing'
  BY <1>1, <1>6, NewSessionKeeps
<1>7. CASE GamePop \/ PopShutdown
  BY <1>1, <1>3, <1>7, WhoIsWho, PopOrdinary, PopBystands
<1>8. CASE GameStep
  <2>1. CASE MarkGameCleanupDone
    BY <1>1, <2>1, MarkKeeps
  <2>2. CASE ~MarkGameCleanupDone
    BY <1>1, <1>3, <1>8, <2>2, WhoIsWho, GameOrdinary, GameBystands
  <2>3. QED
    BY <2>1, <2>2
<1>9. ASSUME NEW h \in Handlers, HandlerStep(h) \/ StopRunning(h)
      PROVE  KInv' /\ Releasing'
  <2>1. h \in AllThreads
    BY WhoIsWho
  <2>2. CASE \/ PostSendCheck(h) \/ PostSendCount(h) \/ PostSendCall(h) \/ PostSendUncount(h)
             \/ RequestClose(h)
    BY <1>1, <2>1, <2>2, SharedKeeps DEF UnchangedStep
  <2>3. CASE ~( \/ PostSendCheck(h) \/ PostSendCount(h) \/ PostSendCall(h) \/ PostSendUncount(h)
                \/ RequestClose(h))
    BY <1>1, <1>3, <1>9, <2>1, <2>3, HandlerOrdinary, HandlerBystands DEF HandlerStep
  <2>4. QED
    BY <2>2, <2>3
<1>10. ASSUME NEW w \in Workers,
              \/ \E s \in Sessions : TakeRecv(w, s) \/ TakeSend(w, s) \/ TakeCleanup(w, s)
              \/ WorkerExit(w)
       PROVE  KInv' /\ Releasing'
  <2>1. w \in AllThreads
    BY WhoIsWho
  <2>2. Bystands(w)
    BY <1>1, <1>10, TakeBystands
  <2>3. Ordinary(w)
    BY <1>1, <1>10, TakingIO, WorkerOrdinary
  <2>4. QED
    BY <1>3, <2>1, <2>2, <2>3
<1>11. CASE ServerStep
  <2>1. CASE OthersStep
    BY <1>4, <1>5, <1>7, <1>8, <1>9, <2>1, WhoIsWho DEF OthersStep, GameSteps
  <2>2. CASE \E w \in Workers : RunningStep(w)
    BY <1>4, <2>2, WhoIsWho
  <2>3. QED
    BY <1>6, <1>9, <1>10, <1>11, <2>1, <2>2 DEF ServerStep, Exits
<1>12. QED
  BY <1>2, <1>11 DEF StopNext

\* At the start there is no session and no I/O.
LEMMA KernelInit == StopInit => KInv /\ Releasing
<1> SUFFICES ASSUME StopInit
             PROVE  KInv /\ Releasing
  OBVIOUS
<1>1. /\ \A t \in AllThreads : pc[t] = "idle"
      /\ Len(jobQueue) = 0 /\ task = "none"
      /\ \A s \in Sessions :
           /\ mem[s] = "unborn" /\ ~sockOpen[s] /\ ~closeIssued[s] /\ ~gameCleanupDone[s]
           /\ pendingIO[s] = 0 /\ recvIo[s] = 0 /\ sendIo[s] = 0
  BY DEF StopInit, InitShared, InitThreads
<1>2. "idle" \notin CountedLabels \cup ShutLabels \cup ClaimLabels \cup LateLabels \cup DeleteLabels
  BY DEF CountedLabels, ShutLabels, ClaimLabels, LateLabels, DeleteLabels
<1>3. \A s \in Sessions : StopCounting(s) = {}
  BY <1>1, <1>2 DEF StopCounting, Counted
<1>4. StopCounts
  <2>1. Cardinality({}) = 0
    BY FS_EmptySet
  <2>2. \A s \in Sessions : Cardinality(StopCounting(s)) = 0
    BY <1>3, <2>1
  <2>3. QED
    BY <1>1, <2>2 DEF StopCounts
<1>5. ClosedFirst
  <2>1. \A s \in Sessions : ~Disconnected(s) /\ s \notin Reported
    BY <1>1 DEF Disconnected, Reported
  <2>2. QED
    BY <1>1, <1>2, <2>1 DEF ClosedFirst
<1>6. HeldByNone /\ Releasing
  BY <1>1, <1>2 DEF HeldByNone, Releasing
<1>7. QED
  BY <1>4, <1>5, <1>6 DEF KInv

\* So the report of an end is in one place in every reachable state.
LEMMA OnceInvariant == StopSpec => []Once
BY OnceInit, OnceStep, RInvInvariant, PTL DEF StopSpec

\* And with it the exact counter, the order of the release and its one deleter.
THEOREM KernelInvariant == StopSpec => [](KInv /\ Releasing)
BY KernelInit, KernelStep, RInvInvariant, OnceInvariant, PTL DEF StopSpec

-----------------------------------------------------------------------------
(* What the run checks.                                                    *)

\* Every variable keeps its type: with the handlers sending and closing, too, a
\* count of pending I/O is never decremented below zero, no send goes beyond the
\* bound, and no more exit messages are taken than were posted.
THEOREM StopTypeCorrect == StopSpec => []StopTypeOK
<1>1. ASSUME RInv, KInv PROVE StopTypeOK
  <2>1. StopTypes /\ ObjectTypes /\ KernelTypes /\ StopGameTypes /\ AllControl
    BY <1>1 DEF RInv, StopTypes
  <2>2. pendingIO \in [Sessions -> Nat]
    <3>1. \A s \in Sessions : pendingIO[s] \in Nat
      <4> SUFFICES ASSUME NEW s \in Sessions PROVE pendingIO[s] \in Nat
        OBVIOUS
      <4> DEFINE n == Cardinality(StopCounting(s))
      <4>1. n \in Nat /\ pendingIO[s] = recvIo[s] + sendIo[s] + n
        BY <1>1, StopCountingType DEF KInv, StopCounts
      <4>2. recvIo[s] \in Nat /\ sendIo[s] \in Nat
        BY <2>1, WhoIsWho DEF KernelTypes
      <4> HIDE DEF n
      <4>3. QED
        BY <4>1, <4>2
    <3>2. QED
      BY <2>1, <3>1 DEF ObjectTypes
  <2>3. unsent \in SUBSET Sessions /\ m_lock \in Handlers \cup {NoThread}
    BY <1>1, <2>1 DEF RInv, Locked, ObjectTypes
  <2>4. /\ serverState \in {"Running", "ShuttingDown"} /\ m_running \in BOOLEAN
        /\ listenOpen \in BOOLEAN /\ exitMessages \in 0 .. Cardinality(Workers)
    BY <1>1 DEF RInv, OneHandler
  <2>5. QED
    BY <2>1, <2>2, <2>3, <2>4 DEF StopTypeOK, KernelTypes, StopGameTypes, AllControl
<1>2. QED
  BY <1>1, RInvInvariant, KernelInvariant, PTL

\* The kernel never holds a buffer of a deleted session, whoever sent or closed.
THEOREM KernelSafeStopping == StopSpec => []KernelSafe
<1>1. ASSUME RInv, KInv PROVE KernelSafe
  <2>1. \A s \in Sessions : recvIo[s] \in Nat /\ sendIo[s] \in Nat
    BY <1>1, WhoIsWho DEF RInv, StopTypes, KernelTypes
  <2>2. QED
    BY <1>1, <2>1 DEF KInv, HeldByNone, KernelSafe
<1>2. QED
  BY <1>1, RInvInvariant, KernelInvariant, PTL

-----------------------------------------------------------------------------
(* Shutdown implements SessionLife.                                        *)

InKernel(s) == recvIo[s] + sendIo[s]

\* A step that changes neither the phase of a session nor what is held is a
\* stutter of the abstract life cycle.
LEMMA StopStutters ==
  ASSUME UNCHANGED <<mem, gameCleanupDone, sockOpen, recvIo, sendIo>>
  PROVE  UNCHANGED Life!lifeVars
BY DEF Life!lifeVars, Phase

\* One that changes the phase of one session is its step,
LEMMA StopMoves ==
  ASSUME NEW s \in Sessions, NEW from, NEW to, Phase(s) = from, Phase(s)' = to,
         \A x \in Sessions : x # s => Phase(x)' = Phase(x),
         UNCHANGED <<recvIo, sendIo>>
  PROVE  Life!Move(s, from, to)
BY DEF Life!Move

\* and so is one that changes what is held of it.
LEMMA StopHolds ==
  ASSUME NEW s \in Sessions, UNCHANGED <<mem, gameCleanupDone, sockOpen>>,
         \A x \in Sessions : x # s => InKernel(x)' = InKernel(x)
  PROVE  /\ Phase(s) = "open" /\ InKernel(s)' = InKernel(s) + 1 => Life!StartIO(s)
         /\ InKernel(s) > 0 /\ InKernel(s)' = InKernel(s) - 1 => Life!FinishIO(s)
BY DEF Life!StartIO, Life!FinishIO, InKernel, Phase

\* An open socket is that of a session whose life is not over.
LEMMA StopOpenPhase ==
  ASSUME StopTypes, KInv, NEW s \in Sessions, sockOpen[s]
  PROVE  Phase(s) = "open"
BY DEF Phase, KInv, ClosedFirst, Disconnected, Shut, StopTypes, ObjectTypes

\* closesocket closes a session that is open.
LEMMA CloseLives ==
  ASSUME StopTypes, KInv, NEW t \in AllThreads, CloseSocket(t)
  PROVE  [Life!Next]_(Life!lifeVars)
<1>1. PICK c \in Sessions : c = cur[t]
  BY DEF CloseSocket, StopTypes, AllControl, Carefree, HandlerLabels
<1>2. CASE sockOpen[c] /\ ~closeIssued[c]
  <2>1. /\ sockOpen' = [sockOpen EXCEPT ![c] = FALSE]
        /\ UNCHANGED <<mem, gameCleanupDone, recvIo, sendIo>>
    BY <1>1, <1>2 DEF CloseSocket
  <2>2. Phase(c) = "open"
    BY <1>2, StopOpenPhase
  <2>3. Phase(c)' = "closed" /\ \A x \in Sessions : x # c => Phase(x)' = Phase(x)
    BY <2>1, <2>2 DEF Phase, StopTypes, ObjectTypes
  <2>4. Life!Close(c)
    BY <2>1, <2>2, <2>3, StopMoves DEF Life!Close
  <2>5. QED
    BY <2>4 DEF Life!Next
<1>3. CASE ~(sockOpen[c] /\ ~closeIssued[c])
  <2>1. UNCHANGED <<mem, gameCleanupDone, recvIo, sendIo>>
    BY DEF CloseSocket
  <2>2. sockOpen' = sockOpen
    <3>1. CASE closeIssued[c]
      BY <1>1, <3>1 DEF CloseSocket
    <3>2. CASE ~closeIssued[c]
      <4>1. sockOpen' = [sockOpen EXCEPT ![c] = FALSE]
        BY <1>1, <3>2 DEF CloseSocket
      <4>2. sockOpen \in [Sessions -> BOOLEAN] /\ ~sockOpen[c]
        BY <1>3, <3>2 DEF StopTypes, ObjectTypes
      <4>3. QED
        BY <4>1, <4>2
    <3>3. QED
      BY <3>1, <3>2
  <2>3. QED
    BY <2>1, <2>2, StopStutters
<1>4. QED
  BY <1>2, <1>3

\* Deleting the session ends its life,
LEMMA DeleteLives ==
  ASSUME StopTypes, KInv, Releasing, NEW t \in AllThreads, DeleteSession(t)
  PROVE  [Life!Next]_(Life!lifeVars)
<1>1. PICK c \in Sessions : c = cur[t]
  BY DEF DeleteSession, StopTypes, AllControl, Carefree, HandlerLabels
<1>2. mem[c] = "live" /\ gameCleanupDone[c] /\ recvIo[c] = 0 /\ sendIo[c] = 0
  BY <1>1
  DEF DeleteSession, Releasing, KInv, HeldByNone, LateLabels, DeleteLabels, ClaimLabels
<1>3. mem' = [mem EXCEPT ![c] = "freed"] /\ UNCHANGED <<gameCleanupDone, sockOpen, recvIo, sendIo>>
  BY <1>1 DEF DeleteSession
<1>4. /\ Phase(c) = "retired" /\ Phase(c)' = "freed"
      /\ \A x \in Sessions : x # c => Phase(x)' = Phase(x)
  BY <1>2, <1>3 DEF Phase, StopTypes, ObjectTypes
<1>5. Life!Free(c)
  BY <1>2, <1>3, <1>4, StopMoves DEF Life!Free
<1>6. QED
  BY <1>5 DEF Life!Next

\* and WSARecv and WSASend start I/O of an open one.
LEMMA StartLives ==
  ASSUME StopTypes, KInv, NEW t \in AllThreads, PostRecvCall(t) \/ PostSendCall(t)
  PROVE  [Life!Next]_(Life!lifeVars)
<1>1. PICK c \in Sessions : c = cur[t]
  BY DEF PostRecvCall, PostSendCall, StopTypes, AllControl, Carefree, HandlerLabels
<1>2. UNCHANGED <<mem, gameCleanupDone, sockOpen>>
  BY DEF PostRecvCall, PostSendCall
<1>3. CASE UNCHANGED <<recvIo, sendIo>>
  BY <1>2, <1>3, StopStutters
<1>4. CASE /\ sockOpen[c]
           /\ \/ recvIo' = [recvIo EXCEPT ![c] = @ + 1] /\ sendIo' = sendIo
              \/ sendIo' = [sendIo EXCEPT ![c] = @ + 1] /\ recvIo' = recvIo
  <2>1. Phase(c) = "open"
    BY <1>4, StopOpenPhase
  <2>2. (\A x \in Sessions : x # c => InKernel(x)' = InKernel(x)) /\ InKernel(c)' = InKernel(c) + 1
    BY <1>4, WhoIsWho DEF InKernel, StopTypes, KernelTypes
  <2>3. Life!StartIO(c)
    BY <1>2, <2>1, <2>2, StopHolds
  <2>4. QED
    BY <2>3 DEF Life!Next
<1>5. QED
  BY <1>1, <1>3, <1>4 DEF PostRecvCall, PostSendCall

\* The others are stutters.
LEMMA SharedLives ==
  ASSUME StopTypes, KInv, Releasing, NEW t \in AllThreads,
         \/ UnchangedStep(t) \/ StopSendCheck(t) \/ StopParsePacket(t) \/ PacketJobCheck(t)
         \/ PacketJobPush(t) \/ LockedRemoveSession(t)
  PROVE  [Life!Next]_(Life!lifeVars)
<1>1. CASE CloseSocket(t)
  BY <1>1, CloseLives
<1>2. CASE DeleteSession(t)
  BY <1>2, DeleteLives
<1>3. CASE PostRecvCall(t) \/ PostSendCall(t)
  BY <1>3, StartLives
<1>4. CASE ~(CloseSocket(t) \/ DeleteSession(t) \/ PostRecvCall(t) \/ PostSendCall(t))
  <2>1. UNCHANGED <<mem, gameCleanupDone, sockOpen, recvIo, sendIo>>
    BY <1>4
    DEF UnchangedStep, PostRecv, PostRecvCheck, PostRecvClaim, PostRecvCount, PostRecvRelease,
        PostRecvUncount, PostSendCheck, PostSendCount, PostSendUncount, RequestClose,
        RequestCloseClaim, CloseDone, EnqueueDisconnectJob, RecvCompleteFlag, RecvCompleteCount,
        RecvCompleteCheck, ParseDone, ParseFail, Kick, OnSendComplete, DestroyCheckState,
        DestroyCheckCleanup, DestroyCheckIO, TryBeginDestroy, StopSendCheck, SendPacketCheck,
        StopParsePacket, ParsePacket, PacketJobCheck, PacketJobPush, LockedRemoveSession,
        RemoveSession
  <2>2. QED
    BY <2>1, StopStutters
<1>5. QED
  BY <1>1, <1>2, <1>3, <1>4

\* The accept thread opens a session's life.
LEMMA NewSessionLives ==
  ASSUME StopTypes, KInv, NEW s \in Sessions, AcceptSession(s)
  PROVE  [Life!Next]_(Life!lifeVars)
<1>1. /\ mem[s] = "unborn" /\ mem' = [mem EXCEPT ![s] = "live"]
      /\ sockOpen' = [sockOpen EXCEPT ![s] = TRUE]
      /\ UNCHANGED <<gameCleanupDone, recvIo, sendIo>>
  BY DEF AcceptSession
<1>2. ~gameCleanupDone[s]
  BY <1>1 DEF KInv, ClosedFirst, Disconnected, Shut
<1>3. /\ Phase(s) = "unborn" /\ Phase(s)' = "open"
      /\ \A x \in Sessions : x # s => Phase(x)' = Phase(x)
  BY <1>1, <1>2 DEF Phase, StopTypes, ObjectTypes
<1>4. Life!Open(s)
  BY <1>1, <1>3, StopMoves DEF Life!Open
<1>5. QED
  BY <1>4 DEF Life!Next

\* A completion ends an I/O.
LEMMA TakeLives ==
  ASSUME StopTypes, NEW w \in Workers, NEW s \in Sessions, TakeRecv(w, s) \/ TakeSend(w, s)
  PROVE  [Life!Next]_(Life!lifeVars)
<1>1. /\ UNCHANGED <<mem, gameCleanupDone, sockOpen>>
      /\ \/ recvIo[s] > 0 /\ recvIo' = [recvIo EXCEPT ![s] = @ - 1] /\ sendIo' = sendIo
         \/ sendIo[s] > 0 /\ sendIo' = [sendIo EXCEPT ![s] = @ - 1] /\ recvIo' = recvIo
  BY DEF TakeRecv, TakeSend
<1>2. /\ \A x \in Sessions : x # s => InKernel(x)' = InKernel(x)
      /\ InKernel(s) > 0 /\ InKernel(s)' = InKernel(s) - 1
  BY <1>1, WhoIsWho DEF InKernel, StopTypes, KernelTypes
<1>3. Life!FinishIO(s)
  BY <1>1, <1>2, StopHolds
<1>4. QED
  BY <1>3 DEF Life!Next

\* The mark of the cleanup is where the game lets go of the session.
LEMMA MarkLives ==
  ASSUME StopTypes, KInv, Releasing, MarkGameCleanupDone
  PROVE  [Life!Next]_(Life!lifeVars)
<1>1. task = "disconnect" /\ pc[GameThread] = "gm_mark"
  BY DEF MarkGameCleanupDone, StopTypes
<1>2. PICK s \in Sessions : s = subject
  BY <1>1 DEF StopTypes, StopGameTypes
<1>3. ~sockOpen[s] /\ ~gameCleanupDone[s] /\ mem[s] = "live"
  <2>1. Shut(s)
    BY <1>1, <1>2 DEF KInv, ClosedFirst, Disconnected
  <2>2. ~gameCleanupDone[s]
    BY <1>1, <1>2 DEF Releasing
  <2>3. mem[s] # "freed"
    BY <2>2 DEF Releasing
  <2>4. QED
    BY <2>1, <2>2, <2>3 DEF Shut, StopTypes, ObjectTypes
<1>4. /\ gameCleanupDone' = [gameCleanupDone EXCEPT ![s] = TRUE]
      /\ UNCHANGED <<mem, sockOpen, recvIo, sendIo>>
  BY <1>2 DEF MarkGameCleanupDone
<1>5. /\ Phase(s) = "closed" /\ Phase(s)' = "retired"
      /\ \A x \in Sessions : x # s => Phase(x)' = Phase(x)
  BY <1>3, <1>4 DEF Phase, StopTypes, ObjectTypes
<1>6. Life!Retire(s)
  BY <1>4, <1>5, StopMoves DEF Life!Retire
<1>7. QED
  BY <1>6 DEF Life!Next

\* Every step is one of the abstract life cycle, or a stutter.
LEMMA StopStepLives ==
  RInv /\ KInv /\ Releasing /\ [StopNext]_allVars => [Life!Next]_(Life!lifeVars)
<1> SUFFICES ASSUME RInv, KInv, Releasing, [StopNext]_allVars
             PROVE  [Life!Next]_(Life!lifeVars)
  OBVIOUS
<1>1. StopTypes
  BY DEF RInv
<1>2. CASE UNCHANGED allVars \/ AllStopped
  <2>1. UNCHANGED <<vars, stopVars>>
    BY <1>2 DEF AllStopped, allVars
  <2>2. UNCHANGED <<mem, gameCleanupDone, sockOpen, recvIo, sendIo>>
    BY <2>1 DEF vars
  <2>3. QED
    BY <2>2, StopStutters
<1>3. ASSUME NEW t \in Threads, RunningStep(t)
      PROVE  [Life!Next]_(Life!lifeVars)
  BY <1>1, <1>3, WhoIsWho, SharedLives DEF RunningStep
<1>4. CASE AcceptStep \/ GamePop \/ PopShutdown \/ (GameStep /\ ~MarkGameCleanupDone)
  <2>1. UNCHANGED <<mem, gameCleanupDone, sockOpen, recvIo, sendIo>>
    BY <1>4
    DEF AcceptStep, AcceptLoop, AcceptFail, AddSession, ConnectJobCheck, ConnectJobPush, GamePop,
        PopConnect, PopPacket, PopDisconnect, PopShutdown, GameStep, GameSend, GameHandled,
        GameReject, GameDisconnected, PostCleanup
  <2>2. QED
    BY <2>1, StopStutters
<1>5. CASE MarkGameCleanupDone
  BY <1>1, <1>5, MarkLives
<1>6. ASSUME NEW h \in Handlers, HandlerStep(h) \/ StopRunning(h)
      PROVE  [Life!Next]_(Life!lifeVars)
  <2>1. h \in AllThreads
    BY WhoIsWho
  <2>2. CASE \/ PostSendCheck(h) \/ PostSendCount(h) \/ PostSendCall(h) \/ PostSendUncount(h)
             \/ RequestClose(h)
    BY <1>1, <2>1, <2>2, SharedLives DEF UnchangedStep
  <2>3. CASE ~( \/ PostSendCheck(h) \/ PostSendCount(h) \/ PostSendCall(h) \/ PostSendUncount(h)
                \/ RequestClose(h))
    <3>1. UNCHANGED <<mem, gameCleanupDone, sockOpen, recvIo, sendIo>>
      BY <1>6, <2>3
      DEF HandlerStep, StopRunning, CloseListen, ShutdownClaim, BroadcastBegin, BroadcastNext,
          BroadcastClose, BroadcastEnd, EnqueueShutdownJob, PostExits, WaitForWorkers
    <3>2. QED
      BY <3>1, StopStutters
  <2>4. QED
    BY <2>2, <2>3
<1>7. ASSUME NEW w \in Workers,
             \/ \E s \in Sessions : TakeRecv(w, s) \/ TakeSend(w, s) \/ TakeCleanup(w, s)
             \/ WorkerExit(w)
      PROVE  [Life!Next]_(Life!lifeVars)
  <2>1. CASE \E s \in Sessions : TakeRecv(w, s) \/ TakeSend(w, s)
    BY <1>1, <2>1, TakeLives
  <2>2. CASE (\E s \in Sessions : TakeCleanup(w, s)) \/ WorkerExit(w)
    <3>1. UNCHANGED <<mem, gameCleanupDone, sockOpen, recvIo, sendIo>>
      BY <2>2 DEF TakeCleanup, WorkerExit
    <3>2. QED
      BY <3>1, StopStutters
  <2>3. QED
    BY <1>7, <2>1, <2>2
<1>8. CASE ServerStep
  <2>1. CASE OthersStep
    BY <1>3, <1>4, <1>5, <1>6, <2>1, WhoIsWho DEF OthersStep, GameSteps
  <2>2. CASE \E w \in Workers : RunningStep(w)
    BY <1>3, <2>2, WhoIsWho
  <2>3. CASE \E s \in Sessions : AcceptSession(s)
    BY <1>1, <2>3, NewSessionLives
  <2>4. QED
    BY <1>6, <1>7, <1>8, <2>1, <2>2, <2>3 DEF ServerStep, Exits
<1>9. QED
  BY <1>2, <1>8 DEF StopNext

\* A stopping server, too, implements the life cycle: the broadcast starts no I/O
\* of a session that was closed behind its back, and closes none twice; the game
\* lets go after the close, and the memory is freed once after that.
THEOREM LifeImplementedStopping == StopSpec => ImplementsLife
<1>1. StopInit => Life!Init
  BY DEF StopInit, InitShared, Life!Init, Phase
<1>2. QED
  BY <1>1, StopStepLives, RInvInvariant, KernelInvariant, PTL
  DEF StopSpec, ImplementsLife, Life!Spec

=============================================================================
