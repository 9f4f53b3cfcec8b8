---------------------------- MODULE SessionReuse ----------------------------
(***************************************************************************)
(* Session with an allocator that hands a freed address out again: new     *)
(* Session(client) may return the address of a session deleted earlier,    *)
(* whose fields are then those of the new one.  A thread that still holds  *)
(* the old pointer works on the new session without noticing.              *)
(***************************************************************************)
EXTENDS Session

CONSTANT MaxReuses   \* bound: how often a freed address is handed out again

VARIABLE reuses

ReuseInit == Init /\ reuses = 0

\* accept() returned and operator new reused the address s.
AcceptReusing(s) ==
  /\ pc[AcceptThread] = "idle"
  /\ mem[s] = "freed"
  /\ reuses < MaxReuses
  /\ reuses' = reuses + 1
  /\ mem' = [mem EXCEPT ![s] = "live"]
  /\ state' = [state EXCEPT ![s] = "Connected"]
  /\ gameCleanupDone' = [gameCleanupDone EXCEPT ![s] = FALSE]
  /\ pendingIO' = [pendingIO EXCEPT ![s] = 0]
  /\ destroying' = [destroying EXCEPT ![s] = FALSE]
  /\ recvPosted' = [recvPosted EXCEPT ![s] = FALSE]
  /\ closeIssued' = [closeIssued EXCEPT ![s] = FALSE]
  /\ sockOpen' = [sockOpen EXCEPT ![s] = TRUE]
  /\ m_sessions' = m_sessions \cup {s}
  /\ packets' = [packets EXCEPT ![s] = MaxPackets]
  /\ Start(AcceptThread, "ac_job", s)
  /\ UNCHANGED <<recvIo, sendIo, cleanupMsgs, gameVars>>

ReuseNext ==
  \/ Next /\ UNCHANGED reuses
  \/ \E s \in Sessions : AcceptReusing(s)

ReuseSpec == ReuseInit /\ [][ReuseNext]_<<vars, reuses>>

\* README, "the three conditions": a session that is still communicating is
\* never deleted by mistake.
NeverDeletesConnected ==
  [][\A s \in Sessions :
       mem[s] = "live" /\ mem'[s] = "freed" => state[s] # "Connected"]_vars

=============================================================================
