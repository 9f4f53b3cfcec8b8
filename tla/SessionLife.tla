---------------------------- MODULE SessionLife ----------------------------
(***************************************************************************)
(* What the release protocol of sessions promises, without its threads,    *)
(* flags and counters: a connection is opened, closed once, let go by the  *)
(* game once it is closed, and its memory is freed once, after that and    *)
(* when the kernel holds none of its buffers.  I/O is only started while   *)
(* the socket is open.  Session implements this specification.             *)
(***************************************************************************)
EXTENDS Naturals

CONSTANT Sessions

VARIABLES
  phase,    \* "unborn", "open", "closed", "retired" (by the game), "freed"
  held      \* how many of the session's buffers the kernel holds

lifeVars == <<phase, held>>

Phases == {"unborn", "open", "closed", "retired", "freed"}

Init ==
  /\ phase = [s \in Sessions |-> "unborn"]
  /\ held = [s \in Sessions |-> 0]

Move(s, from, to) ==
  /\ phase[s] = from
  /\ phase' = [phase EXCEPT ![s] = to]
  /\ held' = held

Open(s)   == Move(s, "unborn", "open")
Close(s)  == Move(s, "open", "closed")
Retire(s) == Move(s, "closed", "retired")
Free(s)   == held[s] = 0 /\ Move(s, "retired", "freed")

StartIO(s) ==
  /\ phase[s] = "open"
  /\ held' = [held EXCEPT ![s] = @ + 1]
  /\ phase' = phase

FinishIO(s) ==
  /\ held[s] > 0
  /\ held' = [held EXCEPT ![s] = @ - 1]
  /\ phase' = phase

Next == \E s \in Sessions :
  Open(s) \/ Close(s) \/ Retire(s) \/ Free(s) \/ StartIO(s) \/ FinishIO(s)

Spec == Init /\ [][Next]_lifeVars

\* What is closed is seen through to the end.
Fairness == \A s \in Sessions :
  /\ WF_lifeVars(Retire(s))
  /\ WF_lifeVars(Free(s))
  /\ WF_lifeVars(phase[s] # "open" /\ FinishIO(s))

FairSpec == Spec /\ Fairness

=============================================================================
