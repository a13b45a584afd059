---------------------------- MODULE TickLockStep ----------------------------
(***************************************************************************)
(* What the simulation clock promises the agents, without its messages: in *)
(* every tick each exchange works once, then each counted trader decides,  *)
(* and only then does the time move on; the run ends between two ticks.    *)
(***************************************************************************)
EXTENDS Integers

CONSTANTS Exchanges, Responders, NumTicks

VARIABLES
  now,            \* the tick the simulation is in
  worked,         \* the last tick an exchange worked
  decided,        \* the last tick a trader decided
  over            \* the run has ended

vars == <<now, worked, decided, over>>

Init ==
  /\ now = 0 /\ over = FALSE
  /\ worked = [e \in Exchanges |-> -1]
  /\ decided = [t \in Responders |-> -1]

Work(e) ==
  /\ ~over /\ now < NumTicks /\ worked[e] < now
  /\ \A t \in Responders : decided[t] = now - 1
  /\ worked' = [worked EXCEPT ![e] = now]
  /\ UNCHANGED <<now, decided, over>>

Decide(t) ==
  /\ ~over /\ decided[t] < now
  /\ \A e \in Exchanges : worked[e] = now
  /\ decided' = [decided EXCEPT ![t] = now]
  /\ UNCHANGED <<now, worked, over>>

Advance ==
  /\ ~over /\ now < NumTicks
  /\ \A e \in Exchanges : worked[e] = now
  /\ \A t \in Responders : decided[t] = now
  /\ now' = now + 1
  /\ UNCHANGED <<worked, decided, over>>

End ==
  /\ ~over
  /\ \A e \in Exchanges : worked[e] = now - 1
  /\ \A t \in Responders : decided[t] = now - 1
  /\ over' = TRUE
  /\ UNCHANGED <<now, worked, decided>>

Next ==
  \/ \E e \in Exchanges : Work(e)
  \/ \E t \in Responders : Decide(t)
  \/ Advance \/ End

Spec == Init /\ [][Next]_vars
=============================================================================
