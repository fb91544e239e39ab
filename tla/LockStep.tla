------------------------------ MODULE LockStep ------------------------------
(***************************************************************************)
(* What locked step timing promises (doc/input/fep_timing_2.dox): the      *)
(* timing master "will always wait until all previous time events / steps  *)
(* of all participants have been executed and acknowledged".               *)
(*                                                                         *)
(* now      the instant of the simulation, -1 before the first one         *)
(* members  the step listeners in the schedule of the master               *)
(* last     the instant of the last step of each listener, -1 if none      *)
(***************************************************************************)
EXTENDS Integers

CONSTANTS Tasks, Cycle

VARIABLES now, members, last

Due(t, time) == time % Cycle[t] = 0

Init == now = -1 /\ members = {} /\ last = [t \in Tasks |-> -1]

(* The master starts with the listeners it knows, none has run a step.      *)
Begin(S) == /\ members = {}
            /\ now' = -1 /\ members' = S
            /\ last' = [t \in Tasks |-> -1]

(* Listeners that are stopped and configured anew leave the schedule.       *)
Leave(S) == /\ members' = members \ S
            /\ last' = [t \in Tasks |-> IF t \in S THEN -1 ELSE last[t]]
            /\ UNCHANGED now

End == /\ members' = {} /\ now' = -1
       /\ last' = [t \in Tasks |-> -1]

(* Time goes on when every step of this instant was executed, and to an     *)
(* instant that leaves no step out.                                         *)
Advance(time) ==
  /\ now < time
  /\ \A t \in members : (now >= 0 /\ Due(t, now)) => last[t] = now
  /\ \A t \in members, k \in (now + 1)..(time - 1) : ~Due(t, k)
  /\ now' = time
  /\ UNCHANGED <<members, last>>

Step(t) == /\ now >= 0 /\ t \in members
           /\ Due(t, now) /\ last[t] < now
           /\ last' = [last EXCEPT ![t] = now]
           /\ UNCHANGED <<now, members>>

Next == \/ \E S \in SUBSET Tasks : Begin(S) \/ Leave(S)
        \/ End
        \/ now' > now /\ Advance(now')
        \/ \E t \in Tasks : Step(t)

Spec == Init /\ [][Next]_<<now, members, last>>
=============================================================================
