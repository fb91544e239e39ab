------------------------------ MODULE Lifecycle ------------------------------
(***************************************************************************)
(* What the FEP state machine promises to everybody who watches it: the    *)
(* state of a participant moves along the edges of the state diagram, and  *)
(* a state is left only after it has been fully reached, that is, after    *)
(* every callback of the previous change has returned.                     *)
(*                                                                         *)
(* st     the current state                                                *)
(* shown  the last state that was fully reached, the one WaitForState      *)
(*        compares with                                                    *)
(***************************************************************************)
VARIABLES st, shown

Alive == {"IDLE", "INITIALIZING", "READY", "RUNNING", "ERROR"}

(* The edges of the state diagram of the documentation                      *)
(* (doc/input/fep_state_machine.dox).                                       *)
Edges ==
  { <<"STARTUP", "IDLE">>,      <<"IDLE", "STARTUP">>,
    <<"IDLE", "INITIALIZING">>, <<"INITIALIZING", "READY">>,
    <<"READY", "RUNNING">>,     <<"INITIALIZING", "IDLE">>,
    <<"READY", "IDLE">>,        <<"RUNNING", "IDLE">>,
    <<"ERROR", "IDLE">>,        <<"STARTUP", "SHUTDOWN">>,
    <<"IDLE", "SHUTDOWN">>,     <<"ERROR", "SHUTDOWN">> }
  \cup { <<s, "ERROR">> : s \in Alive }

Init == st = "STARTUP" /\ shown = "STARTUP"

(* One change of state.  It starts from a fully reached state.              *)
Move == /\ shown = st
        /\ <<st, st'>> \in Edges
        /\ UNCHANGED shown

(* All callbacks of the last change have returned.                          *)
Settle == /\ shown' = st
          /\ UNCHANGED st

(* FireupStateMachine sets STARTUP whatever happened before it, and a       *)
(* Shutdown command may have been obeyed before it.                         *)
Fireup == /\ st = "SHUTDOWN"
          /\ shown = st
          /\ st' = "STARTUP"
          /\ UNCHANGED shown

Next == Move \/ Settle \/ Fireup

Spec == Init /\ [][Next]_<<st, shown>>
=============================================================================
