---------------------------- MODULE MCLockedStep ----------------------------
(***************************************************************************)
(* A master with a step of its own for every second instant and a client   *)
(* with one for every instant, whose time violations are errors.           *)
(***************************************************************************)
EXTENDS LockedStep

MCHosts   == {"m", "c"}
MCTasks   == {"a", "b"}
MCHost    == [t \in MCTasks |-> IF t = "a" THEN "c" ELSE "m"]
MCCycle   == [t \in MCTasks |-> IF t = "a" THEN 1 ELSE 2]
MCTime    == [AFAP |-> 2, SYSTEM_TIME |-> 1]
RunOnce   == [h \in MCHosts |-> 1]
=============================================================================
