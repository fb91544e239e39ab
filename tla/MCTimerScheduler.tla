-------------------------- MODULE MCTimerScheduler --------------------------
(***************************************************************************)
(* A job of every step, one of every second step that begins late, and a   *)
(* one shot timer.                                                         *)
(***************************************************************************)
EXTENDS TimerScheduler

MCTimers == <<"fast", "slow", "once">>
MCPeriod == [t \in T |-> IF t = "fast" THEN 1 ELSE IF t = "slow" THEN 2 ELSE 0]
MCDelay  == [t \in T |-> IF t = "fast" THEN 0 ELSE 1]
=============================================================================
