------------------------------ MODULE FepStates ------------------------------
(***************************************************************************)
(* The states of a FEP participant, the transitions that events ask for,   *)
(* and which of them are valid in which state: shared by the state machine *)
(* and by the participant that it drives.                                  *)
(***************************************************************************)
States == {"STARTUP", "IDLE", "INITIALIZING", "READY", "RUNNING", "ERROR",
           "SHUTDOWN"}

(* The transitions that can be enqueued.                                    *)
Transitions == {"StartupDone", "Error", "Restart", "Shutdown", "Initialize",
                "Stop", "InitDone", "Start", "ErrorFixed"}

(* The switch of PerformStateTransition: in which state which transition is *)
(* valid, and the state it leads to.                                        *)
Table ==
  { <<"STARTUP", "StartupDone", "IDLE">>,
    <<"IDLE", "Restart", "STARTUP">>,
    <<"STARTUP", "Shutdown", "SHUTDOWN">>,
    <<"IDLE", "Shutdown", "SHUTDOWN">>,
    <<"ERROR", "Shutdown", "SHUTDOWN">>,
    <<"IDLE", "Initialize", "INITIALIZING">>,
    <<"INITIALIZING", "Stop", "IDLE">>,
    <<"READY", "Stop", "IDLE">>,
    <<"RUNNING", "Stop", "IDLE">>,
    <<"INITIALIZING", "InitDone", "READY">>,
    <<"READY", "Start", "RUNNING">>,
    <<"ERROR", "ErrorFixed", "IDLE">> }
  \cup { <<s, "Error", "ERROR">> : s \in States \ {"STARTUP", "SHUTDOWN"} }
=============================================================================
