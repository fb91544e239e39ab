------------------------- MODULE StateMachineProofs -------------------------
(***************************************************************************)
(* Proofs about the state machine, for every number of events, failing     *)
(* callbacks and lives.                                                    *)
(*                                                                         *)
(* The argument: SetState is exclusive (LockInv), so that what it reads at *)
(* its begin is still true at its end.  PerformShutdown joins the worker   *)
(* before it changes a flag the worker reads (FlagInv, QuietInv), hence no *)
(* change under way sees two values of a flag.  A worker that is inside    *)
(* SetState came from a state other than SHUTDOWN, the only state without  *)
(* a valid transition, and that state stays the reached one until SetState *)
(* ends (CallInv).  So when PerformShutdown sees SHUTDOWN reached, no      *)
(* callback is running and none will.                                      *)
(***************************************************************************)
EXTENDS StateMachine, TLAPS

(* PerformShutdown accepts events again and ignores refused requests.       *)
Relaxed == {"sdRead", "sdStop", "sdShutdown", "sdWait"}

(* A thread is inside SetState exactly while it holds m_mtxCurrentState.    *)
LockInv == \A t \in Threads : pc[t] \in InSetState <=> mutex = t

(* When the worker thread exists, and when it is asked to end.              *)
ThreadInv ==
  /\ pc[Owner] \in {"new", "sdDrain", "final"} => pc[Worker] = "none"
  /\ pc[Worker] = "ended" \/ signal => pc[Owner] \in {"sdJoin", "releaseJoin"}
  /\ pc[Worker] = "ended" => ~signal

(* The flags follow the progress of PerformShutdown.                        *)
FlagInv ==
  /\ pc[Owner] \in {"sdSignal", "sdJoin", "sdDrain", "sdRelax", "sdReenable"}
       => ignore
  /\ pc[Owner] \in Relaxed => ~ignore
  /\ consider <=> pc[Owner] \notin Relaxed \cup {"sdReenable"}

(* The restarted worker has nothing to do until events are accepted again.  *)
QuietInv == pc[Owner] \in {"sdRelax", "sdReenable"}
              => queue = <<>> /\ pc[Worker] = "loop"

CallInv ==
  /\ \A t \in Threads : pc[t] = "entry" => state = call[t].new
  /\ pc[Owner] \in InSetState
       => call[Owner].new = "STARTUP" /\ ~call[Owner].vetoed
  /\ mutex = Worker => reached # "SHUTDOWN"

NotifyInv == initialized /\ (\A t \in Threads : pc[t] # "entry")
               => notified = state

Core == /\ LockInv /\ ThreadInv /\ FlagInv /\ QuietInv /\ CallInv /\ NotifyInv
        /\ ReachedIsState /\ ShutdownIsFinal /\ VetoHonoured
        /\ VetoCannotStopShutdown

(* The inductive invariant.                                                 *)
IInv == TypeOK /\ Core

-----------------------------------------------------------------------------
(* A new record of a SetState call is one.                                  *)
LEMMA NewCallType ==
  ASSUME NEW o \in States, NEW s \in States, NEW f \in BOOLEAN
  PROVE  NewCall(o, s, f) \in Calls
  BY DEF NewCall, Calls

(* The updates of Request, Exit and Entry keep the record a record.         *)
LEMMA CallUpdate ==
  ASSUME NEW c \in Calls,
         NEW a \in BOOLEAN, NEW v \in BOOLEAN, NEW f \in BOOLEAN
  PROVE  /\ [c EXCEPT !.asked = a, !.vetoed = v, !.failed = f] \in Calls
         /\ [c EXCEPT !.left = a, !.failed = f] \in Calls
         /\ [c EXCEPT !.failed = f] \in Calls
  BY DEF Calls

(* No transition leaves SHUTDOWN.                                           *)
LEMMA ShutdownHasNoTransition ==
  \A s, r \in States : \A tr : <<s, tr, r>> \in Table => s # "SHUTDOWN"
  BY DEF Table, States

(* The step that enters SetState keeps the types.                           *)
LEMMA BeginType ==
  ASSUME TypeOK, NEW t \in Threads, NEW s \in States, BeginSetState(t, s)
  PROVE  /\ mutex' \in Threads \cup {Nobody}
         /\ pc' \in [Threads -> WorkerPCs \cup OwnerPCs]
         /\ pc'[Worker] \in WorkerPCs /\ pc'[Owner] \in OwnerPCs
         /\ call' \in [Threads -> Calls]
  <1>1. mutex' \in Threads \cup {Nobody}
    BY DEF BeginSetState
  <1>2. call' \in [Threads -> Calls]
    BY NewCallType DEF BeginSetState, TypeOK
  <1>3. pc' \in [Threads -> WorkerPCs \cup OwnerPCs]
    BY DEF BeginSetState, TypeOK, Goto, WorkerPCs, InSetState, InCallbacks
  <1>4. pc'[Worker] \in WorkerPCs /\ pc'[Owner] \in OwnerPCs
    BY DEF BeginSetState, TypeOK, Goto, WorkerPCs, OwnerPCs, InSetState,
           InCallbacks, Threads, Worker, Owner
  <1> QED BY <1>1, <1>2, <1>3, <1>4

(* Every step inside SetState keeps the types.                              *)
LEMMA SetStateType ==
  ASSUME TypeOK, NEW t \in Threads, SetStateStep(t)
  PROVE  TypeOK'
  <1>1. \A err \in BOOLEAN : Count(err) => failures' \in Nat
    <2>1. failures \in Nat /\ failures + 1 \in Nat
      BY DEF TypeOK
    <2> QED BY <2>1 DEF Count
  <1>2. \A b : Answers(b) \subseteq BOOLEAN
    BY DEF Answers
  <1>3. \A l \in InSetState : Goto(t, l) =>
          /\ pc' \in [Threads -> WorkerPCs \cup OwnerPCs]
          /\ pc'[Worker] \in WorkerPCs /\ pc'[Owner] \in OwnerPCs
    BY DEF TypeOK, Goto, WorkerPCs, OwnerPCs, Threads, Worker, Owner
  <1>4. "reached" \in InSetState /\ "exit" \in InSetState /\ "entry" \in InSetState
    BY DEF InSetState, InCallbacks
  <1>5. CASE Request(t)
    <2> DEFINE asked == initialDone /\ call[t].new # "STARTUP"
    <2>1. PICK veto \in Answers(asked) :
            /\ Count(veto)
            /\ call' = [call EXCEPT ![t] = [call[t] EXCEPT
                          !.asked = asked, !.vetoed = veto,
                          !.failed = veto /\ consider]]
            /\ Goto(t, IF veto /\ consider THEN "reached" ELSE "exit")
      BY <1>5 DEF Request
    <2>2. /\ veto \in BOOLEAN /\ asked \in BOOLEAN
          /\ (veto /\ consider) \in BOOLEAN
      BY <1>2
    <2> HIDE DEF asked
    <2>3. call' \in [Threads -> Calls]
      BY <2>1, <2>2, CallUpdate DEF TypeOK
    <2>4. /\ pc' \in [Threads -> WorkerPCs \cup OwnerPCs]
          /\ pc'[Worker] \in WorkerPCs /\ pc'[Owner] \in OwnerPCs
      BY <2>1, <1>3, <1>4
    <2>5. failures' \in Nat
      BY <2>1, <2>2, <1>1
    <2> QED BY <1>5, <2>3, <2>4, <2>5 DEF Request, TypeOK, flags, links
  <1>6. CASE Exit(t)
    <2>1. PICK err \in Answers(initialDone) :
            /\ Count(err)
            /\ call' = [call EXCEPT ![t] = [call[t] EXCEPT
                          !.left = initialDone, !.failed = err]]
      BY <1>6 DEF Exit
    <2>2. err \in BOOLEAN /\ initialDone \in BOOLEAN
      BY <1>2 DEF TypeOK
    <2>3. call' \in [Threads -> Calls]
      BY <2>1, <2>2, CallUpdate DEF TypeOK
    <2>4. /\ pc' \in [Threads -> WorkerPCs \cup OwnerPCs]
          /\ pc'[Worker] \in WorkerPCs /\ pc'[Owner] \in OwnerPCs
      BY <1>6, <1>3, <1>4 DEF Exit
    <2>5. failures' \in Nat
      BY <2>1, <2>2, <1>1
    <2>6. state' \in States
      BY <1>6 DEF Exit, TypeOK, Calls
    <2> QED BY <1>6, <2>3, <2>4, <2>5, <2>6 DEF Exit, TypeOK, flags, links
  <1>7. CASE Entry(t)
    <2>1. PICK err \in Answers(TRUE) :
            /\ Count(err)
            /\ call' = [call EXCEPT ![t] = [call[t] EXCEPT
                          !.failed = call[t].failed \/ err]]
      BY <1>7 DEF Entry
    <2>2. err \in BOOLEAN /\ (call[t].failed \/ err) \in BOOLEAN
      BY <1>2
    <2>3. call' \in [Threads -> Calls]
      BY <2>1, <2>2, CallUpdate DEF TypeOK
    <2>4. /\ pc' \in [Threads -> WorkerPCs \cup OwnerPCs]
          /\ pc'[Worker] \in WorkerPCs /\ pc'[Owner] \in OwnerPCs
      BY <1>7, <1>3, <1>4 DEF Entry
    <2>5. failures' \in Nat
      BY <2>1, <2>2, <1>1
    <2>6. standAlone' \in BOOLEAN
      BY <1>7 DEF Entry
    <2>7. notified' \in States
      BY <1>7 DEF Entry, TypeOK, Calls
    <2> QED BY <1>7, <2>3, <2>4, <2>5, <2>6, <2>7 DEF Entry, TypeOK, flags, links
  <1>8. CASE Finish(t)
    <2>1. call' \in [Threads -> Calls]
      BY <1>8, NewCallType DEF Finish, NoCall, TypeOK, States
    <2>2. /\ pc' \in [Threads -> WorkerPCs \cup OwnerPCs]
          /\ pc'[Worker] \in WorkerPCs /\ pc'[Owner] \in OwnerPCs
      BY <1>8 DEF Finish, TypeOK, Goto, WorkerPCs, OwnerPCs, Threads, Worker,
                  Owner
    <2> QED BY <1>8, <2>1, <2>2 DEF Finish, TypeOK, flags, links, bounds
  <1> QED BY <1>5, <1>6, <1>7, <1>8 DEF SetStateStep

(* Every step keeps the types.                                              *)
LEMMA TypeStep == TypeOK /\ [Next]_vars => TypeOK'
  <1> SUFFICES ASSUME TypeOK, [Next]_vars PROVE TypeOK'
    OBVIOUS
  <1> USE DEF At, Goto, flags, links, work, bounds, Threads, Worker, Owner,
              Nobody
  <1>1. CASE WorkerTake
    BY <1>1 DEF WorkerTake, TypeOK, WorkerPCs, OwnerPCs, Shutting
  <1>2. CASE WorkerPerform
    <2>1. ASSUME NEW s \in States, BeginSetState(Worker, s), WorkerPerform
          PROVE  TypeOK'
      <3>1. Worker \in Threads
        OBVIOUS
      <3> QED BY <2>1, <3>1, BeginType DEF WorkerPerform, TypeOK
    <2>2. CASE Goto(Worker, "loop") /\ UNCHANGED <<mutex, call>>
      BY <1>2, <2>2 DEF WorkerPerform, TypeOK, WorkerPCs
    <2> QED BY <1>2, <2>1, <2>2 DEF WorkerPerform
  <1>3. CASE WorkerFail
    BY <1>3 DEF WorkerFail, EnqueueStateTransition, Transitions, TypeOK,
         WorkerPCs, OwnerPCs, Shutting
  <1>4. CASE WorkerEnd
    BY ZenonT(30), <1>4 DEF WorkerEnd, TypeOK, WorkerPCs, OwnerPCs, Shutting
  <1>5. CASE Initialize
    BY <1>5 DEF Initialize, States, TypeOK, WorkerPCs, OwnerPCs, Shutting
  <1>6. CASE FireupStateMachine
    BY <1>6 DEF FireupStateMachine, TypeOK, WorkerPCs, OwnerPCs, Shutting
  <1>7. CASE FireupSetState
    <2>1. Owner \in Threads /\ "STARTUP" \in States
      BY DEF States
    <2> QED BY <1>7, <2>1, BeginType DEF FireupSetState, TypeOK
  <1>8. CASE FireupDone
    BY <1>8 DEF FireupDone, TypeOK, WorkerPCs, OwnerPCs, Shutting
  <1>9. CASE Rollback
    BY ZenonT(30), <1>9 DEF Rollback, TypeOK, WorkerPCs, OwnerPCs, Shutting
  <1>10. CASE Finalize
    BY <1>10 DEF Finalize, TypeOK, WorkerPCs, OwnerPCs, Shutting
  <1>11. CASE SdSignal
    BY <1>11 DEF SdSignal, TypeOK, WorkerPCs, OwnerPCs, Shutting
  <1>12. CASE SdJoin
    BY <1>12 DEF SdJoin, TypeOK, WorkerPCs, OwnerPCs, Shutting
  <1>13. CASE SdDrain
    BY <1>13 DEF SdDrain, TypeOK, WorkerPCs, OwnerPCs, Shutting
  <1>14. CASE SdRelax
    BY ZenonT(30), <1>14 DEF SdRelax, TypeOK, WorkerPCs, OwnerPCs, Shutting
  <1>15. CASE SdReenable
    BY ZenonT(30), <1>15 DEF SdReenable, TypeOK, WorkerPCs, OwnerPCs, Shutting
  <1>16. CASE SdRead
    BY <1>16 DEF SdRead, TypeOK, WorkerPCs, OwnerPCs, Shutting
  <1>17. CASE SdStop
    BY <1>17 DEF SdStop, EnqueueStateTransition, Transitions, TypeOK,
         WorkerPCs, OwnerPCs, Shutting
  <1>18. CASE SdShutdown
    BY <1>18 DEF SdShutdown, EnqueueStateTransition, Transitions, TypeOK,
         WorkerPCs, OwnerPCs, Shutting
  <1>19. CASE SdReturn
    BY <1>19 DEF SdReturn, TypeOK, WorkerPCs, OwnerPCs, Shutting
  <1>20. CASE SdRetry
    BY <1>20 DEF SdRetry, EnqueueStateTransition, Transitions, TypeOK,
         WorkerPCs, OwnerPCs, Shutting
  <1>21. CASE FinalizeRelease
    BY <1>21 DEF FinalizeRelease, TypeOK, WorkerPCs, OwnerPCs, Shutting
  <1>22. CASE FinalizeJoin
    BY <1>22 DEF FinalizeJoin, TypeOK, WorkerPCs, OwnerPCs, Shutting
  <1>23. CASE ProcessPropertyChange
    BY <1>23 DEF ProcessPropertyChange, TypeOK, WorkerPCs, OwnerPCs, Shutting
  <1>24. ASSUME NEW tr \in Transitions, LocalEvent(tr) \/ RemoteCommand(tr)
        PROVE  TypeOK'
    <2>1. queue' \in Seq(Transitions)
      BY <1>24 DEF LocalEvent, RemoteCommand, EnqueueStateTransition, TypeOK
    <2>2. posts' \in Nat
      BY <1>24 DEF LocalEvent, RemoteCommand, OthersPost, TypeOK
    <2> QED BY <1>24, <2>1, <2>2
            DEF LocalEvent, RemoteCommand, OthersPost, TypeOK
  <1>25. ASSUME NEW t \in Threads, SetStateStep(t) PROVE TypeOK'
    BY <1>25, SetStateType
  <1>26. CASE UNCHANGED vars
    BY <1>26 DEF vars, TypeOK
  <1> QED
    BY <1>1, <1>2, <1>3, <1>4, <1>5, <1>6, <1>7, <1>8, <1>9, <1>10,
       <1>11, <1>12, <1>13, <1>14, <1>15, <1>16, <1>17, <1>18, <1>19,
       <1>20, <1>21, <1>22, <1>23, <1>24, <1>25, <1>26, EventsAssumption
    DEF Next, WorkerStep, OwnerStep, Firing, ShutdownStep, Terminated,
        Transitions, ControlEvents

(* The type invariant, for every value of the bounds.                       *)
THEOREM TypeCorrect == Spec => []TypeOK
  <1>1. Init => TypeOK
    <2> SUFFICES ASSUME Init PROVE TypeOK
      OBVIOUS
    <2>1. call \in [Threads -> Calls]
      BY NewCallType DEF Init, NoCall, States
    <2>2. /\ pc \in [Threads -> WorkerPCs \cup OwnerPCs]
          /\ pc[Worker] \in WorkerPCs /\ pc[Owner] \in OwnerPCs
      BY DEF Init, Threads, Worker, Owner, WorkerPCs, OwnerPCs
    <2>3. queue \in Seq(Transitions)
      BY DEF Init
    <2> QED BY <2>1, <2>2, <2>3 DEF Init, TypeOK, States, NoEvent
  <1> QED BY <1>1, TypeStep, PTL DEF Spec

-----------------------------------------------------------------------------
(* The request listeners: a refusal is only possible where somebody was     *)
(* asked, and stops the change unless PerformShutdown is under way.         *)
LEMMA RequestCore ==
  ASSUME TypeOK, Core, NEW t \in Threads, Request(t)
  PROVE  Core'
  <1> DEFINE asked == initialDone /\ call[t].new # "STARTUP"
  <1>1. PICK veto \in Answers(asked) :
          /\ call' = [call EXCEPT ![t] = [call[t] EXCEPT
                        !.asked = asked, !.vetoed = veto,
                        !.failed = veto /\ consider]]
          /\ Goto(t, IF veto /\ consider THEN "reached" ELSE "exit")
    BY DEF Request
  <1>2. veto => call[t].new # "STARTUP"
    BY DEF Answers
  <1>3. /\ call'[t].new = call[t].new
        /\ call'[t].vetoed = veto
        /\ \A u \in Threads : u # t => call'[u] = call[u]
    BY <1>1 DEF TypeOK, Calls
  <1>4. /\ pc'[t] = IF veto /\ consider THEN "reached" ELSE "exit"
        /\ \A u \in Threads : u # t => pc'[u] = pc[u]
    BY <1>1 DEF TypeOK, Goto
  <1> HIDE DEF asked
  <1> USE DEF At, Goto, flags, links, work, bounds, Threads, Worker, Owner,
              Nobody, InSetState, InCallbacks, Shutting, Relaxed
  <1> USE DEF Core, LockInv, ThreadInv, FlagInv, QuietInv, CallInv, NotifyInv,
              ReachedIsState, ShutdownIsFinal, VetoHonoured,
              VetoCannotStopShutdown, TypeOK
  <1> QED BY <1>2, <1>3, <1>4 DEF Request

(* The rest of SetState.                                                    *)
LEMMA SetStateCore ==
  ASSUME TypeOK, Core, NEW t \in Threads, SetStateStep(t)
  PROVE  Core'
  <1> USE DEF At, Goto, flags, links, work, bounds, Threads, Worker, Owner,
              Nobody, InSetState, InCallbacks, Shutting, Relaxed
  <1> USE DEF Core, LockInv, ThreadInv, FlagInv, QuietInv, CallInv, NotifyInv,
              ReachedIsState, ShutdownIsFinal, VetoHonoured,
              VetoCannotStopShutdown, TypeOK
  <1>1. CASE Exit(t)
    BY <1>1 DEF Exit, Answers, Count, Calls, NoCall, NewCall
  <1>2. CASE Entry(t)
    BY <1>2 DEF Entry, Answers, Count, Calls, NoCall, NewCall
  <1>3. CASE Finish(t)
    BY <1>3 DEF Finish, Answers, Count, Calls, NoCall, NewCall
  <1> QED BY <1>1, <1>2, <1>3, RequestCore DEF SetStateStep

(* A worker enters SetState from a state other than SHUTDOWN.               *)
LEMMA PerformCore ==
  ASSUME TypeOK, Core, WorkerPerform
  PROVE  Core'
  <1> USE DEF At, Goto, flags, links, work, bounds, Threads, Worker, Owner,
              Nobody, InSetState, InCallbacks, Shutting, Relaxed
  <1> USE DEF Core, LockInv, ThreadInv, FlagInv, QuietInv, CallInv, NotifyInv,
              ReachedIsState, ShutdownIsFinal, VetoHonoured,
              VetoCannotStopShutdown, TypeOK
  <1>1. ASSUME NEW s \in States, <<state, event, s>> \in Table,
               BeginSetState(Worker, s)
        PROVE  Core'
    <2>1. state # "SHUTDOWN"
      BY <1>1, ShutdownHasNoTransition
    <2>2. /\ pc'[Worker] = IF ignore THEN "reached" ELSE "request"
          /\ pc'[Owner] = pc[Owner]
          /\ mutex' = Worker
      BY <1>1 DEF BeginSetState
    <2>3. /\ call'[Worker].new = s /\ ~call'[Worker].vetoed
          /\ call'[Owner] = call[Owner]
      BY <1>1 DEF BeginSetState, NewCall
    <2> QED BY <2>1, <2>2, <2>3 DEF WorkerPerform
  <1>2. CASE Goto(Worker, "loop") /\ UNCHANGED <<mutex, call>>
    BY <1>2 DEF WorkerPerform
  <1> QED BY <1>1, <1>2 DEF WorkerPerform

(* Every step keeps the inductive invariant.                                *)
LEMMA CoreStep == IInv /\ [Next]_vars => Core'
  <1> SUFFICES ASSUME TypeOK, Core, [Next]_vars PROVE Core'
    BY DEF IInv
  <1> USE DEF At, Goto, flags, links, work, bounds, Threads, Worker, Owner,
              Nobody, InSetState, InCallbacks, Shutting, Relaxed
  <1> USE DEF Core, LockInv, ThreadInv, FlagInv, QuietInv, CallInv, NotifyInv,
              ReachedIsState, ShutdownIsFinal, VetoHonoured,
              VetoCannotStopShutdown, TypeOK
  <1>1. CASE WorkerTake
    BY <1>1 DEF WorkerTake
  <1>2. CASE WorkerFail
    BY <1>2 DEF WorkerFail, EnqueueStateTransition
  <1>3. CASE WorkerEnd
    BY <1>3 DEF WorkerEnd
  <1>4. CASE Initialize
    BY <1>4 DEF Initialize
  <1>5. CASE FireupStateMachine
    BY <1>5 DEF FireupStateMachine
  <1>6. CASE FireupSetState
    BY <1>6 DEF FireupSetState, BeginSetState, NewCall
  <1>7. CASE FireupDone
    BY <1>7 DEF FireupDone
  <1>8. CASE Rollback
    BY <1>8 DEF Rollback
  <1>9. CASE Finalize
    BY <1>9 DEF Finalize
  <1>10. CASE SdSignal
    BY <1>10 DEF SdSignal
  <1>11. CASE SdJoin
    BY <1>11 DEF SdJoin
  <1>12. CASE SdDrain
    BY <1>12 DEF SdDrain
  <1>13. CASE SdRelax
    BY <1>13 DEF SdRelax
  <1>14. CASE SdReenable
    BY <1>14 DEF SdReenable
  <1>15. CASE SdRead
    BY <1>15 DEF SdRead
  <1>16. CASE SdStop
    BY <1>16 DEF SdStop, EnqueueStateTransition
  <1>17. CASE SdShutdown
    BY <1>17 DEF SdShutdown, EnqueueStateTransition
  <1>18. CASE SdReturn
    BY <1>18 DEF SdReturn, WaitForState
  <1>19. CASE SdRetry
    BY <1>19 DEF SdRetry, EnqueueStateTransition
  <1>20. CASE FinalizeRelease
    BY <1>20 DEF FinalizeRelease
  <1>21. CASE FinalizeJoin
    BY <1>21 DEF FinalizeJoin
  <1>22. CASE ProcessPropertyChange
    BY <1>22 DEF ProcessPropertyChange
  <1>23. ASSUME NEW tr, LocalEvent(tr) \/ RemoteCommand(tr) PROVE Core'
    BY <1>23 DEF LocalEvent, RemoteCommand, OthersPost, EnqueueStateTransition
  <1>24. CASE UNCHANGED vars
    BY <1>24 DEF vars
  <1> HIDE DEF Core, TypeOK
  <1> QED
    BY <1>1, <1>2, <1>3, <1>4, <1>5, <1>6, <1>7, <1>8, <1>9, <1>10,
       <1>11, <1>12, <1>13, <1>14, <1>15, <1>16, <1>17, <1>18, <1>19,
       <1>20, <1>21, <1>22, <1>23, <1>24, PerformCore, SetStateCore
    DEF Next, WorkerStep, OwnerStep, Firing, ShutdownStep, Terminated

(* The inductive invariant holds always.                                    *)
THEOREM Inductive == Spec => []IInv
  <1>1. Init => Core
    BY DEF Init, Core, LockInv, ThreadInv, FlagInv, QuietInv, CallInv,
           NotifyInv, ReachedIsState, ShutdownIsFinal, VetoHonoured,
           VetoCannotStopShutdown, At, Threads, Worker, Owner, Nobody,
           InSetState, InCallbacks, Shutting, Relaxed, NoCall, NewCall
  <1>2. IInv /\ [Next]_vars => IInv'
    BY CoreStep, TypeStep DEF IInv
  <1> QED BY <1>1, <1>2, TypeCorrect, PTL DEF Spec, IInv

(* When PerformShutdown has returned, the machine is in SHUTDOWN for good   *)
(* and no listener is being called, however many events are still enqueued  *)
(* and however late.                                                        *)
THEOREM ShutdownFinal == Spec => []ShutdownIsFinal
  BY Inductive, PTL DEF IInv, Core

(* Outside SetState, the state published to waiting threads and the one of  *)
(* the last notification are the current one.                               *)
THEOREM StatePublished == Spec => []StateIsPublic
  <1>1. IInv => StateIsPublic
    BY DEF IInv, Core, TypeOK, NotifyInv, NotifiedIsState, ReachedIsState,
           StateIsPublic, LockInv, Threads, Worker, Owner, Nobody, InSetState,
           InCallbacks
  <1> QED BY <1>1, Inductive, PTL

(* A refused request is overridden by PerformShutdown, and by nothing else. *)
THEOREM VetoRule == Spec => []VetoCounts
  <1>1. IInv => VetoCounts
    BY DEF IInv, Core, VetoCounts
  <1> QED BY <1>1, Inductive, PTL
-----------------------------------------------------------------------------
(***************************************************************************)
(* One life follows the state diagram.  Before the STARTUP callbacks only  *)
(* commands and the ErrorEvents of failed changes can be pending, and of   *)
(* these only Shutdown is valid in STARTUP.  (With a second life this is   *)
(* false: events of the first are still pending.)                          *)
(***************************************************************************)
Early == ControlEvents \cup {"Error"}

BeforeUser == {"new", "created", "perform", "request", "exit"}

EarlyInv ==
  /\ pc[Owner] \in BeforeUser =>
       /\ queue \in Seq(Early)
       /\ event \in Early \cup {NoEvent}
       /\ state \in {"STARTUP", "SHUTDOWN"}
       /\ pc[Worker] \in {"request", "exit"} => call[Worker].new = "SHUTDOWN"
  /\ pc[Owner] = "new" => state = "STARTUP"
  /\ pc[Owner] # "new" => lives >= 1

(* What the next change of state will be, while SetState is before it.      *)
EdgeInv ==
  \A t \in Threads : pc[t] \in {"request", "exit"} =>
    /\ reached = state
    /\ t = Worker => \E tr \in Transitions : <<state, tr, call[t].new>> \in Table

DInv == EarlyInv /\ EdgeInv

(* Of the early events only Shutdown is valid, in STARTUP.                  *)
LEMMA EarlyTransitions ==
  \A tr \in Early, r \in States :
     /\ <<"STARTUP", tr, r>> \in Table => r = "SHUTDOWN"
     /\ <<"SHUTDOWN", tr, r>> \notin Table
  BY DEF Early, ControlEvents, Table, States

(* The transition table stays within the diagram.                           *)
LEMMA TableInDiagram ==
  \A s, r \in States, tr \in Transitions :
     <<s, tr, r>> \in Table => <<s, r>> \in Diagram!Edges
  BY DEF Table, States, Transitions, Diagram!Edges, Diagram!Alive

(* Every step of a first life keeps DInv.                                   *)
LEMMA DStep ==
  ASSUME MaxLives = 1, IInv, DInv, [Next]_vars
  PROVE  DInv'
  <1> USE IInv, DInv DEF IInv
  <1> USE DEF At, Goto, flags, links, work, bounds, Threads, Worker, Owner,
              Nobody, BeforeUser, DInv, EarlyInv, EdgeInv, TypeOK
  <1>1. CASE WorkerTake
    BY <1>1 DEF WorkerTake
  <1>2. CASE WorkerPerform
    <2>1. ASSUME NEW s \in States, <<state, event, s>> \in Table,
                 BeginSetState(Worker, s), WorkerPerform
          PROVE  DInv'
      <3>1. /\ pc'[Worker] = IF ignore THEN "reached" ELSE "request"
            /\ pc'[Owner] = pc[Owner]
            /\ call'[Worker].new = s /\ call'[Owner] = call[Owner]
        BY <2>1 DEF BeginSetState, NewCall
      <3>2. event \in Transitions
        BY <2>1 DEF Table, Transitions, NoEvent, States
      <3>3. pc[Owner] \in BeforeUser => event \in Early /\ s = "SHUTDOWN"
        BY <2>1, <3>2, EarlyTransitions DEF Transitions, NoEvent
      <3>4. pc[Owner] \notin {"request", "exit"} /\ reached = state
        BY <2>1 DEF WorkerPerform, Core, LockInv, ReachedIsState, InSetState,
                    InCallbacks
      <3> QED BY <2>1, <3>1, <3>2, <3>3, <3>4 DEF WorkerPerform
    <2>2. CASE Goto(Worker, "loop") /\ UNCHANGED <<mutex, call>>
      BY <1>2, <2>2 DEF WorkerPerform
    <2> QED BY <1>2, <2>1, <2>2 DEF WorkerPerform
  <1>3. CASE WorkerFail
    BY <1>3 DEF WorkerFail, EnqueueStateTransition, Early
  <1>4. CASE WorkerEnd
    BY <1>4 DEF WorkerEnd
  <1>5. CASE Initialize
    BY <1>5 DEF Initialize, Core, ThreadInv
  <1>6. CASE FireupStateMachine
    BY <1>6 DEF FireupStateMachine
  <1>7. CASE FireupSetState
    <2>1. /\ pc'[Owner] \in {"reached", "request"}
          /\ pc'[Worker] = pc[Worker]
          /\ call'[Worker] = call[Worker]
      BY <1>7 DEF FireupSetState, BeginSetState
    <2>2. pc[Worker] \notin {"request", "exit"} /\ reached = state
      BY <1>7 DEF FireupSetState, Core, LockInv, ReachedIsState, InSetState,
                  InCallbacks
    <2> QED BY <1>7, <2>1, <2>2 DEF FireupSetState
  <1>8. CASE FireupDone
    BY <1>8 DEF FireupDone
  <1>9. CASE Rollback
    BY <1>9 DEF Rollback
  <1>10. CASE Finalize
    BY <1>10 DEF Finalize
  <1>11. CASE SdSignal
    BY <1>11 DEF SdSignal
  <1>12. CASE SdJoin
    BY <1>12 DEF SdJoin
  <1>13. CASE SdDrain
    BY <1>13 DEF SdDrain
  <1>14. CASE SdRelax
    BY <1>14 DEF SdRelax
  <1>15. CASE SdReenable
    BY <1>15 DEF SdReenable
  <1>16. CASE SdRead
    BY <1>16 DEF SdRead
  <1>17. CASE SdStop
    BY <1>17 DEF SdStop, EnqueueStateTransition, Early
  <1>18. CASE SdShutdown
    BY <1>18 DEF SdShutdown, EnqueueStateTransition, Early
  <1>19. CASE SdReturn
    BY <1>19 DEF SdReturn, WaitForState
  <1>20. CASE SdRetry
    BY <1>20 DEF SdRetry, EnqueueStateTransition, Early
  <1>21. CASE FinalizeRelease
    BY <1>21 DEF FinalizeRelease
  <1>22. CASE FinalizeJoin
    BY <1>22 DEF FinalizeJoin
  <1>23. CASE ProcessPropertyChange
    BY <1>23 DEF ProcessPropertyChange
  <1>24. ASSUME NEW tr \in LocalEvents, LocalEvent(tr) PROVE DInv'
    BY <1>24 DEF LocalEvent, OthersPost, EnqueueStateTransition
  <1>25. ASSUME NEW tr \in Commands, RemoteCommand(tr) PROVE DInv'
    <2>1. tr \in Early
      BY EventsAssumption DEF Early
    <2>2. queue' = queue \/ queue' = Append(queue, tr)
      BY <1>25 DEF RemoteCommand, EnqueueStateTransition
    <2>3. queue \in Seq(Early) => queue' \in Seq(Early)
      BY <2>1, <2>2
    <2> QED BY <1>25, <2>3 DEF RemoteCommand, OthersPost
  <1>26. ASSUME NEW t \in Threads, SetStateStep(t) PROVE DInv'
    <2>1. CASE Request(t)
      <3>1. /\ pc'[t] \in {"reached", "exit"}
            /\ \A u \in Threads : u # t => pc'[u] = pc[u]
        BY <2>1 DEF Request
      <3>2. \A u \in Threads : call'[u].new = call[u].new
        BY <2>1 DEF Request, Calls
      <3> QED BY <2>1, <3>1, <3>2 DEF Request
    <2>2. CASE Exit(t)
      <3>1. \A u \in Threads : pc[u] \in {"request", "exit"} => u = t
        BY <2>2 DEF Exit, Core, LockInv, InSetState, InCallbacks
      <3>2. t = Worker => pc[Owner] \notin {"request", "exit"}
        BY <3>1
      <3>3. t = Worker => pc[Owner] # "new"
        BY <2>2 DEF Exit, Core, ThreadInv
      <3>4. \A u \in Threads : pc'[u] \notin {"request", "exit"}
        BY <2>2, <3>1 DEF Exit
      <3> QED BY <2>2, <3>2, <3>3, <3>4 DEF Exit
    <2>3. CASE Entry(t)
      <3>1. \A u \in Threads : call'[u].new = call[u].new
        BY <2>3 DEF Entry, Calls
      <3> QED BY <2>3, <3>1 DEF Entry
    <2>4. CASE Finish(t)
      <3>1. \A u \in Threads : pc[u] \notin {"request", "exit"}
        BY <2>4 DEF Finish, Core, LockInv, InSetState, InCallbacks
      <3> QED BY <2>4, <3>1 DEF Finish
    <2> QED BY <1>26, <2>1, <2>2, <2>3, <2>4 DEF SetStateStep
  <1>27. CASE UNCHANGED vars
    BY <1>27 DEF vars
  <1> HIDE DEF DInv, TypeOK
  <1> QED
    BY <1>1, <1>2, <1>3, <1>4, <1>5, <1>6, <1>7, <1>8, <1>9, <1>10,
       <1>11, <1>12, <1>13, <1>14, <1>15, <1>16, <1>17, <1>18, <1>19,
       <1>20, <1>21, <1>22, <1>23, <1>24, <1>25, <1>26, <1>27
    DEF Next, WorkerStep, OwnerStep, Firing, ShutdownStep, Terminated

(* Within its first life the state machine follows the state diagram and    *)
(* leaves a state only after it was fully reached: it implements Lifecycle. *)
THEOREM Refinement ==
  ASSUME MaxLives = 1
  PROVE  Spec => FollowsDiagram
  <1>1. Init => DInv /\ Diagram!Init
    <2> SUFFICES ASSUME Init PROVE DInv /\ Diagram!Init
      OBVIOUS
    <2>1. /\ pc[Owner] = "new" /\ pc[Worker] = "none"
      BY DEF Init, Threads, Worker, Owner
    <2>2. queue \in Seq(Early)
      BY DEF Init
    <2> QED BY <2>1, <2>2 DEF Init, DInv, EarlyInv, EdgeInv, Diagram!Init,
               BeforeUser, Threads, Worker, Owner
  <1>2. ASSUME IInv, DInv, [Next]_vars
        PROVE  DInv' /\ [Diagram!Next]_<<state, reached>>
    <2>1. DInv'
      BY <1>2, DStep
    <2>2. ASSUME NEW t \in Threads, Exit(t)
          PROVE  [Diagram!Next]_<<state, reached>>
      <3>1. /\ reached = state
            /\ state' = call[t].new
            /\ UNCHANGED reached
        BY <1>2, <2>2 DEF Exit, At, DInv, EdgeInv
      <3>2. CASE t = Worker
        <4>1. PICK tr \in Transitions : <<state, tr, call[t].new>> \in Table
          BY <1>2, <2>2, <3>2 DEF Exit, At, DInv, EdgeInv
        <4>2. state \in States /\ call[t].new \in States
          BY <1>2 DEF IInv, TypeOK, Calls
        <4>3. <<state, state'>> \in Diagram!Edges
          BY <3>1, <4>1, <4>2, TableInDiagram
        <4> QED BY <3>1, <4>3 DEF Diagram!Next, Diagram!Move
      <3>3. CASE t = Owner
        <4>1. state' = "STARTUP" /\ state \in {"STARTUP", "SHUTDOWN"}
          BY <1>2, <2>2, <3>1, <3>3
          DEF Exit, At, IInv, Core, CallInv, DInv, EarlyInv, BeforeUser,
              InSetState, InCallbacks
        <4> QED BY <3>1, <4>1 DEF Diagram!Next, Diagram!Fireup
      <3> QED BY <3>2, <3>3 DEF Threads
    <2>3. ASSUME NEW t \in Threads, Finish(t)
          PROVE  [Diagram!Next]_<<state, reached>>
      BY <2>3 DEF Finish, Diagram!Next, Diagram!Settle
    <2>4. ASSUME Initialize
          PROVE  [Diagram!Next]_<<state, reached>>
      <3>1. lives < 1 /\ lives \in Nat
        BY <1>2, <2>4 DEF Initialize, IInv, TypeOK
      <3>2. pc[Owner] = "new" /\ pc[Worker] = "none"
        BY <1>2, <3>1 DEF DInv, EarlyInv, IInv, Core, ThreadInv
      <3>3. state = "STARTUP" /\ reached = state
        BY <1>2, <3>2 DEF DInv, EarlyInv, IInv, Core, LockInv, ReachedIsState,
             TypeOK, InSetState, InCallbacks, Threads, Worker, Owner
      <3> QED BY <2>4, <3>3 DEF Initialize
    <2>5. ASSUME UNCHANGED <<state, reached>>
          PROVE  [Diagram!Next]_<<state, reached>>
      BY <2>5
    <2>6. \/ \E t \in Threads : Exit(t) \/ Finish(t)
          \/ Initialize
          \/ UNCHANGED <<state, reached>>
      <3>1. ASSUME NEW t \in Threads, SetStateStep(t)
            PROVE  Exit(t) \/ Finish(t) \/ UNCHANGED <<state, reached>>
        BY <3>1 DEF SetStateStep, Request, Entry
      <3>2. CASE OwnerStep
        BY <3>1, <3>2 DEF OwnerStep, Firing, ShutdownStep, FireupStateMachine,
             FireupSetState, FireupDone, Rollback, Finalize, SdSignal, SdJoin,
             SdDrain, SdRelax, SdReenable, SdRead, SdStop, SdShutdown, SdReturn,
             SdRetry, FinalizeRelease, FinalizeJoin, Threads
      <3>3. CASE WorkerStep
        BY <3>1, <3>3 DEF WorkerStep, WorkerTake, WorkerPerform, WorkerFail,
             WorkerEnd, Threads
      <3> QED BY <1>2, <3>2, <3>3 DEF Next, Terminated, vars, ProcessPropertyChange,
             LocalEvent, RemoteCommand, OthersPost
    <2> QED BY <2>1, <2>2, <2>3, <2>4, <2>5, <2>6
  <1> QED BY <1>1, <1>2, Inductive, PTL DEF Spec, FollowsDiagram, Diagram!Spec
=============================================================================
