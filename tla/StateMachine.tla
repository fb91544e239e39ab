---------------------------- MODULE StateMachine ----------------------------
(***************************************************************************)
(* The FEP state machine (src/statemachine): cStateMachine, the worker     *)
(* thread that executes its events (cStateEventWorker), the state change   *)
(* notifier, and the thread that owns it (cModule::Create and Rollback).   *)
(*                                                                         *)
(* Three kinds of threads act on it:                                       *)
(*   - the worker takes one event after the other from the pending queue   *)
(*     and performs the transition (PerformStateTransition, SetState);     *)
(*   - the owner initializes it, fires it up (a SetState of its own),      *)
(*     shuts it down and finalizes it;                                     *)
(*   - anybody else (user code, callbacks, the thread that delivers remote *)
(*     control commands) enqueues events.                                  *)
(* SetState runs under m_mtxCurrentState; every call of listeners is a     *)
(* step of its own, because they take time and the other threads go on.    *)
(* What a listener answers is a free choice, limited by MaxFailures.       *)
(***************************************************************************)
EXTENDS FepStates, Naturals, Sequences

CONSTANTS
  MaxPosts,     \* bound: events enqueued by user code and remote commands
  MaxFailures,  \* bound: callbacks that answer with an error
  MaxLives,     \* bound: calls of Initialize
  MaxRetries,   \* bound: pending events from which on PerformShutdown is not
                \* modelled to enqueue another ShutdownEvent
  LocalEvents,  \* the transitions that user code triggers
  Commands      \* the control commands that other participants send

ASSUME BoundsAssumption ==
  /\ MaxPosts \in Nat /\ MaxFailures \in Nat /\ MaxLives \in Nat
  /\ MaxRetries \in Nat \ {0}

(* The control commands that exist: what Update handles.                    *)
ControlEvents == {"Initialize", "Start", "Stop", "Shutdown", "ErrorFixed",
                  "Restart"}

ASSUME EventsAssumption == LocalEvents \subseteq Transitions
                           /\ Commands \subseteq ControlEvents

Worker  == "worker"
Owner   == "owner"
Threads == {Worker, Owner}
Nobody  == "nobody"
NoEvent == "none"

VARIABLES
  state,        \* m_eFEPState
  reached,      \* _state_change_event._last_state_reached
  notified,     \* the state the change notifier sent last (its initial value
                \* is STARTUP)
  queue,        \* m_oPendingEventQueue
  ignore,       \* m_bIgnoreEvents
  consider,     \* m_bConsiderRequestResult
  initialDone,  \* m_bInitalStateChangeDone
  initialized,  \* m_bIsInitialized; also: listeners and notifier registered
  listening,    \* registered as command and property listener
  standAlone,   \* m_bStandAloneModeEnabled
  signal,       \* m_oSignal of the worker: it is asked to end
  mutex,        \* holder of m_mtxCurrentState
  pc,           \* where each thread is
  event,        \* the event the worker executes
  call,         \* the SetState call of each thread
  finalizing,   \* the current PerformShutdown was called by Finalize
  posts, failures, lives   \* what is used up of the bounds

flags  == <<ignore, consider, initialDone>>
links  == <<initialized, listening>>
work   == <<event, call>>
bounds == <<posts, failures, lives>>
vars   == <<state, reached, notified, queue, flags, links, standAlone, signal,
            mutex, pc, work, finalizing, bounds>>

(* A SetState call: the state it leaves, its target, whether request and    *)
(* exit listeners were called, whether a request was refused, and whether   *)
(* its result is an error.                                                  *)
Calls == [old : States, new : States, asked : BOOLEAN, left : BOOLEAN,
          vetoed : BOOLEAN, failed : BOOLEAN]

NewCall(o, s, f) == [old |-> o, new |-> s, asked |-> FALSE, left |-> FALSE,
                     vetoed |-> FALSE, failed |-> f]

NoCall == NewCall("STARTUP", "STARTUP", FALSE)

(* The places inside SetState, in the order in which they are passed.       *)
InCallbacks == {"request", "exit", "entry"}
InSetState  == InCallbacks \cup {"reached"}

WorkerPCs == {"none", "loop", "perform", "fail", "ended"} \cup InSetState

(* The owner is in Create (Initialize .. FireupStateMachine), then alive,   *)
(* then in PerformShutdown and Finalize.                                    *)
Shutting == {"sdSignal", "sdJoin", "sdDrain", "sdRelax", "sdReenable",
             "sdRead", "sdStop", "sdShutdown", "sdWait"}

OwnerPCs == {"new", "created", "perform", "fired", "alive", "down", "release",
             "releaseJoin", "final"} \cup InSetState \cup Shutting

Init ==
  /\ state = "STARTUP" /\ reached = "STARTUP" /\ notified = "STARTUP"
  /\ queue = <<>>
  /\ ignore = FALSE /\ consider = TRUE /\ initialDone = FALSE
  /\ initialized = FALSE /\ listening = FALSE /\ standAlone = FALSE
  /\ signal = FALSE /\ mutex = Nobody
  /\ pc = [t \in Threads |-> IF t = Worker THEN "none" ELSE "new"]
  /\ event = NoEvent
  /\ call = [t \in Threads |-> NoCall]
  /\ finalizing = FALSE
  /\ posts = 0 /\ failures = 0 /\ lives = 0

At(t, label)   == pc[t] = label
Goto(t, label) == pc' = [pc EXCEPT ![t] = label]

(* What the listeners of one kind answer together: TRUE is an error.        *)
Answers(called) == IF called /\ failures < MaxFailures THEN BOOLEAN ELSE {FALSE}
Count(err) == failures' = IF err THEN failures + 1 ELSE failures

(***************************************************************************)
(* Enqueueing.  Under m_oIgnoreMutex, hence one step; an event that comes  *)
(* while events are ignored is dropped.                                    *)
(***************************************************************************)
EnqueueStateTransition(tr) ==
  queue' = IF ignore THEN queue ELSE Append(queue, tr)

OthersPost ==
  /\ posts < MaxPosts
  /\ posts' = posts + 1
  /\ UNCHANGED <<state, reached, notified, flags, links, standAlone, signal,
                 mutex, pc, work, finalizing, failures, lives>>

(* User code calls one of the <Transition>Event() methods.  It acts on the  *)
(* state machine at the earliest in the STARTUP callbacks of the fire up.   *)
LocalEvent(tr) ==
  /\ pc[Owner] \notin {"new", "created", "perform", "request", "exit"}
  /\ OthersPost
  /\ EnqueueStateTransition(tr)

(* Update: a control command arrives.  It is ignored in stand alone mode.   *)
RemoteCommand(tr) ==
  /\ listening
  /\ OthersPost
  /\ IF standAlone THEN UNCHANGED queue ELSE EnqueueStateTransition(tr)

(* ProcessPropertyChange: the stand alone mode is switched on or off.       *)
ProcessPropertyChange ==
  /\ listening
  /\ standAlone' = ~standAlone
  /\ UNCHANGED <<state, reached, notified, queue, flags, links, signal, mutex,
                 pc, work, finalizing, bounds>>

(***************************************************************************)
(* SetState, executed by the worker for an event and by the owner in       *)
(* FireupStateMachine.                                                     *)
(***************************************************************************)
(* m_mtxCurrentState is taken; the change is cancelled if events are being  *)
(* ignored.                                                                 *)
BeginSetState(t, s) ==
  /\ mutex' = t
  /\ call' = [call EXCEPT ![t] = NewCall(state, s, ignore)]
  /\ Goto(t, IF ignore THEN "reached" ELSE "request")

(* A mutant: the answer of the request listeners is not looked at.          *)
RequestUnheard(t) ==
  /\ At(t, "request")
  /\ \E veto \in Answers(initialDone /\ call[t].new # "STARTUP") :
       /\ Count(veto)
       /\ call' = [call EXCEPT ![t] = [call[t] EXCEPT !.vetoed = veto]]
  /\ Goto(t, "exit")
  /\ UNCHANGED <<state, reached, notified, queue, flags, links, standAlone,
                 signal, mutex, event, finalizing, posts, lives>>

(* Request listeners: none for STARTUP, none before the initial change is   *)
(* done.  A refusal ends the change unless refusals are not considered.     *)
Request(t) ==
  LET asked == initialDone /\ call[t].new # "STARTUP" IN
  /\ At(t, "request")
  /\ \E veto \in Answers(asked) :
       /\ Count(veto)
       /\ call' = [call EXCEPT ![t] = [call[t] EXCEPT
                      !.asked = asked, !.vetoed = veto,
                      !.failed = veto /\ consider]]
       /\ Goto(t, IF veto /\ consider THEN "reached" ELSE "exit")
  /\ UNCHANGED <<state, reached, notified, queue, flags, links, standAlone,
                 signal, mutex, event, finalizing, posts, lives>>

(* Exit listeners, whose errors do not stop the change, then the change.    *)
Exit(t) ==
  /\ At(t, "exit")
  /\ \E err \in Answers(initialDone) :
       /\ Count(err)
       /\ call' = [call EXCEPT ![t] = [call[t] EXCEPT
                      !.left = initialDone, !.failed = err]]
  /\ state' = call[t].new
  /\ Goto(t, "entry")
  /\ UNCHANGED <<reached, notified, queue, flags, links, standAlone, signal,
                 mutex, event, finalizing, posts, lives>>

NeedsCleanUp(c) == /\ c.old \in {"IDLE", "ERROR"}
                   /\ c.new \in {"STARTUP", "SHUTDOWN"}

(* A mutant: the first entry listener that fails ends the notification.     *)
EntryFirstFailureEnds(t) ==
  /\ At(t, "entry")
  /\ \E err \in Answers(TRUE) :
       /\ Count(err)
       /\ call' = [call EXCEPT ![t] = [call[t] EXCEPT
                      !.failed = call[t].failed \/ err]]
       /\ notified' = IF initialized /\ ~err THEN call[t].new ELSE notified
  /\ Goto(t, "reached")
  /\ UNCHANGED <<state, reached, queue, flags, links, standAlone, signal, mutex,
                 event, finalizing, posts, lives>>

(* CleanUp listeners (the internal one resets the stand alone property) and *)
(* entry listeners, the change notifier among them.  An error of the        *)
(* internal entry listener is dropped.                                      *)
Entry(t) ==
  /\ At(t, "entry")
  /\ \E err \in Answers(TRUE) :
       /\ Count(err)
       /\ call' = [call EXCEPT ![t] = [call[t] EXCEPT
                      !.failed = call[t].failed \/ err]]
  /\ standAlone' = (standAlone /\ ~(NeedsCleanUp(call[t]) /\ listening))
  /\ notified' = IF initialized THEN call[t].new ELSE notified
  /\ Goto(t, "reached")
  /\ UNCHANGED <<state, reached, queue, flags, links, signal, mutex, event,
                 finalizing, posts, lives>>

(* setStateReached, on every way out of SetState.                           *)
Finish(t) ==
  /\ At(t, "reached")
  /\ reached' = state
  /\ mutex' = Nobody
  /\ call' = [call EXCEPT ![t] = NoCall]
  /\ Goto(t, IF t = Owner THEN "fired"
             ELSE IF call[t].failed THEN "fail" ELSE "loop")
  /\ UNCHANGED <<state, notified, queue, flags, links, standAlone, signal,
                 event, finalizing, bounds>>

SetStateStep(t) == Request(t) \/ Exit(t) \/ Entry(t) \/ Finish(t)

(***************************************************************************)
(* The worker thread.                                                      *)
(***************************************************************************)
(* ThreadFunc takes the next event unless it is asked to end.  TryDequeue   *)
(* gives up after a second and the signal is looked at again: waiting       *)
(* leaves no trace.                                                         *)
WorkerTake ==
  /\ At(Worker, "loop") /\ ~signal /\ queue # <<>>
  /\ event' = Head(queue)
  /\ queue' = Tail(queue)
  /\ Goto(Worker, "perform")
  /\ UNCHANGED <<state, reached, notified, flags, links, standAlone, signal,
                 mutex, call, finalizing, bounds>>

(* A mutant: an invalid event is not filtered, FS_UNKNOWN is set.           *)
PerformUnfiltered ==
  /\ At(Worker, "perform") /\ mutex = Nobody
  /\ \A s \in States : <<state, event, s>> \notin Table
  /\ BeginSetState(Worker, "UNKNOWN")
  /\ event' = NoEvent
  /\ UNCHANGED <<state, reached, notified, queue, flags, links, standAlone,
                 signal, finalizing, bounds>>

(* A mutant: the valid transition is looked up without the mutex, which     *)
(* only SetState takes.                                                     *)
PerformUnlocked ==
  /\ At(Worker, "perform")
  /\ \/ \E s \in States : /\ <<state, event, s>> \in Table
                          /\ BeginSetState(Worker, s)
     \/ /\ \A s \in States : <<state, event, s>> \notin Table
        /\ Goto(Worker, "loop")
        /\ UNCHANGED <<mutex, call>>
  /\ event' = NoEvent
  /\ UNCHANGED <<state, reached, notified, queue, flags, links, standAlone,
                 signal, finalizing, bounds>>

(* PerformStateTransition: an event that is not valid in the current state  *)
(* is ignored.                                                              *)
WorkerPerform ==
  /\ At(Worker, "perform") /\ mutex = Nobody
  /\ \/ \E s \in States : /\ <<state, event, s>> \in Table
                          /\ BeginSetState(Worker, s)
     \/ /\ \A s \in States : <<state, event, s>> \notin Table
        /\ Goto(Worker, "loop")
        /\ UNCHANGED <<mutex, call>>
  /\ event' = NoEvent
  /\ UNCHANGED <<state, reached, notified, queue, flags, links, standAlone,
                 signal, finalizing, bounds>>

(* A valid transition whose result is an error enqueues an ErrorEvent.      *)
WorkerFail ==
  /\ At(Worker, "fail")
  /\ EnqueueStateTransition("Error")
  /\ Goto(Worker, "loop")
  /\ UNCHANGED <<state, reached, notified, flags, links, standAlone, signal,
                 mutex, work, finalizing, bounds>>

WorkerEnd ==
  /\ At(Worker, "loop") /\ signal
  /\ signal' = FALSE
  /\ Goto(Worker, "ended")
  /\ UNCHANGED <<state, reached, notified, queue, flags, links, standAlone,
                 mutex, work, finalizing, bounds>>

WorkerStep == \/ WorkerTake \/ WorkerPerform \/ WorkerFail \/ WorkerEnd
              \/ SetStateStep(Worker)

(* The worker is started on whatever the queue holds.  One step: Create     *)
(* sets up the bus, which delivers commands, after it.                      *)
Initialize ==
  /\ pc[Owner] \in {"new", "final"} /\ lives < MaxLives
  /\ lives' = lives + 1
  /\ pc' = [pc EXCEPT ![Worker] = "loop", ![Owner] = "created"]
  /\ state' = "STARTUP" /\ reached' = "STARTUP" /\ notified' = "STARTUP"
  /\ initialized' = TRUE /\ listening' = TRUE
  /\ UNCHANGED <<queue, flags, standAlone, signal, mutex, work,
                 finalizing, posts, failures>>

FireupStateMachine ==
  /\ At(Owner, "created")
  /\ initialDone' = FALSE /\ ignore' = FALSE
  /\ Goto(Owner, "perform")
  /\ UNCHANGED <<state, reached, notified, queue, consider, links, standAlone,
                 signal, mutex, work, finalizing, bounds>>

FireupSetState ==
  /\ At(Owner, "perform") /\ mutex = Nobody
  /\ BeginSetState(Owner, "STARTUP")
  /\ UNCHANGED <<state, reached, notified, queue, flags, links, standAlone,
                 signal, event, finalizing, bounds>>

FireupDone ==
  /\ At(Owner, "fired")
  /\ initialDone' = TRUE
  /\ Goto(Owner, "alive")
  /\ UNCHANGED <<state, reached, notified, queue, ignore, consider, links,
                 standAlone, signal, mutex, work, finalizing, bounds>>

(***************************************************************************)
(* The owner: PerformShutdown.  cModule::Rollback calls it directly and    *)
(* Finalize calls it again; Create may also fail before the fire up.       *)
(***************************************************************************)
Rollback ==
  /\ pc[Owner] \in {"created", "alive"}
  /\ ignore' = TRUE
  /\ finalizing' = FALSE
  /\ Goto(Owner, "sdSignal")
  /\ UNCHANGED <<state, reached, notified, queue, consider, initialDone, links,
                 standAlone, signal, mutex, work, bounds>>

Finalize ==
  /\ pc[Owner] \in {"alive", "down"}
  /\ listening' = FALSE
  /\ ignore' = TRUE
  /\ finalizing' = TRUE
  /\ Goto(Owner, "sdSignal")
  /\ UNCHANGED <<state, reached, notified, queue, consider, initialDone,
                 initialized, standAlone, signal, mutex, work, bounds>>

(* SetEventQueue(NULL): the worker is asked to end ...                      *)
SdSignal ==
  /\ At(Owner, "sdSignal")
  /\ signal' = TRUE
  /\ Goto(Owner, "sdJoin")
  /\ UNCHANGED <<state, reached, notified, queue, flags, links, standAlone,
                 mutex, work, finalizing, bounds>>

(* ... and joined, whatever callback it is in.                              *)
SdJoin ==
  /\ At(Owner, "sdJoin") /\ At(Worker, "ended")
  /\ pc' = [pc EXCEPT ![Worker] = "none", ![Owner] = "sdDrain"]
  /\ UNCHANGED <<state, reached, notified, queue, flags, links, standAlone,
                 signal, mutex, work, finalizing, bounds>>

(* Pending events are thrown away and a new worker is started.              *)
SdDrain ==
  /\ At(Owner, "sdDrain")
  /\ queue' = <<>>
  /\ pc' = [pc EXCEPT ![Worker] = "loop", ![Owner] = "sdRelax"]
  /\ UNCHANGED <<state, reached, notified, flags, links, standAlone, signal,
                 mutex, work, finalizing, bounds>>

SdRelax ==
  /\ At(Owner, "sdRelax")
  /\ consider' = FALSE
  /\ Goto(Owner, "sdReenable")
  /\ UNCHANGED <<state, reached, notified, queue, ignore, initialDone, links,
                 standAlone, signal, mutex, work, finalizing, bounds>>

SdReenable ==
  /\ At(Owner, "sdReenable")
  /\ ignore' = FALSE
  /\ Goto(Owner, "sdRead")
  /\ UNCHANGED <<state, reached, notified, queue, consider, initialDone, links,
                 standAlone, signal, mutex, work, finalizing, bounds>>

(* GetState() decides which events lead to SHUTDOWN; it is read without the *)
(* mutex, and the worker may already be at work again.                      *)
SdRead ==
  /\ At(Owner, "sdRead")
  /\ Goto(Owner, IF state = "SHUTDOWN" THEN "sdWait"
                 ELSE IF state \in {"STARTUP", "IDLE", "ERROR"} THEN "sdShutdown"
                 ELSE "sdStop")
  /\ UNCHANGED <<state, reached, notified, queue, flags, links, standAlone,
                 signal, mutex, work, finalizing, bounds>>

(* A mutant: no StopEvent, as if every state had an edge to SHUTDOWN.       *)
SdStopForgotten ==
  /\ At(Owner, "sdStop")
  /\ Goto(Owner, "sdShutdown")
  /\ UNCHANGED <<state, reached, notified, queue, flags, links, standAlone,
                 signal, mutex, work, finalizing, bounds>>

SdStop ==
  /\ At(Owner, "sdStop")
  /\ EnqueueStateTransition("Stop")
  /\ Goto(Owner, "sdShutdown")
  /\ UNCHANGED <<state, reached, notified, flags, links, standAlone, signal,
                 mutex, work, finalizing, bounds>>

SdShutdown ==
  /\ At(Owner, "sdShutdown")
  /\ EnqueueStateTransition("Shutdown")
  /\ Goto(Owner, "sdWait")
  /\ UNCHANGED <<state, reached, notified, flags, links, standAlone, signal,
                 mutex, work, finalizing, bounds>>

(* A mutant: the current state is looked at, not the one fully reached.     *)
WaitForCurrentState(s, errorIsFailure) ==
  IF state = s THEN {"ok"} ELSE {"timeout"}

(* WaitForState: it compares the state reached last, after each wake up and *)
(* at the end of the time limit; an ERROR ends the waiting early.  Changes  *)
(* between two looks are missed.                                            *)
WaitForState(s, errorIsFailure) ==
  IF reached = s THEN {"ok"}
  ELSE {"timeout"} \cup (IF errorIsFailure /\ reached = "ERROR" THEN {"failed"}
                         ELSE {})

SdReturn ==
  /\ At(Owner, "sdWait")
  /\ "ok" \in WaitForState("SHUTDOWN", TRUE)
  /\ consider' = TRUE
  /\ Goto(Owner, IF finalizing THEN "release" ELSE "down")
  /\ UNCHANGED <<state, reached, notified, queue, ignore, initialDone, links,
                 standAlone, signal, mutex, work, finalizing, bounds>>

(* The wait failed: another ShutdownEvent, and wait again.                  *)
SdRetry ==
  /\ At(Owner, "sdWait")
  /\ WaitForState("SHUTDOWN", TRUE) \cap {"timeout", "failed"} # {}
  /\ Len(queue) < MaxRetries
  /\ EnqueueStateTransition("Shutdown")
  /\ UNCHANGED <<state, reached, notified, flags, links, standAlone, signal,
                 mutex, pc, work, finalizing, bounds>>

(* The rest of Finalize: the listeners are unregistered and the worker is   *)
(* stopped for good.                                                        *)
FinalizeRelease ==
  /\ At(Owner, "release")
  /\ initialized' = FALSE
  /\ signal' = TRUE
  /\ Goto(Owner, "releaseJoin")
  /\ UNCHANGED <<state, reached, notified, queue, flags, listening, standAlone,
                 mutex, work, finalizing, bounds>>

FinalizeJoin ==
  /\ At(Owner, "releaseJoin") /\ At(Worker, "ended")
  /\ ignore' = TRUE
  /\ pc' = [pc EXCEPT ![Worker] = "none", ![Owner] = "final"]
  /\ UNCHANGED <<state, reached, notified, queue, consider, initialDone, links,
                 standAlone, signal, mutex, work, finalizing, bounds>>

Firing       == FireupSetState \/ SetStateStep(Owner) \/ FireupDone
ShutdownStep == \/ SdSignal \/ SdJoin \/ SdDrain \/ SdRelax \/ SdReenable
                \/ SdRead \/ SdStop \/ SdShutdown \/ SdReturn \/ SdRetry
                \/ FinalizeRelease \/ FinalizeJoin

OwnerStep == \/ Initialize \/ FireupStateMachine \/ Firing
             \/ Rollback \/ Finalize \/ ShutdownStep

(* The state machine is finalized for the last time: nothing more happens.  *)
Terminated == At(Owner, "final") /\ lives = MaxLives /\ UNCHANGED vars

Next == \/ WorkerStep
        \/ OwnerStep
        \/ \E tr \in LocalEvents : LocalEvent(tr)
        \/ \E tr \in Commands : RemoteCommand(tr)
        \/ ProcessPropertyChange
        \/ Terminated

Spec == Init /\ [][Next]_vars

(* The threads are scheduled and callbacks return.  Nobody has to post an   *)
(* event, to create or to destroy.                                          *)
Fairness == /\ WF_vars(WorkerStep)
            /\ WF_vars(Firing)
            /\ WF_vars(ShutdownStep)

FairSpec == Spec /\ Fairness
-----------------------------------------------------------------------------
TypeOK ==
  /\ state \in States /\ reached \in States /\ notified \in States
  /\ queue \in Seq(Transitions)
  /\ ignore \in BOOLEAN /\ consider \in BOOLEAN /\ initialDone \in BOOLEAN
  /\ initialized \in BOOLEAN /\ listening \in BOOLEAN /\ standAlone \in BOOLEAN
  /\ signal \in BOOLEAN
  /\ mutex \in Threads \cup {Nobody}
  /\ pc \in [Threads -> WorkerPCs \cup OwnerPCs]
  /\ pc[Worker] \in WorkerPCs /\ pc[Owner] \in OwnerPCs
  /\ event \in Transitions \cup {NoEvent}
  /\ call \in [Threads -> Calls]
  /\ finalizing \in BOOLEAN
  /\ posts \in Nat /\ failures \in Nat /\ lives \in Nat

(* Whoever waits for a state sees the state the machine is in, except while *)
(* a change is under way: every way out of SetState, the refused and the    *)
(* cancelled one included, publishes the state it leaves behind ("any       *)
(* SetState call MUST call this event set").                                *)
ReachedIsState == mutex = Nobody => reached = state

(* Other participants are told every change: once a change is complete, the *)
(* last state notification names the current state.                         *)
NotifiedIsState == mutex = Nobody /\ initialized => notified = state

(* The world outside knows the state the machine is in, in both ways.       *)
StateIsPublic == ReachedIsState /\ NotifiedIsState

(* When PerformShutdown has returned the machine is in SHUTDOWN, stays      *)
(* there whatever is still enqueued, and no listener is being called: the   *)
(* owner goes on to destroy the components those listeners use.             *)
ShutdownIsFinal ==
  pc[Owner] \in {"down", "release", "releaseJoin", "final"}
    => state = "SHUTDOWN" /\ pc[Worker] \notin InSetState

(* A refused request stops the change; only PerformShutdown overrides it.   *)
VetoHonoured ==
  \A t \in Threads : pc[t] \in {"exit", "entry"} /\ call[t].vetoed
                       => pc[Owner] \in Shutting

(* Once PerformShutdown has accepted events again, no refused request stops *)
(* the way to SHUTDOWN: every change that gets as far as the end of SetState *)
(* has been made.                                                           *)
VetoCannotStopShutdown ==
  pc[Owner] \in {"sdRead", "sdStop", "sdShutdown", "sdWait"}
    => (At(Worker, "reached") => state = call[Worker].new)

(* A request is overridden by PerformShutdown, and by nothing else.         *)
VetoCounts == VetoHonoured /\ VetoCannotStopShutdown

(* The state machine follows the state diagram, and leaves a state only     *)
(* after it was fully reached.                                              *)
Diagram == INSTANCE Lifecycle WITH st <- state, shown <- reached
FollowsDiagram == Diagram!Spec

(* PerformShutdown accepts events again before it enqueues its own.         *)
Accepting == pc[Owner] \in {"sdRead", "sdStop", "sdShutdown", "sdWait"}

(* PerformShutdown returns, whatever state it finds, whatever was pending,  *)
(* whichever callbacks fail and whatever others trigger meanwhile, unless   *)
(* an InitializeEvent comes in after it has accepted events again.          *)
ShutdownReturns ==
  At(Owner, "sdSignal") ~>
    \/ pc[Owner] \in {"down", "release"}
    \/ Accepting /\ \E i \in 1..Len(queue) : queue[i] = "Initialize"

-----------------------------------------------------------------------------
(* What the documentation says of the state machine and the code does not   *)
(* do; all three are violated.                                              *)

(* "The shutdown state will always be reached when destroying a FEP         *)
(* Participant": PerformShutdown, which loops until it is, returns.         *)
ShutdownCompletes == At(Owner, "sdSignal") ~> pc[Owner] \in {"down", "release"}

(* "The FEP State Machine will not act on its own, e.g. by changing into    *)
(* state ERROR": where no user code triggers an ErrorEvent, a callback that *)
(* fails does not lead to ERROR.                                            *)
ErrorIsTriggered == "Error" \notin LocalEvents => state # "ERROR"

(* "The state exit callbacks will be called after all state request         *)
(* callbacks finished successfully": a change made for an event calls the   *)
(* request and exit listeners.                                              *)
ListenersConsulted ==
  At(Worker, "entry") => /\ call[Worker].left
                         /\ call[Worker].new # "STARTUP" => call[Worker].asked
=============================================================================
