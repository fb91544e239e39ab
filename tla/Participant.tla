---------------------------- MODULE Participant ----------------------------
(***************************************************************************)
(* The participant that the state machine drives: cModule::Create, Destroy *)
(* and Rollback, the internal state listener cModulePrivate, and the       *)
(* component registry whose components it creates, initializes, starts,    *)
(* stops and destroys.                                                     *)
(*                                                                         *)
(* The state machine makes one change after the other; which event comes   *)
(* next is a free choice here (see StateMachine for where events come      *)
(* from).  A handler is a list of jobs (EntryJobs) done one after the      *)
(* other; a job that goes through the registry is a sweep, one step for    *)
(* each call of a component, because each of them can fail.                *)
(***************************************************************************)
EXTENDS FepStates, Integers, Sequences

CONSTANTS
  Entries,      \* number of entries of the component registry
  Objects,      \* the component objects
  Object,       \* the object of each entry; cRPC is registered twice, in a row
  MaxFailures,  \* bound: component calls that fail
  MaxLives      \* bound: calls of Create

ASSUME RegistryAssumption ==
  /\ Entries \in Nat \ {0}
  /\ Object \in [1..Entries -> Objects]
  /\ \A o \in Objects : \E i \in 1..Entries : Object[i] = o
  /\ \A i, j, k \in 1..Entries :
       i <= j /\ j <= k /\ Object[i] = Object[k] => Object[j] = Object[i]
  /\ MaxFailures \in Nat /\ MaxLives \in Nat

VARIABLES
  state,        \* m_eFEPState of the state machine
  shown,        \* m_eState and the property Header.CurrentState
  pc,           \* what is going on
  target,       \* the state that a pending request asks for
  jobs,         \* what is left to do of an entry handler
  sweep,        \* the registry call that is being executed
  comp,         \* how far each object is
  bus,          \* the transmission adapter is enabled
  registration, \* signals can be registered
  mapping,      \* the mapping engine runs
  configured,   \* remote signal descriptions and mapping are configured
  initialDone,  \* m_bInitalStateChangeDone
  forced,       \* PerformShutdown: refused requests are not considered
  skipped,      \* an exit handler was left out because ~initialDone
  failures, lives

resources == <<bus, registration, mapping, configured>>
control   == <<initialDone, forced, skipped>>
bounds    == <<failures, lives>>
vars      == <<state, shown, pc, target, jobs, sweep, comp, resources, control,
               bounds>>

-----------------------------------------------------------------------------
(***************************************************************************)
(* The component registry.                                                 *)
(***************************************************************************)
Phases == {"registered", "created", "initialized", "ready", "started"}

(* What a successful call does to a component; stop, deinitializing and     *)
(* destroy are also called on components that are not that far.             *)
After(op, phase) ==
  IF op = "create" THEN "created"
  ELSE IF op = "destroy" THEN "registered"
  ELSE IF op = "initializing" THEN "initialized"
  ELSE IF op = "deinitializing"
       THEN IF phase = "registered" THEN phase ELSE "created"
  ELSE IF op = "ready" THEN "ready"
  ELSE IF op = "start" THEN "started"
  ELSE IF phase = "started" THEN "ready" ELSE phase

Raising  == {"create", "initializing", "ready", "start"}
Lowering == {"stop", "deinitializing", "destroy"}

(* The fallback that each method of the registry gives raiseWithFallback.   *)
Fallback(op) == IF op = "create" THEN "destroy"
                ELSE IF op = "start" THEN "stop"
                ELSE "deinitializing"

NoSweep == [op |-> "none", at |-> 0, back |-> FALSE]

(* Raising goes through the entries forwards, lowering backwards.           *)
Begin(op) == [op |-> op, at |-> IF op \in Raising THEN 1 ELSE Entries,
              back |-> FALSE]

SweepOver == /\ sweep # NoSweep
             /\ sweep.at = IF sweep.op \in Raising /\ ~sweep.back
                           THEN Entries + 1 ELSE 0
SweepFailed == sweep.back

Called(op) == comp' = [comp EXCEPT ![Object[sweep.at]]
                                 = After(op, comp[Object[sweep.at]])]

(* raiseWithFallback: a failure turns the sweep round.                      *)
Raise ==
  /\ sweep.op \in Raising /\ ~sweep.back /\ ~SweepOver
  /\ \/ /\ Called(sweep.op)
        /\ sweep' = [sweep EXCEPT !.at = sweep.at + 1]
        /\ UNCHANGED failures
     \/ /\ failures < MaxFailures
        /\ failures' = failures + 1
        /\ sweep' = [sweep EXCEPT !.at = sweep.at - 1, !.back = TRUE]
        /\ UNCHANGED comp
  /\ UNCHANGED <<state, shown, pc, target, jobs, resources, control, lives>>

(* A mutant: no fallback.                                                   *)
FallBackMissing ==
  /\ sweep.op \in Raising /\ sweep.back /\ ~SweepOver
  /\ sweep' = [sweep EXCEPT !.at = 0]
  /\ UNCHANGED <<state, shown, pc, target, jobs, comp, resources, control,
                 bounds>>

FallBack ==
  /\ sweep.op \in Raising /\ sweep.back /\ ~SweepOver
  /\ Called(Fallback(sweep.op))
  /\ sweep' = [sweep EXCEPT !.at = sweep.at - 1]
  /\ UNCHANGED <<state, shown, pc, target, jobs, resources, control, bounds>>

(* destroy, deinitializing and stop: errors are collected, not obeyed.      *)
Lower ==
  /\ sweep.op \in Lowering /\ ~SweepOver
  /\ Called(sweep.op)
  /\ sweep' = [sweep EXCEPT !.at = sweep.at - 1]
  /\ UNCHANGED <<state, shown, pc, target, jobs, resources, control, bounds>>

-----------------------------------------------------------------------------
(***************************************************************************)
(* The internal state listener.                                            *)
(***************************************************************************)
Transmitting == {"READY", "RUNNING"}

When(condition, list) == IF condition THEN list ELSE <<>>

(* A mutant: the bus stays enabled on the way from READY to ERROR.          *)
EntryJobsBusOn(old, new) ==
  When(old = "RUNNING" /\ new \in {"IDLE", "ERROR"},
       <<"stop", "Disable", "deinitializing">>)
  \o When(old = "READY" /\ new = "IDLE", <<"Disable", "deinitializing">>)
  \o When(new = "IDLE" /\ old # "STARTUP", <<"Clear">>)
  \o When(new = "INITIALIZING", <<"Configure", "initializing">>)
  \o When(new = "READY", <<"Enable">>)
  \o When(new = "RUNNING", <<"StartMappingEngine", "start">>)
  \o <<"Publish">>

(* The entry handlers, by old and new state.                                *)
EntryJobs(old, new) ==
  When(new \in {"IDLE", "ERROR"},
       When(old = "RUNNING", <<"stop">>)
         \o When(old \in Transmitting, <<"Disable", "deinitializing">>))
  \o When(new = "IDLE" /\ old # "STARTUP", <<"Clear">>)
  \o When(new = "INITIALIZING", <<"Configure", "initializing">>)
  \o When(new = "READY", <<"Enable">>)
  \o When(new = "RUNNING", <<"StartMappingEngine", "start">>)
  \o <<"Publish">>

(* The exit handlers.                                                       *)
ExitHandler(old, new) ==
  /\ registration' = (registration \/ (old \in Transmitting
                                       /\ new \notin Transmitting))
  /\ mapping' = (mapping /\ old # "RUNNING")

(* The change itself: exit handlers, new state, entry handlers.             *)
Leave(new) ==
  /\ IF initialDone THEN ExitHandler(state, new)
                    ELSE UNCHANGED <<registration, mapping>>
  /\ skipped' = (skipped \/ (~initialDone /\ state \in Transmitting))
  /\ state' = new
  /\ jobs' = EntryJobs(state, new)
  /\ pc' = "entry"
  /\ UNCHANGED <<bus, configured, initialDone, forced>>

(* SetState for a valid event.  ProcessReadyRequest asks the components     *)
(* first.  If the creation failed, no user code has seen the participant    *)
(* and nothing but the ShutdownEvent of PerformShutdown is left.            *)
Change(tr) ==
  /\ pc = "rest"
  /\ forced /\ ~initialDone => tr = "Shutdown"
  /\ \E new \in States :
       /\ <<state, tr, new>> \in Table
       /\ IF initialDone /\ new = "READY"
          THEN /\ pc' = "request" /\ target' = new /\ sweep' = Begin("ready")
               /\ UNCHANGED <<state, jobs, resources, control>>
          ELSE Leave(new) /\ UNCHANGED <<target, sweep>>
  /\ UNCHANGED <<shown, comp, bounds>>

(* The request is granted or refused; PerformShutdown accepts no refusal.   *)
Requested ==
  /\ pc = "request" /\ SweepOver
  /\ sweep' = NoSweep
  /\ IF SweepFailed /\ ~forced
     THEN pc' = "rest" /\ UNCHANGED <<state, jobs, resources, control>>
     ELSE Leave(target)
  /\ UNCHANGED <<shown, target, comp, bounds>>

Simple == {"Disable", "Clear", "Configure", "Enable", "StartMappingEngine",
           "Publish"}

EntryJob ==
  /\ pc = "entry" /\ jobs # <<>> /\ Head(jobs) \in Simple
  /\ jobs' = Tail(jobs)
  /\ bus' = (Head(jobs) = "Enable" \/ (bus /\ Head(jobs) # "Disable"))
  /\ registration' = (registration /\ Head(jobs) # "Enable")
  /\ mapping' = (mapping \/ Head(jobs) = "StartMappingEngine")
  /\ configured' = (Head(jobs) = "Configure"
                      \/ (configured /\ Head(jobs) # "Clear"))
  /\ shown' = IF Head(jobs) = "Publish" THEN state ELSE shown
  /\ UNCHANGED <<state, pc, target, sweep, comp, control, bounds>>

EntryCall ==
  /\ pc = "entry" /\ jobs # <<>> /\ Head(jobs) \notin Simple
  /\ sweep = NoSweep
  /\ sweep' = Begin(Head(jobs))
  /\ UNCHANGED <<state, shown, pc, target, jobs, comp, resources, control,
                 bounds>>

(* A mutant: a registry call always ends the handler.                       *)
EntryReturnAlways ==
  /\ pc = "entry" /\ SweepOver
  /\ sweep' = NoSweep
  /\ jobs' = <<>>
  /\ UNCHANGED <<state, shown, pc, target, comp, resources, control, bounds>>

(* RETURN_IF_FAILED leaves the handler.                                     *)
EntryReturn ==
  /\ pc = "entry" /\ SweepOver
  /\ sweep' = NoSweep
  /\ jobs' = IF SweepFailed THEN <<>> ELSE Tail(jobs)
  /\ UNCHANGED <<state, shown, pc, target, comp, resources, control, bounds>>

(* SetState drops the result of the internal entry listener.                *)
Entered ==
  /\ pc = "entry" /\ jobs = <<>>
  /\ pc' = "rest"
  /\ UNCHANGED <<state, shown, target, jobs, sweep, comp, resources, control,
                 bounds>>

-----------------------------------------------------------------------------
(***************************************************************************)
(* Create and Destroy.                                                     *)
(***************************************************************************)
Init ==
  /\ state = "STARTUP" /\ shown = "STARTUP" /\ pc = "none"
  /\ target = "STARTUP" /\ jobs = <<>> /\ sweep = NoSweep
  /\ comp = [o \in Objects |-> "registered"]
  /\ bus = FALSE /\ registration = TRUE /\ mapping = FALSE
  /\ configured = FALSE
  /\ initialDone = FALSE /\ forced = FALSE /\ skipped = FALSE
  /\ failures = 0 /\ lives = 0

(* All objects are new.                                                     *)
Create ==
  /\ pc = "none" /\ lives < MaxLives
  /\ lives' = lives + 1
  /\ pc' = "creating" /\ sweep' = Begin("create")
  /\ state' = "STARTUP" /\ shown' = "STARTUP"
  /\ comp' = [o \in Objects |-> "registered"]
  /\ bus' = FALSE /\ registration' = TRUE /\ mapping' = FALSE
  /\ configured' = FALSE
  /\ initialDone' = FALSE /\ forced' = FALSE /\ skipped' = FALSE
  /\ UNCHANGED <<target, jobs, failures>>

(* The registry is created: FireupStateMachine enters STARTUP.  If it       *)
(* failed, Rollback.                                                        *)
Created ==
  /\ pc = "creating" /\ SweepOver
  /\ sweep' = NoSweep
  /\ IF SweepFailed
     THEN pc' = "rest" /\ forced' = TRUE /\ UNCHANGED jobs
     ELSE pc' = "entry" /\ jobs' = <<"Publish">> /\ UNCHANGED forced
  /\ UNCHANGED <<state, shown, target, comp, resources, initialDone, skipped,
                 bounds>>

(* The creating thread notes that the fire up is done, at any time after    *)
(* the STARTUP entry; the worker may have made other changes by then.       *)
FireupDone ==
  /\ ~initialDone /\ ~forced
  /\ pc = "rest"
  /\ initialDone' = TRUE
  /\ UNCHANGED <<state, shown, pc, target, jobs, sweep, comp, resources,
                 forced, skipped, bounds>>

(* Rollback begins with PerformShutdown ...                                 *)
Destroy ==
  /\ initialDone /\ ~forced
  /\ pc \in {"rest", "request", "entry"}
  /\ forced' = TRUE
  /\ UNCHANGED <<state, shown, pc, target, jobs, sweep, comp, resources,
                 initialDone, skipped, bounds>>

(* ... and when SHUTDOWN is reached destroys the components ...             *)
Rollback ==
  /\ pc = "rest" /\ forced /\ state = "SHUTDOWN"
  /\ pc' = "destroying" /\ sweep' = Begin("destroy")
  /\ UNCHANGED <<state, shown, target, jobs, comp, resources, control, bounds>>

(* ... and then itself: the bus adapter and the registry are deleted.       *)
Destroyed ==
  /\ pc = "destroying" /\ SweepOver
  /\ pc' = "none" /\ sweep' = NoSweep
  /\ bus' = FALSE
  /\ UNCHANGED <<state, shown, target, jobs, comp, registration, mapping,
                 configured, control, bounds>>

Terminated == pc = "none" /\ lives = MaxLives /\ UNCHANGED vars

Handler == Requested \/ EntryJob \/ EntryCall \/ EntryReturn \/ Entered
Sweep   == Raise \/ FallBack \/ Lower

Next == \/ Create \/ Created \/ FireupDone \/ Destroy \/ Rollback \/ Destroyed
        \/ Sweep \/ Handler
        \/ \E tr \in Transitions : Change(tr)
        \/ Terminated

Spec == Init /\ [][Next]_vars
-----------------------------------------------------------------------------
Jobs == Simple \cup {"stop", "deinitializing", "initializing", "start"}

TypeOK ==
  /\ state \in States /\ shown \in States /\ target \in States
  /\ pc \in {"none", "creating", "rest", "request", "entry", "destroying"}
  /\ jobs \in Seq(Jobs)
  /\ sweep \in [op : Raising \cup Lowering \cup {"none"},
                at : 0..(Entries + 1), back : BOOLEAN]
  /\ comp \in [Objects -> Phases]
  /\ bus \in BOOLEAN /\ registration \in BOOLEAN /\ mapping \in BOOLEAN
  /\ configured \in BOOLEAN /\ initialDone \in BOOLEAN
  /\ forced \in BOOLEAN /\ skipped \in BOOLEAN
  /\ failures \in 0..MaxFailures /\ lives \in 0..MaxLives

(* A component runs only while all components registered before it run:     *)
(* those it may use are started before and stopped after it, on the way     *)
(* back from a failed start, too.                                           *)
StartedInOrder ==
  \A i, j \in 1..Entries :
    j < i /\ comp[Object[i]] = "started" => comp[Object[j]] = "started"

(* Outside the entry handlers either all components run, in RUNNING, or     *)
(* none: a failed start leaves none running, and none is running when the   *)
(* components are destroyed.                                                *)
StartedTogether ==
  pc # "entry" => \/ \A o \in Objects : comp[o] # "started"
                  \/ state = "RUNNING" /\ \A o \in Objects : comp[o] = "started"

(* The registry starts and stops its components as one, in their order.     *)
StartedAsOne == StartedInOrder /\ StartedTogether

(* What the listener switches on the way into READY and RUNNING it switches *)
(* back on every way out of them, by Stop as well as by Error.              *)
ResourcesFollowState ==
  pc = "rest" /\ ~skipped =>
    /\ bus <=> state \in Transmitting
    /\ registration <=> state \notin Transmitting
    /\ mapping <=> state = "RUNNING"
    /\ state \in {"STARTUP", "IDLE"} => ~configured

(* Header.CurrentState is out of date only if a component refused to be     *)
(* initialized or started, and then no component runs.                      *)
StaleOnlyAfterFailure ==
  pc = "rest" /\ shown # state =>
    /\ state \in {"INITIALIZING", "RUNNING"} /\ failures > 0
    /\ \A o \in Objects : comp[o] # "started"

-----------------------------------------------------------------------------
(* What the documentation says and the code does not do; it is violated.    *)

(* RUNNING: "All FEP Components are in regular operation mode now".         *)
RunningMeansStarted ==
  pc = "rest" /\ state = "RUNNING" => \A o \in Objects : comp[o] = "started"
=============================================================================
